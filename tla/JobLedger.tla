----------------------------- MODULE JobLedger -----------------------------
(***************************************************************************)
(* What the agentd job queue promises whoever submits jobs, with no files, *)
(* no locks and no processes: every execution of a job was asked for by a  *)
(* submit or a retry of its own, and a job is never executed twice at the  *)
(* same time.  JobQueue implements this specification while no lock file   *)
(* grows older than its time to live.                                      *)
(***************************************************************************)
EXTENDS Naturals

CONSTANT Jobs

VARIABLES requested,   \* how often each job was put into the queue
          launched,    \* how often its execution was started
          executing    \* whether it is being executed now

vars == <<requested, launched, executing>>

Init ==
  /\ requested = [j \in Jobs |-> 0]
  /\ launched = [j \in Jobs |-> 0]
  /\ executing = [j \in Jobs |-> FALSE]

Request(j) ==
  /\ requested' = [requested EXCEPT ![j] = @ + 1]
  /\ UNCHANGED <<launched, executing>>

Launch(j) ==
  /\ launched[j] < requested[j]
  /\ ~executing[j]
  /\ launched' = [launched EXCEPT ![j] = @ + 1]
  /\ executing' = [executing EXCEPT ![j] = TRUE]
  /\ UNCHANGED requested

\* The execution ends: it returned, or its process died.
End(j) ==
  /\ executing[j]
  /\ executing' = [executing EXCEPT ![j] = FALSE]
  /\ UNCHANGED <<requested, launched>>

Next == \E j \in Jobs : Request(j) \/ Launch(j) \/ End(j)

Spec == Init /\ [][Next]_vars
=============================================================================
