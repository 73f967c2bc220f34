--------------------------- MODULE AgentdService ---------------------------
(***************************************************************************)
(* The loop of agentd, AgentdService::run in service.rs: in every round it *)
(* looks for the stop signal, pulls the inbox, pushes the outbox, claims a *)
(* job and executes it, and it counts what it did in its report.  Daemons  *)
(* share the file of the stop signal and the state file.  What pull, push, *)
(* claim and execution do is in RemoteInbox, Outbox, JobQueue and          *)
(* JobExecutor; here they succeed or fail.                                 *)
(***************************************************************************)
EXTENDS Naturals, AgentdRoot

CONSTANTS MaxLoops,      \* max_loops
          MaxJobs,       \* max_jobs; 0: none
          StopWhenIdle,  \* stop_when_idle
          DiskFaults     \* whether writes of the state file and removals may fail

ASSUME ServiceAssumption ==
  /\ MaxLoops \in Nat \ {0}
  /\ MaxJobs \in Nat
  /\ {StopWhenIdle, DiskFaults} \subseteq BOOLEAN

VARIABLES
  signal,     \* the stop signal file is there
  heartbeat,  \* the state last written to the state file, by whom
  serving,    \* each daemon: "off" before its start, "ended" with a report,
              \* "aborted" with an error
  loops, processed, succeeded, failed, events, idle,  \* its report
  obeying     \* history: it is ending because of the stop signal

counts == <<processed, succeeded, failed, events, idle>>
serviceVars == <<signal, heartbeat, serving, loops, processed, succeeded, failed, events, idle,
                 obeying>>

ServiceSteps == {"off", "starting", "top", "check", "told", "clear", "serve", "claim", "execute",
                 "limit", "end", "ended", "aborted"}
States == {"none", "starting", "running", "stop_requested", "idle", "max_jobs_reached", "stopped"}
Alive(d) == serving[d] \notin {"off", "ended", "aborted"}

ServeTo(d, step) == serving' = [serving EXCEPT ![d] = step]
Faults == IF DiskFaults THEN BOOLEAN ELSE {FALSE}

\* write_runtime_state, of the heartbeat and then of the checkpoint (not
\* modelled): a failure is only a warning for most of its callers, and the one
\* of the checkpoint comes after the heartbeat is written.
Report(d, state, fault) ==
  heartbeat' \in IF fault THEN {heartbeat, <<d, state>>} ELSE {<<d, state>>}

ServiceInit ==
  /\ signal = FALSE
  /\ heartbeat = <<"nobody", "none">>
  /\ serving = [d \in Daemons |-> "off"]
  /\ loops = [d \in Daemons |-> 0]
  /\ processed = [d \in Daemons |-> 0] /\ succeeded = [d \in Daemons |-> 0]
  /\ failed = [d \in Daemons |-> 0] /\ events = [d \in Daemons |-> 0]
  /\ idle = [d \in Daemons |-> 0]
  /\ obeying = [d \in Daemons |-> FALSE]

\* daemon_stop: write_stop_signal.
RequestStop ==
  /\ ~signal
  /\ signal' = TRUE
  /\ UNCHANGED <<heartbeat, serving, loops, counts, obeying>>

\* A run starts with a report of zeros and removes a signal that is there.
StartService(d) ==
  /\ ~Alive(d)
  /\ \E fault \in Faults : signal' = (signal /\ fault)
  /\ ServeTo(d, "starting")
  /\ loops' = [loops EXCEPT ![d] = 0]
  /\ processed' = [processed EXCEPT ![d] = 0] /\ succeeded' = [succeeded EXCEPT ![d] = 0]
  /\ failed' = [failed EXCEPT ![d] = 0] /\ events' = [events EXCEPT ![d] = 0]
  /\ idle' = [idle EXCEPT ![d] = 0]
  /\ obeying' = [obeying EXCEPT ![d] = FALSE]
  /\ UNCHANGED heartbeat

SayStarting(d) ==
  /\ serving[d] = "starting"
  /\ \E fault \in Faults : Report(d, "starting", fault)
  /\ ServeTo(d, "top")
  /\ UNCHANGED <<signal, loops, counts, obeying>>

BeginLoop(d) ==
  /\ serving[d] = "top"
  /\ IF loops[d] < MaxLoops
     THEN /\ loops' = [loops EXCEPT ![d] = @ + 1]
          /\ \E fault \in Faults : Report(d, "running", fault)
          /\ ServeTo(d, "check")
     ELSE ServeTo(d, "end") /\ UNCHANGED <<loops, heartbeat>>
  /\ UNCHANGED <<signal, counts, obeying>>

CheckStop(d) ==
  /\ serving[d] = "check"
  /\ ServeTo(d, IF signal THEN "told" ELSE "serve")
  /\ UNCHANGED <<signal, heartbeat, loops, counts, obeying>>

\* check_stop_requested fails if the state cannot be written, and the loop
\* goes on as if there were no signal.
SayStopRequested(d) ==
  /\ serving[d] = "told"
  /\ \E fault \in Faults :
       Report(d, "stop_requested", fault) /\ ServeTo(d, IF fault THEN "serve" ELSE "clear")
  /\ UNCHANGED <<signal, loops, counts, obeying>>

\* The signal is removed, by whichever daemon comes first; without a signal, a
\* fault stands for the one that removed it after this one looked.
ClearSignal(d) ==
  /\ serving[d] = "clear"
  /\ \E fault \in Faults :
       /\ signal' = (signal /\ fault)
       /\ ServeTo(d, IF fault THEN "serve" ELSE "end")
       /\ obeying' = [obeying EXCEPT ![d] = ~fault]
  /\ UNCHANGED <<heartbeat, loops, counts>>

\* pull_once and push_outbox_once: their errors are only warnings.
Serve(d) ==
  /\ serving[d] = "serve"
  /\ ServeTo(d, "claim")
  /\ UNCHANGED <<signal, heartbeat, loops, counts, obeying>>

\* claim_next finds a job, or none, or ends the run with an error.
ClaimJob(d) ==
  /\ serving[d] = "claim"
  /\ processed' = [processed EXCEPT ![d] = @ + 1]
  /\ ServeTo(d, "execute")
  /\ UNCHANGED <<signal, heartbeat, loops, succeeded, failed, events, idle, obeying>>

FindNoJob(d) ==
  /\ serving[d] = "claim"
  /\ idle' = [idle EXCEPT ![d] = @ + 1]
  /\ IF StopWhenIdle
     THEN ServeTo(d, "end") /\ \E fault \in Faults : Report(d, "idle", fault)
     ELSE ServeTo(d, "top") /\ UNCHANGED heartbeat
  /\ UNCHANGED <<signal, loops, processed, succeeded, failed, events, obeying>>

FailQueue(d) ==
  /\ serving[d] \in {"claim", "execute"}
  /\ ServeTo(d, "aborted")
  /\ UNCHANGED <<signal, heartbeat, loops, counts, obeying>>


\* The execution ends either way, the record is saved, the completion goes to
\* the outbox or not, and the targets are notified or not.
FinishJob(d) ==
  /\ serving[d] = "execute"
  /\ \E ok, recorded \in BOOLEAN :
       /\ IF ok THEN succeeded' = [succeeded EXCEPT ![d] = @ + 1] /\ UNCHANGED failed
          ELSE failed' = [failed EXCEPT ![d] = @ + 1] /\ UNCHANGED succeeded
       /\ events' = IF recorded THEN [events EXCEPT ![d] = @ + 1] ELSE events
  /\ ServeTo(d, "limit")
  /\ UNCHANGED <<signal, heartbeat, loops, processed, idle, obeying>>

CheckMaxJobs(d) ==
  /\ serving[d] = "limit"
  /\ IF MaxJobs > 0 /\ processed[d] >= MaxJobs
     THEN ServeTo(d, "end") /\ \E fault \in Faults : Report(d, "max_jobs_reached", fault)
     ELSE ServeTo(d, "top") /\ UNCHANGED heartbeat
  /\ UNCHANGED <<signal, loops, counts, obeying>>

EndService(d) ==
  /\ serving[d] = "end"
  /\ \E fault \in Faults : Report(d, "stopped", fault)
  /\ ServeTo(d, "ended")
  /\ UNCHANGED <<signal, loops, counts, obeying>>

ServiceStep(d) ==
  \/ SayStarting(d) \/ BeginLoop(d) \/ CheckStop(d) \/ SayStopRequested(d) \/ ClearSignal(d)
  \/ Serve(d) \/ ClaimJob(d) \/ FindNoJob(d) \/ FailQueue(d) \/ FinishJob(d) \/ CheckMaxJobs(d)
  \/ EndService(d)

ServiceNext == RequestStop \/ \E d \in Daemons : StartService(d) \/ ServiceStep(d)

ServiceSpec == ServiceInit /\ [][ServiceNext]_serviceVars

-----------------------------------------------------------------------------
(* Properties *)

ServiceTypeOK ==
  /\ signal \in BOOLEAN
  /\ heartbeat \in {<<"nobody", "none">>} \union (Daemons \X States)
  /\ serving \in [Daemons -> ServiceSteps]
  /\ loops \in [Daemons -> 0 .. MaxLoops]
  /\ {processed, succeeded, failed, events, idle} \subseteq [Daemons -> Nat]
  /\ obeying \in [Daemons -> BOOLEAN]

=============================================================================
