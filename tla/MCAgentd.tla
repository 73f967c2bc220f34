------------------------------ MODULE MCAgentd ------------------------------
(***************************************************************************)
(* The components of agentd that share no variable, checked in one run:    *)
(* part says which of them a behaviour is about, and the others stay where *)
(* they began.  The states are the sum of theirs, not the product, and     *)
(* every property of one component holds of the behaviours of the others   *)
(* if it holds in its initial states.                                      *)
(***************************************************************************)
EXTENDS RemoteInbox, Outbox, AgentdService, JobExecutor, TLC

CONSTANTS Parts, f1, f2, f3, good, bad

VARIABLE part

\* Two files hold the same good payload, a third one the bad one.
TwoOfOne == f1 :> good @@ f2 :> good @@ f3 :> bad

parts == <<part, inboxVars, outboxVars, serviceVars, executorVars>>

Init == part \in Parts /\ InboxInit /\ OutboxInit /\ ServiceInit /\ ExecutorInit

Inbox(A) == part = "inbox" /\ A /\ UNCHANGED <<part, outboxVars, serviceVars, executorVars>>
Box(A) == part = "outbox" /\ A /\ UNCHANGED <<part, inboxVars, serviceVars, executorVars>>
Service(A) == part = "service" /\ A /\ UNCHANGED <<part, inboxVars, outboxVars, executorVars>>
Executor(A) == part = "executor" /\ A /\ UNCHANGED <<part, inboxVars, outboxVars, serviceVars>>

Next == Inbox(InboxNext) \/ Box(OutboxNext) \/ Service(ServiceNext) \/ Executor(ExecutorNext)

Spec == Init /\ [][Next]_parts

\* The fairness of each component, while it is the part.
FairSpec ==
  /\ Spec
  /\ \A d \in Daemons : WF_parts(Inbox(PullStep(d))) /\ WF_parts(Box(PushStep(d)))
  /\ WF_parts(Box(Tick)) /\ WF_parts(Executor(ExecutorStep))

TypesOK == InboxTypeOK /\ OutboxTypeOK /\ ServiceTypeOK /\ ExecutorTypeOK

DaemonSymmetry == Permutations(Daemons)
=============================================================================
