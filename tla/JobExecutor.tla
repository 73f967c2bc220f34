---------------------------- MODULE JobExecutor ----------------------------
(***************************************************************************)
(* How agentd executes one job after another: Executor::execute in         *)
(* executor.rs, up to the record of the outcome that the service saves.    *)
(* A runtime_turn job moves the process to the project, asks the model and *)
(* runs the calls of its replies until a limit or a reply without calls,   *)
(* and moves back.  All files of agentd are found from the directory the   *)
(* process is in, so the way back matters to everything that follows.      *)
(***************************************************************************)
EXTENDS Naturals

CONSTANTS MaxSteps,     \* max_steps= of the job, clamped to 1 .. 64
          MaxFailures,  \* max_failures= of the job, clamped to 1 .. 10
          MaxCalls      \* bound: the calls of one reply

ASSUME LimitsAssumption ==
  /\ MaxSteps \in Nat \ {0}
  /\ MaxFailures \in Nat \ {0}
  /\ MaxCalls \in Nat \ {0}

VARIABLES
  executing, \* "idle" between jobs, "dead" after a panic
  cwd,       \* the directory of the process: "home" or "project"
  steps, failures, pending,  \* of the job: calls run, failed in a row, left of the reply
  outcome,   \* what execute returns: "none", "ok", "error"
  turns,     \* history: the turns of the job, counted up to MaxSteps + 1
  lost,      \* history: a way back failed since the process started
  saved      \* history: where the last record was saved
executorVars == <<executing, cwd, steps, failures, pending, outcome, turns, lost, saved>>
counters == <<steps, failures, pending, turns>>

Counted == IF turns <= MaxSteps THEN turns + 1 ELSE turns

\* OrchestratorEngine::stop_reason
StopDue == steps >= MaxSteps \/ failures >= MaxFailures

ExecutorInit ==
  /\ executing = "idle" /\ cwd = "home" /\ outcome = "none"
  /\ steps = 0 /\ failures = 0 /\ pending = 0
  /\ turns = 0 /\ lost = FALSE /\ saved = "nowhere"

\* A job whose project is missing, and a scaffold job, which only says so.
Skip ==
  /\ executing = "idle"
  /\ executing' = "save"
  /\ outcome' \in {"ok", "error"}
  /\ UNCHANGED <<cwd, counters, lost, saved>>

\* A runtime_turn job starts in its project, or fails if it cannot get there.
Enter ==
  /\ executing = "idle"
  /\ \/ executing' = "loop" /\ cwd' = "project" /\ outcome' = "none"
     \/ executing' = "save" /\ outcome' = "error" /\ UNCHANGED cwd
  /\ steps' = 0 /\ failures' = 0 /\ pending' = 0 /\ turns' = 0
  /\ UNCHANGED <<lost, saved>>

\* The job ends as a success, also at a limit and with nothing done.
LoopHead ==
  /\ executing = "loop"
  /\ IF StopDue THEN executing' = "restore" /\ outcome' = "ok"
     ELSE executing' = "turn" /\ UNCHANGED outcome
  /\ UNCHANGED <<cwd, counters, lost, saved>>

\* Mutant of ProviderError: the error leaves the function at once.
ProviderErrorReturns ==
  /\ executing = "turn"
  /\ executing' = "save" /\ outcome' = "error" /\ turns' = Counted
  /\ UNCHANGED <<cwd, steps, failures, pending, lost, saved>>

ProviderError ==
  /\ executing = "turn"
  /\ executing' = "restore" /\ outcome' = "error" /\ turns' = Counted
  /\ UNCHANGED <<cwd, steps, failures, pending, lost, saved>>

\* Mutant of Answer: a reply without calls asks again.
AnswerAsksAgain ==
  /\ executing = "turn"
  /\ turns' = Counted
  /\ \E calls \in 0 .. MaxCalls :
       /\ pending' = calls
       /\ executing' = IF calls = 0 THEN "loop" ELSE "calls"
  /\ UNCHANGED <<cwd, steps, failures, outcome, lost, saved>>

Answer ==
  /\ executing = "turn"
  /\ turns' = Counted
  /\ \E calls \in 0 .. MaxCalls :
       /\ pending' = calls
       /\ IF calls = 0 THEN executing' = "restore" /\ outcome' = "ok"
          ELSE executing' = "calls" /\ UNCHANGED outcome
  /\ UNCHANGED <<cwd, steps, failures, lost, saved>>

\* Mutant of RunCall: a failed call is no step.
RunCallFailedFree ==
  /\ executing = "calls" /\ pending > 0 /\ ~StopDue
  /\ pending' = pending - 1
  /\ \/ steps' = steps + 1 /\ failures' = 0
     \/ failures' = failures + 1 /\ UNCHANGED steps
  /\ UNCHANGED <<executing, cwd, outcome, turns, lost, saved>>

RunCall ==
  /\ executing = "calls" /\ pending > 0 /\ ~StopDue
  /\ pending' = pending - 1
  /\ steps' = steps + 1
  /\ failures' \in {0, failures + 1}
  /\ UNCHANGED <<executing, cwd, outcome, turns, lost, saved>>

\* truncate_text cuts a long output at a byte; inside a character, it panics.
Panic ==
  /\ executing = "calls" /\ pending > 0 /\ ~StopDue
  /\ executing' = "dead"
  /\ UNCHANGED <<cwd, counters, outcome, lost, saved>>

StopInReply ==
  /\ executing = "calls" /\ pending > 0 /\ StopDue
  /\ executing' = "restore" /\ outcome' = "ok"
  /\ UNCHANGED <<cwd, counters, lost, saved>>

EndReply ==
  /\ executing = "calls" /\ pending = 0
  /\ executing' = "loop"
  /\ UNCHANGED <<cwd, counters, outcome, lost, saved>>

\* The process goes back where it was, or stays in the project and the job
\* failed.  (After that, the way back leads to the project it is lost in.)
Restore ==
  /\ executing = "restore"
  /\ executing' = "save"
  /\ \/ cwd' = (IF lost THEN "project" ELSE "home") /\ UNCHANGED <<outcome, lost>>
     \/ outcome' = "error" /\ lost' = TRUE /\ UNCHANGED cwd
  /\ UNCHANGED <<counters, saved>>

\* finish_success or finish_failed: under .asi/agentd of where the process is.
Save ==
  /\ executing = "save"
  /\ executing' = "idle" /\ saved' = cwd
  /\ UNCHANGED <<cwd, counters, outcome, lost>>

\* The process is started again where it was started first.
Restart ==
  /\ executing = "dead"
  /\ executing' = "idle" /\ cwd' = "home" /\ lost' = FALSE
  /\ outcome' = "none" /\ steps' = 0 /\ failures' = 0 /\ pending' = 0 /\ turns' = 0
  /\ UNCHANGED saved

ExecutorStep ==
  \/ LoopHead \/ ProviderError \/ Answer \/ RunCall \/ Panic \/ StopInReply \/ EndReply
  \/ Restore \/ Save

ExecutorNext == Skip \/ Enter \/ ExecutorStep \/ Restart

ExecutorSpec == ExecutorInit /\ [][ExecutorNext]_executorVars

\* A job that is running goes on: the calls of the model and of the tools return.
ExecutorFairSpec == ExecutorSpec /\ WF_executorVars(ExecutorStep)

-----------------------------------------------------------------------------
(* Properties *)

\* No job runs more calls than its limit or fails more often in a row.
ExecutorTypeOK ==
  /\ executing \in {"idle", "loop", "turn", "calls", "restore", "save", "dead"}
  /\ cwd \in {"home", "project"}
  /\ steps \in 0 .. MaxSteps
  /\ failures \in 0 .. MaxFailures
  /\ pending \in 0 .. MaxCalls
  /\ outcome \in {"none", "ok", "error"}
  /\ turns \in 0 .. MaxSteps + 1
  /\ lost \in BOOLEAN
  /\ saved \in {"nowhere", "home", "project"}

\* Every turn but the last one runs a call, so a job pays for at most max_steps
\* turns, whatever the model answers and whatever fails.
TurnsBounded == turns <= MaxSteps

\* However the job ends, it leaves the process where its files are, unless the
\* way back failed.
SavedAtHome == ~lost => (executing \in {"idle", "save"} => cwd = "home")

\* A job at hand comes to an end that is saved, or takes the process with it.
JobEnds ==
  executing \in {"loop", "turn", "calls", "restore", "save"} ~> executing \in {"idle", "dead"}
=============================================================================
