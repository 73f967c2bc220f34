------------------------------ MODULE AutoLoop ------------------------------
(***************************************************************************)
(* The auto-agent loop, run_tool_loop_core in orchestrator/loop.rs: it     *)
(* asks the model, repairs or steers replies that do not act, gates risky  *)
(* tool calls, plans the calls of a reply into batches, runs them, and     *)
(* asks again, until the model is done or a limit is hit.  The model, the  *)
(* tools and the tests are the environment: they answer anything.          *)
(***************************************************************************)
EXTENDS Naturals, Sequences, FiniteSets

CONSTANT Profiles  \* the configurations a loop may run under, a subset of Profile

\* Tools by what the loop asks of them: concurrency-safe ones, those that
\* is_risky_tool_name names (bash and the writing tools), and the rest.
Tools == {"read", "risky", "other"}

\* stop: the alias of the stop reason, "halted" being every one the loop does
\*   not continue after; tool: is_tool_result, i.e. tools ran inside the turn,
\*   of which one succeeded (ok) or changed a new file (wrote); fault: what
\*   is_tool_failure and is_constraint_block_text make of their results;
\* text: "none" is NO_TOOLCALLS; "nudge", "promise" and "malformed" are the
\*   texts the heuristics of those names match; mixed: the text has results
\*   of tools nobody ran; plan: it has an action plan; conf: the confidence
\*   declared ("high" stands for medium and high, which open the gate alike);
\*   valid: the schema of a review holds; calls: its tool calls.
Reply == [stop : {"completed", "tool_use", "halted", "provider_error"},
          tool : BOOLEAN, ok : BOOLEAN, wrote : BOOLEAN,
          fault : {"none", "failed", "blocked"},
          text : {"calls", "prose", "none", "nudge", "promise", "malformed"},
          mixed : BOOLEAN, plan : BOOLEAN, conf : {"none", "low", "high"},
          valid : BOOLEAN, calls : Seq(Tools)]

Budgets == {"compact", "repair", "schema", "bilingual", "plan", "forced",
            "nudge", "promise", "malformed"}

\* replies: what the model may answer; limits.max_steps, the engine's
\* max_consecutive_failures, limits.max_consecutive_constraint_blocks,
\* limits.max_no_progress_rounds, CONFIDENCE_GATE_MAX_RETRIES and
\* ASI_AUTO_TEST_MAX_ATTEMPTS (0: auto-test is off); allowance: how often each
\* repair or nudge is tried; strict: the strict profile; prompt:
\* LoopMode::PromptCompact, else ReplVerbose; concurrent: no interactive
\* approval mode, so that safe calls run side by side.
Profile == [replies : SUBSET Reply,
            maxSteps : Nat \ {0}, maxFailures : Nat \ {0}, maxBlocks : Nat \ {0},
            maxNoProgress : Nat \ {0}, maxGate : Nat, maxTests : Nat,
            allowance : [Budgets -> Nat],
            strict : BOOLEAN, prompt : BOOLEAN, concurrent : BOOLEAN,
            task : {"plain", "review", "bilingual"}]

ASSUME ProfilesAssumption == Profiles \subseteq Profile

VARIABLES
  profile,      \* the configuration of this loop; it never changes
  pc,           \* where the loop is
  current,      \* the reply it works on
  next,         \* the tool call of current to run or to record next
  upto,         \* the last call of the parallel batch that was run
  steps,        \* tool calls and steering turns
  failures,     \* consecutive_failures
  blocks,       \* consecutive_constraint_blocks
  noProgress,   \* no_progress_rounds
  gateRetries,  \* confidence_gate_retries
  used,         \* the attempts made of each repair or nudge
  unseen,       \* changed_files grew since last_progress_count
  untested,     \* changed_files grew since the last test run
  reported,     \* changed_files has the reports of a bilingual task
  tests,        \* auto_test_attempts
  stop,         \* loop_stop_reason
  turns,        \* history: turns asked of the model
  streak,       \* history: test runs that failed since one passed
  succeeded     \* history: a call of this round succeeded

counters == <<steps, failures, blocks, noProgress, gateRetries, used, tests>>
files == <<unseen, untested, reported>>
vars == <<profile, pc, current, next, upto, steps, failures, blocks, noProgress, gateRetries, used,
          unseen, untested, reported, tests, stop, turns, streak, succeeded>>

-----------------------------------------------------------------------------
(* Helpers *)

Replies == profile.replies
MaxSteps == profile.maxSteps
MaxFailures == profile.maxFailures
MaxBlocks == profile.maxBlocks
MaxNoProgress == profile.maxNoProgress
MaxGate == profile.maxGate
MaxTests == profile.maxTests
Allowance == profile.allowance
Strict == profile.strict
PromptMode == profile.prompt
Concurrent == profile.concurrent
Task == profile.task

\* is_auto_loop_continuable_stop_reason
Continuable(r) == r.stop \in {"completed", "tool_use"}

Errored(r) == r.stop = "provider_error"

\* Where a turn that may be continued after leaves the loop.
Onward(r) == IF Continuable(r) THEN "head" ELSE "done"

Left(b) == used[b] < Allowance[b]

Spent(b) == [used EXCEPT ![b] = @ + 1]

Risky(r) == {i \in DOMAIN r.calls : r.calls[i] = "risky"}

\* OrchestratorEngine::stop_reason
EngineStop(s, f) ==
  IF s >= MaxSteps THEN "steps" ELSE IF f >= MaxFailures THEN "failures" ELSE "none"

\* changed_files grows: with any luck it now has both reports.
FilesChange(wrote) ==
  IF wrote THEN /\ unseen' = TRUE
                /\ untested' = TRUE
                /\ reported' \in {reported, Task = "bilingual"}
           ELSE UNCHANGED files

\* The conditions of the branches, in the order the loop tests them.
RepairDue == ~current.tool /\ current.mixed /\ Left("repair")
SchemaDue == ~RepairDue /\ Task = "review" /\ ~current.valid /\ Left("schema")
FinalDue == /\ ~RepairDue /\ ~SchemaDue
            /\ current.tool \/ current.stop = "tool_use"
            /\ Continuable(current)
Planning == pc = "decide" /\ ~RepairDue /\ ~SchemaDue /\ ~FinalDue
Gated == Strict /\ Risky(current) # {}
GateOpen == Planning /\ (Gated => current.conf = "high")
PlanDue == Strict /\ steps = 0 /\ current.calls # <<>> /\ ~current.plan /\ Left("plan")
ForceDue ==
  Strict /\ current.calls = <<>> /\ Left("forced") /\ current.plan /\ current.text # "nudge"
ReportsDue == Task = "bilingual" /\ ~reported /\ Left("bilingual")
Idle == Planning /\ current.calls = <<>> /\ ~ForceDue
NudgeDue == /\ Left("nudge") /\ steps <= 1
            /\ ~current.tool /\ Continuable(current) /\ current.text = "nudge"
PromiseDue == Left("promise") /\ current.text = "promise"
MalformedDue == Left("malformed") /\ current.text = "malformed"

NoCounters == [b \in Budgets |-> 0]

Init ==
  /\ profile \in Profiles
  /\ pc = "head"
  /\ current \in {r \in Replies : Continuable(r)}
  /\ next = 1
  /\ upto = 0
  /\ steps = 0 /\ failures = 0 /\ blocks = 0 /\ noProgress = 0
  /\ gateRetries = 0
  /\ used = NoCounters
  /\ unseen = FALSE /\ untested = FALSE
  /\ reported \in IF Task = "bilingual" THEN BOOLEAN ELSE {FALSE}
  /\ tests = 0
  /\ stop = "none"
  /\ turns = 0 /\ streak = 0 /\ succeeded = FALSE

-----------------------------------------------------------------------------
(* The head of the loop *)

\* auto_loop_stop_reason_at_loop_head, after a compaction of the context.
HeadStop(late) ==
  IF late THEN "duration"
  ELSE IF noProgress >= MaxNoProgress THEN "no_progress"
  ELSE EngineStop(steps, failures)

LoopHead ==
  /\ pc = "head"
  /\ used' \in {used} \union {Spent(b) : b \in {c \in {"compact"} : Left(c)}}
  /\ \E late \in BOOLEAN :
       /\ stop' = IF HeadStop(late) = "none" THEN stop ELSE HeadStop(late)
       /\ pc' = IF HeadStop(late) = "none" THEN "decide" ELSE "done"
  /\ UNCHANGED <<profile, current, next, upto, steps, failures, blocks, noProgress, gateRetries,
                 files, tests, turns, streak, succeeded>>

-----------------------------------------------------------------------------
(* Turns that repair or steer *)

\* A turn of the model whose reply r takes the place of current.  quits: a
\* provider error ends the loop before the turn is counted as a step.
Steer(r, quits) ==
  /\ current' = r
  /\ turns' = turns + 1
  /\ IF quits /\ Errored(r)
     THEN pc' = "done" /\ UNCHANGED <<steps, files>>
     ELSE pc' = Onward(r) /\ steps' = steps + 1 /\ FilesChange(r.wrote)
  /\ UNCHANGED <<profile, next, upto, failures, blocks, noProgress, gateRetries, tests, stop,
                 streak, succeeded>>

\* A repair pass: no step is counted.  NO_TOOLCALLS keeps the reply if its
\* calls can be replayed; if not, the missing reports may still be asked for.
Repair ==
  /\ pc = "decide"
  /\ RepairDue
  /\ used' = Spent("repair")
  /\ turns' = turns + 1
  /\ \E r \in Replies :
       IF Errored(r)
       THEN current' = r /\ pc' = "done" /\ UNCHANGED files
       ELSE /\ FilesChange(r.wrote)
            /\ IF r.text # "none" THEN current' = r /\ pc' = Onward(r)
               ELSE IF current.calls # <<>> THEN pc' = "head" /\ UNCHANGED current
               ELSE IF Task = "bilingual" /\ ~reported' /\ Left("bilingual")
               THEN pc' = "enforce" /\ UNCHANGED current
               ELSE current' = r /\ pc' = "done"
  /\ UNCHANGED <<profile, next, upto, steps, failures, blocks, noProgress, gateRetries, tests,
                 stop, streak, succeeded>>

\* build_bilingual_markdown_artifact_prompt, from three places.
EnforceReports ==
  /\ \/ pc = "enforce"
     \/ pc = "decide" /\ FinalDue /\ ReportsDue
     \/ Idle /\ ReportsDue
  /\ used' = Spent("bilingual")
  /\ \E r \in Replies : Steer(r, PromptMode)

FixSchema ==
  /\ pc = "decide"
  /\ SchemaDue
  /\ used' = Spent("schema")
  /\ \E r \in Replies : Steer(r, PromptMode)

\* Tools ran inside the turn: ask for the final answer.
Finalize ==
  /\ pc = "decide"
  /\ FinalDue
  /\ ~ReportsDue
  /\ \E r \in Replies : Steer(r, TRUE)
  /\ UNCHANGED used

ForceExecution ==
  /\ Planning
  /\ ForceDue
  /\ used' = Spent("forced")
  /\ \E r \in Replies : Steer(r, PromptMode)

Nudge ==
  /\ Idle
  /\ ~ReportsDue
  /\ NudgeDue
  /\ used' = Spent("nudge")
  /\ \E r \in Replies : Steer(r, TRUE)

HoldToPromise ==
  /\ Idle
  /\ ~ReportsDue
  /\ ~NudgeDue
  /\ PromiseDue
  /\ used' = Spent("promise")
  /\ \E r \in Replies : Steer(r, TRUE)

\* One repair pass for calls in the wrong format: no step is counted.
RepairFormat ==
  /\ Idle
  /\ ~ReportsDue
  /\ MalformedDue
  /\ used' = Spent("malformed")
  /\ turns' = turns + 1
  /\ \E r \in Replies :
       /\ current' = r
       /\ IF Errored(r) THEN pc' = "done" /\ UNCHANGED files
          ELSE /\ FilesChange(r.wrote)
               /\ pc' = IF r.text = "none" THEN "done" ELSE Onward(r)
  /\ UNCHANGED <<profile, next, upto, steps, failures, blocks, noProgress, gateRetries, tests,
                 stop, streak, succeeded>>

\* Mutant of Finish: a continue where the code breaks.
FinishNever ==
  /\ Idle
  /\ ~ReportsDue /\ ~NudgeDue /\ ~PromiseDue /\ ~MalformedDue
  /\ pc' = "head"
  /\ UNCHANGED <<profile, current, next, upto, counters, files, stop, turns, streak, succeeded>>

\* Nothing to run and nothing left to try: the reply is the answer.
Finish ==
  /\ Idle
  /\ ~ReportsDue /\ ~NudgeDue /\ ~PromiseDue /\ ~MalformedDue
  /\ pc' = "done"
  /\ UNCHANGED <<profile, current, next, upto, counters, files, stop, turns, streak, succeeded>>

-----------------------------------------------------------------------------
(* The confidence gate and the plan handshake of the strict profile *)

\* A turn that takes the place of current and counts no step; whatever its
\* stop reason, unless it ends the loop here, the loop goes on.
Ask(r, quits) ==
  /\ current' = r
  /\ turns' = turns + 1
  /\ pc' = IF quits /\ Errored(r) THEN "done" ELSE "head"

\* Mutant of DemandDeclaration: the retries are not counted.
DemandForever ==
  /\ Planning
  /\ Gated
  /\ current.conf = "none"
  /\ IF gateRetries >= MaxGate
     THEN /\ stop' = "confidence"
          /\ pc' = "done"
          /\ UNCHANGED <<current, turns>>
     ELSE /\ \E r \in Replies : Ask(r, TRUE)
          /\ UNCHANGED stop
  /\ UNCHANGED <<profile, next, upto, steps, failures, blocks, noProgress, gateRetries, used,
                 files, tests, streak, succeeded>>

\* Risky calls without a declaration of confidence.
DemandDeclaration ==
  /\ Planning
  /\ Gated
  /\ current.conf = "none"
  /\ IF gateRetries >= MaxGate
     THEN /\ stop' = "confidence"
          /\ pc' = "done"
          /\ UNCHANGED <<current, turns, gateRetries>>
     ELSE /\ gateRetries' = gateRetries + 1
          /\ \E r \in Replies : Ask(r, TRUE)
          /\ UNCHANGED stop
  /\ UNCHANGED <<profile, next, upto, steps, failures, blocks, noProgress, used, files, tests,
                 streak, succeeded>>

\* The number of risky calls of the reply.
RiskyCount(r) == Cardinality(Risky(r))

\* Risky calls declared with low confidence: none of the calls is run, each
\* risky one counts as a failure and as a block.
BlockLowConfidence ==
  /\ Planning
  /\ Gated
  /\ current.conf = "low"
  /\ failures' = failures + RiskyCount(current)
  /\ blocks' = blocks + RiskyCount(current)
  /\ IF blocks' >= MaxBlocks
     THEN stop' = "constraint" /\ pc' = "done" /\ UNCHANGED <<current, turns>>
     ELSE /\ \E r \in Replies : Ask(r, PromptMode)
          /\ UNCHANGED stop
  /\ UNCHANGED <<profile, next, upto, steps, noProgress, gateRetries, used, files, tests, streak,
                 succeeded>>

\* The reply got through the gate.
ClearGate == gateRetries' = IF Gated THEN 0 ELSE gateRetries

\* The plan handshake, before the first step: a plan, or a second try of one.
RequestPlan ==
  /\ GateOpen
  /\ PlanDue
  /\ ClearGate
  /\ turns' = turns + 1
  /\ \E r \in Replies :
       IF Errored(r) THEN current' = r /\ pc' = "done" /\ UNCHANGED used
       ELSE IF r.plan THEN current' = r /\ pc' = "head" /\ used' = Spent("plan")
       ELSE pc' = "replan" /\ UNCHANGED <<current, used>>
  /\ UNCHANGED <<profile, next, upto, steps, failures, blocks, noProgress, files, tests, stop,
                 streak, succeeded>>

RequestPlanAgain ==
  /\ pc = "replan"
  /\ turns' = turns + 1
  /\ \E r \in Replies :
       /\ current' = r
       /\ pc' = IF r.plan THEN "head" ELSE "done"
       /\ used' = IF r.plan THEN Spent("plan") ELSE used
  /\ UNCHANGED <<profile, next, upto, steps, failures, blocks, noProgress, gateRetries, files,
                 tests, stop, streak, succeeded>>

-----------------------------------------------------------------------------
(* Running the tool calls of the reply *)

\* Mutant of Execute: the calls are not started from the first.
ExecuteResumed ==
  /\ GateOpen
  /\ current.calls # <<>>
  /\ ~PlanDue
  /\ ClearGate
  /\ succeeded' = FALSE
  /\ pc' = "batch"
  /\ UNCHANGED <<profile, current, next, upto, steps, failures, blocks, noProgress, used, files,
                 tests, stop, turns, streak>>

Execute ==
  /\ GateOpen
  /\ current.calls # <<>>
  /\ ~PlanDue
  /\ ClearGate
  /\ next' = 1
  /\ succeeded' = FALSE
  /\ pc' = "batch"
  /\ UNCHANGED <<profile, current, upto, steps, failures, blocks, noProgress, used, files, tests,
                 stop, turns, streak>>

\* partition_tool_calls: a run of concurrency-safe calls is one batch, every
\* other call is one of its own.
BatchEnd(i) ==
  IF current.calls[i] # "read" THEN i
  ELSE CHOOSE j \in i .. Len(current.calls) :
         /\ \A k \in i .. j : current.calls[k] = "read"
         /\ j < Len(current.calls) => current.calls[j + 1] # "read"

Running == pc = "batch" /\ next <= Len(current.calls) /\ EngineStop(steps, failures) = "none"
Parallel == Concurrent /\ BatchEnd(next) > next

\* What record_tool_result_observation makes of the result o of a call: the
\* failures and the constraint blocks in a row.
FailuresAfter(o) == IF o = "ok" THEN 0 ELSE failures + 1
BlocksAfter(o) == IF o = "ok" THEN 0 ELSE IF o = "blocked" THEN blocks + 1 ELSE blocks

\* At a streak of constraint blocks the loop is to stop, and leaves the batch.
Record(o, call, last) ==
  /\ failures' = FailuresAfter(o)
  /\ blocks' = BlocksAfter(o)
  /\ succeeded' = (succeeded \/ o = "ok")
  /\ IF BlocksAfter(o) >= MaxBlocks
     THEN stop' = "constraint" /\ next' = last + 1 /\ UNCHANGED files
     ELSE /\ next' = next + 1
          /\ \E wrote \in IF o = "ok" /\ call # "read" THEN BOOLEAN ELSE {FALSE} : FilesChange(wrote)
          /\ UNCHANGED stop

RunCall ==
  /\ Running
  /\ ~Parallel
  /\ steps' = steps + 1
  /\ \E o \in {"ok", "failed", "blocked"} : Record(o, current.calls[next], BatchEnd(next))
  /\ UNCHANGED <<profile, pc, current, upto, noProgress, gateRetries, used, tests, turns, streak>>

\* As many calls of the batch as there are steps left are run side by side.
RunBatch ==
  /\ Running
  /\ Parallel
  /\ LET size == BatchEnd(next) - next + 1
         room == MaxSteps - steps
     IN /\ upto' = IF size <= room THEN BatchEnd(next) ELSE next + room - 1
        /\ steps' = IF size <= room THEN steps + size ELSE MaxSteps
        /\ stop' = IF size <= room THEN stop ELSE "steps"
  /\ pc' = "results"
  /\ UNCHANGED <<profile, current, next, failures, blocks, noProgress, gateRetries, used, files,
                 tests, turns, streak, succeeded>>

\* Their results are recorded one by one, in the order of the calls.
TakeResult ==
  /\ pc = "results"
  /\ \E o \in {"ok", "failed", "blocked"} : Record(o, "read", upto)
  /\ pc' = IF next' > upto THEN "batch" ELSE "results"
  /\ UNCHANGED <<profile, current, upto, steps, noProgress, gateRetries, used, tests, turns,
                 streak>>

\* post_batch_stop_reason, after the last batch or when a batch met a limit.
\* A constraint stop inside a batch ends that batch only: the next one runs.
AfterBatches ==
  /\ pc = "batch"
  /\ ~Running
  /\ LET reason == IF EngineStop(steps, failures) # "none" THEN EngineStop(steps, failures)
                   ELSE IF blocks >= MaxBlocks THEN "constraint" ELSE "none"
     IN /\ stop' = IF reason = "none" THEN stop ELSE reason
        /\ pc' = IF reason = "none" THEN "followup" ELSE "done"
  /\ UNCHANGED <<profile, current, next, upto, counters, files, turns, streak, succeeded>>

-----------------------------------------------------------------------------
(* The follow-up turn, and the tests after it *)

\* classify_round_progress looks at the calls made inside the follow-up turn
\* (ok) and at changed_files, which the loop's own calls add to.
RoundProgress(r) == unseen \/ r.wrote \/ r.ok

FollowUp ==
  /\ pc = "followup"
  /\ turns' = turns + 1
  /\ \E r \in Replies :
       /\ current' = r
       /\ IF PromptMode /\ Errored(r)
          THEN pc' = "done" /\ UNCHANGED <<noProgress, blocks, stop, files>>
          ELSE /\ noProgress' = IF RoundProgress(r) THEN 0 ELSE noProgress + 1
               /\ unseen' = FALSE
               /\ untested' = (untested \/ r.wrote)
               /\ reported' \in IF r.wrote THEN {reported, Task = "bilingual"} ELSE {reported}
               /\ blocks' = IF r.fault = "none" THEN 0
                            ELSE IF r.fault = "blocked" THEN blocks + 1 ELSE blocks
               /\ IF blocks' >= MaxBlocks
                  THEN stop' = "constraint" /\ pc' = "done"
                  ELSE pc' = "test" /\ UNCHANGED stop
  /\ UNCHANGED <<profile, next, upto, steps, failures, gateRetries, used, tests, streak,
                 succeeded>>

\* run_auto_test_guards when files changed: no test matches them ("none"), all
\* pass, or one fails and the model is told.
TestDue == tests < MaxTests /\ untested

AutoTest ==
  /\ pc = "test"
  /\ TestDue
  /\ untested' = FALSE
  /\ \E result \in {"none", "pass", "fail"} :
       /\ tests' = IF result = "fail" THEN tests + 1 ELSE tests
       /\ streak' = CASE result = "fail" -> streak + 1 [] result = "pass" -> 0 [] OTHER -> streak
       /\ IF tests' >= MaxTests THEN stop' = "tests" /\ pc' = "done"
          ELSE pc' = Onward(current) /\ UNCHANGED stop
  /\ UNCHANGED <<profile, current, next, upto, steps, failures, blocks, noProgress, gateRetries,
                 used, unseen, reported, turns, succeeded>>

NoTest ==
  /\ pc = "test"
  /\ ~TestDue
  /\ pc' = Onward(current)
  /\ UNCHANGED <<profile, current, next, upto, counters, files, stop, turns, streak, succeeded>>

\* The caller takes the result.
Done == pc = "done" /\ UNCHANGED vars

Next ==
  \/ LoopHead \/ Repair \/ EnforceReports \/ FixSchema \/ Finalize
  \/ ForceExecution \/ Nudge \/ HoldToPromise \/ RepairFormat \/ Finish
  \/ DemandDeclaration \/ BlockLowConfidence \/ RequestPlan \/ RequestPlanAgain
  \/ Execute \/ RunCall \/ RunBatch \/ TakeResult \/ AfterBatches
  \/ FollowUp \/ AutoTest \/ NoTest \/ Done

Spec == Init /\ [][Next]_vars

\* The loop is a sequential program; every turn, tool and test returns.
FairSpec == Spec /\ WF_vars(Next)

-----------------------------------------------------------------------------
(* Properties *)

\* Every variable has its type, and while calls are run next is one of the
\* reply's, or past them: the batches of one reply never run on with those of
\* another.
TypeOK ==
  /\ profile \in Profiles
  /\ pc \in {"head", "decide", "enforce", "replan", "batch", "results", "followup", "test", "done"}
  /\ current \in Replies
  /\ pc \in {"batch", "results"} => next \in 1 .. Len(current.calls) + 1
  /\ pc = "results" => next <= upto /\ upto <= Len(current.calls)
  /\ {next, upto, steps, failures, blocks, noProgress, gateRetries, tests, turns, streak} \subseteq Nat
  /\ used \in [Budgets -> Nat]
  /\ {unseen, untested, reported, succeeded} \subseteq BOOLEAN
  /\ stop \in {"none", "duration", "no_progress", "steps", "failures", "confidence", "constraint",
               "tests"}

\* The loop asks the model a bounded number of times, though the gate, the
\* blocks, the handshake and the repairs ask without counting a step: between
\* two steps there are so many gate retries and so many failures.
TurnLimit ==
  MaxSteps + 1 + Allowance["repair"] + Allowance["malformed"] + 2 * Allowance["plan"]
  + MaxGate * (1 + MaxSteps + Allowance["plan"]) + MaxFailures * (1 + MaxSteps)

TurnsBounded == turns <= TurnLimit

\* The loop ends, whatever the model, the tools and the tests answer.
Termination == <>(pc = "done")

\* README.md: the loop gives up after so many consecutive failures of the
\* tests.
TestsFailedInARow == stop = "tests" => streak >= MaxTests

\* README.md: only a round without a successful tool call counts as one
\* without progress.
ProgressCounts == [][noProgress' > noProgress => ~succeeded]_vars

\* The loop says "auto-agent stopped" when it meets a limit: then it asks and
\* runs nothing more.
StoppedIsStopped == [][stop # "none" => UNCHANGED <<steps, turns>>]_vars
=============================================================================
