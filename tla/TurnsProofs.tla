------------------------------ MODULE TurnsProofs ------------------------------
(***************************************************************************)
(* For any limits, models and replies.  The auto-agent loop keeps its      *)
(* types and asks the model a bounded number of times.  The engine of its  *)
(* turns keeps its types, no announced calls are ever sent without their   *)
(* results, and the guard before a prompt makes room for it.               *)
(***************************************************************************)
EXTENDS MCTurns, SequenceTheorems, FiniteSetTheorems, WellFoundedInduction, TLAPS

------------------------------------------------------------------------------
\* The turns a loop has paid for: every step pays for one turn, for the retries
\* of the gate and for the failures after it; an accepted plan for two turns
\* and the retries of the gate; a repair, a retry of the gate and a failure for
\* one turn each.
Price(G, M, s, r, m, p, g, f) == s + r + m + 2 * p + G * (s + p) + g + M * s + f

Capped == IF failures < MaxFailures THEN failures ELSE MaxFailures
PaidWith(f) ==
  Price(MaxGate, MaxFailures, steps, used["repair"], used["malformed"], used["plan"], gateRetries, f)
Paid == PaidWith(Capped)

\* The budgets that pay for turns.
Payers == {"repair", "malformed", "plan"}

\* No limit is passed, and where the loop goes on none of the first two is met: the
\* first call of a reply is always run.
WithinLimits ==
  /\ steps <= MaxSteps /\ gateRetries <= MaxGate
  /\ \A b \in Payers : used[b] <= Allowance[b]
  /\ pc \in {"decide", "enforce"} => steps < MaxSteps
  /\ pc = "decide" => failures < MaxFailures
  /\ pc = "replan" => used["plan"] < Allowance["plan"]
  /\ pc = "batch" /\ next = 1 => steps < MaxSteps /\ failures < MaxFailures /\ current.calls # <<>>

\* What is paid for covers the turns asked; where calls are run, or were run,
\* the next turn as well.
TurnsPaid ==
  /\ pc \in {"head", "decide", "enforce", "test"} => turns <= Paid
  /\ pc = "replan" => turns <= Paid + 1 + MaxGate
  /\ pc = "batch" /\ next = 1 => turns <= Paid + MaxGate
  /\ pc = "batch" /\ next # 1 => turns + 1 <= Paid
  /\ pc = "followup" => turns + 1 <= Paid
  /\ pc = "results" => turns + 1 <= PaidWith(0)
  /\ TurnsBounded

------------------------------------------------------------------------------
\* The arithmetic of prices.

LEMMA StepPays ==
  ASSUME NEW G \in Nat, NEW M \in Nat, NEW s \in Nat, NEW r \in Nat, NEW m \in Nat, NEW p \in Nat,
         NEW g \in Nat, NEW f \in Nat, NEW d \in Nat, NEW e \in Nat, f <= M, d > 0
  PROVE  Price(G, M, s, r, m, p, g, f) + 1 + G <= Price(G, M, s + d, r, m, p, g, e)
<1>1. PICK c \in Nat : d = c + 1
  BY d - 1 \in Nat
<1>2. G * (s + d + p) = G * (s + p) + G * c + G /\ G * c \in Nat
  BY <1>1, SMT
<1>3. M * (s + d) = M * s + M * c + M /\ M * c \in Nat
  BY <1>1, SMT
<1>4. G * (s + p) \in Nat /\ M * s \in Nat /\ G * ((s + d) + p) = G * (s + d + p)
  BY SMT
<1> QED
  BY ONLY <1>2, <1>3, <1>4, G \in Nat, M \in Nat, s \in Nat, r \in Nat, m \in Nat, p \in Nat, g \in Nat,
          f \in Nat, e \in Nat, d \in Nat, f <= M, d > 0, SMT DEF Price

LEMMA OthersPay ==
  ASSUME NEW G \in Nat, NEW M \in Nat, NEW s \in Nat, NEW r \in Nat, NEW m \in Nat, NEW p \in Nat,
         NEW g \in Nat, NEW f \in Nat, NEW i \in Nat
  PROVE  /\ Price(G, M, s, r, m, p, g, f) \in Nat
         /\ Price(G, M, s, r + i, m, p, g, f) = Price(G, M, s, r, m, p, g, f) + i
         /\ Price(G, M, s, r, m + i, p, g, f) = Price(G, M, s, r, m, p, g, f) + i
         /\ Price(G, M, s, r, m, p, g + i, f) = Price(G, M, s, r, m, p, g, f) + i
         /\ Price(G, M, s, r, m, p, g, f + i) = Price(G, M, s, r, m, p, g, f) + i
<1>1. G * (s + p) \in Nat /\ M * s \in Nat
  BY SMT
<1> QED
  BY <1>1, SMT DEF Price

LEMMA PriceAtMost ==
  ASSUME NEW G \in Nat, NEW M \in Nat, NEW s \in Nat, NEW r \in Nat, NEW m \in Nat, NEW p \in Nat,
         NEW g \in Nat, NEW f \in Nat,
         NEW S \in Nat, NEW R \in Nat, NEW A \in Nat, NEW P \in Nat,
         s <= S, r <= R, m <= A, p <= P, g <= G, f <= M
  PROVE  Price(G, M, s, r, m, p, g, f) + 1
           <= S + 1 + R + A + 2 * P + G * (1 + S + P) + M * (1 + S)
<1>1. PICK a \in Nat : S = s + a
  BY S - s \in Nat
<1>2. PICK b \in Nat : P = p + b
  BY P - p \in Nat
<1>3. G * (1 + S + P) = G + G * (s + p) + G * (a + b) /\ G * (a + b) \in Nat /\ G * (s + p) \in Nat
  BY <1>1, <1>2, SMT
<1>4. M * (1 + S) = M + M * s + M * a /\ M * a \in Nat /\ M * s \in Nat
  BY <1>1, SMT
<1> QED
  BY <1>1, <1>2, <1>3, <1>4, SMT DEF Price

------------------------------------------------------------------------------
\* The configuration, the replies and the batches.

LEMMA ProfileParts ==
  ASSUME profile \in Profiles
  PROVE  /\ Replies \subseteq Reply
         /\ MaxSteps \in Nat /\ MaxFailures \in Nat /\ MaxBlocks \in Nat /\ MaxNoProgress \in Nat
         /\ MaxGate \in Nat /\ MaxTests \in Nat
         /\ MaxSteps > 0 /\ MaxFailures > 0 /\ MaxBlocks > 0
         /\ Allowance \in [Budgets -> Nat]
<1>1. profile \in Profile
  BY ProfilesAssumption
<1> QED
  BY <1>1 DEF Profile, Replies, MaxSteps, MaxFailures, MaxBlocks, MaxNoProgress, MaxGate, MaxTests,
              Allowance

LEMMA ReplyParts ==
  ASSUME profile \in Profiles, NEW r \in Replies
  PROVE  /\ r.calls \in Seq(Tools)
         /\ r.wrote \in BOOLEAN
<1>1. r \in Reply
  BY ProfileParts
<1> QED
  BY <1>1 DEF Reply

\* A batch begins with the call it is planned from and ends with one of the reply's.
LEMMA BatchWithin ==
  ASSUME profile \in Profiles, current \in Replies, NEW i \in 1..Len(current.calls)
  PROVE  BatchEnd(i) \in i..Len(current.calls)
<1> DEFINE calls == current.calls
           n == Len(calls)
           Maximal(j) == /\ \A k \in i..j : calls[k] = "read"
                         /\ j < n => calls[j + 1] # "read"
           Lasts == {d \in Nat : i + d <= n /\ (i + d < n => calls[i + d + 1] # "read")}
<1>1. n \in Nat /\ i \in Nat /\ i <= n
  BY ReplyParts
<1>2. CASE calls[i] # "read"
  BY <1>1, <1>2 DEF BatchEnd
<1>3. CASE calls[i] = "read"
  <2>1. PICK d \in Lasts : \A e \in Lasts : ~(<<e, d>> \in OpToRel(<, Nat))
    <3>1. n - i \in Lasts
      BY <1>1
    <3>2. Lasts \subseteq Nat /\ Lasts # {}
      BY <3>1
    <3> QED
      BY <3>2, NatLessThanWellFounded, WFMin, Zenon
  <2>2. d \in Nat /\ i + d <= n /\ (i + d < n => calls[i + d + 1] # "read")
    BY <2>1
  <2>3. ASSUME NEW e \in Nat, e < d PROVE calls[i + e + 1] = "read"
    <3>1. e \notin Lasts
      BY <2>1, <2>2, <2>3 DEF OpToRel
    <3>2. i + e < n
      BY <1>1, <2>2, <2>3
    <3> QED
      BY <3>1, <3>2
  <2> HIDE DEF calls, n, Lasts
  <2>4. i + d \in i..n /\ Maximal(i + d)
    <3>1. ASSUME NEW k \in i..(i + d), k # i PROVE calls[k] = "read"
      <4>1. k - i - 1 \in Nat /\ k - i - 1 < d /\ i + (k - i - 1) + 1 = k
        BY <1>1, <2>2, <3>1
      <4> QED
        BY <2>3, <4>1
    <3>2. \A k \in i..(i + d) : calls[k] = "read"
      BY <1>3, <3>1
    <3> QED
      BY <1>1, <2>2, <3>2
  <2>5. BatchEnd(i) = CHOOSE j \in i..n : Maximal(j)
    BY <1>3 DEF BatchEnd, calls, n
  <2> QED
    BY <2>4, <2>5 DEF calls, n
<1> QED
  BY <1>2, <1>3

\* A gated reply has risky calls, and finitely many.
LEMMA GatedHasRisky ==
  ASSUME profile \in Profiles, current \in Replies
  PROVE  /\ RiskyCount(current) \in Nat
         /\ Gated => RiskyCount(current) > 0
<1>1. Len(current.calls) \in Nat /\ DOMAIN current.calls = 1..Len(current.calls)
  BY ReplyParts
<1>2. IsFiniteSet(Risky(current))
  <2>1. IsFiniteSet(1..Len(current.calls)) /\ Risky(current) \subseteq 1..Len(current.calls)
    BY <1>1, FS_Interval DEF Risky
  <2> QED
    BY <2>1, FS_Subset
<1> QED
  BY <1>2, FS_CardinalityType, FS_EmptySet DEF RiskyCount, Gated

------------------------------------------------------------------------------
\* The types.

Places ==
  {"head", "decide", "enforce", "replan", "batch", "results", "followup", "test", "done"}
Stops ==
  {"none", "duration", "no_progress", "steps", "failures", "confidence", "constraint", "tests"}

FilesTyped == unseen \in BOOLEAN /\ untested \in BOOLEAN /\ reported \in BOOLEAN

\* Where the calls of the reply are run, next and upto are among them.
CallsInRange ==
  /\ pc \in {"batch", "results"} => next \in 1..Len(current.calls) + 1
  /\ pc = "results" => next <= upto /\ upto <= Len(current.calls)

LoopTypes ==
  /\ profile \in Profiles
  /\ pc \in Places
  /\ current \in Replies
  /\ CallsInRange
  /\ next \in Nat /\ upto \in Nat /\ steps \in Nat /\ failures \in Nat /\ blocks \in Nat
  /\ noProgress \in Nat /\ gateRetries \in Nat /\ tests \in Nat /\ turns \in Nat /\ streak \in Nat
  /\ used \in [Budgets -> Nat]
  /\ FilesTyped
  /\ succeeded \in BOOLEAN
  /\ stop \in Stops

LEMMA TypesAgree == (TypeOK <=> LoopTypes) /\ (TypeOK <=> LoopTypes)'
<1>1. TypeOK <=> LoopTypes
  BY DEF TypeOK, LoopTypes, FilesTyped, CallsInRange, Places, Stops
<1>2. (TypeOK <=> LoopTypes)'
  BY DEF TypeOK, LoopTypes, FilesTyped, CallsInRange, Places, Stops
<1> QED
  BY <1>1, <1>2

LEMMA LoopTyped == Init => LoopTypes
<1> SUFFICES ASSUME Init PROVE LoopTypes
  OBVIOUS
<1>1. used \in [Budgets -> Nat]
  BY DEF Init, NoCounters
<1>2. FilesTyped
  BY DEF Init, FilesTyped
<1> QED
  BY <1>1, <1>2 DEF Init, LoopTypes, Places, Stops, CallsInRange

LEMMA SpentTyped ==
  ASSUME used \in [Budgets -> Nat], NEW b \in Budgets
  PROVE  /\ Spent(b) \in [Budgets -> Nat]
         /\ \A c \in Budgets : Spent(b)[c] = IF c = b THEN used[c] + 1 ELSE used[c]
BY DEF Spent

LEMMA FilesStayTyped ==
  ASSUME FilesTyped, FilesTyped' \/ UNCHANGED files \/ \E w \in BOOLEAN : FilesChange(w)
  PROVE  FilesTyped'
<1>1. ASSUME UNCHANGED files PROVE FilesTyped'
  BY <1>1 DEF files, FilesTyped
<1>2. ASSUME NEW w \in BOOLEAN, FilesChange(w) PROVE FilesTyped'
  BY <1>1, <1>2 DEF FilesChange, FilesTyped
<1> QED
  BY <1>1, <1>2

LEMMA LoopStepTyped == LoopTypes /\ [Next]_vars => LoopTypes'
<1> SUFFICES ASSUME LoopTypes, [Next]_vars PROVE LoopTypes'
  OBVIOUS
<1>1. /\ MaxSteps \in Nat /\ MaxFailures \in Nat /\ MaxBlocks \in Nat
      /\ current.calls \in Seq(Tools)
      /\ Len(current.calls) \in Nat
      /\ \A r \in Replies : r.wrote \in BOOLEAN
  BY ProfileParts, ReplyParts DEF LoopTypes
<1>2. \A b \in Budgets : Spent(b) \in [Budgets -> Nat]
  BY SpentTyped DEF LoopTypes
<1>3. ASSUME UNCHANGED profile
      PROVE  Replies' = Replies
  BY <1>3 DEF Replies
<1> USE DEF LoopTypes
<1>4. CASE LoopHead
  <2>1. used' \in [Budgets -> Nat]
    BY <1>2, <1>4 DEF LoopHead, Budgets
  <2>2. FilesTyped'
    BY <1>4, FilesStayTyped DEF LoopHead
  <2>3. pc' \in {"decide", "done"} /\ stop' \in Stops
    BY <1>4 DEF LoopHead, HeadStop, EngineStop, Stops
  <2> QED
    BY <1>3, <1>4, <2>1, <2>2, <2>3 DEF LoopHead, Places, CallsInRange
\* What a turn of the model may leave behind, where the calls of a reply are not run.
<1>5. ASSUME UNCHANGED <<profile, next, upto, tests, streak, succeeded>>,
             current' \in Replies, turns' = turns + 1,
             steps' \in Nat, failures' \in Nat, blocks' \in Nat, noProgress' \in Nat,
             gateRetries' \in Nat, used' \in [Budgets -> Nat], FilesTyped',
             pc' \in Places \ {"batch", "results"}, stop' \in Stops
      PROVE  LoopTypes'
  BY <1>3, <1>5 DEF CallsInRange
<1>6. CASE Repair
  <2>1. used' \in [Budgets -> Nat]
    BY <1>2, <1>6 DEF Repair, Budgets
  <2>2. PICK r \in Replies :
          IF Errored(r)
          THEN current' = r /\ pc' = "done" /\ UNCHANGED files
          ELSE /\ FilesChange(r.wrote)
               /\ IF r.text # "none" THEN current' = r /\ pc' = Onward(r)
                  ELSE IF current.calls # <<>> THEN pc' = "head" /\ UNCHANGED current
                  ELSE IF Task = "bilingual" /\ ~reported' /\ Left("bilingual")
                  THEN pc' = "enforce" /\ UNCHANGED current
                  ELSE current' = r /\ pc' = "done"
    BY <1>6, Zenon DEF Repair
  <2>3. FilesTyped'
    BY <1>1, <2>2, FilesStayTyped
  <2>4. current' \in Replies /\ pc' \in Places \ {"batch", "results"}
    BY <2>2 DEF Onward, Places
  <2> QED
    BY <1>5, <1>6, <2>1, <2>3, <2>4 DEF Repair
<1>7. ASSUME NEW r \in Replies, NEW q, Steer(r, q), used' \in [Budgets -> Nat]
      PROVE  LoopTypes'
  <2>1. FilesTyped'
    BY <1>1, <1>7, FilesStayTyped DEF Steer
  <2> QED
    BY <1>5, <1>7, <2>1 DEF Steer, Onward, Places
<1>8. CASE EnforceReports \/ FixSchema \/ Finalize \/ ForceExecution \/ Nudge \/ HoldToPromise
  <2>1. used' \in [Budgets -> Nat] /\ \E r \in Replies : Steer(r, PromptMode) \/ Steer(r, TRUE)
    BY <1>2, <1>8
       DEF EnforceReports, FixSchema, Finalize, ForceExecution, Nudge, HoldToPromise, Budgets
  <2> QED
    BY <1>7, <2>1
<1>9. CASE RepairFormat
  <2>1. used' \in [Budgets -> Nat]
    BY <1>2, <1>9 DEF RepairFormat, Budgets
  <2>2. PICK r \in Replies :
          /\ current' = r
          /\ IF Errored(r) THEN pc' = "done" /\ UNCHANGED files
             ELSE /\ FilesChange(r.wrote)
                  /\ pc' = IF r.text = "none" THEN "done" ELSE Onward(r)
    BY <1>9, Zenon DEF RepairFormat
  <2>3. FilesTyped'
    BY <1>1, <2>2, FilesStayTyped
  <2> QED
    BY <1>5, <1>9, <2>1, <2>2, <2>3 DEF RepairFormat, Onward, Places
<1>10. CASE Finish
  BY <1>3, <1>10, FilesStayTyped DEF Finish, counters, Places, CallsInRange
<1>11. CASE DemandDeclaration
  <2>1. FilesTyped' /\ stop' \in Stops
    BY <1>11, FilesStayTyped DEF DemandDeclaration, Stops
  <2> QED
    BY <1>3, <1>11, <2>1 DEF DemandDeclaration, Ask, Places, CallsInRange
<1>12. CASE BlockLowConfidence
  <2>1. RiskyCount(current) \in Nat
    BY GatedHasRisky
  <2>2. FilesTyped' /\ stop' \in Stops
    BY <1>12, FilesStayTyped DEF BlockLowConfidence, Stops
  <2> QED
    BY <1>3, <1>12, <2>1, <2>2 DEF BlockLowConfidence, Ask, Places, CallsInRange
<1>13. CASE RequestPlan
  <2>1. PICK r \in Replies :
          IF Errored(r) THEN current' = r /\ pc' = "done" /\ UNCHANGED used
          ELSE IF r.plan THEN current' = r /\ pc' = "head" /\ used' = Spent("plan")
          ELSE pc' = "replan" /\ UNCHANGED <<current, used>>
    BY <1>13, Zenon DEF RequestPlan
  <2>2. /\ used' \in [Budgets -> Nat]
        /\ current' \in Replies
        /\ pc' \in Places \ {"batch", "results"}
    BY <1>2, <2>1 DEF Budgets, Places
  <2>3. FilesTyped'
    BY <1>13, FilesStayTyped DEF RequestPlan
  <2> QED
    BY <1>5, <1>13, <2>2, <2>3 DEF RequestPlan, ClearGate
<1>14. CASE RequestPlanAgain
  <2>1. PICK r \in Replies :
          /\ current' = r
          /\ pc' = IF r.plan THEN "head" ELSE "done"
          /\ used' = IF r.plan THEN Spent("plan") ELSE used
    BY <1>14, Zenon DEF RequestPlanAgain
  <2>2. used' \in [Budgets -> Nat] /\ FilesTyped'
    BY <1>2, <1>14, <2>1, FilesStayTyped DEF RequestPlanAgain, Budgets
  <2> QED
    BY <1>5, <1>14, <2>1, <2>2 DEF RequestPlanAgain, Places
<1>15. CASE Execute
  <2>1. FilesTyped'
    BY <1>15, FilesStayTyped DEF Execute
  <2>2. gateRetries' \in Nat
    BY <1>15 DEF Execute, ClearGate
  <2>3. CallsInRange'
    BY <1>1, <1>15 DEF Execute, CallsInRange
  <2> QED
    BY <1>3, <1>15, <2>1, <2>2, <2>3 DEF Execute, Places
<1>16. ASSUME NEW o \in {"ok", "failed", "blocked"}, NEW call, NEW last, Record(o, call, last)
       PROVE  /\ failures' \in Nat /\ blocks' \in Nat /\ succeeded' \in BOOLEAN /\ FilesTyped'
              /\ stop' \in Stops /\ next' \in {next + 1, last + 1}
  <2>1. FilesTyped'
    BY <1>16, FilesStayTyped DEF Record
  <2>2. failures' \in Nat /\ blocks' \in Nat
    BY <1>16 DEF Record, FailuresAfter, BlocksAfter
  <2>3. succeeded' \in BOOLEAN
    BY <1>16 DEF Record
  <2>4. stop' \in Stops /\ next' \in {next + 1, last + 1}
    BY <1>16 DEF Record, Stops
  <2> QED
    BY <2>1, <2>2, <2>3, <2>4
<1>17. CASE RunCall
  <2>1. /\ BatchEnd(next) \in next..Len(current.calls)
        /\ next \in 1..Len(current.calls)
    BY <1>1, <1>17, BatchWithin DEF RunCall, Running, CallsInRange
  <2>2. /\ failures' \in Nat /\ blocks' \in Nat /\ succeeded' \in BOOLEAN /\ FilesTyped'
        /\ stop' \in Stops /\ next' \in {next + 1, BatchEnd(next) + 1}
    BY <1>16, <1>17 DEF RunCall
  <2> QED
    BY <1>1, <1>3, <1>17, <2>1, <2>2 DEF RunCall, Running, CallsInRange, Places
<1>18. CASE RunBatch
  <2>1. /\ BatchEnd(next) \in next..Len(current.calls) /\ steps < MaxSteps
        /\ next \in 1..Len(current.calls)
    BY <1>1, <1>18, BatchWithin DEF RunBatch, Running, EngineStop, CallsInRange
  <2>2. FilesTyped' /\ stop' \in Stops
    BY <1>18, FilesStayTyped DEF RunBatch, Stops
  <2>3. steps' \in Nat /\ upto' \in next..Len(current.calls)
    BY <1>1, <1>18, <2>1 DEF RunBatch
  <2> QED
    BY <1>1, <1>3, <1>18, <2>1, <2>2, <2>3 DEF RunBatch, CallsInRange, Places
<1>19. CASE TakeResult
  <2>1. /\ failures' \in Nat /\ blocks' \in Nat /\ succeeded' \in BOOLEAN /\ FilesTyped'
        /\ stop' \in Stops /\ next' \in {next + 1, upto + 1}
    BY <1>16, <1>19 DEF TakeResult
  <2> QED
    BY <1>1, <1>3, <1>19, <2>1 DEF TakeResult, CallsInRange, Places
<1>20. CASE AfterBatches
  BY <1>3, <1>20, FilesStayTyped DEF AfterBatches, EngineStop, counters, Places, Stops, CallsInRange
<1>21. CASE FollowUp
  <2>1. PICK r \in Replies :
          /\ current' = r
          /\ IF PromptMode /\ Errored(r)
             THEN pc' = "done" /\ UNCHANGED <<noProgress, blocks, stop, files>>
             ELSE /\ noProgress' = IF RoundProgress(r) THEN 0 ELSE noProgress + 1
                  /\ unseen' = FALSE
                  /\ untested' = (untested \/ r.wrote)
                  /\ reported' \in IF r.wrote THEN {reported, Task = "bilingual"} ELSE {reported}
                  /\ blocks' = IF r.fault = "none" THEN 0
                               ELSE IF r.fault = "blocked" THEN blocks + 1 ELSE blocks
                  /\ IF blocks' >= MaxBlocks
                     THEN stop' = "constraint" /\ pc' = "done"
                     ELSE pc' = "test" /\ UNCHANGED stop
    BY <1>21, Zenon DEF FollowUp
  <2>2. FilesTyped'
    BY <1>1, <2>1, FilesStayTyped DEF FilesTyped
  <2>3. /\ noProgress' \in Nat /\ blocks' \in Nat /\ stop' \in Stops
        /\ pc' \in Places \ {"batch", "results"}
    BY <2>1 DEF Places, Stops
  <2> QED
    BY <1>5, <1>21, <2>1, <2>2, <2>3 DEF FollowUp
<1>22. CASE AutoTest
  <2>1. FilesTyped'
    BY <1>22 DEF AutoTest, FilesTyped
  <2>2. tests' \in Nat /\ streak' \in Nat /\ stop' \in Stops /\ pc' \in {"head", "done"}
    BY <1>22 DEF AutoTest, Onward, Stops
  <2> QED
    BY <1>3, <1>22, <2>1, <2>2 DEF AutoTest, Places, CallsInRange
<1>23. CASE NoTest
  BY <1>3, <1>23, FilesStayTyped DEF NoTest, Onward, counters, Places, CallsInRange
<1>24. CASE Done \/ UNCHANGED vars
  BY <1>3, <1>24, FilesStayTyped DEF Done, vars, CallsInRange, files
<1> QED
  BY <1>4, <1>6, <1>8, <1>9, <1>10, <1>11, <1>12, <1>13, <1>14, <1>15, <1>17, <1>18, <1>19, <1>20,
     <1>21, <1>22, <1>23, <1>24 DEF Next
------------------------------------------------------------------------------
\* The payments.

LoopInv == LoopTypes /\ WithinLimits /\ TurnsPaid

SameBudgets(S) == \A b \in S : used'[b] = used[b]

LEMMA PaidParts ==
  ASSUME LoopTypes
  PROVE  /\ MaxGate \in Nat /\ MaxFailures \in Nat /\ steps \in Nat /\ gateRetries \in Nat
         /\ failures \in Nat /\ turns \in Nat /\ Capped \in Nat /\ Capped <= MaxFailures
         /\ \A b \in Budgets : used[b] \in Nat
         /\ \A f \in Nat : PaidWith(f) \in Nat
<1>1. /\ MaxGate \in Nat /\ MaxFailures \in Nat /\ steps \in Nat /\ gateRetries \in Nat
      /\ failures \in Nat /\ turns \in Nat
      /\ \A b \in Budgets : used[b] \in Nat
  BY ProfileParts DEF LoopTypes
<1>2. Capped \in Nat /\ Capped <= MaxFailures
  BY <1>1 DEF Capped
<1>3. used["repair"] \in Nat /\ used["malformed"] \in Nat /\ used["plan"] \in Nat
  BY <1>1 DEF Budgets
<1>4. \A f \in Nat : PaidWith(f) \in Nat
  BY <1>1, <1>3, OthersPay, 0 \in Nat DEF PaidWith
<1> QED
  BY <1>1, <1>2, <1>4

LEMMA PaidNatural ==
  (LoopTypes => Paid \in Nat /\ PaidWith(0) \in Nat)'
<1>1. LoopTypes => Paid \in Nat /\ PaidWith(0) \in Nat
  BY PaidParts, 0 \in Nat DEF Paid
<1> QED
  BY <1>1, PTL

\* What the changes of a step pay.
LEMMA Payments ==
  ASSUME LoopTypes, LoopTypes', gateRetries <= MaxGate, UNCHANGED profile
  PROVE  /\ steps' > steps /\ UNCHANGED gateRetries /\ SameBudgets(Payers)
              => Paid + 1 + MaxGate <= PaidWith(0)' /\ Paid + 1 + MaxGate <= Paid'
         /\ UNCHANGED <<steps, gateRetries>> /\ SameBudgets(Payers)
              => /\ PaidWith(0)' = PaidWith(0) /\ PaidWith(0) <= Paid'
                 /\ Capped' = Capped => Paid' = Paid
                 /\ Capped' > Capped => Paid + 1 <= Paid'
         /\ UNCHANGED <<steps, gateRetries, failures>> /\ used' \in {Spent("repair"), Spent("malformed")}
              => Paid' = Paid + 1
         /\ UNCHANGED <<steps, failures>> /\ SameBudgets(Payers) /\ gateRetries' = gateRetries + 1
              => Paid' = Paid + 1
         /\ UNCHANGED <<steps, failures>> /\ SameBudgets(Payers) /\ gateRetries' \in {0, gateRetries}
              => Paid <= Paid' + MaxGate
         /\ UNCHANGED <<steps, failures>> /\ used' = Spent("plan") /\ gateRetries' \in {0, gateRetries}
              => Paid + 2 <= Paid'
         /\ UNCHANGED <<steps, failures, gateRetries>> /\ used' = Spent("plan")
              => Paid + 2 + MaxGate <= Paid'
<1> DEFINE P(t, r, m, p, g, f) == Price(MaxGate, MaxFailures, t, r, m, p, g, f)
<1>1. /\ MaxGate \in Nat /\ MaxFailures \in Nat /\ steps \in Nat /\ gateRetries \in Nat
      /\ Capped \in Nat /\ Capped <= MaxFailures
      /\ used["repair"] \in Nat /\ used["malformed"] \in Nat /\ used["plan"] \in Nat
  BY PaidParts DEF Budgets
<1>2. /\ MaxGate' = MaxGate /\ MaxFailures' = MaxFailures
      /\ steps' \in Nat /\ gateRetries' \in Nat /\ failures' \in Nat
      /\ used'["repair"] \in Nat /\ used'["malformed"] \in Nat /\ used'["plan"] \in Nat
  BY DEF MaxGate, MaxFailures, LoopTypes, Budgets
<1>3. Capped' \in Nat /\ (failures' = failures => Capped' = Capped)
  BY <1>1, <1>2 DEF Capped
<1>4. \A f \in Nat : PaidWith(f) = P(steps, used["repair"], used["malformed"], used["plan"], gateRetries, f)
  BY DEF PaidWith
<1>5. PaidWith(0)' = P(steps', used'["repair"], used'["malformed"], used'["plan"], gateRetries', 0)
  BY <1>2 DEF PaidWith
<1>6. Paid' = P(steps', used'["repair"], used'["malformed"], used'["plan"], gateRetries', Capped')
  BY <1>2 DEF Paid, PaidWith
<1>7. Paid = P(steps, used["repair"], used["malformed"], used["plan"], gateRetries, Capped)
  BY DEF Paid, PaidWith
<1>8. PICK s \in Nat, r \in Nat, m \in Nat, p \in Nat, g \in Nat, f \in Nat :
        /\ s = steps /\ r = used["repair"] /\ m = used["malformed"] /\ p = used["plan"]
        /\ g = gateRetries /\ f = Capped
  BY <1>1
<1>9. PICK s2 \in Nat, r2 \in Nat, m2 \in Nat, p2 \in Nat, g2 \in Nat, f2 \in Nat :
        /\ s2 = steps' /\ r2 = used'["repair"] /\ m2 = used'["malformed"] /\ p2 = used'["plan"]
        /\ g2 = gateRetries' /\ f2 = Capped'
  BY <1>2, <1>3
<1>10. PICK G \in Nat, M \in Nat : G = MaxGate /\ M = MaxFailures
  BY <1>1
<1>11. /\ Paid = Price(G, M, s, r, m, p, g, f) /\ PaidWith(0) = Price(G, M, s, r, m, p, g, 0)
       /\ Paid' = Price(G, M, s2, r2, m2, p2, g2, f2)
       /\ PaidWith(0)' = Price(G, M, s2, r2, m2, p2, g2, 0)
  BY <1>4, <1>5, <1>6, <1>7, <1>8, <1>9, <1>10
<1>12. f <= M /\ g <= G
  BY <1>1, <1>8, <1>10
<1>13. SameBudgets(Payers) => r2 = r /\ m2 = m /\ p2 = p
  BY <1>8, <1>9 DEF SameBudgets, Payers
<1>14. /\ used' = Spent("repair") => r2 = r + 1 /\ m2 = m /\ p2 = p
       /\ used' = Spent("malformed") => r2 = r /\ m2 = m + 1 /\ p2 = p
       /\ used' = Spent("plan") => r2 = r /\ m2 = m /\ p2 = p + 1
  BY <1>8, <1>9, SpentTyped DEF LoopTypes, Budgets
<1>15. ASSUME s2 > s, r2 = r, m2 = m, p2 = p, g2 = g
       PROVE  /\ Price(G, M, s, r, m, p, g, f) + 1 + G <= Price(G, M, s2, r2, m2, p2, g2, 0)
              /\ Price(G, M, s, r, m, p, g, f) + 1 + G <= Price(G, M, s2, r2, m2, p2, g2, f2)
  <2>1. PICK d \in Nat : d > 0 /\ s2 = s + d
    BY <1>15, s2 - s \in Nat
  <2> QED
    BY <1>12, <1>15, <2>1, StepPays, 0 \in Nat
<1>16. /\ Price(G, M, s, r, m, p, g, f) = Price(G, M, s, r, m, p, g, 0) + f
       /\ Price(G, M, s, r, m, p, g, f2) = Price(G, M, s, r, m, p, g, 0) + f2
       /\ Price(G, M, s, r, m, p, g, 0) \in Nat
  BY SMT DEF Price
<1>17. /\ Price(G, M, s, r + 1, m, p, g, f) = Price(G, M, s, r, m, p, g, f) + 1
       /\ Price(G, M, s, r, m + 1, p, g, f) = Price(G, M, s, r, m, p, g, f) + 1
       /\ Price(G, M, s, r, m, p, g + 1, f) = Price(G, M, s, r, m, p, g, f) + 1
       /\ Price(G, M, s, r, m, p, g, f) <= Price(G, M, s, r, m, p, 0, f) + G
       /\ Price(G, M, s, r, m, p + 1, g, f) = Price(G, M, s, r, m, p, g, f) + 2 + G
       /\ Price(G, M, s, r, m, p, g, f) + 2 <= Price(G, M, s, r, m, p + 1, 0, f)
  <2>1. /\ Price(G, M, s, r, m, p, g, f) = Price(G, M, s, r, m, p, 0, f) + g
        /\ Price(G, M, s, r, m, p, 0, f) \in Nat
    BY SMT DEF Price
  <2>2. /\ Price(G, M, s, r, m, p + 1, g, f) = Price(G, M, s, r, m, p, g, f) + 2 + G
        /\ Price(G, M, s, r, m, p + 1, 0, f) = Price(G, M, s, r, m, p, 0, f) + 2 + G
    <3>1. G * (s + (p + 1)) = G * (s + p) + G /\ G * (s + p) \in Nat /\ M * s \in Nat
      BY SMT
    <3> QED
      BY <3>1, SMT DEF Price
  <2>3. /\ Price(G, M, s, r + 1, m, p, g, f) = Price(G, M, s, r, m, p, g, f) + 1
        /\ Price(G, M, s, r, m + 1, p, g, f) = Price(G, M, s, r, m, p, g, f) + 1
        /\ Price(G, M, s, r, m, p, g + 1, f) = Price(G, M, s, r, m, p, g, f) + 1
    <3>1. G * (s + p) \in Nat /\ M * s \in Nat
      BY SMT
    <3> QED
      BY <3>1, SMT DEF Price
  <2> QED
    BY ONLY <1>12, <2>1, <2>2, <2>3, G \in Nat, g \in Nat, SMT
<1> QED
  BY <1>1, <1>3, <1>8, <1>9, <1>10, <1>11, <1>13, <1>14, <1>15, <1>16, <1>17
\* What is paid for within the limits is below the bound on the turns.
LEMMA PaidAtMost ==
  ASSUME LoopTypes, WithinLimits
  PROVE  /\ TurnLimit \in Nat
         /\ Paid + 1 <= TurnLimit
         /\ PaidWith(0) <= Paid
         /\ used["plan"] < Allowance["plan"] => Paid + 3 + MaxGate <= TurnLimit
<1>1. /\ MaxGate \in Nat /\ MaxFailures \in Nat /\ steps \in Nat /\ gateRetries \in Nat
      /\ MaxSteps \in Nat /\ Allowance["repair"] \in Nat /\ Allowance["malformed"] \in Nat
      /\ Allowance["plan"] \in Nat
      /\ Capped \in Nat /\ Capped <= MaxFailures
      /\ used["repair"] \in Nat /\ used["malformed"] \in Nat /\ used["plan"] \in Nat
  BY PaidParts, ProfileParts DEF Budgets, LoopTypes
<1>2. /\ steps <= MaxSteps /\ gateRetries <= MaxGate /\ used["repair"] <= Allowance["repair"]
      /\ used["malformed"] <= Allowance["malformed"] /\ used["plan"] <= Allowance["plan"]
  BY DEF WithinLimits, Payers
<1>3. PICK s \in Nat, r \in Nat, m \in Nat, p \in Nat, g \in Nat, f \in Nat, G \in Nat, M \in Nat :
        /\ s = steps /\ r = used["repair"] /\ m = used["malformed"] /\ p = used["plan"]
        /\ g = gateRetries /\ f = Capped /\ G = MaxGate /\ M = MaxFailures
  BY <1>1
<1>4. PICK S \in Nat, R \in Nat, A \in Nat, P \in Nat :
        S = MaxSteps /\ R = Allowance["repair"] /\ A = Allowance["malformed"] /\ P = Allowance["plan"]
  BY <1>1
<1>5. s <= S /\ r <= R /\ m <= A /\ p <= P /\ g <= G /\ f <= M
  BY <1>1, <1>2, <1>3, <1>4
<1>6. /\ Paid = Price(G, M, s, r, m, p, g, f)
      /\ PaidWith(0) = Price(G, M, s, r, m, p, g, 0)
      /\ TurnLimit = S + 1 + R + A + 2 * P + G * (1 + S + P) + M * (1 + S)
  BY <1>3, <1>4 DEF Paid, PaidWith, TurnLimit
<1>7. Price(G, M, s, r, m, p, g, f) + 1 <= S + 1 + R + A + 2 * P + G * (1 + S + P) + M * (1 + S)
  BY <1>5, PriceAtMost
<1>8. p < P => Price(G, M, s, r, m, p, g, f) + 3 + G
                 <= S + 1 + R + A + 2 * P + G * (1 + S + P) + M * (1 + S)
  <2>1. SUFFICES ASSUME p < P
                 PROVE  Price(G, M, s, r, m, p, g, f) + 3 + G
                          <= S + 1 + R + A + 2 * P + G * (1 + S + P) + M * (1 + S)
    OBVIOUS
  <2>2. Price(G, M, s, r, m, p + 1, g, f) + 1
          <= S + 1 + R + A + 2 * P + G * (1 + S + P) + M * (1 + S)
    <3>1. p + 1 \in Nat /\ p + 1 <= P
      BY <2>1
    <3> QED
      BY <1>5, <3>1, PriceAtMost
  <2>3. Price(G, M, s, r, m, p + 1, g, f) = Price(G, M, s, r, m, p, g, f) + 2 + G
    <3>1. G * (s + (p + 1)) = G * (s + p) + G /\ G * (s + p) \in Nat /\ M * s \in Nat
      BY SMT
    <3> QED
      BY <3>1, SMT DEF Price
  <2>4. Price(G, M, s, r, m, p, g, f) \in Nat /\ G * (1 + S + P) \in Nat /\ M * (1 + S) \in Nat
    <3>1. G * (s + p) \in Nat /\ M * s \in Nat /\ G * (1 + S + P) \in Nat /\ M * (1 + S) \in Nat
      BY SMT
    <3> QED
      BY <3>1, SMT DEF Price
  <2> QED
    BY <2>2, <2>3, <2>4
<1>9. /\ S + 1 + R + A + 2 * P + G * (1 + S + P) + M * (1 + S) \in Nat
      /\ Price(G, M, s, r, m, p, g, 0) <= Price(G, M, s, r, m, p, g, f)
  <2>1. G * (1 + S + P) \in Nat /\ M * (1 + S) \in Nat /\ G * (s + p) \in Nat /\ M * s \in Nat
    BY SMT
  <2> QED
    BY <2>1, SMT DEF Price
<1> QED
  BY <1>3, <1>4, <1>6, <1>7, <1>8, <1>9

------------------------------------------------------------------------------
\* The loop stays within its limits.

LEMMA LimitsKept == LoopInv /\ LoopTypes' /\ [Next]_vars => WithinLimits'
<1> SUFFICES ASSUME LoopTypes, WithinLimits, LoopTypes', [Next]_vars
             PROVE  WithinLimits'
  BY DEF LoopInv
<1>1. /\ MaxSteps \in Nat /\ MaxFailures \in Nat /\ MaxGate \in Nat
      /\ MaxSteps > 0 /\ MaxFailures > 0
      /\ Allowance \in [Budgets -> Nat] /\ used \in [Budgets -> Nat]
      /\ steps \in Nat /\ failures \in Nat /\ gateRetries \in Nat /\ next \in Nat
      /\ steps <= MaxSteps /\ gateRetries <= MaxGate
      /\ \A b \in Payers : used[b] <= Allowance[b]
      /\ current.calls \in Seq(Tools)
  BY ProfileParts, ReplyParts DEF LoopTypes, WithinLimits
<1>2. UNCHANGED profile
  BY DEF Next, vars, LoopHead, Repair, EnforceReports, FixSchema, Finalize, ForceExecution, Nudge,
         HoldToPromise, Steer, RepairFormat, Finish, DemandDeclaration, BlockLowConfidence, RequestPlan,
         RequestPlanAgain, Execute, RunCall, RunBatch, TakeResult, AfterBatches, FollowUp, AutoTest,
         NoTest, Done
<1>3. MaxSteps' = MaxSteps /\ MaxFailures' = MaxFailures /\ MaxGate' = MaxGate /\ Allowance' = Allowance
  BY <1>2 DEF MaxSteps, MaxFailures, MaxGate, Allowance
\* An attempt that is left may be made.
<1>4. ASSUME used' = used \/ \E b \in Budgets : (b \in Payers => Left(b)) /\ used' = Spent(b)
      PROVE  \A b \in Payers : used'[b] <= Allowance[b]
  <2>1. CASE used' = used
    BY <1>1, <2>1
  <2>2. ASSUME NEW b \in Budgets, b \in Payers => Left(b), used' = Spent(b)
        PROVE  \A c \in Payers : used'[c] <= Allowance[c]
    <3>1. /\ b \in Payers => used[b] < Allowance[b]
          /\ \A c \in Payers : used[c] \in Nat /\ Allowance[c] \in Nat /\ c \in Budgets
      BY <1>1, <2>2 DEF Left, Payers, Budgets
    <3>2. \A c \in Budgets : used'[c] = IF c = b THEN used[c] + 1 ELSE used[c]
      BY <1>1, <2>2, SpentTyped
    <3> QED
      BY <1>1, <3>1, <3>2
  <2> QED
    BY <1>4, <2>1, <2>2
\* Where no step is counted and the calls of a reply are not run.
<1>5. ASSUME UNCHANGED steps, gateRetries' <= MaxGate,
             used' = used \/ \E b \in Budgets : (b \in Payers => Left(b)) /\ used' = Spent(b),
             pc' \notin {"decide", "enforce", "replan", "batch"}
      PROVE  WithinLimits'
  BY <1>1, <1>3, <1>4, <1>5 DEF WithinLimits
<1>6. CASE LoopHead
  <2>1. used' = used \/ \E b \in Budgets : (b \in Payers => Left(b)) /\ used' = Spent(b)
    BY <1>6 DEF LoopHead, Budgets, Payers
  <2>2. pc' \in {"decide", "done"} /\ (pc' = "decide" => steps < MaxSteps /\ failures < MaxFailures)
    BY <1>1, <1>6 DEF LoopHead, HeadStop, EngineStop
  <2>3. UNCHANGED <<steps, failures, gateRetries>>
    BY <1>6 DEF LoopHead
  <2> QED
    BY <1>1, <1>3, <1>4, <2>1, <2>2, <2>3 DEF WithinLimits
<1>7. CASE Repair
  <2>1. Left("repair") /\ used' = Spent("repair") /\ "repair" \in Budgets
    BY <1>7 DEF Repair, RepairDue, Budgets
  <2>2. pc' \in {"done", "head", "enforce"} /\ steps < MaxSteps
    BY <1>7 DEF Repair, Onward, WithinLimits
  <2>3. UNCHANGED <<steps, failures, gateRetries>>
    BY <1>7 DEF Repair
  <2> QED
    BY <1>1, <1>3, <1>4, <2>1, <2>2, <2>3 DEF WithinLimits
<1>8. CASE EnforceReports \/ FixSchema \/ Finalize \/ ForceExecution \/ Nudge \/ HoldToPromise
  <2>1. steps < MaxSteps
    BY <1>8 DEF EnforceReports, FixSchema, Finalize, ForceExecution, Nudge, HoldToPromise, Idle,
                Planning, WithinLimits
  <2>2. used' = used \/ \E b \in Budgets : (b \in Payers => Left(b)) /\ used' = Spent(b)
    BY <1>8 DEF EnforceReports, FixSchema, Finalize, ForceExecution, Nudge, HoldToPromise, Budgets, Payers
  <2>3. \E r \in Replies, q \in BOOLEAN : Steer(r, q)
    <3>1. PromptMode \in BOOLEAN
      BY ProfilesAssumption DEF Profile, PromptMode, LoopTypes
    <3> QED
      BY <1>8, <3>1, Zenon
         DEF EnforceReports, FixSchema, Finalize, ForceExecution, Nudge, HoldToPromise
  <2>4. /\ steps' \in {steps, steps + 1} /\ UNCHANGED <<failures, gateRetries>>
        /\ pc' \in {"head", "done"}
    BY <2>3 DEF Steer, Onward
  <2> QED
    BY <1>1, <1>3, <1>4, <2>1, <2>2, <2>4 DEF WithinLimits
<1>9. CASE RepairFormat
  <2>1. Left("malformed") /\ used' = Spent("malformed") /\ "malformed" \in Budgets
    BY <1>9 DEF RepairFormat, MalformedDue, Budgets
  <2> QED
    BY <1>1, <1>5, <1>9, <2>1 DEF RepairFormat, Onward
<1>10. CASE Finish \/ NoTest \/ AutoTest \/ FollowUp \/ AfterBatches
  BY <1>1, <1>5, <1>10 DEF Finish, NoTest, AutoTest, FollowUp, AfterBatches, Onward, counters
<1>11. CASE DemandDeclaration
  BY <1>1, <1>5, <1>11 DEF DemandDeclaration, Ask
<1>12. CASE BlockLowConfidence
  BY <1>1, <1>5, <1>12 DEF BlockLowConfidence, Ask
<1>13. CASE RequestPlan
  <2>1. "plan" \in Budgets /\ Left("plan") /\ gateRetries' <= MaxGate
    BY <1>1, <1>13 DEF RequestPlan, PlanDue, ClearGate, Budgets
  <2>2. used' = used \/ used' = Spent("plan")
    BY <1>13 DEF RequestPlan
  <2>3. /\ pc' \in {"head", "done", "replan"} /\ UNCHANGED steps
        /\ pc' = "replan" => UNCHANGED used
    BY <1>13 DEF RequestPlan
  <2> QED
    BY <1>1, <1>3, <1>4, <2>1, <2>2, <2>3 DEF WithinLimits, Left
<1>14. CASE RequestPlanAgain
  <2>1. "plan" \in Budgets /\ Left("plan")
    BY <1>14 DEF RequestPlanAgain, WithinLimits, Left, Budgets
  <2> QED
    BY <1>1, <1>5, <1>14, <2>1 DEF RequestPlanAgain
<1>15. CASE Execute
  <2>1. steps < MaxSteps /\ failures < MaxFailures /\ gateRetries' <= MaxGate
    BY <1>1, <1>15 DEF Execute, ClearGate, GateOpen, Planning, WithinLimits
  <2> QED
    BY <1>1, <1>3, <2>1, <1>15 DEF Execute, WithinLimits
\* Once a call was run or recorded, next is past the first.
<1>16. ASSUME pc' \in {"batch", "results"}, next' \in Nat, pc' = "batch" => next' > 1,
              steps' <= MaxSteps, UNCHANGED <<gateRetries, used>>
       PROVE  WithinLimits'
  BY <1>1, <1>3, <1>16 DEF WithinLimits
<1>17. CASE RunCall
  <2>1. BatchEnd(next) \in next..Len(current.calls) /\ next \in 1..Len(current.calls)
    BY <1>1, <1>17, BatchWithin DEF RunCall, Running, LoopTypes, CallsInRange
  <2>2. next' \in {next + 1, BatchEnd(next) + 1}
    BY <1>17 DEF RunCall, Record
  <2>3. steps < MaxSteps
    BY <1>1, <1>17 DEF RunCall, Running, EngineStop
  <2> QED
    BY <1>1, <1>16, <1>17, <2>1, <2>2, <2>3 DEF RunCall, Running
<1>18. CASE RunBatch
  <2>1. BatchEnd(next) \in next..Len(current.calls)
    BY <1>1, <1>18, BatchWithin DEF RunBatch, Running, LoopTypes, CallsInRange
  <2>2. steps' <= MaxSteps
    BY <1>1, <1>18, <2>1 DEF RunBatch
  <2> QED
    BY <1>1, <1>16, <1>18, <2>2 DEF RunBatch
<1>19. CASE TakeResult
  <2>1. next' \in {next + 1, upto + 1}
    BY <1>19 DEF TakeResult, Record
  <2>2. upto \in Nat /\ next \in Nat /\ next >= 1 /\ upto >= 1
    BY <1>1, <1>19 DEF TakeResult, LoopTypes, CallsInRange
  <2> QED
    BY <1>1, <1>16, <1>19, <2>1, <2>2 DEF TakeResult
<1>20. CASE Done \/ UNCHANGED vars
  BY <1>1, <1>3, <1>20 DEF WithinLimits, Done, vars
<1> QED
  BY <1>6, <1>7, <1>8, <1>9, <1>10, <1>11, <1>12, <1>13, <1>14, <1>15, <1>17, <1>18, <1>19, <1>20
     DEF Next
LEMMA TurnsStayPaid ==
  LoopInv /\ LoopTypes' /\ [Next]_vars => TurnsPaid'
<1> SUFFICES ASSUME LoopTypes, WithinLimits, TurnsPaid, LoopTypes', [Next]_vars
             PROVE  TurnsPaid'
  BY DEF LoopInv
<1>1. UNCHANGED profile
  BY DEF Next, vars, LoopHead, Repair, EnforceReports, FixSchema, Finalize, ForceExecution, Nudge,
         HoldToPromise, Steer, RepairFormat, Finish, DemandDeclaration, BlockLowConfidence, RequestPlan,
         RequestPlanAgain, Execute, RunCall, RunBatch, TakeResult, AfterBatches, FollowUp, AutoTest,
         NoTest, Done
<1>2. /\ Paid \in Nat /\ PaidWith(0) \in Nat /\ turns \in Nat /\ turns' \in Nat /\ MaxGate \in Nat
      /\ MaxGate' = MaxGate /\ gateRetries <= MaxGate
      /\ Paid' \in Nat /\ PaidWith(0)' \in Nat
      /\ steps \in Nat /\ failures \in Nat /\ MaxFailures \in Nat /\ gateRetries \in Nat /\ next \in Nat
  <2>1. /\ Paid \in Nat /\ PaidWith(0) \in Nat /\ gateRetries \in Nat
    BY PaidParts, 0 \in Nat DEF Paid
  <2>2. Paid' \in Nat /\ PaidWith(0)' \in Nat
    BY PaidNatural
  <2> QED
    BY <1>1, <2>1, <2>2, PaidParts DEF LoopTypes, MaxGate, WithinLimits
<1>3. /\ TurnLimit \in Nat /\ TurnLimit' = TurnLimit /\ Paid + 1 <= TurnLimit /\ PaidWith(0) <= Paid
      /\ used["plan"] < Allowance["plan"] => Paid + 3 + MaxGate <= TurnLimit
  BY <1>1, PaidAtMost
     DEF TurnLimit, MaxSteps, MaxFailures, MaxGate, Allowance
<1>4. turns <= TurnLimit
  BY DEF TurnsPaid, TurnsBounded
\* Without a turn, or with one that was paid for, the bound is kept.
<1>5. ASSUME turns' <= turns \/ turns' <= Paid + 1 PROVE TurnsBounded'
  BY <1>2, <1>3, <1>4, <1>5 DEF TurnsBounded
<1>6. ASSUME turns' <= turns \/ turns' <= Paid + 1, pc' = "done"
      PROVE  TurnsPaid'
  BY <1>5, <1>6 DEF TurnsPaid
<1>7. ASSUME turns' <= turns \/ turns' <= Paid + 1, pc' \in {"head", "decide", "enforce", "test"},
             turns' <= Paid'
      PROVE  TurnsPaid'
  BY <1>5, <1>7 DEF TurnsPaid
<1>8. CASE LoopHead
  <2>1. UNCHANGED <<steps, gateRetries, failures, turns>> /\ SameBudgets(Payers)
    BY <1>8, SpentTyped DEF LoopHead, SameBudgets, Payers, Budgets, LoopTypes
  <2>2. Paid' = Paid
    <3>1. Capped' = Capped
      BY <1>1, <2>1 DEF Capped, MaxFailures
    <3> QED
      BY <1>1, <1>2, <2>1, <3>1, Payments
  <2>3. pc' \in {"decide", "done"} /\ turns <= Paid
    BY <1>8 DEF LoopHead, TurnsPaid
  <2> QED
    BY <1>2, <1>6, <1>7, <2>1, <2>2, <2>3
\* One repair pays for one turn.
<1>9. CASE Repair \/ RepairFormat
  <2>1. /\ UNCHANGED <<steps, gateRetries, failures>> /\ used' \in {Spent("repair"), Spent("malformed")}
        /\ turns' = turns + 1 /\ turns <= Paid /\ pc' \in {"head", "done", "enforce"}
    BY <1>9 DEF Repair, RepairFormat, Idle, Planning, Onward, TurnsPaid
  <2>2. Paid' = Paid + 1
    BY <1>1, <1>2, <2>1, Payments
  <2> QED
    BY <1>2, <1>6, <1>7, <2>1, <2>2
\* A turn that counts a step is paid for by it.
<1>10. CASE EnforceReports \/ FixSchema \/ Finalize \/ ForceExecution \/ Nudge \/ HoldToPromise
  <2>1. /\ turns <= Paid /\ SameBudgets(Payers)
        /\ \E r \in Replies, q \in BOOLEAN : Steer(r, q)
    <3>1. PromptMode \in BOOLEAN
      BY ProfilesAssumption DEF Profile, PromptMode, LoopTypes
    <3>2. \E r \in Replies, q \in BOOLEAN : Steer(r, q)
      BY <1>10, <3>1, Zenon
         DEF EnforceReports, FixSchema, Finalize, ForceExecution, Nudge, HoldToPromise
    <3>3. turns <= Paid
      BY <1>10 DEF EnforceReports, FixSchema, Finalize, ForceExecution, Nudge, HoldToPromise, Idle,
                   Planning, TurnsPaid
    <3>4. used' = used \/ \E b \in Budgets \ Payers : used' = Spent(b)
      BY <1>10 DEF EnforceReports, FixSchema, Finalize, ForceExecution, Nudge, HoldToPromise, Budgets,
                   Payers
    <3>5. SameBudgets(Payers)
      BY <3>4, SpentTyped DEF SameBudgets, Payers, Budgets, LoopTypes
    <3> QED
      BY <3>2, <3>3, <3>5
  <2>2. /\ turns' = turns + 1 /\ UNCHANGED <<failures, gateRetries>> /\ pc' \in {"head", "done"}
        /\ pc' = "done" \/ steps' = steps + 1
    BY <2>1 DEF Steer, Onward
  <2>3. CASE pc' = "done"
    BY <1>2, <1>6, <2>1, <2>2, <2>3
  <2>4. CASE steps' = steps + 1
    <3>1. steps' > steps
      BY <1>2, <2>4
    <3>2. Paid + 1 + MaxGate <= Paid'
      BY <1>1, <1>2, <2>1, <2>2, <3>1, Payments
    <3> QED
      BY <1>2, <1>6, <1>7, <2>1, <2>2, <3>2
  <2> QED
    BY <2>2, <2>3, <2>4
<1>11. CASE Finish
  BY <1>2, <1>6, <1>11 DEF Finish
<1>12. CASE DemandDeclaration
  <2>1. /\ turns <= Paid /\ UNCHANGED <<steps, failures, used>>
        /\ \/ pc' = "done" /\ turns' = turns
           \/ /\ pc' \in {"head", "done"} /\ turns' = turns + 1
              /\ gateRetries' = gateRetries + 1
    BY <1>12 DEF DemandDeclaration, Ask, Planning, TurnsPaid
  <2>2. CASE pc' = "done"
    BY <1>2, <1>6, <2>1, <2>2
  <2>3. CASE pc' = "head"
    <3>1. Paid' = Paid + 1
      BY <1>1, <1>2, <2>1, <2>3, Payments DEF SameBudgets
    <3> QED
      BY <1>2, <1>7, <2>1, <2>3, <3>1
  <2> QED
    BY <2>1, <2>2, <2>3
<1>13. CASE BlockLowConfidence
  <2>1. /\ turns <= Paid /\ UNCHANGED <<steps, gateRetries, used>> /\ failures < MaxFailures
        /\ failures' = failures + RiskyCount(current)
        /\ \/ pc' = "done" /\ turns' = turns
           \/ pc' \in {"head", "done"} /\ turns' = turns + 1
    BY <1>13 DEF BlockLowConfidence, Ask, Planning, TurnsPaid, WithinLimits
  <2>2. RiskyCount(current) \in Nat /\ RiskyCount(current) > 0
    BY <1>13, GatedHasRisky DEF BlockLowConfidence, LoopTypes
  <2>3. CASE pc' = "done"
    BY <1>2, <1>6, <2>1, <2>3
  <2>4. CASE pc' = "head"
    <3>1. Capped' > Capped
      BY <1>1, <1>2, <2>1, <2>2 DEF Capped, MaxFailures
    <3>2. Paid + 1 <= Paid'
      BY <1>1, <1>2, <2>1, <3>1, Payments DEF SameBudgets
    <3> QED
      BY <1>2, <1>7, <2>1, <2>4, <3>2
  <2> QED
    BY <2>1, <2>3, <2>4
<1>14. CASE RequestPlan
  <2>1. /\ turns <= Paid /\ UNCHANGED <<steps, failures>> /\ gateRetries' \in {0, gateRetries}
        /\ turns' = turns + 1
        /\ \/ pc' = "done"
           \/ pc' = "head" /\ used' = Spent("plan")
           \/ pc' = "replan" /\ used' = used
    BY <1>14 DEF RequestPlan, ClearGate, GateOpen, Planning, TurnsPaid
  <2>2. CASE pc' = "done"
    BY <1>2, <1>6, <2>1, <2>2
  <2>3. CASE pc' = "head"
    <3>1. Paid + 2 <= Paid'
      BY <1>1, <1>2, <2>1, <2>3, Payments
    <3> QED
      BY <1>2, <1>7, <2>1, <2>3, <3>1
  <2>4. CASE pc' = "replan"
    <3>1. Paid <= Paid' + MaxGate
      BY <1>1, <1>2, <2>1, <2>4, Payments DEF SameBudgets
    <3>2. TurnsBounded'
      BY <1>2, <1>5, <2>1
    <3>3. turns' <= Paid' + 1 + MaxGate
      <4>1. PICK t \in Nat, a \in Nat, b \in Nat, c \in Nat :
              t = turns /\ a = Paid /\ b = Paid' /\ c = MaxGate
        BY <1>2
      <4>2. turns' = t + 1 /\ t <= a /\ a <= b + c
        BY <2>1, <3>1, <4>1
      <4>3. t + 1 <= b + 1 + c
        BY <4>2
      <4> QED
        BY <4>1, <4>2, <4>3
    <3> QED
      BY <1>2, <2>4, <3>2, <3>3 DEF TurnsPaid
  <2> QED
    BY <2>1, <2>2, <2>3, <2>4
<1>15. CASE RequestPlanAgain
  <2>1. /\ turns <= Paid + 1 + MaxGate /\ used["plan"] < Allowance["plan"] /\ turns' = turns + 1
        /\ UNCHANGED <<steps, failures, gateRetries>>
        /\ \/ pc' = "done"
           \/ pc' = "head" /\ used' = Spent("plan")
    BY <1>15 DEF RequestPlanAgain, TurnsPaid, WithinLimits
  <2>2. TurnsBounded'
    BY <1>2, <1>3, <2>1 DEF TurnsBounded
  <2>3. pc' = "head" => Paid + 2 + MaxGate <= Paid'
    BY <1>1, <1>2, <2>1, Payments
  <2>4. pc' = "head" => turns' <= Paid'
    BY <1>2, <2>1, <2>3
  <2> QED
    BY <2>1, <2>2, <2>4 DEF TurnsPaid
<1>16. CASE Execute
  <2>1. /\ turns <= Paid /\ UNCHANGED <<steps, failures, used, turns>>
        /\ gateRetries' \in {0, gateRetries} /\ pc' = "batch" /\ next' = 1
    BY <1>16 DEF Execute, ClearGate, GateOpen, Planning, TurnsPaid
  <2>2. Paid <= Paid' + MaxGate
    BY <1>1, <1>2, <2>1, Payments DEF SameBudgets
  <2>3. TurnsBounded'
    BY <1>2, <1>5, <2>1
  <2>4. turns' <= Paid' + MaxGate
    <3>1. PICK t \in Nat, a \in Nat, b \in Nat, c \in Nat :
            t = turns /\ a = Paid /\ b = Paid' /\ c = MaxGate
      BY <1>2
    <3>2. turns' = t /\ t <= a /\ a <= b + c
      BY <2>1, <2>2, <3>1
    <3>3. t <= b + c
      BY <3>2
    <3> QED
      BY <3>1, <3>2, <3>3
  <2> QED
    BY <1>2, <2>1, <2>3, <2>4 DEF TurnsPaid
\* Where calls are run: what was paid for before covers the turn after them.
<1>17. ASSUME pc = "batch" PROVE turns <= Paid + MaxGate
  BY <1>2, <1>17 DEF TurnsPaid
<1>18. CASE RunCall
  <2>1. /\ pc = "batch" /\ pc' = "batch" /\ steps' = steps + 1 /\ UNCHANGED <<gateRetries, used, turns>>
    BY <1>18 DEF RunCall, Running
  <2>2. next' # 1
    <3>1. BatchEnd(next) \in next..Len(current.calls) /\ next \in 1..Len(current.calls)
      BY <1>2, <1>18, ReplyParts, BatchWithin DEF RunCall, Running, LoopTypes, CallsInRange
    <3>2. next' \in {next + 1, BatchEnd(next) + 1}
      BY <1>18 DEF RunCall, Record
    <3> QED
      BY <3>1, <3>2
  <2>3. Paid + 1 + MaxGate <= Paid'
    <3>1. steps' > steps
      BY <1>2, <2>1
    <3> QED
      BY <1>1, <1>2, <2>1, <3>1, Payments DEF SameBudgets
  <2>4. TurnsBounded' /\ turns' + 1 <= Paid'
    BY <1>2, <1>5, <1>17, <2>1, <2>3
  <2> QED
    BY <2>1, <2>2, <2>4 DEF TurnsPaid
<1>19. CASE RunBatch
  <2>1. pc = "batch" /\ pc' = "results" /\ UNCHANGED <<gateRetries, used, turns>>
    BY <1>19 DEF RunBatch, Running
  <2>2. steps' > steps
    <3>1. BatchEnd(next) \in next..Len(current.calls) /\ next \in 1..Len(current.calls)
      BY <1>2, <1>19, ReplyParts, BatchWithin DEF RunBatch, Running, LoopTypes, CallsInRange
    <3>2. MaxSteps \in Nat /\ steps < MaxSteps
      BY <1>19, ProfileParts DEF RunBatch, Running, EngineStop, LoopTypes
    <3> QED
      BY <1>2, <1>19, <3>1, <3>2 DEF RunBatch
  <2>3. Paid + 1 + MaxGate <= PaidWith(0)'
    BY <1>1, <1>2, <2>1, <2>2, Payments DEF SameBudgets
  <2>4. TurnsBounded' /\ turns' + 1 <= PaidWith(0)'
    BY <1>2, <1>5, <1>17, <2>1, <2>3
  <2> QED
    BY <2>1, <2>4 DEF TurnsPaid
<1>20. CASE TakeResult
  <2>1. /\ turns + 1 <= PaidWith(0) /\ UNCHANGED <<steps, gateRetries, used, turns>>
        /\ pc' \in {"batch", "results"}
    BY <1>20 DEF TakeResult, TurnsPaid
  <2>2. next' # 1
    <3>1. next' \in {next + 1, upto + 1}
      BY <1>20 DEF TakeResult, Record
    <3> QED
      BY <1>20, <3>1 DEF TakeResult, LoopTypes, CallsInRange
  <2>3. PaidWith(0)' = PaidWith(0) /\ PaidWith(0) <= Paid'
    BY <1>1, <1>2, <2>1, Payments DEF SameBudgets
  <2>4. TurnsBounded' /\ turns' + 1 <= PaidWith(0)' /\ turns' + 1 <= Paid'
    BY <1>2, <1>5, <2>1, <2>3
  <2> QED
    BY <2>1, <2>2, <2>4 DEF TurnsPaid
\* The first call of a reply is always run: there is one, and no limit is met.
<1>21. CASE AfterBatches
  <2>1. /\ pc = "batch" /\ ~Running /\ UNCHANGED <<steps, gateRetries, failures, used, turns>>
        /\ pc' \in {"followup", "done"}
    BY <1>21 DEF AfterBatches, counters
  <2>2. next # 1
    <3>1. SUFFICES ASSUME next = 1 PROVE Running
      BY <2>1
    <3>2. /\ steps < MaxSteps /\ failures < MaxFailures /\ current.calls # <<>>
          /\ MaxSteps \in Nat /\ current.calls \in Seq(Tools)
      BY <2>1, <3>1, ProfileParts, ReplyParts DEF WithinLimits, LoopTypes
    <3>3. 1 <= Len(current.calls) /\ EngineStop(steps, failures) = "none"
      BY <1>2, <3>2 DEF EngineStop
    <3> QED
      BY <2>1, <3>1, <3>3 DEF Running
  <2>3. turns + 1 <= Paid
    BY <2>1, <2>2 DEF TurnsPaid
  <2>4. Paid' = Paid
    <3>1. Capped' = Capped
      BY <1>1, <2>1 DEF Capped, MaxFailures
    <3> QED
      BY <1>1, <1>2, <2>1, <3>1, Payments DEF SameBudgets
  <2>5. TurnsBounded' /\ turns' + 1 <= Paid'
    BY <1>2, <1>5, <2>1, <2>3, <2>4
  <2> QED
    BY <2>1, <2>5 DEF TurnsPaid
<1>22. CASE FollowUp
  <2>1. /\ turns + 1 <= Paid /\ turns' = turns + 1 /\ UNCHANGED <<steps, gateRetries, failures, used>>
        /\ pc' \in {"test", "done"}
    BY <1>22 DEF FollowUp, TurnsPaid
  <2>2. Paid' = Paid
    <3>1. Capped' = Capped
      BY <1>1, <2>1 DEF Capped, MaxFailures
    <3> QED
      BY <1>1, <1>2, <2>1, <3>1, Payments DEF SameBudgets
  <2> QED
    BY <1>2, <1>6, <1>7, <2>1, <2>2
<1>23. CASE AutoTest \/ NoTest
  <2>1. /\ turns <= Paid /\ UNCHANGED <<steps, gateRetries, failures, used, turns>>
        /\ pc' \in {"head", "done"}
    BY <1>23 DEF AutoTest, NoTest, Onward, counters, TurnsPaid
  <2>2. Paid' = Paid
    <3>1. Capped' = Capped
      BY <1>1, <2>1 DEF Capped, MaxFailures
    <3> QED
      BY <1>1, <1>2, <2>1, <3>1, Payments DEF SameBudgets
  <2> QED
    BY <1>2, <1>6, <1>7, <2>1, <2>2
<1>24. CASE Done \/ UNCHANGED vars
  BY <1>24
     DEF Done, vars, TurnsPaid, TurnsBounded, Paid, PaidWith, Capped, MaxGate, MaxFailures, MaxSteps,
         Allowance, TurnLimit
<1> QED
  BY <1>8, <1>9, <1>10, <1>11, <1>12, <1>13, <1>14, <1>15, <1>16, <1>18, <1>19, <1>20, <1>21, <1>22,
     <1>23, <1>24 DEF Next

LEMMA InitLoop == Init => LoopInv
<1> SUFFICES ASSUME Init PROVE LoopInv
  OBVIOUS
<1>1. LoopTypes
  BY LoopTyped
<1>2. WithinLimits
  <2>1. MaxSteps \in Nat /\ MaxGate \in Nat /\ Allowance \in [Budgets -> Nat]
    BY <1>1, ProfileParts DEF LoopTypes
  <2> QED
    BY <2>1 DEF Init, WithinLimits, NoCounters, Payers, Budgets
<1>3. TurnsPaid
  <2>1. Paid \in Nat /\ TurnLimit \in Nat
    BY <1>1, <1>2, PaidParts, PaidAtMost DEF Paid
  <2> QED
    BY <2>1 DEF Init, TurnsPaid, TurnsBounded
<1> QED
  BY <1>1, <1>2, <1>3 DEF LoopInv

LEMMA NextLoop == LoopInv /\ [Next]_vars => LoopInv'
BY LoopStepTyped, LimitsKept, TurnsStayPaid DEF LoopInv

LEMMA LoopInvariance == Spec => []LoopInv
BY InitLoop, NextLoop, PTL DEF Spec

\* The loop keeps its types, and the calls it runs are those of the reply it
\* works on (run_tool_loop_core).
THEOREM LoopTypeCorrect == Spec => []TypeOK
<1>1. LoopInv => TypeOK
  BY TypesAgree DEF LoopInv
<1> QED
  BY <1>1, LoopInvariance, PTL

\* The loop asks the model at most TurnLimit times, for every profile, every
\* reply and every outcome of the calls and tests (run_tool_loop_core).
THEOREM AskedBounded == Spec => []TurnsBounded
<1>1. LoopInv => TurnsBounded
  BY DEF LoopInv, TurnsPaid
<1> QED
  BY <1>1, LoopInvariance, PTL

------------------------------------------------------------------------------
(* The engine of turns *)

EngineSpec == EngineInit /\ [][EngineNext]_engineVars

\* Every announced batch of calls stands before its results.
Answered(ms) ==
  \A i \in 1..Len(ms) : ms[i] = "calls" => i < Len(ms) /\ ms[i + 1] = "results"

\* What may follow the system prompt, and a history that begins with one.
Said == UserTags \cup AssistantTags
Bodies == {t \in Seq(Said) : Answered(t)}
Histories ==
  {ms \in Seq(Tags) : /\ ms # <<>> /\ ms[1] \in SystemTags
                      /\ \A i \in 2..Len(ms) : ms[i] \in Said
                      /\ Answered(ms)}

Types ==
  /\ messages \in Histories
  /\ tokens \in BOOLEAN /\ native \in BOOLEAN /\ auto_disabled \in BOOLEAN
  /\ vetoed \in BOOLEAN /\ spoke \in BOOLEAN
  /\ model \in {"chosen", "default"}
  /\ phase \in {"idle", "submit", "summary", "native", "text", "calls"}
  /\ input \in {"prompt", "followup", "command"}
  /\ compactions \in Nat /\ tries \in Nat /\ rounds \in Nat /\ left \in Nat /\ inputs \in Nat

\* A prompt that has passed the guard fits, unless a hook vetoed its compaction.
PromptFits ==
  KeepLast < MaxTurns /\ phase = "submit" /\ input = "prompt" /\ ~vetoed => Turns(messages) < MaxTurns

IInv == Types /\ PromptFits /\ PromptAccepted

------------------------------------------------------------------------------
\* Histories and their turns.

LEMMA HistoryGrows ==
  ASSUME NEW ms \in Histories, NEW t \in Bodies
  PROVE  ms \o t \in Histories
<1> DEFINE all == ms \o t
<1>1. /\ ms \in Seq(Tags) /\ t \in Seq(Tags) /\ Len(ms) \in Nat /\ Len(t) \in Nat /\ Len(ms) > 0
      /\ Answered(ms) /\ Answered(t) /\ ms[1] \in SystemTags
      /\ \A i \in 2..Len(ms) : ms[i] \in Said
      /\ \A i \in 1..Len(t) : t[i] \in Said
  BY DEF Histories, Bodies, Said, Tags
<1>2. /\ all \in Seq(Tags) /\ Len(all) = Len(ms) + Len(t)
      /\ \A i \in 1..Len(ms) + Len(t) : all[i] = IF i <= Len(ms) THEN ms[i] ELSE t[i - Len(ms)]
  BY <1>1, ConcatProperties
<1> HIDE DEF all
<1>3. all # <<>> /\ all[1] \in SystemTags
  BY <1>1, <1>2
<1>4. ASSUME NEW i \in 2..Len(all) PROVE all[i] \in Said
  <2>1. CASE i <= Len(ms)
    BY <1>1, <1>2, <2>1
  <2>2. CASE i > Len(ms)
    <3>1. i - Len(ms) \in 1..Len(t) /\ all[i] = t[i - Len(ms)]
      BY <1>1, <1>2, <2>2
    <3> QED
      BY <1>1, <3>1
  <2> QED
    BY <1>1, <1>2, <2>1, <2>2
<1>5. ASSUME NEW i \in 1..Len(all), all[i] = "calls"
      PROVE  i < Len(all) /\ all[i + 1] = "results"
  <2>1. CASE i <= Len(ms)
    <3>1. ms[i] = "calls"
      BY <1>1, <1>2, <1>5, <2>1
    <3>2. i < Len(ms) /\ ms[i + 1] = "results"
      BY <1>1, <2>1, <3>1 DEF Answered
    <3>3. i + 1 \in 1..Len(ms)
      BY <1>1, <3>2
    <3> QED
      BY <1>1, <1>2, <3>2, <3>3
  <2>2. CASE i > Len(ms)
    <3>1. i - Len(ms) \in 1..Len(t) /\ t[i - Len(ms)] = "calls"
      BY <1>1, <1>2, <1>5, <2>2
    <3>2. i - Len(ms) < Len(t) /\ t[i - Len(ms) + 1] = "results"
      BY <1>1, <3>1 DEF Answered
    <3>3. i + 1 \in 1..Len(ms) + Len(t) /\ ~(i + 1 <= Len(ms)) /\ (i + 1) - Len(ms) = i - Len(ms) + 1
      BY <1>1, <1>2, <2>2, <3>2
    <3> QED
      BY <1>1, <1>2, <3>2, <3>3
  <2> QED
    BY <1>1, <1>2, <2>1, <2>2
<1> QED
  BY <1>2, <1>3, <1>4, <1>5 DEF Histories, Answered, all

\* A history may begin with its system prompt alone.
LEMMA HistoryBegins ==
  ASSUME NEW h \in SystemTags
  PROVE  <<h>> \in Histories /\ <<h, "summary">> \in Histories
BY DEF Histories, Answered, SystemTags, Tags, Said, AssistantTags

\* What a step adds to a history.
LEMMA Additions ==
  /\ \A tag \in Said \ {"calls"} : <<tag>> \in Bodies
  /\ \A one, two \in Said \ {"calls"} : <<one, two>> \in Bodies
  /\ <<"calls", "results">> \in Bodies /\ <<>> \in Bodies
BY DEF Bodies, Answered, Said, UserTags, AssistantTags

LEMMA HistoryLength == \A ms \in Histories : Len(ms) \in Nat /\ Len(ms) > 0
BY DEF Histories

LEMMA AppendDiffers == \A ms \in Histories, tag \in Tags : Append(ms, tag) # ms
<1> SUFFICES ASSUME NEW ms \in Histories, NEW tag \in Tags PROVE Append(ms, tag) # ms
  OBVIOUS
<1>1. ms \in Seq(Tags)
  BY DEF Histories
<1>2. Len(Append(ms, tag)) = Len(ms) + 1 /\ Len(ms) \in Nat
  BY <1>1, AppendProperties
<1> QED
  BY <1>2

LEMMA HistoryAppends ==
  ASSUME NEW ms \in Histories, NEW tag \in Said \ {"calls"}
  PROVE  Append(ms, tag) \in Histories
<1>1. Append(ms, tag) = ms \o <<tag>>
  BY AppendIsConcat DEF Histories, Said, Tags
<1> QED
  BY <1>1, Additions, HistoryGrows

\* A compaction keeps the last messages, calls with their results.
LEMMA RecentIsBody ==
  ASSUME NEW ms \in Histories, NEW k \in Nat
  PROVE  Recent(ms, k) \in Bodies /\ Len(Recent(ms, k)) \in Nat /\ Len(Recent(ms, k)) <= k
<1> DEFINE first == IF Len(ms) > k THEN Len(ms) - k + 1 ELSE 2
           t == SubSeq(ms, first, Len(ms))
<1>1. /\ ms \in Seq(Tags) /\ Len(ms) \in Nat /\ Len(ms) > 0 /\ Answered(ms)
      /\ \A i \in 2..Len(ms) : ms[i] \in Said
  BY DEF Histories
<1>2. first \in Int /\ first >= 2 /\ Len(ms) - first + 1 <= k /\ first <= Len(ms) + 1
  BY <1>1
<1> HIDE DEF first
<1>3. /\ t \in Seq(Said)
      /\ Len(t) = IF first <= Len(ms) THEN Len(ms) - first + 1 ELSE 0
      /\ \A i \in 1..Len(ms) - first + 1 : t[i] = ms[first + i - 1]
  BY <1>1, <1>2, SubSeqProperties
<1>4. Len(t) \in Nat /\ Len(t) = Len(ms) - first + 1 /\ Len(t) <= k
  BY <1>1, <1>2, <1>3
<1> HIDE DEF t
<1>5. ASSUME NEW i \in 1..Len(t), t[i] = "calls" PROVE i < Len(t) /\ t[i + 1] = "results"
  <2>1. first + i - 1 \in 1..Len(ms) /\ ms[first + i - 1] = "calls"
    BY <1>1, <1>2, <1>3, <1>4, <1>5
  <2>2. first + i - 1 < Len(ms) /\ ms[first + i - 1 + 1] = "results"
    BY <1>1, <2>1 DEF Answered
  <2>3. i < Len(t) /\ i + 1 \in 1..Len(t) /\ first + (i + 1) - 1 = first + i - 1 + 1
    BY <1>1, <1>2, <1>4, <2>2
  <2> QED
    BY <1>3, <1>4, <2>2, <2>3
<1> QED
  BY <1>3, <1>4, <1>5 DEF Bodies, Answered, Recent, t, first

\* The turns among the messages from p on are no more than these messages.
LEMMA TurnsFrom ==
  ASSUME NEW ms \in Seq(Tags), NEW p \in Nat, p <= Len(ms), \A i \in 1..p : ms[i] \notin UserTags
  PROVE  Turns(ms) \in Nat /\ Turns(ms) <= Len(ms) - p
<1> DEFINE at == {i \in 1..Len(ms) : ms[i] \in UserTags}
<1>1. Len(ms) \in Nat
  OBVIOUS
<1>2. at \subseteq (p + 1)..Len(ms)
  BY <1>1
<1>3. IsFiniteSet((p + 1)..Len(ms)) /\ Cardinality((p + 1)..Len(ms)) = Len(ms) - p
  <2>1. p + 1 \in Int /\ Len(ms) \in Int
    BY <1>1
  <2>2. /\ IsFiniteSet((p + 1)..Len(ms))
        /\ Cardinality((p + 1)..Len(ms)) = IF p + 1 > Len(ms) THEN 0 ELSE Len(ms) - (p + 1) + 1
    BY ONLY <2>1, FS_Interval
  <2> QED
    BY <1>1, <2>2
<1>4. IsFiniteSet(at) /\ Cardinality(at) <= Len(ms) - p /\ Cardinality(at) \in Nat
  BY <1>2, <1>3, FS_Subset, FS_CardinalityType
<1> QED
  BY <1>4 DEF Turns

\* The system prompt is no turn.
LEMMA TurnsOfHistory ==
  ASSUME NEW ms \in Histories
  PROVE  Turns(ms) \in Nat /\ Turns(ms) <= Len(ms) - 1
<1>1. ms \in Seq(Tags) /\ 1 <= Len(ms) /\ \A i \in 1..1 : ms[i] \notin UserTags
  BY DEF Histories, SystemTags, UserTags
<1> QED
  BY <1>1, TurnsFrom

\* What a compaction leaves: a history whose turns are among the messages kept.
LEMMA Compacted ==
  ASSUME NEW ms \in Histories
  PROVE  /\ <<ms[1]>> \o Recent(ms, KeepLast) \in Histories
         /\ Turns(<<ms[1]>> \o Recent(ms, KeepLast)) \in Nat
         /\ Turns(<<ms[1]>> \o Recent(ms, KeepLast)) <= KeepLast
         /\ <<ms[1], "summary">> \o Recent(ms, KeepLast) \in Histories
         /\ Turns(<<ms[1], "summary">> \o Recent(ms, KeepLast)) \in Nat
         /\ Turns(<<ms[1], "summary">> \o Recent(ms, KeepLast)) <= KeepLast
<1> DEFINE t == Recent(ms, KeepLast)
           h == ms[1]
<1>1. t \in Bodies /\ Len(t) \in Nat /\ Len(t) <= KeepLast /\ KeepLast \in Nat
  BY RecentIsBody, TurnBounds
<1>2. h \in SystemTags
  BY DEF Histories
<1> HIDE DEF t, h
<1>3. <<h>> \o t \in Histories /\ <<h, "summary">> \o t \in Histories
  BY <1>1, <1>2, HistoryBegins, HistoryGrows
<1>4. <<h>> \in Seq(Tags) /\ <<h, "summary">> \in Seq(Tags) /\ t \in Seq(Tags)
  <2>1. <<h>> \in Seq(Tags) /\ <<h, "summary">> \in Seq(Tags)
    BY <1>2, HistoryBegins DEF Histories
  <2>2. t \in Seq(Tags)
    BY <1>1 DEF Bodies, Said, Tags
  <2> QED
    BY <2>1, <2>2
<1>5. Turns(<<h>> \o t) \in Nat /\ Turns(<<h>> \o t) <= Len(t)
  <2> DEFINE all == <<h>> \o t
  <2>1. all \in Seq(Tags) /\ Len(all) = 1 + Len(t) /\ all[1] = h
    BY <1>1, <1>4
  <2> HIDE DEF all
  <2>2. \A i \in 1..1 : all[i] \notin UserTags
    BY <1>2, <2>1 DEF SystemTags, UserTags
  <2>3. Turns(all) \in Nat /\ Turns(all) <= Len(all) - 1
    BY <1>1, <2>1, <2>2, TurnsFrom
  <2> QED
    BY <1>1, <2>1, <2>3 DEF all
<1>6. Turns(<<h, "summary">> \o t) \in Nat /\ Turns(<<h, "summary">> \o t) <= Len(t)
  <2> DEFINE all == <<h, "summary">> \o t
  <2>1. all \in Seq(Tags) /\ Len(all) = 2 + Len(t) /\ all[1] = h /\ all[2] = "summary"
    BY <1>1, <1>4
  <2> HIDE DEF all
  <2>2. \A i \in 1..2 : all[i] \notin UserTags
    <3>1. \A i \in 1..2 : i = 1 \/ i = 2
      OBVIOUS
    <3> QED
      BY <1>2, <2>1, <3>1 DEF SystemTags, UserTags
  <2>3. Turns(all) \in Nat /\ Turns(all) <= Len(all) - 2
    BY <1>1, <2>1, <2>2, TurnsFrom
  <2> QED
    BY <1>1, <2>1, <2>3 DEF all
<1> QED
  BY <1>1, <1>3, <1>5, <1>6 DEF t, h

------------------------------------------------------------------------------
LEMMA InitIInv == EngineInit => IInv
<1> SUFFICES ASSUME EngineInit PROVE IInv
  OBVIOUS
<1>1. messages \in Histories
  BY HistoryBegins DEF EngineInit, SystemTags
<1>2. native \in BOOLEAN
  BY DEF EngineInit, DefaultNative
<1>3. Types
  BY <1>1, <1>2 DEF EngineInit, Types
<1>4. PromptFits /\ PromptAccepted
  BY DEF EngineInit, PromptFits, PromptAccepted
<1> QED
  BY <1>3, <1>4 DEF IInv

\* A prompt that passes the guard without a compaction fits as it is.
LEMMA PromptKeeps == ASSUME IInv, Prompt PROVE IInv'
<1> USE DEF IInv
<1>1. /\ input' = "prompt" /\ inputs' = inputs + 1 /\ compactions' = 0
      /\ UNCHANGED <<messages, tokens, native, auto_disabled, model, stop_reason, tries, rounds, left, spoke>>
      /\ vetoed' \in BOOLEAN /\ phase' \in {"submit", "summary"}
      /\ ~vetoed' /\ phase' = "submit" => ~NearLimit \/ Len(messages) - 1 <= KeepLast
  <2>1. CASE NearLimit /\ StartCompaction(KeepLast, "submit")
    <3>1. /\ vetoed' \in BOOLEAN /\ phase' \in {"submit", "summary"}
          /\ ~vetoed' /\ phase' = "submit" => ~(Len(messages) - 1 > KeepLast)
      BY <2>1 DEF StartCompaction
    <3>2. ~(Len(messages) - 1 > KeepLast) => Len(messages) - 1 <= KeepLast
      BY HistoryLength, TurnBounds DEF Types
    <3> QED
      BY <3>1, <3>2 DEF Prompt, engine, turn
  <2>2. CASE ~NearLimit /\ vetoed' = FALSE /\ phase' = "submit"
    BY <2>2 DEF Prompt, engine, turn
  <2> QED
    BY <2>1, <2>2 DEF Prompt
<1>2. Types'
  BY <1>1 DEF Types
<1>3. PromptFits'
  <2>1. messages \in Histories /\ Turns(messages) \in Nat /\ Turns(messages) <= Len(messages) - 1
        /\ Len(messages) \in Nat
    BY TurnsOfHistory, HistoryLength DEF Types
  <2>2. ~NearLimit => Turns(messages) < MaxTurns
    BY <2>1, TurnBounds DEF NearLimit
  <2>3. Turns(messages)' = Turns(messages)
    BY <1>1
  <2> QED
    BY <1>1, <2>1, <2>2, <2>3, TurnBounds DEF PromptFits
<1>4. PromptAccepted'
  BY <1>1 DEF PromptAccepted
<1> QED
  BY <1>2, <1>3, <1>4

\* A followup or a command leaves the question of the prompt behind.
LEMMA OthersKeep ==
  ASSUME IInv, NEW ms \in Histories, messages' = ms, input' \in {"followup", "command"},
         tokens' \in BOOLEAN, native' \in BOOLEAN, auto_disabled' \in BOOLEAN, vetoed' \in BOOLEAN,
         model' \in {"chosen", "default"}, phase' \in {"idle", "submit", "summary"},
         compactions' \in Nat, inputs' \in Nat, UNCHANGED turn
  PROVE  IInv'
BY DEF IInv, Types, PromptFits, PromptAccepted, turn

LEMMA CommandsKeep == ASSUME IInv, Commands PROVE IInv'
<1>1. /\ messages \in Histories /\ tokens \in BOOLEAN /\ native \in BOOLEAN /\ auto_disabled \in BOOLEAN
      /\ vetoed \in BOOLEAN /\ model \in {"chosen", "default"} /\ compactions \in Nat /\ inputs \in Nat
      /\ compactions + 1 \in Nat /\ inputs + 1 \in Nat
      /\ \A m : DefaultNative(m) \in BOOLEAN
  BY DEF IInv, Types, DefaultNative
<1>2. CASE Prompt
  BY <1>2, PromptKeeps
<1>3. CASE Followup
  BY <1>1, <1>3, OthersKeep DEF Followup, Ready, StartCompaction, engine
<1>4. CASE CompactCommand
  BY <1>1, <1>4, OthersKeep DEF CompactCommand, Ready, StartCompaction, engine
<1>5. CASE Compact
  BY <1>1, <1>5, Compacted, OthersKeep DEF Compact, Ready, engine
<1>6. <<"command", "result">> \in Bodies
  BY Additions DEF Said, UserTags, AssistantTags
<1>7. CASE ManualToolcall
  BY <1>1, <1>6, <1>7, HistoryGrows, OthersKeep DEF ManualToolcall, Ready, engine
<1>8. CASE BatchToolcall
  BY <1>1, <1>6, <1>8, HistoryGrows, OthersKeep DEF BatchToolcall, Ready, engine
<1>9. CASE PushUserMessage
  <2>1. Append(messages, "feedback") \in Histories
    BY <1>1, HistoryAppends DEF Said, UserTags
  <2> QED
    BY <1>1, <1>9, <2>1, OthersKeep DEF PushUserMessage, Ready, engine
<1>10. CASE Clear
  BY <1>1, <1>10, HistoryBegins, OthersKeep DEF Clear, Ready, SystemTags
<1>11. CASE LoadSession
  <2>1. \A saved \in {<<>>, <<"task", "reply">>, <<"task", "task">>} : <<"bare">> \o saved \in Histories
    <3>1. <<"bare">> \in Histories
      BY HistoryBegins DEF SystemTags
    <3>2. \A saved \in {<<>>, <<"task", "reply">>, <<"task", "task">>} : saved \in Bodies
      BY Additions DEF Said, UserTags, AssistantTags
    <3> QED
      BY <3>1, <3>2, HistoryGrows
  <2> QED
    BY <1>1, <1>11, <2>1, OthersKeep DEF LoadSession, Ready
<1>12. CASE Rebind
  BY <1>1, <1>12, OthersKeep DEF Rebind, Ready
<1>13. CASE ApplyFlags
  BY <1>1, <1>13, OthersKeep DEF ApplyFlags, Ready
<1>14. CASE NativeCommand
  BY <1>1, <1>14, OthersKeep DEF NativeCommand, Ready
<1> QED
  BY <1>2, <1>3, <1>4, <1>5, <1>7, <1>8, <1>9, <1>10, <1>11, <1>12, <1>13, <1>14 DEF Commands

\* A step of a turn past its submission, which does not turn the prompt away.
LEMMA TurnKeeps ==
  ASSUME IInv, NEW ms \in Histories, messages' = ms, UNCHANGED <<input, vetoed, compactions, inputs>>,
         tokens' \in BOOLEAN, native' \in BOOLEAN, auto_disabled' \in BOOLEAN, model' \in {"chosen", "default"},
         phase' \in {"idle", "native", "text", "calls"}, phase' = "idle" => stop_reason' # "max_turns_reached",
         tries' \in Nat, rounds' \in Nat, left' \in Nat, spoke' \in BOOLEAN
  PROVE  IInv'
BY DEF IInv, Types, PromptFits, PromptAccepted

LEMMA EngineKeeps == ASSUME IInv, Engine PROVE IInv'
<1>1. /\ messages \in Histories /\ tokens \in BOOLEAN /\ native \in BOOLEAN /\ auto_disabled \in BOOLEAN
      /\ vetoed \in BOOLEAN /\ spoke \in BOOLEAN /\ model \in {"chosen", "default"}
      /\ tries \in Nat /\ rounds \in Nat /\ left \in Nat /\ tries + 1 \in Nat /\ rounds + 1 \in Nat
      /\ 0 \in Nat /\ (left > 0 => left - 1 \in Nat)
  BY DEF IInv, Types
<1>2. CASE Summarise
  <2>1. /\ messages' \in Histories /\ Turns(messages') \in Nat /\ Turns(messages') <= KeepLast
        /\ phase' \in {"idle", "submit"} /\ (phase' = "idle" => input = "command")
        /\ UNCHANGED <<tokens, engine, stop_reason, input, vetoed, compactions, turn, inputs>>
    BY <1>1, <1>2, Compacted DEF Summarise
  <2>2. Types'
    BY <2>1 DEF IInv, Types, engine, turn
  <2>3. PromptFits'
    <3>1. Turns(messages)' = Turns(messages')
      OBVIOUS
    <3> QED
      BY <2>1, <3>1, TurnBounds DEF PromptFits
  <2>4. PromptAccepted'
    BY <2>1 DEF PromptAccepted
  <2> QED
    BY <2>2, <2>3, <2>4 DEF IInv
<1>3. CASE Submit
  <2>1. CASE Turns(messages) >= MaxTurns /\ Ends("max_turns_reached") /\ UNCHANGED messages
    <3>1. /\ phase = "submit" /\ phase' = "idle"
          /\ UNCHANGED <<messages, tokens, engine, input, vetoed, compactions, inputs>>
          /\ tries' = 0 /\ rounds' = 0 /\ left' = 0 /\ spoke' = FALSE
      BY <1>3, <2>1 DEF Submit, Ends, Restart
    <3>2. ~(KeepLast < MaxTurns /\ input = "prompt" /\ ~vetoed)
      BY <1>1, <2>1, <3>1, TurnsOfHistory, TurnBounds DEF IInv, PromptFits
    <3> QED
      BY <3>1, <3>2 DEF IInv, Types, PromptFits, PromptAccepted, engine
  <2>2. CASE Ends("permission_denied") /\ UNCHANGED messages
    BY <1>1, <1>3, <2>2, TurnKeeps DEF Submit, Ends, Restart, engine
  <2>3. CASE messages' = Append(messages, "task")
    <3>1. Append(messages, "task") \in Histories
      BY <1>1, HistoryAppends DEF Said, UserTags
    <3>2. /\ phase' \in {"native", "text"} /\ UNCHANGED <<tries, rounds, left, spoke>>
          /\ UNCHANGED <<tokens, engine, input, vetoed, compactions, inputs>>
      BY <1>3, <2>3, <3>1, AppendDiffers DEF Submit
    <3> QED
      BY <1>1, <2>3, <3>1, <3>2, TurnKeeps DEF engine
  <2> QED
    BY <1>3, <2>1, <2>2, <2>3 DEF Submit
<1>4. CASE Retry
  BY <1>1, <1>4, TurnKeeps DEF Retry, Waiting, engine
<1>5. CASE ModelFallback
  BY <1>1, <1>5, TurnKeeps DEF ModelFallback, Waiting
<1>6. CASE NativeFails
  BY <1>1, <1>6, TurnKeeps DEF NativeFails
<1>7. CASE NativeReply
  <2>1. PICK text \in BOOLEAN, n \in 0..MaxCalls :
          /\ messages' = IF text THEN Append(messages, "reply") ELSE messages
          /\ IF n = 0
               THEN Ends("completed")
               ELSE /\ phase' = "calls" /\ left' = n /\ spoke' = text
                    /\ UNCHANGED <<stop_reason, tries, rounds>>
    BY <1>7 DEF NativeReply
  <2>2. messages' \in Histories
    BY <1>1, <2>1, HistoryAppends DEF Said, AssistantTags
  <2>3. /\ tokens' \in BOOLEAN /\ UNCHANGED <<engine, input, vetoed, compactions, inputs>> /\ n \in Nat
    <3>1. tokens' \in BOOLEAN
      BY <1>1, <1>7 DEF NativeReply, Counted
    <3>2. n \in Nat
      BY <2>1, TurnBounds
    <3> QED
      BY <1>7, <3>1, <3>2 DEF NativeReply
  <2> QED
    BY <1>1, <2>1, <2>2, <2>3, TurnKeeps DEF Ends, Restart, engine
<1>8. CASE RunNativeCall
  BY <1>1, <1>8, TurnKeeps DEF RunNativeCall, engine
<1>9. CASE ReportResults
  <2>1. messages' \in Histories
    <3>1. <<"results">> \in Bodies /\ <<"calls", "results">> \in Bodies
      BY Additions DEF Said, UserTags, AssistantTags
    <3> QED
      BY <1>1, <1>9, <3>1, HistoryGrows DEF ReportResults
  <2> QED
    BY <1>1, <1>9, <2>1, TurnKeeps DEF ReportResults, Ends, Restart, engine
<1>10. CASE Continue
  <2>1. messages' \in Histories
    <3>1. <<"reply", "continue">> \in Bodies
      BY Additions DEF Said, UserTags, AssistantTags
    <3> QED
      BY <1>1, <1>10, <3>1, HistoryGrows DEF Continue
  <2> QED
    BY <1>1, <1>10, <2>1, TurnKeeps DEF Continue, engine
<1>11. CASE TextReply
  <2>1. messages' \in Histories
    BY <1>1, <1>11, HistoryAppends DEF TextReply, Said, AssistantTags
  <2> QED
    BY <1>1, <1>11, <2>1, TurnKeeps DEF TextReply, Counted, Ends, Restart, engine
<1>12. CASE TextFails
  BY <1>1, <1>12, TurnKeeps DEF TextFails, Ends, Restart, engine
<1> QED
  BY <1>2, <1>3, <1>4, <1>5, <1>6, <1>7, <1>8, <1>9, <1>10, <1>11, <1>12 DEF Engine

LEMMA NextIInv == IInv /\ [EngineNext]_engineVars => IInv'
<1> SUFFICES ASSUME IInv, [EngineNext]_engineVars PROVE IInv'
  OBVIOUS
<1>1. CASE UNCHANGED engineVars
  BY <1>1 DEF engineVars, engine, turn, IInv, Types, PromptFits, PromptAccepted
<1> QED
  BY <1>1, EngineKeeps, CommandsKeep DEF EngineNext

LEMMA Invariance == EngineSpec => []IInv
BY InitIInv, NextIInv, PTL DEF EngineSpec

LEMMA TypesImplyTypeOK == Types => EngineTypeOK /\ CallsAnswered
BY DEF Types, EngineTypeOK, CallsAnswered, Histories, Answered, Said

\* The engine keeps its types: a history begins with its system prompt, and no
\* other message is one.
THEOREM EngineTypeCorrect == EngineSpec => []EngineTypeOK
BY Invariance, TypesImplyTypeOK, PTL DEF IInv

\* Whatever is compacted, cut, retried or loaded, the provider never sees an
\* announced batch of calls without its results.
THEOREM CallsHaveResults == EngineSpec => []CallsAnswered
BY Invariance, TypesImplyTypeOK, PTL DEF IInv

\* A prompt is turned away for the number of turns only if a hook vetoed the
\* compaction, for every limit that exceeds what a compaction keeps.
THEOREM PromptsFit == EngineSpec => []PromptAccepted
BY Invariance, PTL DEF IInv

------------------------------------------------------------------------------
(* The loop or the engine, as they are checked *)

\* Both keep their types, whichever of them a behaviour is about.
THEOREM TurnsTyped == TurnsSpec => []TurnTypesOK
<1> DEFINE BothInv == LoopInv /\ IInv
<1>1. TurnsInit => BothInv
  BY InitLoop, InitIInv DEF TurnsInit
<1>2. BothInv /\ [InLoop(Next) \/ InEngine(EngineNext)]_turnsVars => BothInv'
  BY NextLoop, NextIInv DEF InLoop, InEngine, turnsVars
<1>3. BothInv => TurnTypesOK
  BY TypesAgree, TypesImplyTypeOK DEF LoopInv, IInv, TurnTypesOK
<1> QED
  BY <1>1, <1>2, <1>3, PTL DEF TurnsSpec
=============================================================================
