----------------------------- MODULE ToolProofs -----------------------------
(***************************************************************************)
(* A tool call from the reply that asks for it to its report, for any calls, *)
(* rules, replies and lengths.  The gate keeps its types, what is granted for *)
(* the next submission is gone with it, and a refusal for good holds while *)
(* the mode asks the user.  The report of a command of the shell is what the *)
(* command said.  And the types of what is made of a list along the way: the *)
(* lines of a reply at every pass of the parser, the rows of the handlers of *)
(* the hooks, the texts of a file that is read, edited and searched.       *)
(***************************************************************************)
EXTENDS ToolGate, ChildProcess, ToolCallParser, Hooks, FileTools, ListProofs, FiniteSetTheorems

GateSpec == GateInit /\ [][GateNext]_gateVars

\* Every refusal for good left the rule it suggests.
RefusalsSaid == \A c \in refused : Suggested(c) \in said.deny

\* A call that came past the approval while the mode asks was not refused before.
PastApproval ==
  stage \in {"request", "review", "audit", "run"} /\ Interactive /\ Confirmed(call.tool) /\ ~call.wide
    => call \notin refused

\* A /toolcall takes what was granted for it along before it runs.
ManualTakesNext == way = "manual" /\ stage \in {"run", "report"} => next = {}

GateInv == GateTypeOK /\ RefusalsSaid /\ PastApproval /\ ManualTakesNext /\ NextIsForNext

------------------------------------------------------------------------------
\* The rule a call suggests is a rule.
LEMMA SuggestedIsRule == \A c \in Calls : Suggested(c) \in Rules
BY DEF Rules

\* The first words of a call begin its arguments.
LEMMA FirstWordsPrefix ==
  ASSUME NEW c \in Calls, NEW n \in Nat
  PROVE  IsPrefix(FirstWords(c, n), c.args)
<1> DEFINE k == IF Len(c.args) < n THEN Len(c.args) ELSE n
           words == SubSeq(c.args, 1, k)
<1>1. c.args \in Seq(STRING) /\ Len(c.args) \in Nat
  BY GateBounds
<1>2. k \in 0..Len(c.args)
  BY <1>1
<1> HIDE DEF k
<1>3. Len(words) = k /\ words \in Seq(STRING)
  BY <1>1, <1>2
<1>4. SubSeq(words, 1, Len(words)) = words
  BY <1>3, SubSeqFull
<1>5. IsPrefix(words, c.args)
  BY <1>1, <1>2, <1>3, <1>4 DEF IsPrefix
<1> QED
  BY <1>5 DEF FirstWords, k

\* The rule a call suggests covers that call, unless more than one blank separates
\* its words.
LEMMA SuggestedCovers ==
  ASSUME NEW c \in Calls, ~c.wide
  PROVE  Covers(Suggested(c), c)
<1>1. CASE c.tool = "bash"
  <2>1. Suggested(c) = [tool |-> c.tool, args |-> FirstWords(c, 3)]
    BY <1>1 DEF Suggested
  <2> QED
    BY <2>1, FirstWordsPrefix DEF Covers
<1>2. CASE c.tool \in {"write_file", "edit_file"}
  <2>1. Suggested(c) = [tool |-> c.tool, args |-> FirstWords(c, 1)]
    BY <1>2 DEF Suggested
  <2> QED
    BY <2>1, FirstWordsPrefix DEF Covers
<1>3. CASE c.tool \notin {"bash", "write_file", "edit_file"}
  <2>1. Suggested(c) = [tool |-> c.tool, args |-> <<>>]
    BY <1>3 DEF Suggested
  <2> QED
    BY <2>1 DEF Covers
<1> QED
  BY <1>1, <1>2, <1>3

\* So a call that was refused for good is covered by what was said.
LEMMA RefusedCovered ==
  ASSUME RefusalsSaid, NEW c \in Calls, ~c.wide, c \in refused
  PROVE  Covered(said.deny, c)
BY SuggestedCovers DEF RefusalsSaid, Covered

------------------------------------------------------------------------------
\* The calls of a submission: the first of them, and what is left after it.
LEMMA CallsLeft ==
  ASSUME GateTypeOK, stage \notin {"idle", "report"}
  PROVE  call \in Calls /\ Tail(todo) \in Seq(Calls)
BY HeadTailProperties DEF GateTypeOK, call

LEMMA GateBegins == GateInit => GateInv
<1> SUFFICES ASSUME GateInit PROVE GateInv
  OBVIOUS
<1>1. said \in [allow : SUBSET Rules, deny : SUBSET Rules] /\ todo \in Seq(Calls)
  BY DEF GateInit
<1>2. GateTypeOK
  BY <1>1 DEF GateInit, GateTypeOK, Stages
<1>3. RefusalsSaid /\ PastApproval /\ ManualTakesNext /\ NextIsForNext
  BY DEF GateInit, RefusalsSaid, PastApproval, ManualTakesNext, NextIsForNext
<1> QED
  BY <1>2, <1>3 DEF GateInv

LEMMA GateCommandsKeep ==
  ASSUME GateInv, SetMode \/ ChangeAllow \/ ChangeDeny \/ GrantNext \/ ClearNext
  PROVE  GateInv'
<1> USE DEF GateInv, GateTypeOK, RefusalsSaid, PastApproval, ManualTakesNext, NextIsForNext, Command, Gate, rules
<1>1. CASE SetMode
  BY <1>1 DEF SetMode
<1>2. CASE ChangeAllow
  BY <1>2 DEF ChangeAllow
<1>3. CASE ChangeDeny
  BY <1>3 DEF ChangeDeny
<1>4. CASE GrantNext
  BY <1>4 DEF GrantNext
<1>5. CASE ClearNext
  BY <1>5 DEF ClearNext
<1> QED
  BY <1>1, <1>2, <1>3, <1>4, <1>5

LEMMA SubmissionsKeep ==
  ASSUME GateInv, NativeCalls \/ ManualCall \/ BatchCall \/ UnknownTool
  PROVE  GateInv'
<1> USE DEF GateInv, GateTypeOK, RefusalsSaid, PastApproval, ManualTakesNext, NextIsForNext, BringCalls, rules, Stages
<1>1. ASSUME NEW w \in {"native", "manual", "batch"}, NEW calls \in Seq(Calls), calls # <<>>, BringCalls(w, calls)
      PROVE  GateInv'
  BY <1>1
<1>2. CASE NativeCalls
  <2>1. PICK n \in 1..MaxBatch : \E calls \in [1..n -> Calls] : BringCalls("native", calls)
    BY <1>2 DEF NativeCalls
  <2>2. PICK calls \in [1..n -> Calls] : BringCalls("native", calls)
    BY <2>1
  <2>3. calls \in Seq(Calls) /\ calls # <<>>
    BY <2>1, <2>2, GateBounds
  <2> QED
    BY <2>2, <2>3, <1>1
<1>3. ASSUME NEW c \in Calls PROVE <<c>> \in Seq(Calls) /\ <<c>> # <<>>
  OBVIOUS
<1>4. CASE ManualCall
  BY <1>1, <1>3, <1>4 DEF ManualCall
<1>5. CASE BatchCall
  BY <1>1, <1>3, <1>5 DEF BatchCall
<1>6. CASE UnknownTool
  BY <1>6 DEF UnknownTool
<1> QED
  BY <1>2, <1>4, <1>5, <1>6

------------------------------------------------------------------------------
\* A refusal, with what it leaves of the answers given for good.
LEMMA RefuseKeeps ==
  ASSUME GateInv, stage \notin {"idle", "report"}, Refuse, Rest,
         said' \in [allow : SUBSET Rules, deny : SUBSET Rules], refused' \subseteq Calls, RefusalsSaid'
  PROVE  GateInv'
<1> USE DEF GateInv
<1>1. /\ todo' = Tail(todo) /\ stage' \in {"hook", "report"} /\ (stage' = "hook" => todo' # <<>>)
      /\ entry' = "denied" /\ next' \in {next, {}} /\ (way = "manual" => next' = {})
      /\ UNCHANGED <<mode, allow, deny, due, way>>
  BY DEF Refuse, Onward, Rest
<1>2. GateTypeOK'
  BY <1>1, CallsLeft DEF GateTypeOK, Stages
<1>3. PastApproval' /\ ManualTakesNext' /\ NextIsForNext'
  BY <1>1 DEF PastApproval, ManualTakesNext, NextIsForNext
<1> QED
  BY <1>2, <1>3

\* A step on to a stage where nobody has been asked yet, or where the call passed.
LEMMA PassKeeps ==
  ASSUME GateInv, stage \notin {"idle", "report"}, NEW s \in Stages \ {"idle", "report", "run"}, Passes(s), Rest,
         said' \in [allow : SUBSET Rules, deny : SUBSET Rules], RefusalsSaid', UNCHANGED refused,
         s \in {"request", "review", "audit"} /\ Interactive /\ Confirmed(call.tool) /\ ~call.wide
           => call \notin refused
  PROVE  GateInv'
<1> USE DEF GateInv
<1>1. /\ stage' = s /\ UNCHANGED <<next, todo, entry, refused, mode, allow, deny, due, way>>
  BY DEF Passes, Rest
<1>2. GateTypeOK'
  BY <1>1 DEF GateTypeOK
<1>3. PastApproval'
  BY <1>1 DEF PastApproval, call, Interactive
<1>4. ManualTakesNext' /\ NextIsForNext'
  BY <1>1 DEF ManualTakesNext, NextIsForNext
<1> QED
  BY <1>2, <1>3, <1>4

LEMMA SaidSame ==
  ASSUME GateInv, UNCHANGED answers
  PROVE  /\ said' \in [allow : SUBSET Rules, deny : SUBSET Rules] /\ refused' \subseteq Calls
         /\ RefusalsSaid' /\ UNCHANGED refused
BY DEF GateInv, GateTypeOK, RefusalsSaid, answers

LEMMA GatekeeperKeeps ==
  ASSUME GateInv, Gatekeeper
  PROVE  GateInv'
<1> USE DEF GateInv
<1>1. CASE PreToolUse
  BY <1>1, SaidSame, RefuseKeeps, PassKeeps DEF PreToolUse, Stages
<1>2. CASE CheckRules
  BY <1>2, SaidSame, RefuseKeeps, PassKeeps DEF CheckRules, Stages
<1>3. CASE Approve
  <2>1. CASE Refuse
    BY <1>3, <2>1, SaidSame, RefuseKeeps DEF Approve
  <2>2. CASE ~Refuse
    <3>1. ~(Interactive /\ Confirmed(call.tool) /\ Covered(said.deny, call)) /\ Passes("request") /\ Rest
          /\ stage = "approval" /\ UNCHANGED answers
      BY <1>3, <2>2 DEF Approve
    <3>2. Interactive /\ Confirmed(call.tool) /\ ~call.wide => call \notin refused
      BY <3>1, CallsLeft, RefusedCovered
    <3> QED
      BY <3>1, <3>2, SaidSame, PassKeeps DEF Stages
  <2> QED
    BY <2>1, <2>2
<1>4. CASE AnswerOnce \/ AnswerForGood
  <2>1. /\ stage = "approval" /\ Rest /\ call \in Calls /\ Suggested(call) \in Rules
        /\ ~Covered(said.deny, call)
    BY <1>4, CallsLeft, SuggestedIsRule DEF AnswerOnce, AnswerForGood, MustAsk, Covered
  <2>2. ~call.wide => call \notin refused
    BY <2>1, RefusedCovered
  <2>3. CASE UNCHANGED answers
    <3>1. UNCHANGED answers /\ (Refuse \/ Passes("request"))
      BY <1>4, <2>3 DEF AnswerOnce, AnswerForGood
    <3> QED
      BY <2>1, <2>2, <3>1, SaidSame, RefuseKeeps, PassKeeps DEF Stages
  <2>4. CASE /\ Passes("request") /\ said' = [said EXCEPT !.allow = @ \cup {Suggested(call)}]
             /\ UNCHANGED refused
    <3>1. said' \in [allow : SUBSET Rules, deny : SUBSET Rules] /\ said'.deny = said.deny
      BY <2>1, <2>4 DEF GateTypeOK
    <3>2. RefusalsSaid'
      BY <2>4, <3>1 DEF RefusalsSaid
    <3> QED
      BY <2>1, <2>2, <2>4, <3>1, <3>2, PassKeeps DEF Stages
  <2>5. CASE /\ Refuse /\ said' = [said EXCEPT !.deny = @ \cup {Suggested(call)}]
             /\ refused' = refused \cup {call}
    <3>1. /\ said' \in [allow : SUBSET Rules, deny : SUBSET Rules]
          /\ said'.deny = said.deny \cup {Suggested(call)}
      BY <2>1, <2>5 DEF GateTypeOK
    <3>2. RefusalsSaid' /\ refused' \subseteq Calls
      BY <2>1, <2>5, <3>1 DEF RefusalsSaid, GateTypeOK
    <3> QED
      BY <2>1, <2>5, <3>1, <3>2, RefuseKeeps
  <2> QED
    BY <1>4, <2>3, <2>4, <2>5 DEF AnswerOnce, AnswerForGood
<1>5. CASE PermissionRequest
  BY <1>5, SaidSame, RefuseKeeps, PassKeeps DEF PermissionRequest, Stages, PastApproval
<1>6. CASE AutoReview
  <2>1. CASE Refuse
    BY <1>6, <2>1, SaidSame, RefuseKeeps DEF AutoReview
  <2>2. CASE Passes("audit")
    BY <1>6, <2>2, SaidSame, PassKeeps DEF AutoReview, Stages, PastApproval
  <2>3. CASE way = "batch" /\ Passes("run")
    <3>1. /\ stage = "review" /\ stage' = "run" /\ way = "batch"
          /\ UNCHANGED <<mode, rules, way, todo, entry, refused, due>>
      BY <1>6, <2>3 DEF AutoReview, Passes, Rest, answers, rules
    <3> QED
      BY <3>1 DEF GateTypeOK, RefusalsSaid, PastApproval, ManualTakesNext, NextIsForNext, Stages, rules,
                  call, Interactive
  <2> QED
    BY <1>6, <2>1, <2>2, <2>3 DEF AutoReview
<1>7. CASE AuditAllowed
  <2>1. /\ stage = "audit" /\ stage' = "run" /\ next' \in {next, {}} /\ (way = "manual" => next' = {})
        /\ entry' = "allowed" /\ UNCHANGED <<mode, allow, deny, said, way, todo, refused, due>>
    BY <1>7 DEF AuditAllowed, Rest, answers
  <2> QED
    BY <2>1 DEF GateTypeOK, RefusalsSaid, PastApproval, ManualTakesNext, NextIsForNext, Stages, call, Interactive
<1>8. CASE RunTool
  <2>1. /\ todo' = Tail(todo) /\ stage' \in {"hook", "report"} /\ (stage' = "hook" => todo' # <<>>)
        /\ stage = "run" /\ entry' \in {"none", "allowed"}
        /\ UNCHANGED <<mode, allow, deny, next, said, way, refused, due>>
    BY <1>8 DEF RunTool, Onward, Rest, answers
  <2> QED
    BY <2>1, CallsLeft
    DEF GateTypeOK, RefusalsSaid, PastApproval, ManualTakesNext, NextIsForNext, Stages
<1>9. CASE Report
  <2>1. /\ stage = "report" /\ stage' = "idle" /\ next' = (IF way = "manual" THEN next ELSE {})
        /\ UNCHANGED <<mode, allow, deny, said, way, todo, entry, refused, due>>
    BY <1>9 DEF Report, Rest, answers
  <2> QED
    BY <2>1 DEF GateTypeOK, RefusalsSaid, PastApproval, ManualTakesNext, NextIsForNext, Stages
<1> QED
  BY <1>1, <1>2, <1>3, <1>4, <1>5, <1>6, <1>7, <1>8, <1>9 DEF Gatekeeper

LEMMA GateStep == GateInv /\ [GateNext]_gateVars => GateInv'
<1> SUFFICES ASSUME GateInv, [GateNext]_gateVars PROVE GateInv'
  OBVIOUS
<1>1. CASE UNCHANGED gateVars
  BY <1>1
  DEF gateVars, rules, GateInv, GateTypeOK, RefusalsSaid, PastApproval, ManualTakesNext, NextIsForNext, call, Interactive
<1> QED
  BY <1>1, GateCommandsKeep, SubmissionsKeep, GatekeeperKeeps DEF GateNext

LEMMA GateInvariant == GateSpec => []GateInv
BY GateBegins, GateStep, PTL DEF GateSpec

LEMMA PastApprovalHolds == GateInv => DenialHolds
BY DEF GateInv, PastApproval, DenialHolds

\* The gate keeps its types: until a submission reports there is a call at hand.
THEOREM GateTypeCorrect == GateSpec => []GateTypeOK
BY GateInvariant, PTL DEF GateInv

\* What is granted for the next submission with tool calls is gone when it is over.
THEOREM GrantedOnce == GateSpec => []NextIsForNext
BY GateInvariant, PTL DEF GateInv

\* A call refused for good does not run while the mode asks the user.
THEOREM RefusalsHold == GateSpec => []DenialHolds
BY GateInvariant, PastApprovalHolds, PTL

------------------------------------------------------------------------------
\* A command of the shell.

\* How many of the first pieces are of a pipe, one piece after another.
LEMMA PiecesCounted ==
  ASSUME NEW s, NEW p
  PROVE  /\ \A n \in Nat : PiecesOf(s, n, p) \in Nat
         /\ PiecesOf(s, 0, p) = 0
         /\ \A n \in Nat : PiecesOf(s, n + 1, p) = PiecesOf(s, n, p) + (IF s[n + 1].from = p THEN 1 ELSE 0)
<1> DEFINE of(n) == {i \in 1..n : s[i].from = p}
<1>1. \A n \in Nat : IsFiniteSet(of(n)) /\ Cardinality(of(n)) \in Nat
  <2>1. \A n \in Nat : of(n) \in SUBSET (1..n) /\ IsFiniteSet(1..n)
    BY FS_Interval
  <2> HIDE DEF of
  <2> QED
    BY <2>1, FS_Subset, FS_CardinalityType
<1>2. of(0) = {}
  OBVIOUS
<1>3. \A n \in Nat : n + 1 \notin of(n) /\ of(n + 1) = IF s[n + 1].from = p THEN of(n) \cup {n + 1} ELSE of(n)
  <2> SUFFICES ASSUME NEW n \in Nat
               PROVE  n + 1 \notin of(n) /\ of(n + 1) = IF s[n + 1].from = p THEN of(n) \cup {n + 1} ELSE of(n)
    OBVIOUS
  <2>1. n + 1 \notin 1..n /\ 1..(n + 1) = 1..n \cup {n + 1}
    OBVIOUS
  <2> QED
    BY <2>1, Zenon
<1>4. \A n : PiecesOf(s, n, p) = Cardinality(of(n))
  BY DEF PiecesOf
<1> HIDE DEF of
<1>5. PiecesOf(s, 0, p) = 0
  BY <1>2, <1>4, FS_EmptySet
<1>6. ASSUME NEW n \in Nat
      PROVE  PiecesOf(s, n + 1, p) = PiecesOf(s, n, p) + (IF s[n + 1].from = p THEN 1 ELSE 0)
  <2>1. IsFiniteSet(of(n)) /\ Cardinality(of(n)) \in Nat /\ n + 1 \notin of(n)
    BY <1>1, <1>3
  <2>2. CASE s[n + 1].from = p
    <3>1. Cardinality(of(n + 1)) = Cardinality(of(n)) + 1
      BY <1>3, <2>1, <2>2, FS_AddElement
    <3> QED
      BY <1>4, <2>2, <3>1
  <2>3. CASE s[n + 1].from # p
    <3>1. of(n + 1) = of(n)
      BY <1>3, <2>3
    <3> QED
      BY <1>4, <2>1, <2>3, <3>1
  <2> QED
    BY <2>2, <2>3
<1> QED
  BY <1>1, <1>4, <1>5, <1>6

\* Lists that agree in the first pieces count the same.
LEMMA PiecesAlike ==
  ASSUME NEW s, NEW t, NEW n \in Nat, NEW p, \A i \in 1..n : s[i] = t[i]
  PROVE  PiecesOf(s, n, p) = PiecesOf(t, n, p)
<1>1. {i \in 1..n : s[i].from = p} = {i \in 1..n : t[i].from = p}
  OBVIOUS
<1> QED
  BY <1>1, Zenon DEF PiecesOf

LinePieces == [from : Pipes, line : Nat]
Queue == Seq(LinePieces)

\* The elements of a list of pieces.
LEMMA QueueKnown ==
  \A s \in Queue : /\ Len(s) \in Nat /\ DOMAIN s = 1..Len(s)
                   /\ \A i \in 1..Len(s) : s[i] \in LinePieces /\ s[i].from \in Pipes /\ s[i].line \in Nat
<1>1. \A x \in LinePieces : x.from \in Pipes /\ x.line \in Nat
  BY DEF LinePieces
<1>2. \A s \in Seq(LinePieces) : Len(s) \in Nat /\ DOMAIN s = 1..Len(s) /\ \A i \in 1..Len(s) : s[i] \in LinePieces
  OBVIOUS
<1> QED
  BY <1>1, <1>2 DEF Queue

\* The pieces of a list that goes on with the first of another.
LEMMA GoesOn ==
  ASSUME NEW s \in Queue, NEW t \in Queue, NEW m \in 0..Len(t)
  PROVE  LET all == s \o SubSeq(t, 1, m)
         IN /\ all \in Queue /\ Len(all) = Len(s) + m
            /\ \A i \in 1..Len(s) : all[i] = s[i]
            /\ \A i \in 1..m : all[Len(s) + i] = t[i]
            /\ \A p : \A k \in 0..m : PiecesOf(all, Len(s) + k, p) = PiecesOf(s, Len(s), p) + PiecesOf(t, k, p)
<1> DEFINE all == s \o SubSeq(t, 1, m)
<1>1. Len(s) \in Nat /\ Len(t) \in Nat /\ m \in Nat /\ s \in Seq(LinePieces) /\ t \in Seq(LinePieces)
  BY QueueKnown DEF Queue
<1>2. SubSeq(t, 1, m) \in Seq(LinePieces) /\ Len(SubSeq(t, 1, m)) = m /\ \A i \in 1..m : SubSeq(t, 1, m)[i] = t[i]
  BY <1>1
<1>3. /\ all \in Seq(LinePieces) /\ Len(all) = Len(s) + m
      /\ \A i \in 1..Len(s) : all[i] = s[i]
      /\ \A i \in 1..m : all[Len(s) + i] = t[i]
  <2> DEFINE u == SubSeq(t, 1, m)
  <2>1. u \in Seq(LinePieces) /\ Len(u) = m /\ \A i \in 1..m : u[i] = t[i]
    BY <1>2
  <2> HIDE DEF u
  <2>2. /\ s \o u \in Seq(LinePieces) /\ Len(s \o u) = Len(s) + m
        /\ \A i \in 1..Len(s) : (s \o u)[i] = s[i]
        /\ \A i \in 1..m : (s \o u)[Len(s) + i] = u[i]
    BY <1>1, <2>1
  <2> QED
    BY <2>1, <2>2 DEF u
<1> HIDE DEF all
<1>4. ASSUME NEW p, NEW k \in 0..m
      PROVE  PiecesOf(all, Len(s) + k, p) = PiecesOf(s, Len(s), p) + PiecesOf(t, k, p)
  <2> DEFINE wrong == {n \in 0..m : PiecesOf(all, Len(s) + n, p) # PiecesOf(s, Len(s), p) + PiecesOf(t, n, p)}
  <2> SUFFICES ASSUME wrong # {} PROVE FALSE
    BY Zenon
  <2>1. PICK n \in wrong : \A i \in wrong : n <= i
    <3>1. wrong \in SUBSET Nat
      BY <1>1
    <3> HIDE DEF wrong
    <3> QED
      BY <3>1, LeastOf
  <2>2. n \in 0..m /\ PiecesOf(all, Len(s) + n, p) # PiecesOf(s, Len(s), p) + PiecesOf(t, n, p)
    BY <2>1
  <2>3. PiecesOf(all, Len(s), p) = PiecesOf(s, Len(s), p) /\ PiecesOf(t, 0, p) = 0 /\ PiecesOf(s, Len(s), p) \in Nat
    <3>1. \A i \in 1..Len(s) : all[i] = s[i]
      BY <1>3
    <3>2. PiecesOf(all, Len(s), p) = PiecesOf(s, Len(s), p)
      <4>1. Len(s) \in Nat
        BY <1>1
      <4> QED
        BY ONLY <3>1, <4>1, PiecesAlike
    <3> QED
      BY <1>1, <3>2, PiecesCounted, Zenon
  <2>4. n # 0
    BY <1>1, <2>2, <2>3
  <2>5. PICK i \in Nat : n = i + 1 /\ i \in 0..m /\ i + 1 \in 1..m
    BY <1>1, <2>2, <2>4
  <2>6. PiecesOf(all, Len(s) + i, p) = PiecesOf(s, Len(s), p) + PiecesOf(t, i, p)
    <3>1. ~(n <= i)
      BY <2>5
    <3>2. i \notin wrong
      <4> HIDE DEF wrong
      <4> QED
        BY <2>1, <3>1
    <3> QED
      BY <2>5, <3>2
  <2>7. all[Len(s) + i + 1] = t[i + 1] /\ Len(s) + i \in Nat /\ Len(s) + (i + 1) = Len(s) + i + 1
    BY <1>1, <1>3, <2>5
  <2>8. /\ PiecesOf(all, Len(s) + i + 1, p) = PiecesOf(all, Len(s) + i, p) + (IF t[i + 1].from = p THEN 1 ELSE 0)
        /\ PiecesOf(t, i + 1, p) = PiecesOf(t, i, p) + (IF t[i + 1].from = p THEN 1 ELSE 0)
        /\ PiecesOf(t, i, p) \in Nat
    <3>1. PiecesOf(all, (Len(s) + i) + 1, p) = PiecesOf(all, Len(s) + i, p) + (IF all[(Len(s) + i) + 1].from = p THEN 1 ELSE 0)
      BY <2>7, PiecesCounted, Zenon
    <3>2. /\ PiecesOf(t, i + 1, p) = PiecesOf(t, i, p) + (IF t[i + 1].from = p THEN 1 ELSE 0)
          /\ PiecesOf(t, i, p) \in Nat
      BY <2>5, PiecesCounted, Zenon
    <3>3. all[(Len(s) + i) + 1] = t[i + 1]
      BY <2>7
    <3> QED
      BY <3>1, <3>2, <3>3, Zenon
  <2> QED
    BY <2>2, <2>3, <2>5, <2>6, <2>7, <2>8
<1> QED
  BY <1>3, <1>4 DEF all, Queue

\* The lines of a pipe among the pieces of a list follow the first ones.
Follows(s, base, p) == \A i \in 1..Len(s) : s[i].from = p => s[i].line = base + PiecesOf(s, i, p)

\* One more piece at the end.
LEMMA OnePieceMore ==
  ASSUME NEW s \in Queue, NEW x \in LinePieces, NEW p \in Pipes, NEW base \in Nat, Follows(s, base, p),
         x.from = p => x.line = base + PiecesOf(s, Len(s), p) + 1
  PROVE  /\ Append(s, x) \in Queue /\ Len(Append(s, x)) = Len(s) + 1
         /\ Follows(Append(s, x), base, p)
         /\ PiecesOf(Append(s, x), Len(Append(s, x)), p) = PiecesOf(s, Len(s), p) + (IF x.from = p THEN 1 ELSE 0)
<1> DEFINE t == Append(s, x)
<1>1. /\ Len(s) \in Nat /\ t \in Queue /\ Len(t) = Len(s) + 1 /\ t[Len(s) + 1] = x
      /\ \A i \in 1..Len(s) : t[i] = s[i]
  BY QueueKnown DEF Queue
<1> HIDE DEF t
<1>2. \A i \in 1..Len(s) : PiecesOf(t, i, p) = PiecesOf(s, i, p)
  <2> SUFFICES ASSUME NEW i \in 1..Len(s) PROVE PiecesOf(t, i, p) = PiecesOf(s, i, p)
    OBVIOUS
  <2>1. i \in Nat
    BY <1>1
  <2>2. \A j \in 1..i : t[j] = s[j]
    BY <1>1
  <2> QED
    BY ONLY <2>1, <2>2, PiecesAlike
<1>3. PiecesOf(t, Len(s), p) = PiecesOf(s, Len(s), p)
  <2>1. Len(s) \in Nat
    BY <1>1
  <2>2. \A j \in 1..Len(s) : t[j] = s[j]
    BY <1>1
  <2> QED
    BY ONLY <2>1, <2>2, PiecesAlike
<1>4. PiecesOf(t, Len(t), p) = PiecesOf(s, Len(s), p) + (IF x.from = p THEN 1 ELSE 0)
  <2>1. PiecesOf(t, Len(s) + 1, p) = PiecesOf(t, Len(s), p) + (IF t[Len(s) + 1].from = p THEN 1 ELSE 0)
    BY <1>1, PiecesCounted, Zenon
  <2> QED
    BY <1>1, <1>3, <2>1
<1>5. PiecesOf(s, Len(s), p) \in Nat
  BY <1>1, PiecesCounted
<1>6. Follows(t, base, p)
  <2> SUFFICES ASSUME NEW i \in 1..Len(t), t[i].from = p PROVE t[i].line = base + PiecesOf(t, i, p)
    BY DEF Follows
  <2>1. CASE i \in 1..Len(s)
    BY <1>1, <1>2, <2>1 DEF Follows
  <2>2. CASE i = Len(s) + 1
    BY <1>1, <1>4, <1>5, <2>2
  <2> QED
    BY <1>1, <2>1, <2>2
<1> QED
  BY <1>1, <1>4, <1>6 DEF t

\* A list that goes on with the first pieces of another.
LEMMA FollowsOn ==
  ASSUME NEW s \in Queue, NEW t \in Queue, NEW m \in 0..Len(t), NEW p \in Pipes, NEW d \in Nat,
         Follows(s, 0, p), Follows(t, PiecesOf(s, Len(s), p) + d, p), m # 0 => d = 0
  PROVE  LET all == s \o SubSeq(t, 1, m)
         IN /\ Follows(all, 0, p)
            /\ PiecesOf(all, Len(all), p) = PiecesOf(s, Len(s), p) + PiecesOf(t, m, p)
<1> DEFINE all == s \o SubSeq(t, 1, m)
<1>1. /\ all \in Queue /\ Len(all) = Len(s) + m
      /\ \A i \in 1..Len(s) : all[i] = s[i]
      /\ \A i \in 1..m : all[Len(s) + i] = t[i]
      /\ \A q : \A k \in 0..m : PiecesOf(all, Len(s) + k, q) = PiecesOf(s, Len(s), q) + PiecesOf(t, k, q)
  BY GoesOn
<1> HIDE DEF all
<1>2. Len(s) \in Nat /\ Len(t) \in Nat /\ m \in Nat
  BY QueueKnown
<1>3. ASSUME NEW i \in 1..Len(all), all[i].from = p PROVE all[i].line = 0 + PiecesOf(all, i, p)
  <2>1. CASE i \in 1..Len(s)
    <3>1. PiecesOf(all, i, p) = PiecesOf(s, i, p)
      <4>1. i \in Nat
        BY <2>1
      <4>2. \A j \in 1..i : all[j] = s[j]
        BY <1>1, <1>2, <2>1
      <4> QED
        BY ONLY <4>1, <4>2, PiecesAlike
    <3> QED
      BY <1>1, <1>3, <2>1, <3>1 DEF Follows
  <2>2. CASE i \notin 1..Len(s)
    <3>1. PICK k \in 1..m : i = Len(s) + k
      <4>1. i - Len(s) \in 1..m /\ i = Len(s) + (i - Len(s))
        BY <1>1, <1>2, <2>2
      <4> QED
        BY <4>1
    <3>2. all[i] = t[k] /\ k \in 1..Len(t) /\ k \in 0..m /\ d = 0
      BY <1>1, <1>2, <3>1
    <3>3. t[k].line = PiecesOf(s, Len(s), p) + d + PiecesOf(t, k, p)
      BY <1>3, <3>2 DEF Follows
    <3>4. PiecesOf(all, i, p) = PiecesOf(s, Len(s), p) + PiecesOf(t, k, p)
      BY <1>1, <3>1, <3>2
    <3>5. PiecesOf(s, Len(s), p) \in Nat /\ PiecesOf(t, k, p) \in Nat
      <4>1. k \in Nat
        BY <1>2
      <4> QED
        BY <1>2, <4>1, PiecesCounted, Zenon
    <3> QED
      BY <3>2, <3>3, <3>4, <3>5
  <2> QED
    BY <2>1, <2>2
<1>4. PiecesOf(all, Len(all), p) = PiecesOf(s, Len(s), p) + PiecesOf(t, m, p)
  BY <1>1, <1>2
<1> QED
  BY <1>3, <1>4 DEF all, Follows

\* The list without pieces.
LEMMA NothingThere ==
  /\ <<>> \in Queue /\ Len(<<>>) = 0
  /\ \A base, p : Follows(<<>>, base, p) /\ PiecesOf(<<>>, 0, p) = 0
<1>1. <<>> \in Queue /\ Len(<<>>) = 0
  BY DEF Queue
<1>2. \A base, p : Follows(<<>>, base, p)
  BY <1>1 DEF Follows
<1> QED
  BY <1>1, <1>2, PiecesCounted

\* Further pieces only add.
LEMMA PiecesGrow ==
  ASSUME NEW s, NEW p, NEW n \in Nat, NEW m \in 0..n
  PROVE  PiecesOf(s, m, p) <= PiecesOf(s, n, p)
<1>1. {i \in 1..m : s[i].from = p} \subseteq {i \in 1..n : s[i].from = p}
  OBVIOUS
<1>2. IsFiniteSet({i \in 1..n : s[i].from = p})
  <2>1. IsFiniteSet(1..n) /\ {i \in 1..n : s[i].from = p} \subseteq 1..n
    BY FS_Interval
  <2> QED
    BY <2>1, FS_Subset
<1> QED
  BY <1>1, <1>2, FS_Subset DEF PiecesOf

------------------------------------------------------------------------------
ChildSpec == ChildInit /\ [][ChildNext]_childVars

LineTexts == Seq(Kinds)
HasRead(p) == Len(written[p]) - pipe[p]
SaidOf(p) == PiecesOf(lines, Len(lines), p) + dropped[p]

\* The types, with the lists of lines as one function of the pipes.
ChildTypes ==
  /\ runner \in {"bash", "bench", "hook"}
  /\ shell \in {"running", "ok", "failed", "killed"} /\ helper \in {"none", "running", "gone"}
  /\ written \in [Pipes -> LineTexts] /\ pipe \in [Pipes -> 0..PipeSize]
  /\ \A p \in Pipes : pipe[p] <= Len(written[p])
  /\ reader \in [Pipes -> {"none", "reading", "ended"}]
  /\ channel \in Queue /\ lines \in Queue /\ dropped \in [Pipes -> Nat] /\ late \in BOOLEAN
  /\ waiter \in {"watching", "joining", "done"}
  /\ verdict \in {"none", "ok", "failed", "timeout"}

\* The lines collected are the first of their pipe, those in the channel the next
\* after them and the dropped ones, and then comes what is to be read.
InLine ==
  \A p \in Pipes :
    /\ Follows(lines, 0, p) /\ Follows(channel, SaidOf(p), p)
    /\ SaidOf(p) + PiecesOf(channel, Len(channel), p) = HasRead(p)

\* A line is dropped only when there is no room, and there is none after it.
CaptureFull == \A p \in Pipes : dropped[p] # 0 => Len(lines) >= MaxCapture

\* Only bash has a channel.
Direct == runner # "bash" => channel = <<>> /\ \A p \in Pipes : dropped[p] = 0

\* What bash has read was text.
TextRead == runner = "bash" => \A p \in Pipes : \A i \in 1..HasRead(p) : written[p][i] # "binary"

\* A reader ended at a line that is not text, or at the end of its pipe.
PipesEnded == \A p \in Pipes : reader[p] = "ended" => IF pipe[p] > 0 THEN Stops(p) ELSE ~Alive

\* The thread is done when it left a hook, or when nobody can tell it more.
Outcome ==
  /\ verdict = "timeout" => late
  /\ waiter = "done" =>
       \/ runner = "hook" /\ verdict = "timeout"
       \/ channel = <<>> /\ \A p \in Pipes : reader[p] = "ended"

ChildInv == ChildTypes /\ InLine /\ CaptureFull /\ Direct /\ TextRead /\ PipesEnded /\ Outcome

LEMMA LineTextsKnown ==
  /\ <<>> \in LineTexts /\ Len(<<>>) = 0
  /\ \A s \in LineTexts : Len(s) \in Nat
  /\ \A s \in LineTexts, x \in Kinds : /\ Append(s, x) \in LineTexts /\ Len(Append(s, x)) = Len(s) + 1
                               /\ \A i \in 1..Len(s) : Append(s, x)[i] = s[i]
BY DEF LineTexts

LEMMA SaidNumber == ChildTypes => \A p \in Pipes : SaidOf(p) \in Nat /\ PiecesOf(lines, Len(lines), p) \in Nat
<1> SUFFICES ASSUME ChildTypes, NEW p \in Pipes PROVE SaidOf(p) \in Nat /\ PiecesOf(lines, Len(lines), p) \in Nat
  OBVIOUS
<1>1. PiecesOf(lines, Len(lines), p) \in Nat
  BY QueueKnown, PiecesCounted DEF ChildTypes
<1> QED
  BY <1>1 DEF ChildTypes, SaidOf

LEMMA InitChild == ChildInit => ChildInv
<1> SUFFICES ASSUME ChildInit PROVE ChildInv
  OBVIOUS
<1>1. ChildTypes
  <2>1. /\ written \in [Pipes -> LineTexts] /\ pipe \in [Pipes -> 0..PipeSize]
        /\ \A p \in Pipes : pipe[p] <= Len(written[p])
    BY LineTextsKnown, ChildBounds DEF ChildInit
  <2>2. reader \in [Pipes -> {"none", "reading", "ended"}] /\ dropped \in [Pipes -> Nat]
    BY DEF ChildInit
  <2>3. channel \in Queue /\ lines \in Queue
    BY NothingThere DEF ChildInit
  <2> QED
    BY <2>1, <2>2, <2>3 DEF ChildInit, ChildTypes
<1>2. InLine
  BY NothingThere, LineTextsKnown DEF ChildInit, InLine, SaidOf, HasRead
<1>3. CaptureFull /\ Direct /\ PipesEnded /\ Outcome
  BY DEF ChildInit, CaptureFull, Direct, PipesEnded, Outcome
<1>4. TextRead
  BY LineTextsKnown DEF ChildInit, TextRead, HasRead
<1> QED
  BY <1>1, <1>2, <1>3, <1>4 DEF ChildInv

\* The lines collected and the channel as drain leaves them.
LEMMA Drained ==
  ASSUME ChildInv, Drain, pipe' = pipe, written' = written
  PROVE  /\ lines' \in Queue /\ channel' = <<>> /\ dropped' \in [Pipes -> Nat]
         /\ InLine' /\ CaptureFull'
         /\ runner # "bash" => \A p \in Pipes : dropped'[p] = 0
<1>m. PICK m : m = Captured
  OBVIOUS
<1>1. /\ Len(lines) \in Nat /\ Len(channel) \in Nat /\ MaxCapture \in Nat
      /\ channel \in Queue /\ lines \in Queue /\ dropped \in [Pipes -> Nat]
  BY QueueKnown, ChildBounds DEF ChildInv, ChildTypes
<1>2. /\ m \in 0..Len(channel)
      /\ m # 0 => Len(lines) < MaxCapture
      /\ m # Len(channel) => Len(lines) + m >= MaxCapture
  BY <1>1, <1>m DEF Captured, Room
<1>3. m \in Nat
  BY <1>1, <1>2
<1>4. PICK ls, dr : /\ ls = lines' /\ dr = dropped' /\ ls = lines \o SubSeq(channel, 1, m) /\ channel' = <<>>
                    /\ dr = [p \in Pipes |-> dropped[p] + (PiecesOf(channel, Len(channel), p) - PiecesOf(channel, m, p))]
  BY <1>m DEF Drain
<1>5. ls \in Queue /\ Len(ls) = Len(lines) + m
  <2>1. LET all == lines \o SubSeq(channel, 1, m) IN all \in Queue /\ Len(all) = Len(lines) + m
    BY <1>1, <1>2, GoesOn
  <2> QED
    BY <1>4, <2>1
<1>6. ASSUME NEW p \in Pipes
      PROVE  /\ dr[p] = dropped[p] + (PiecesOf(channel, Len(channel), p) - PiecesOf(channel, m, p)) /\ dr[p] \in Nat
             /\ dr[p] # 0 => Len(ls) >= MaxCapture
             /\ Follows(ls, 0, p) /\ PiecesOf(ls, Len(ls), p) + dr[p] = HasRead(p)
             /\ runner # "bash" => dr[p] = 0
  <2>1. /\ PiecesOf(channel, Len(channel), p) \in Nat /\ PiecesOf(channel, m, p) \in Nat
        /\ PiecesOf(lines, Len(lines), p) \in Nat
    BY <1>1, <1>3, PiecesCounted
  <2>2. PiecesOf(channel, m, p) <= PiecesOf(channel, Len(channel), p)
    BY <1>1, <1>2, PiecesGrow
  <2>3. /\ dr[p] = dropped[p] + (PiecesOf(channel, Len(channel), p) - PiecesOf(channel, m, p))
        /\ dropped[p] \in Nat
    BY <1>1, <1>4
  <2>4. dr[p] \in Nat
    BY <2>1, <2>2, <2>3
  <2>5. dr[p] # 0 => Len(ls) >= MaxCapture
    <3>1. dropped[p] # 0 => Len(lines) >= MaxCapture
      BY DEF ChildInv, CaptureFull
    <3>2. CASE m = Len(channel)
      <4>1. dr[p] = dropped[p]
        BY <2>1, <2>3, <3>2
      <4> QED
        BY <1>1, <1>3, <1>5, <3>1, <4>1
    <3>3. CASE m # Len(channel)
      BY <1>2, <1>5, <3>3
    <3> QED
      BY <3>2, <3>3
  <2>6. Follows(ls, 0, p) /\ PiecesOf(ls, Len(ls), p) = PiecesOf(lines, Len(lines), p) + PiecesOf(channel, m, p)
    <3>1. Follows(lines, 0, p) /\ Follows(channel, PiecesOf(lines, Len(lines), p) + dropped[p], p)
      BY DEF ChildInv, InLine, SaidOf
    <3>2. m # 0 => dropped[p] = 0
      <4>1. dropped[p] # 0 => Len(lines) >= MaxCapture
        BY DEF ChildInv, CaptureFull
      <4> QED
        BY <1>1, <1>2, <4>1
    <3>3. LET all == lines \o SubSeq(channel, 1, m)
          IN /\ Follows(all, 0, p)
             /\ PiecesOf(all, Len(all), p) = PiecesOf(lines, Len(lines), p) + PiecesOf(channel, m, p)
      BY <1>1, <1>2, <2>3, <3>1, <3>2, FollowsOn
    <3> QED
      BY <1>4, <3>3
  <2>7. PiecesOf(lines, Len(lines), p) + dropped[p] + PiecesOf(channel, Len(channel), p) = HasRead(p)
    BY DEF ChildInv, InLine, SaidOf
  <2>8. PiecesOf(ls, Len(ls), p) + dr[p] = HasRead(p)
    BY <2>1, <2>3, <2>6, <2>7
  <2>9. runner # "bash" => dr[p] = 0
    <3>1. runner # "bash" => dropped[p] = 0 /\ Len(channel) = 0
      BY NothingThere DEF ChildInv, Direct
    <3>2. Len(channel) = 0 => m = Len(channel)
      BY <1>1, <1>2
    <3> QED
      BY <2>1, <2>3, <3>1, <3>2
  <2> QED
    BY <2>3, <2>4, <2>5, <2>6, <2>8, <2>9
<1>7. dr \in [Pipes -> Nat]
  BY <1>4, <1>6
<1>8. CaptureFull'
  BY <1>4, <1>6 DEF CaptureFull
<1>9. ASSUME NEW p \in Pipes
      PROVE  /\ Follows(lines', 0, p) /\ Follows(channel', SaidOf(p)', p)
             /\ SaidOf(p)' + PiecesOf(channel', Len(channel'), p) = HasRead(p)'
  <2>1. SaidOf(p)' = HasRead(p) /\ HasRead(p)' = HasRead(p) /\ SaidOf(p)' \in Nat
    <3>1. PiecesOf(ls, Len(ls), p) \in Nat
      BY <1>5, QueueKnown, PiecesCounted
    <3>2. SaidOf(p)' = PiecesOf(ls, Len(ls), p) + dr[p]
      BY <1>4 DEF SaidOf
    <3> QED
      BY <1>6, <3>1, <3>2 DEF HasRead
  <2>2. PiecesOf(channel', Len(channel'), p) = 0 /\ Follows(channel', SaidOf(p)', p)
    BY <1>4, NothingThere
  <2>3. Follows(lines', 0, p)
    BY <1>4, <1>6
  <2> QED
    BY <2>1, <2>2, <2>3
<1>10. InLine'
  BY <1>9 DEF InLine
<1> QED
  BY <1>4, <1>5, <1>6, <1>7, <1>8, <1>10

\* What the processes do, beside the lines they write, changes nothing collected.
LEMMA KeptInLine ==
  ASSUME ChildInv, ChildTypes', UNCHANGED <<runner, written, pipe, reader, channel, lines, dropped>>,
         Alive' => Alive, verdict' = "timeout" => late',
         waiter' = "done" => (waiter = "done" /\ verdict' = verdict) \/ (runner = "hook" /\ verdict' = "timeout")
  PROVE  ChildInv'
<1>1. InLine' /\ CaptureFull'
  BY DEF ChildInv, InLine, CaptureFull, SaidOf, HasRead
<1>2. Direct'
  BY DEF ChildInv, Direct
<1>3. TextRead'
  BY DEF ChildInv, TextRead, HasRead
<1>4. PipesEnded'
  BY DEF ChildInv, PipesEnded, Stops, Position
<1>5. Outcome'
  BY DEF ChildInv, Outcome
<1> QED
  BY <1>1, <1>2, <1>3, <1>4, <1>5 DEF ChildInv

\* A line that is written is behind those that have been read.
LEMMA WriteLineKeeps == ASSUME ChildInv, WriteLine PROVE ChildInv'
<1>1. PICK p \in Pipes, kind \in Kinds :
         /\ reader[p] # "ended" /\ pipe[p] < PipeSize
         /\ written' = [written EXCEPT ![p] = Append(@, kind)]
         /\ pipe' = [pipe EXCEPT ![p] = @ + 1]
  BY DEF WriteLine
<1>2. /\ Alive
      /\ UNCHANGED <<runner, shell, helper, late, reader, channel, lines, dropped, waiter, verdict>>
  BY DEF WriteLine, Collected
<1>3. /\ written \in [Pipes -> LineTexts] /\ pipe \in [Pipes -> 0..PipeSize] /\ PipeSize \in Nat
      /\ \A q \in Pipes : pipe[q] <= Len(written[q])
  BY ChildBounds DEF ChildInv, ChildTypes
<1>4. PICK w, h : w = written' /\ h = pipe'
  BY Zenon
<1>5. /\ w \in [Pipes -> LineTexts] /\ h \in [Pipes -> 0..PipeSize]
      /\ Len(w[p]) = Len(written[p]) + 1 /\ h[p] = pipe[p] + 1
      /\ \A i \in 1..Len(written[p]) : w[p][i] = written[p][i]
      /\ \A q \in Pipes : q # p => w[q] = written[q] /\ h[q] = pipe[q]
  <2>1. /\ w = [written EXCEPT ![p] = Append(written[p], kind)]
        /\ h = [pipe EXCEPT ![p] = pipe[p] + 1]
    BY <1>1, <1>4
  <2>2. pipe[p] + 1 \in 0..PipeSize /\ Append(written[p], kind) \in LineTexts
    BY <1>1, <1>3, LineTextsKnown
  <2>3. /\ Len(Append(written[p], kind)) = Len(written[p]) + 1
        /\ \A i \in 1..Len(written[p]) : Append(written[p], kind)[i] = written[p][i]
    BY <1>3, LineTextsKnown
  <2> QED
    BY <1>3, <2>1, <2>2, <2>3
<1>6. ASSUME NEW q \in Pipes
      PROVE  /\ h[q] <= Len(w[q]) /\ Len(w[q]) - h[q] = HasRead(q)
             /\ \A i \in 1..HasRead(q) : w[q][i] = written[q][i]
  <2>1. Len(written[q]) \in Nat /\ pipe[q] \in Nat /\ pipe[q] <= Len(written[q])
    BY <1>3, LineTextsKnown
  <2>2. CASE q = p
    BY <1>5, <2>1, <2>2 DEF HasRead
  <2>3. CASE q # p
    BY <1>5, <2>1, <2>3 DEF HasRead
  <2> QED
    BY <2>2, <2>3
<1>7. \A q \in Pipes : HasRead(q)' = HasRead(q) /\ SaidOf(q)' = SaidOf(q)
  BY <1>2, <1>4, <1>6 DEF HasRead, SaidOf
<1>8. ChildTypes'
  BY <1>2, <1>4, <1>5, <1>6 DEF ChildInv, ChildTypes
<1>9. InLine' /\ CaptureFull' /\ Direct'
  BY <1>2, <1>7 DEF ChildInv, InLine, CaptureFull, Direct
<1>10. TextRead'
  BY <1>2, <1>4, <1>6, <1>7 DEF ChildInv, TextRead
<1>11. PipesEnded'
  <2> SUFFICES ASSUME NEW q \in Pipes, reader'[q] = "ended"
               PROVE  IF pipe'[q] > 0 THEN Stops(q)' ELSE ~Alive'
    BY DEF PipesEnded
  <2>1. q # p /\ reader[q] = "ended" /\ Alive
    BY <1>1, <1>2
  <2>2. pipe[q] > 0 /\ Stops(q)
    BY <2>1 DEF ChildInv, PipesEnded
  <2>3. written'[q] = written[q] /\ pipe'[q] = pipe[q]
    BY <1>4, <1>5, <2>1
  <2> QED
    BY <1>2, <2>2, <2>3 DEF Stops, Position
<1>12. Outcome'
  BY <1>2 DEF ChildInv, Outcome
<1> QED
  BY <1>8, <1>9, <1>10, <1>11, <1>12 DEF ChildInv

\* A line that is read goes to the end of the list its runner keeps.
LEMMA ReadLineKeeps == ASSUME ChildInv, NEW p \in Pipes, ReadLine(p) PROVE ChildInv'
<1>1. /\ reader[p] = "reading" /\ pipe[p] > 0 /\ ~Stops(p)
      /\ pipe' = [pipe EXCEPT ![p] = @ - 1]
      /\ UNCHANGED <<runner, shell, helper, written, late, reader, dropped, waiter, verdict>>
  BY DEF ReadLine, Process
<1>2. /\ written \in [Pipes -> LineTexts] /\ pipe \in [Pipes -> 0..PipeSize] /\ PipeSize \in Nat
      /\ \A q \in Pipes : pipe[q] <= Len(written[q]) /\ Len(written[q]) \in Nat
      /\ channel \in Queue /\ lines \in Queue /\ dropped \in [Pipes -> Nat]
  BY ChildBounds, LineTextsKnown DEF ChildInv, ChildTypes
<1>3. PICK h, ch, ls : h = pipe' /\ ch = channel' /\ ls = lines'
  BY Zenon
<1>4. /\ h \in [Pipes -> 0..PipeSize] /\ h[p] = pipe[p] - 1
      /\ \A q \in Pipes : (q # p => h[q] = pipe[q]) /\ h[q] <= Len(written[q])
      /\ \A q \in Pipes : Len(written[q]) - h[q] = HasRead(q) + (IF q = p THEN 1 ELSE 0)
  <2>1. h = [pipe EXCEPT ![p] = pipe[p] - 1] /\ pipe[p] - 1 \in 0..PipeSize
    BY <1>1, <1>2, <1>3
  <2>2. h \in [Pipes -> 0..PipeSize] /\ h[p] = pipe[p] - 1 /\ \A q \in Pipes : q # p => h[q] = pipe[q]
    BY <1>2, <2>1
  <2> QED
    BY <1>2, <2>2 DEF HasRead
<1>5. PICK x \in LinePieces : x = Piece(p) /\ x.from = p /\ x.line = HasRead(p) + 1
  <2>1. Position(p) \in Nat /\ Position(p) = HasRead(p) + 1
    BY <1>2 DEF Position, HasRead
  <2>2. Piece(p) \in LinePieces /\ Piece(p).from = p /\ Piece(p).line = HasRead(p) + 1
    BY <2>1 DEF Piece, LinePieces
  <2> QED
    BY <2>2
<1>6. ASSUME NEW q \in Pipes
      PROVE  /\ SaidOf(q) \in Nat /\ PiecesOf(lines, Len(lines), q) \in Nat /\ PiecesOf(channel, Len(channel), q) \in Nat
             /\ dropped[q] \in Nat
             /\ Follows(lines, 0, q) /\ Follows(channel, SaidOf(q), q)
             /\ SaidOf(q) = PiecesOf(lines, Len(lines), q) + dropped[q]
             /\ SaidOf(q) + PiecesOf(channel, Len(channel), q) = HasRead(q)
  <2>1. SaidOf(q) \in Nat /\ PiecesOf(lines, Len(lines), q) \in Nat
    BY SaidNumber DEF ChildInv
  <2>2. PiecesOf(channel, Len(channel), q) \in Nat
    BY <1>2, QueueKnown, PiecesCounted
  <2> QED
    BY <1>2, <2>1, <2>2 DEF ChildInv, InLine, SaidOf
<1>7. /\ ch \in Queue /\ ls \in Queue
      /\ Len(ls) >= Len(lines)
      /\ runner # "bash" => ch = <<>>
      /\ \A q \in Pipes :
           /\ Follows(ls, 0, q) /\ Follows(ch, PiecesOf(ls, Len(ls), q) + dropped[q], q)
           /\ PiecesOf(ls, Len(ls), q) + dropped[q] + PiecesOf(ch, Len(ch), q) = Len(written[q]) - h[q]
  <2>1. CASE runner = "bash"
    <3>1. ch = Append(channel, x) /\ ls = lines
      BY <1>1, <1>3, <1>5, <2>1 DEF ReadLine
    <3>2. ASSUME NEW q \in Pipes
          PROVE  /\ ch \in Queue /\ Follows(ch, SaidOf(q), q)
                 /\ PiecesOf(ch, Len(ch), q) = PiecesOf(channel, Len(channel), q) + (IF q = p THEN 1 ELSE 0)
      <4>1. x.from = q => x.line = SaidOf(q) + PiecesOf(channel, Len(channel), q) + 1
        BY <1>5, <1>6
      <4>2. /\ Append(channel, x) \in Queue /\ Follows(Append(channel, x), SaidOf(q), q)
            /\ PiecesOf(Append(channel, x), Len(Append(channel, x)), q)
                 = PiecesOf(channel, Len(channel), q) + (IF x.from = q THEN 1 ELSE 0)
        BY <1>2, <1>6, <4>1, OnePieceMore
      <4> QED
        BY <1>5, <3>1, <4>2
    <3>3. ch \in Queue
      BY <3>2
    <3> QED
      <4>1. Len(ls) >= Len(lines) /\ ls \in Queue
        BY <1>2, <3>1, QueueKnown
      <4>2. ASSUME NEW q \in Pipes
            PROVE  /\ Follows(ls, 0, q) /\ Follows(ch, PiecesOf(ls, Len(ls), q) + dropped[q], q)
                   /\ PiecesOf(ls, Len(ls), q) + dropped[q] + PiecesOf(ch, Len(ch), q) = Len(written[q]) - h[q]
        <5>1. PiecesOf(ls, Len(ls), q) + dropped[q] = SaidOf(q)
          BY <1>6, <3>1
        <5>2. Follows(ls, 0, q) /\ Follows(ch, SaidOf(q), q)
          BY <1>6, <3>1, <3>2
        <5>3. SaidOf(q) + PiecesOf(ch, Len(ch), q) = HasRead(q) + (IF q = p THEN 1 ELSE 0)
          BY <1>6, <3>2
        <5>4. Len(written[q]) - h[q] = HasRead(q) + (IF q = p THEN 1 ELSE 0)
          BY <1>4
        <5> QED
          BY <5>1, <5>2, <5>3, <5>4
      <4> QED
        BY <2>1, <3>3, <4>1, <4>2
  <2>2. CASE runner # "bash"
    <3>1. ls = Append(lines, x) /\ ch = channel /\ channel = <<>> /\ \A q \in Pipes : dropped[q] = 0
      BY <1>1, <1>3, <1>5, <2>2 DEF ReadLine, ChildInv, Direct
    <3>2. ASSUME NEW q \in Pipes
          PROVE  /\ ls \in Queue /\ Len(ls) = Len(lines) + 1 /\ Follows(ls, 0, q)
                 /\ PiecesOf(ls, Len(ls), q) = PiecesOf(lines, Len(lines), q) + (IF q = p THEN 1 ELSE 0)
      <4>1. x.from = q => x.line = 0 + PiecesOf(lines, Len(lines), q) + 1
        BY <1>5, <1>6, <3>1, NothingThere
      <4>2. /\ Append(lines, x) \in Queue /\ Len(Append(lines, x)) = Len(lines) + 1 /\ Follows(Append(lines, x), 0, q)
            /\ PiecesOf(Append(lines, x), Len(Append(lines, x)), q)
                 = PiecesOf(lines, Len(lines), q) + (IF x.from = q THEN 1 ELSE 0)
        BY <1>2, <1>6, <4>1, OnePieceMore
      <4> QED
        BY <1>5, <3>1, <4>2
    <3>3. ls \in Queue /\ Len(ls) = Len(lines) + 1 /\ Len(lines) \in Nat
      BY <1>2, <3>2, QueueKnown
    <3>4. ASSUME NEW q \in Pipes
          PROVE  /\ Follows(ch, PiecesOf(ls, Len(ls), q) + dropped[q], q)
                 /\ PiecesOf(ls, Len(ls), q) + dropped[q] + PiecesOf(ch, Len(ch), q) = Len(written[q]) - h[q]
      <4>1. Follows(ch, PiecesOf(ls, Len(ls), q) + dropped[q], q) /\ PiecesOf(ch, Len(ch), q) = 0
        BY <3>1, NothingThere
      <4>2. SaidOf(q) = HasRead(q) /\ SaidOf(q) = PiecesOf(lines, Len(lines), q) + 0
        BY <1>6, <3>1, NothingThere
      <4> QED
        BY <1>4, <1>6, <3>1, <3>2, <4>1, <4>2
    <3> QED
      BY <1>2, <3>1, <3>2, <3>3, <3>4
  <2> QED
    BY <2>1, <2>2
<1>8. ChildTypes'
  BY <1>1, <1>3, <1>4, <1>7 DEF ChildInv, ChildTypes
<1>9. InLine'
  BY <1>1, <1>3, <1>7 DEF InLine, SaidOf, HasRead
<1>10. CaptureFull' /\ Direct'
  <2>1. ASSUME NEW q \in Pipes, dropped[q] # 0 PROVE Len(ls) >= MaxCapture
    <3>1. Len(lines) >= MaxCapture
      BY <2>1 DEF ChildInv, CaptureFull
    <3> QED
      BY <1>2, <1>7, <3>1, QueueKnown, ChildBounds
  <2> QED
    BY <1>1, <1>3, <1>7, <2>1 DEF ChildInv, CaptureFull, Direct
<1>11. TextRead'
  <2> SUFFICES ASSUME runner' = "bash", NEW q \in Pipes, NEW i \in 1..(HasRead(q)')
               PROVE  written'[q][i] # "binary"
    BY DEF TextRead
  <2>1. i \in 1..(HasRead(q) + (IF q = p THEN 1 ELSE 0)) /\ runner = "bash" /\ written'[q] = written[q]
    BY <1>1, <1>3, <1>4 DEF HasRead
  <2>2. HasRead(q) \in Nat
    BY <1>6
  <2>3. CASE i \in 1..HasRead(q)
    BY <2>1, <2>3 DEF ChildInv, TextRead
  <2>4. CASE i \notin 1..HasRead(q)
    <3>1. q = p /\ i = HasRead(p) + 1
      BY <2>1, <2>2, <2>4
    <3>2. i = Position(p)
      BY <1>2, <3>1 DEF Position, HasRead
    <3> QED
      BY <1>1, <2>1, <3>1, <3>2 DEF Stops
  <2> QED
    BY <2>3, <2>4
<1>12. PipesEnded'
  <2> SUFFICES ASSUME NEW q \in Pipes, reader'[q] = "ended"
               PROVE  IF pipe'[q] > 0 THEN Stops(q)' ELSE ~Alive'
    BY DEF PipesEnded
  <2>1. q # p /\ reader[q] = "ended" /\ pipe'[q] = pipe[q]
    BY <1>1, <1>3, <1>4
  <2> QED
    BY <1>1, <2>1 DEF ChildInv, PipesEnded, Stops, Position, Alive
<1>13. Outcome'
  <2>1. waiter = "done" => runner = "hook" /\ verdict = "timeout"
    BY <1>1 DEF ChildInv, Outcome
  <2> QED
    BY <1>1, <2>1 DEF ChildInv, Outcome
<1> QED
  BY <1>8, <1>9, <1>10, <1>11, <1>12, <1>13 DEF ChildInv

\* The thread that waits, and the ends of the readers.
LEMMA RunnerKeeps ==
  ASSUME ChildInv, DrainRound \/ FindEnd \/ Timeout \/ JoinReaders \/ \E p \in Pipes : EndReader(p)
  PROVE  ChildInv'
<1>1. CASE DrainRound \/ JoinReaders
  <2>1. /\ Drain /\ pipe' = pipe /\ written' = written
        /\ UNCHANGED <<runner, shell, helper, late, reader, verdict>>
        /\ \/ waiter' = waiter /\ waiter = "watching"
           \/ waiter' = "done" /\ \A p \in Pipes : reader[p] = "ended"
    BY <1>1 DEF DrainRound, JoinReaders, Process
  <2>2. /\ lines' \in Queue /\ channel' = <<>> /\ dropped' \in [Pipes -> Nat]
        /\ InLine' /\ CaptureFull'
        /\ runner # "bash" => \A p \in Pipes : dropped'[p] = 0
    BY <2>1, Drained
  <2>3. ChildTypes'
    BY <2>1, <2>2, NothingThere DEF ChildInv, ChildTypes
  <2>4. Direct' /\ TextRead' /\ PipesEnded'
    BY <2>1, <2>2 DEF ChildInv, Direct, TextRead, PipesEnded, Stops, Position, HasRead, Alive
  <2>5. Outcome'
    BY <2>1, <2>2 DEF ChildInv, Outcome
  <2> QED
    BY <2>2, <2>3, <2>4, <2>5 DEF ChildInv
<1>2. CASE FindEnd
  <2>1. /\ waiter = "watching" /\ waiter' = "joining" /\ verdict' \in {"ok", "failed"}
        /\ reader' = [p \in Pipes |-> IF runner = "hook" THEN "reading" ELSE reader[p]]
        /\ UNCHANGED <<runner, shell, helper, written, late, pipe, channel, lines, dropped>>
    BY <1>2 DEF FindEnd, Process
  <2>2. reader' \in [Pipes -> {"none", "reading", "ended"}] /\ \A p \in Pipes : reader'[p] = "ended" => reader[p] = "ended"
    BY <2>1 DEF ChildInv, ChildTypes
  <2>3. ChildTypes'
    BY <2>1, <2>2 DEF ChildInv, ChildTypes
  <2>4. InLine' /\ CaptureFull' /\ Direct' /\ TextRead'
    BY <2>1 DEF ChildInv, InLine, CaptureFull, Direct, TextRead, SaidOf, HasRead
  <2>5. PipesEnded' /\ Outcome'
    BY <2>1, <2>2 DEF ChildInv, PipesEnded, Outcome, Stops, Position, Alive
  <2> QED
    BY <2>3, <2>4, <2>5 DEF ChildInv
<1>3. CASE Timeout
  <2>1. ChildTypes' /\ (Alive' => Alive)
    BY <1>3 DEF Timeout, ChildInv, ChildTypes, Alive
  <2>2. UNCHANGED <<runner, written, pipe, reader, channel, lines, dropped>> /\ (verdict' = "timeout" => late')
    BY <1>3 DEF Timeout
  <2>3. waiter' = "done" => runner = "hook" /\ verdict' = "timeout"
    BY <1>3 DEF Timeout
  <2> QED
    BY <2>1, <2>2, <2>3, KeptInLine
<1>4. CASE \E p \in Pipes : EndReader(p)
  <2>1. PICK p \in Pipes : EndReader(p)
    BY <1>4
  <2>2. /\ reader' = [reader EXCEPT ![p] = "ended"] /\ (IF pipe[p] > 0 THEN Stops(p) ELSE ~Alive)
        /\ reader[p] = "reading"
        /\ UNCHANGED <<runner, shell, helper, written, late, pipe, channel, lines, dropped, waiter, verdict>>
    BY <2>1 DEF EndReader, Process
  <2>3. ChildTypes'
    BY <2>2 DEF ChildInv, ChildTypes
  <2>4. InLine' /\ CaptureFull' /\ Direct' /\ TextRead'
    BY <2>2 DEF ChildInv, InLine, CaptureFull, Direct, TextRead, SaidOf, HasRead
  <2>5. PipesEnded' /\ Outcome'
    BY <2>2 DEF ChildInv, ChildTypes, PipesEnded, Outcome, Stops, Position, Alive
  <2> QED
    BY <2>3, <2>4, <2>5 DEF ChildInv
<1> QED
  BY <1>1, <1>2, <1>3, <1>4

LEMMA NextChild == ChildInv /\ [ChildNext]_childVars => ChildInv'
<1> SUFFICES ASSUME ChildInv, [ChildNext]_childVars PROVE ChildInv'
  OBVIOUS
<1>1. CASE UNCHANGED childVars
  <2>1. ChildTypes' /\ (Alive' => Alive)
    BY <1>1 DEF childVars, ChildInv, ChildTypes, Alive
  <2>2. /\ UNCHANGED <<runner, written, pipe, reader, channel, lines, dropped, waiter, verdict>>
        /\ verdict' = "timeout" => late'
    BY <1>1 DEF childVars, ChildInv, Outcome
  <2> QED
    BY <2>1, <2>2, KeptInLine
<1>2. CASE WriteLine
  BY <1>2, WriteLineKeeps
<1>3. CASE StartHelper \/ ShellEnds \/ HelperEnds \/ TimePasses
  <2>1. ChildTypes' /\ (Alive' => Alive) /\ (late => late')
    BY <1>3 DEF StartHelper, ShellEnds, HelperEnds, TimePasses, Collected, ChildInv, ChildTypes, Alive
  <2>2. UNCHANGED <<runner, written, pipe, reader, channel, lines, dropped, waiter, verdict>>
    BY <1>3 DEF StartHelper, ShellEnds, HelperEnds, TimePasses, Collected
  <2>3. verdict' = "timeout" => late'
    BY <2>1, <2>2 DEF ChildInv, Outcome
  <2> QED
    BY <2>1, <2>2, <2>3, KeptInLine
<1>4. CASE Runner
  <2>1. CASE \E p \in Pipes : ReadLine(p)
    BY <2>1, ReadLineKeeps
  <2>2. CASE DrainRound \/ FindEnd \/ Timeout \/ JoinReaders \/ \E p \in Pipes : EndReader(p)
    BY <2>2, RunnerKeeps
  <2> QED
    BY <1>4, <2>1, <2>2 DEF Runner
<1> QED
  BY <1>1, <1>2, <1>3, <1>4 DEF ChildNext

LEMMA ChildInvariance == ChildSpec => []ChildInv
BY InitChild, NextChild, PTL DEF ChildSpec

\* When the thread is done the channel is empty, and what was read is what can be.
LEMMA Faithful == ChildInv => OutputFaithful
<1> SUFFICES ASSUME ChildInv, waiter = "done"
             PROVE  /\ verdict = "timeout" => late
                    /\ runner # "hook" \/ verdict # "timeout" =>
                         \A p \in Pipes :
                           /\ \A i \in 1..Len(lines) : lines[i].from = p => lines[i].line = PiecesOf(lines, i, p)
                           /\ PiecesOf(lines, Len(lines), p) + dropped[p] = Readable(p)
  BY DEF OutputFaithful
<1>1. verdict = "timeout" => late
  BY DEF ChildInv, Outcome
<1>2. ASSUME runner # "hook" \/ verdict # "timeout", NEW p \in Pipes
      PROVE  /\ \A i \in 1..Len(lines) : lines[i].from = p => lines[i].line = PiecesOf(lines, i, p)
             /\ PiecesOf(lines, Len(lines), p) + dropped[p] = Readable(p)
  <2>1. channel = <<>> /\ reader[p] = "ended"
    BY <1>2 DEF ChildInv, Outcome
  <2>2. SaidOf(p) = HasRead(p) /\ SaidOf(p) \in Nat
    BY <2>1, SaidNumber, NothingThere DEF ChildInv, InLine
  <2>3. \A i \in 1..Len(lines) : lines[i].from = p => lines[i].line = PiecesOf(lines, i, p)
    <3>1. Follows(lines, 0, p) /\ lines \in Queue
      BY DEF ChildInv, InLine, ChildTypes
    <3>2. ASSUME NEW i \in 1..Len(lines) PROVE PiecesOf(lines, i, p) \in Nat
      <4>1. i \in Nat
        BY <3>1, QueueKnown
      <4> QED
        BY <4>1, PiecesCounted
    <3> QED
      BY <3>1, <3>2 DEF Follows
  <2>4. /\ Len(written[p]) \in Nat /\ pipe[p] \in Nat /\ pipe[p] <= Len(written[p]) /\ PipeSize \in Nat
        /\ IF pipe[p] > 0 THEN Stops(p) ELSE ~Alive
    BY <2>1, LineTextsKnown, ChildBounds DEF ChildInv, ChildTypes, PipesEnded
  <2>5. HasRead(p) = Readable(p)
    <3> DEFINE bad == {i \in 1..Len(written[p]) : written[p][i] = "binary"}
    <3>1. CASE runner # "bash"
      BY <2>4, <3>1 DEF HasRead, Readable, Stops
    <3>2. CASE runner = "bash" /\ pipe[p] = 0
      <4>1. bad = {}
        BY <2>4, <3>2 DEF ChildInv, TextRead, HasRead
      <4> QED
        BY <2>4, <3>2, <4>1 DEF HasRead, Readable
    <3>3. CASE runner = "bash" /\ pipe[p] > 0
      <4>1. Position(p) \in bad /\ Position(p) = HasRead(p) + 1
        BY <2>4, <3>3 DEF Stops, Position, HasRead
      <4>2. \A j \in bad : Position(p) <= j
        BY <2>4, <3>3, <4>1 DEF ChildInv, TextRead, HasRead
      <4>3. bad \subseteq Nat
        BY <2>4
      <4>4. (CHOOSE i \in bad : \A j \in bad : i <= j) = Position(p)
        <5> HIDE DEF bad
        <5>1. \A i \in bad : (\A j \in bad : i <= j) => i = Position(p)
          <6> SUFFICES ASSUME NEW i \in bad, \A j \in bad : i <= j PROVE i = Position(p)
            OBVIOUS
          <6>1. i <= Position(p) /\ Position(p) <= i /\ i \in Nat /\ Position(p) \in Nat
            BY <4>1, <4>2, <4>3
          <6> QED
            BY <6>1
        <5> QED
          BY <4>1, <4>2, <5>1, Zenon
      <4>5. Readable(p) = (CHOOSE i \in bad : \A j \in bad : i <= j) - 1
        BY <3>3, <4>1 DEF Readable
      <4> QED
        <5>1. Readable(p) = Position(p) - 1
          BY <4>4, <4>5, Zenon
        <5> HIDE DEF bad
        <5> QED
          BY <2>2, <4>1, <5>1
    <3> QED
      BY <2>4, <3>1, <3>2, <3>3
  <2> QED
    BY <2>2, <2>3, <2>5 DEF SaidOf
<1> QED
  BY <1>1, <1>2

LEMMA ChildTyped == ChildInv => ChildTypeOK
<1> SUFFICES ASSUME ChildInv PROVE ChildTypeOK
  OBVIOUS
<1>1. channel \in Seq([from : Pipes, line : Nat]) /\ lines \in Seq([from : Pipes, line : Nat])
  BY DEF ChildInv, ChildTypes, Queue, LinePieces
<1>2. \A p \in Pipes : written[p] \in Seq(Kinds) /\ pipe[p] \in 0..PipeSize
  BY DEF ChildInv, ChildTypes, LineTexts
<1> QED
  BY <1>1, <1>2 DEF ChildInv, ChildTypes, ChildTypeOK

\* A command of the shell keeps the types of what it says, of the channel and of the
\* collected lines.
THEOREM ChildTypeCorrect == ChildSpec => []ChildTypeOK
BY ChildInvariance, ChildTyped, PTL

\* Whatever the processes write and however the readers, the channel and the limit
\* interleave: the report of a command has the first lines of each pipe in order and
\* counts the rest (bash, run_command_with_timeout, the hooks).
THEOREM OutputKept == ChildSpec => []OutputFaithful
BY ChildInvariance, Faithful, PTL

------------------------------------------------------------------------------
(* Lists and numbers *)

\* The pieces of a list, one after the other.
LEMMA FlattenTyped == ASSUME NEW S, NEW seqs \in Seq(Seq(S)) PROVE FlattenSeq(seqs) \in Seq(S)
<1> DEFINE N == Len(seqs)
           Q == Seq(S)
           g == CHOOSE g : g = [i \in 1..N |-> IF i = 1 THEN seqs[i] ELSE g[i - 1] \o seqs[i]]
<1>1. CASE N = 0
  <2>1. FlattenSeq(seqs) = seqs /\ seqs = <<>>
    BY <1>1 DEF FlattenSeq
  <2> QED BY <2>1
<1>2. CASE N # 0
  <2>1. N \in Nat /\ N >= 1
    BY <1>2
  <2>2. \A i \in 1..N : seqs[i] \in Q
    BY ElementOfSeq
  <2>3. FlattenSeq(seqs) = g[N]
    BY <1>2 DEF FlattenSeq
  <2> DEFINE M == N - 1
             op == [x \in Q \X (1..M) |-> x[1] \o seqs[x[2] + 1]]
  <2> HIDE DEF N
  <2>4. M \in Nat /\ N = M + 1
    BY <2>1
  <2> HIDE DEF M
  <2>5. op \in [Q \X (1..M) -> Q]
    <3>1. \A n \in 1..M : seqs[n + 1] \in Q
      BY <2>2, <2>4
    <3>2. \A s, t \in Q : s \o t \in Q
      OBVIOUS
    <3> HIDE DEF Q
    <3> QED BY <3>1, <3>2
  <2>6. seqs[1] \in Q
    BY <2>1, <2>2
  <2>7. PICK f \in [0..M -> Q] : f[0] = seqs[1] /\ \A n \in 1..M : f[n] = op[<<f[n - 1], n>>]
    <3> HIDE DEF op, Q
    <3>1. HasFold(M, Q, seqs[1], op)
      BY <2>4, <2>5, <2>6, FoldExists, Zenon
    <3> QED BY <3>1 DEF HasFold
  <2> DEFINE h == [i \in 1..N |-> f[i - 1]]
  <2>8. h = [i \in 1..N |-> IF i = 1 THEN seqs[i] ELSE h[i - 1] \o seqs[i]]
    <3>1. ASSUME NEW i \in 1..N PROVE h[i] = IF i = 1 THEN seqs[i] ELSE h[i - 1] \o seqs[i]
      <4>1. CASE i = 1
        BY <2>7, <4>1
      <4>2. CASE i # 1
        <5>1. i - 1 \in 1..M /\ i - 1 \in 1..N /\ i - 1 - 1 \in 0..M /\ i - 1 + 1 = i
          BY <2>4, <4>2
        <5>2. h[i] = f[i - 1] /\ h[i - 1] = f[i - 1 - 1]
          BY <5>1
        <5>3. f[i - 1] = op[<<f[i - 1 - 1], i - 1>>]
          BY <2>7, <5>1
        <5>4. f[i - 1 - 1] \in Q
          BY <5>1
        <5> HIDE DEF Q
        <5>5. op[<<f[i - 1 - 1], i - 1>>] = f[i - 1 - 1] \o seqs[i - 1 + 1]
          BY <5>1, <5>4
        <5> QED BY <4>2, <5>1, <5>2, <5>3, <5>5
      <4> QED BY <4>1, <4>2
    <3> QED BY <3>1
  <2>9. g = [i \in 1..N |-> IF i = 1 THEN seqs[i] ELSE g[i - 1] \o seqs[i]]
    <3> HIDE DEF h
    <3> QED BY <2>8
  <2> HIDE DEF g
  <2> DEFINE k == [n \in 0..M |-> g[n + 1]]
  <2>10. k[0] \in Q
    BY <2>1, <2>4, <2>6, <2>9
  <2>11. \A n \in 1..M : k[n - 1] \in Q => k[n] \in Q
    <3> SUFFICES ASSUME NEW n \in 1..M, k[n - 1] \in Q PROVE k[n] \in Q
      OBVIOUS
    <3>1. n + 1 \in 1..N /\ n + 1 # 1 /\ n + 1 - 1 = n /\ n - 1 \in 0..M /\ n \in 0..M /\ n - 1 + 1 = n
      BY <2>4
    <3> DEFINE i == n + 1
    <3>2. g[i] = g[i - 1] \o seqs[i]
      <4>1. i \in 1..N /\ i # 1
        BY <3>1
      <4> HIDE DEF i
      <4> QED BY <2>9, <4>1
    <3>3. k[n] = g[n] \o seqs[n + 1] /\ k[n - 1] = g[n]
      <4>1. i - 1 = n /\ i = n + 1
        BY <3>1
      <4>2. g[n + 1] = g[n] \o seqs[n + 1]
        BY <3>2, <4>1
      <4> HIDE DEF i
      <4> QED BY <3>1, <4>2
    <3>4. seqs[n + 1] \in Q
      BY <2>2, <3>1
    <3> HIDE DEF k
    <3> QED BY <3>3, <3>4
  <2>12. k[M] \in Q
    <3> HIDE DEF k, Q
    <3>1. \A n \in 0..M : k[n] \in Q
      BY <2>4, <2>10, <2>11, FoldStays
    <3> QED BY <2>4, <3>1
  <2>13. k[M] = g[N]
    BY <2>4
  <2> HIDE DEF k
  <2> QED BY <2>3, <2>12, <2>13
<1> QED BY <1>1, <1>2

\* A bounded set of numbers that is not empty has a greatest one.
LEMMA GreatestOf ==
  ASSUME NEW S \in SUBSET Nat, S # {}, NEW b \in Nat, \A n \in S : n <= b
  PROVE  Max(S) \in S /\ \A n \in S : n <= Max(S)
<1> DEFINE R == {b - n : n \in S}
<1>1. R \in SUBSET Nat /\ R # {}
  <2>1. \A n \in S : b - n \in Nat
    OBVIOUS
  <2> QED BY <2>1
<1>2. PICK r \in R : \A q \in R : r <= q
  <2> HIDE DEF R
  <2> QED BY <1>1, LeastOf
<1>3. PICK n \in S : r = b - n
  BY <1>2
<1>4. \A m \in S : n >= m
  <2> SUFFICES ASSUME NEW m \in S PROVE n >= m
    OBVIOUS
  <2>1. b - n <= b - m
    BY <1>2, <1>3
  <2> QED BY <2>1
<1>5. \E x \in S : \A y \in S : x >= y
  BY <1>4
<1>6. Max(S) \in S /\ \A y \in S : Max(S) >= y
  BY <1>5 DEF Max
<1> QED BY <1>6

LEMMA LeastIn == ASSUME NEW S \in SUBSET Nat, S # {} PROVE Min(S) \in S /\ \A n \in S : Min(S) <= n
<1>1. \E x \in S : \A y \in S : x <= y
  BY LeastOf
<1> QED BY <1>1 DEF Min

LEMMA LesserOf == ASSUME NEW a \in Nat, NEW b \in Nat PROVE Min({a, b}) \in {a, b} /\ Min({a, b}) <= a /\ Min({a, b}) <= b
<1> DEFINE S == {a, b}
<1>1. S \in SUBSET Nat /\ S # {} /\ a \in S /\ b \in S
  OBVIOUS
<1> HIDE DEF S
<1>2. Min(S) \in S /\ Min(S) <= a /\ Min(S) <= b
  BY <1>1, LeastIn
<1> QED BY <1>2 DEF S

LEMMA GreaterOf == ASSUME NEW a \in Nat, NEW b \in Nat PROVE Max({a, b}) \in {a, b} /\ a <= Max({a, b}) /\ b <= Max({a, b})
<1> DEFINE S == {a, b}
<1>1. S \in SUBSET Nat /\ S # {} /\ a \in S /\ b \in S
  OBVIOUS
<1>2. a + b \in Nat /\ \A n \in S : n <= a + b
  OBVIOUS
<1> HIDE DEF S
<1>3. Max(S) \in S /\ a <= Max(S) /\ b <= Max(S)
  BY <1>1, <1>2, GreatestOf
<1> QED BY <1>3 DEF S

------------------------------------------------------------------------------
(* The hooks *)

HooksSpec == HooksInit /\ [][HooksNext]_hookVars

Rows == Seq(Handler)
HookEntry == [source : {"env", "config", "plugin"}, policy : Policies]
RowFile == [kind : {"absent", "rows", "broken"}, rows : Rows]

LEMMA RowsKnown ==
  ASSUME HooksTypeOK, NEW p \in HookPaths
  PROVE  HandlersOf(p) \in Rows /\ \A k \in 1..Len(HandlersOf(p)) : HandlersOf(p)[k] \in Handler
<1>1. HandlersOf(p) \in Rows
  BY DEF HooksTypeOK, HandlersOf, Rows
<1> QED BY <1>1, ElementOfSeq DEF Rows

LEMMA DefaultKnown == HooksTypeOK => Default \in HookPaths
BY DEF HooksTypeOK, Default, HookPaths

\* What a command that changes rows leaves.
LEMMA SaveHooksKeeps ==
  ASSUME HooksTypeOK, NEW p \in HookPaths, NEW rows \in Rows, SaveHooks(p, rows)
  PROVE  HooksTypeOK'
<1>1. HookFile(rows) \in RowFile
  BY DEF HookFile, RowFile
<1>2. hook_files' \in [HookPaths -> RowFile]
  <2>1. hook_files \in [HookPaths -> RowFile]
    BY DEF HooksTypeOK, RowFile, Rows
  <2> HIDE DEF HookPaths
  <2> QED BY <1>1, <2>1 DEF SaveHooks
<1> QED BY <1>2 DEF SaveHooks, Says, HooksTypeOK, RowFile, Rows
LEMMA RejectedKeeps == HooksTypeOK /\ Rejected => HooksTypeOK'
BY DEF Rejected, Says, HooksTypeOK

LEMMA HandlerChanged ==
  ASSUME NEW r \in Handler, NEW s \in HookScripts, NEW policy \in {"keep"} \cup Policies, NEW prefix \in {"keep"} \cup HookPrefixes
  PROVE  ChangedHandler(r, s, policy, prefix) \in Handler
<1>1. ChangedHandler(r, s, policy, prefix)
        = [event |-> r.event, script |-> s, policy |-> Override(r.policy, policy), prefix |-> Override(r.prefix, prefix)]
  BY DEF ChangedHandler
<1>2. Override(r.policy, policy) \in Policies /\ Override(r.prefix, prefix) \in HookPrefixes
  BY DEF Override, Handler
<1>3. r.event \in WrittenEvents /\ s \in HookScripts \cup {""}
  BY DEF Handler
<1>4. \A a, b : a \in Policies /\ b \in HookPrefixes => [event |-> r.event, script |-> s, policy |-> a, prefix |-> b] \in Handler
  BY <1>3 DEF Handler
<1> QED BY <1>1, <1>2, <1>4

LEMMA SetKeepsHooks == ASSUME HooksTypeOK, SetHandler PROVE HooksTypeOK'
<1>1. PICK p \in HookPaths, e \in HookEvents, s \in HookScripts, policy \in {"keep", "closed"}, prefix \in {"keep", "bash"} :
        LET of(r) == IF r.event = e THEN ChangedHandler(r, s, policy, prefix) ELSE r
            rows == [k \in 1..Len(HandlersOf(p)) |-> of(HandlersOf(p)[k])]
            added == [event |-> e, script |-> s, policy |-> Fresh(policy), prefix |-> Fresh(prefix)]
        IN IF ~HooksReadable(p) THEN Rejected
           ELSE SaveHooks(p, IF \E r \in ToSet(rows) : r.event = e THEN rows ELSE Append(rows, added))
  BY Zenon DEF SetHandler
<1> DEFINE of(r) == IF r.event = e THEN ChangedHandler(r, s, policy, prefix) ELSE r
           rows == [k \in 1..Len(HandlersOf(p)) |-> of(HandlersOf(p)[k])]
           added == [event |-> e, script |-> s, policy |-> Fresh(policy), prefix |-> Fresh(prefix)]
<1>2. rows \in Rows
  <2>1. \A r \in Handler : of(r) \in Handler
    BY HandlerChanged DEF Policies, HookPrefixes
  <2>2. HandlersOf(p) \in Rows /\ \A k \in 1..Len(HandlersOf(p)) : HandlersOf(p)[k] \in Handler
    BY RowsKnown
  <2>3. Len(HandlersOf(p)) \in Nat
    BY <2>2 DEF Rows
  <2> QED BY <2>1, <2>2, <2>3 DEF Rows
<1>3. added \in Handler
  BY DEF Handler, WrittenEvents, Fresh, Policies, HookPrefixes
<1>4. Append(rows, added) \in Rows
  BY <1>2, <1>3 DEF Rows
<1> DEFINE all == IF \E r \in ToSet(rows) : r.event = e THEN rows ELSE Append(rows, added)
<1>5. all \in Rows /\ (IF ~HooksReadable(p) THEN Rejected ELSE SaveHooks(p, all))
  BY <1>1, <1>2, <1>4
<1> HIDE DEF all
<1> QED BY <1>5, RejectedKeeps, SaveHooksKeeps

LEMMA EditKeepsHooks == ASSUME HooksTypeOK, EditHandler PROVE HooksTypeOK'
<1> DEFINE p == Default
<1>1. PICK e \in HookEvents, s \in HookScripts, new \in HookScripts, policy \in {"keep", "none", "open"} :
        LET at == {k \in 1..Len(HandlersOf(p)) : HandlersOf(p)[k].event = e /\ HandlersOf(p)[k].script = s}
            first == CHOOSE k \in at : \A j \in at : k <= j
        IN IF ~HooksReadable(p) \/ at = {} THEN Rejected
           ELSE SaveHooks(p, [HandlersOf(p) EXCEPT ![first] = ChangedHandler(@, new, policy, "keep")])
  BY Zenon DEF EditHandler
<1> DEFINE at == {k \in 1..Len(HandlersOf(p)) : HandlersOf(p)[k].event = e /\ HandlersOf(p)[k].script = s}
           first == CHOOSE k \in at : \A j \in at : k <= j
           rows == [HandlersOf(p) EXCEPT ![first] = ChangedHandler(@, new, policy, "keep")]
<1>2. p \in HookPaths /\ HandlersOf(p) \in Rows /\ \A k \in 1..Len(HandlersOf(p)) : HandlersOf(p)[k] \in Handler
  BY DefaultKnown, RowsKnown
<1>3. ASSUME at # {} PROVE rows \in Rows
  <2>1. first \in at
    <3>1. at \in SUBSET Nat
      BY <1>2 DEF Rows
    <3> HIDE DEF at
    <3>2. \E k \in at : \A j \in at : k <= j
      BY <1>3, <3>1, LeastOf
    <3> QED BY <3>2
  <2>2. first \in 1..Len(HandlersOf(p))
    BY <2>1
  <2> HIDE DEF first
  <2>3. ChangedHandler(HandlersOf(p)[first], new, policy, "keep") \in Handler
    BY <1>2, <2>2, HandlerChanged DEF Policies
  <2> QED BY <1>2, <2>2, <2>3 DEF Rows
<1>4. IF ~HooksReadable(p) \/ at = {} THEN Rejected ELSE SaveHooks(p, rows)
  BY <1>1
<1> HIDE DEF rows, at, p
<1> QED BY <1>2, <1>3, <1>4, RejectedKeeps, SaveHooksKeeps

LEMMA RemoveKeepsHooks == ASSUME HooksTypeOK, RemoveHandlers PROVE HooksTypeOK'
<1>1. PICK e \in HookEvents, scripts \in {HookScripts} \cup {{s} : s \in HookScripts} :
        LET kept == {k \in 1..Len(HandlersOf(Default)) :
                      HandlersOf(Default)[k].event # e \/ HandlersOf(Default)[k].script \notin scripts}
        IN IF ~HooksReadable(Default) THEN Rejected ELSE SaveHooks(Default, Picked(HandlersOf(Default), kept))
  BY Zenon DEF RemoveHandlers
<1>2. Default \in HookPaths /\ HandlersOf(Default) \in Rows
  BY DefaultKnown, RowsKnown
<1>3. \A at : Picked(HandlersOf(Default), at) \in Rows
  BY <1>2, PickedTyped DEF Rows
<1> QED BY <1>1, <1>2, <1>3, RejectedKeeps, SaveHooksKeeps

LEMMA ExportKeepsHooks == ASSUME HooksTypeOK, ExportHooks PROVE HooksTypeOK'
<1>1. Default \in HookPaths /\ HandlersOf(Default) \in Rows
  BY DefaultKnown, RowsKnown
<1> QED BY <1>1, RejectedKeeps, SaveHooksKeeps DEF ExportHooks

LEMMA PlacedTyped == ASSUME NEW rows \in Rows, NEW r \in Handler PROVE Placed(rows, r) \in Rows
<1> DEFINE at == {k \in 1..Len(rows) : rows[k].event = r.event}
           first == CHOOSE k \in at : \A j \in at : k <= j
<1>1. CASE at = {}
  BY <1>1 DEF Placed, Rows
<1>2. CASE at # {}
  <2>1. first \in at
    <3>1. at \in SUBSET Nat
      BY DEF Rows
    <3> HIDE DEF at
    <3>2. \E k \in at : \A j \in at : k <= j
      BY <1>2, <3>1, LeastOf
    <3> QED BY <3>2
  <2>2. Placed(rows, r) = [rows EXCEPT ![first] = r]
    BY <1>2 DEF Placed
  <2>3. first \in 1..Len(rows)
    BY <2>1
  <2> HIDE DEF first
  <2> QED BY <2>2, <2>3 DEF Rows
<1> QED BY <1>1, <1>2

LEMMA MergedTyped == ASSUME NEW rows \in Rows, NEW others \in Rows PROVE Merged(rows, others) \in Rows
<1> DEFINE N == Len(others)
           op == [x \in Rows \X (1..N) |-> Placed(x[1], others[x[2]])]
           g == CHOOSE g : g = [n \in 0..N |-> IF n = 0 THEN rows ELSE Placed(g[n - 1], others[n])]
<1>1. N \in Nat /\ \A n \in 1..N : others[n] \in Handler
  BY ElementOfSeq DEF Rows
<1>2. \A t \in Rows, n \in 1..N : Placed(t, others[n]) \in Rows
  BY <1>1, PlacedTyped
<1>3. op \in [Rows \X (1..N) -> Rows]
  BY <1>2
<1>7. Merged(rows, others) = g[N]
  BY DEF Merged
<1> HIDE DEF N
<1>4. PICK f \in [0..N -> Rows] : f[0] = rows /\ \A n \in 1..N : f[n] = op[<<f[n - 1], n>>]
  <2> HIDE DEF op
  <2>1. HasFold(N, Rows, rows, op)
    BY <1>1, <1>3, FoldExists, Zenon
  <2> QED BY <2>1 DEF HasFold
<1>5. f = [n \in 0..N |-> IF n = 0 THEN rows ELSE Placed(f[n - 1], others[n])]
  <2>1. \A n \in 1..N : op[<<f[n - 1], n>>] = Placed(f[n - 1], others[n])
    BY <1>1
  <2> HIDE DEF op
  <2>2. \A n \in 0..N : n = 0 \/ n \in 1..N
    BY <1>1
  <2>3. \A n \in 0..N : f[n] = IF n = 0 THEN rows ELSE Placed(f[n - 1], others[n])
    BY <1>4, <2>1, <2>2
  <2> QED BY <1>4, <2>3
<1>6. g = [n \in 0..N |-> IF n = 0 THEN rows ELSE Placed(g[n - 1], others[n])]
  BY <1>5
<1>8. \A n \in 0..N : g[n] \in Rows
  <2> HIDE DEF g
  <2>1. g[0] \in Rows
    BY <1>1, <1>6
  <2>2. \A n \in 1..N : g[n] = Placed(g[n - 1], others[n])
    <3> SUFFICES ASSUME NEW n \in 1..N PROVE g[n] = Placed(g[n - 1], others[n])
      OBVIOUS
    <3>1. n \in 0..N /\ n # 0
      BY <1>1
    <3> QED BY <1>6, <3>1
  <2>3. \A n \in 1..N : g[n - 1] \in Rows => g[n] \in Rows
    BY <1>2, <2>2
  <2> QED BY <1>1, <2>1, <2>3, FoldStays
<1> HIDE DEF g
<1> QED BY <1>1, <1>7, <1>8

LEMMA ImportKeepsHooks == ASSUME HooksTypeOK, ImportHooks PROVE HooksTypeOK'
<1>1. PICK p \in HookPaths \ {Default}, merge \in BOOLEAN :
        IF ~HooksReadable(p) \/ (merge /\ ~HooksReadable(Default)) THEN Rejected
        ELSE SaveHooks(Default, IF merge THEN Merged(HandlersOf(Default), HandlersOf(p)) ELSE HandlersOf(p))
  BY Zenon DEF ImportHooks
<1>2. Default \in HookPaths /\ HandlersOf(Default) \in Rows /\ HandlersOf(p) \in Rows
  BY DefaultKnown, RowsKnown
<1>3. Merged(HandlersOf(Default), HandlersOf(p)) \in Rows
  BY <1>2, MergedTyped
<1> QED BY <1>1, <1>2, <1>3, RejectedKeeps, SaveHooksKeeps

LEMMA FireKeepsHooks == ASSUME HooksTypeOK, FireEvent PROVE HooksTypeOK'
<1>1. LoadedHooks \in Rows
  <2>1. CASE hook_env.path = "unset"
    BY <2>1 DEF LoadedHooks, Rows
  <2>2. CASE hook_env.path # "unset"
    <3>1. hook_env.path \in HookPaths
      BY <2>2 DEF HooksTypeOK
    <3>2. HandlersOf(hook_env.path) \in Seq(Handler)
      BY <3>1, RowsKnown DEF Rows
    <3> QED BY <2>2, <3>2, PickedTyped DEF LoadedHooks, Rows
  <2> QED BY <2>1, <2>2
<1>2. PICK event \in HookEvents, tool \in HookTools, plugin \in BOOLEAN :
        LET own == IF hook_env.script # "unset" /\ event = "PreToolUse" THEN <<"none">> ELSE <<>>
            rows == Picked(LoadedHooks, {k \in 1..Len(LoadedHooks) : Runs(LoadedHooks[k], event, tool)})
            rowOf(source, policy) == [source |-> source, policy |-> policy]
            users == [k \in 1..Len(own) |-> rowOf("env", own[k])]
                     \o [k \in 1..Len(rows) |-> rowOf("config", rows[k].policy)]
        IN hook_queue' = (IF hook_env.on THEN users ELSE <<>>) \o (IF plugin THEN <<rowOf("plugin", "none")>> ELSE <<>>)
  BY Zenon DEF FireEvent
<1> DEFINE own == IF hook_env.script # "unset" /\ event = "PreToolUse" THEN <<"none">> ELSE <<>>
           rows == Picked(LoadedHooks, {k \in 1..Len(LoadedHooks) : Runs(LoadedHooks[k], event, tool)})
           rowOf(source, policy) == [source |-> source, policy |-> policy]
           ofEnv == [k \in 1..Len(own) |-> rowOf("env", own[k])]
           ofConfig == [k \in 1..Len(rows) |-> rowOf("config", rows[k].policy)]
           ofPlugin == IF plugin THEN <<rowOf("plugin", "none")>> ELSE <<>>
<1>3. ofEnv \in Seq(HookEntry)
  <2>1. own \in Seq({"none"})
    <3>1. <<"none">> \in Seq({"none"}) /\ <<>> \in Seq({"none"})
      OBVIOUS
    <3> QED BY <3>1
  <2>2. \A k \in 1..Len(own) : own[k] \in {"none"}
    BY <2>1, ElementOfSeq
  <2> HIDE DEF own
  <2>3. \A k \in 1..Len(own) : rowOf("env", own[k]) \in HookEntry
    BY <2>2 DEF HookEntry, Policies
  <2>4. Len(own) \in Nat
    BY <2>1
  <2> HIDE DEF rowOf
  <2> QED BY <2>3, <2>4
<1>4. ofConfig \in Seq(HookEntry)
  <2>1. rows \in Seq(Handler)
    BY <1>1, PickedTyped DEF Rows
  <2> HIDE DEF rows
  <2>2. \A k \in 1..Len(rows) : rows[k] \in Handler
    BY <2>1, ElementOfSeq
  <2>3. \A k \in 1..Len(rows) : rowOf("config", rows[k].policy) \in HookEntry
    BY <2>2 DEF HookEntry, Handler
  <2>4. Len(rows) \in Nat
    BY <2>1
  <2> HIDE DEF rowOf
  <2> QED BY <2>3, <2>4
<1>5. ofPlugin \in Seq(HookEntry)
  <2>1. rowOf("plugin", "none") \in HookEntry
    BY DEF HookEntry, Policies
  <2> HIDE DEF rowOf
  <2> QED BY <2>1
<1>6. hook_queue' = (IF hook_env.on THEN ofEnv \o ofConfig ELSE <<>>) \o ofPlugin
  BY <1>2
<1> HIDE DEF ofEnv, ofConfig, ofPlugin
<1>7. hook_queue' \in Seq(HookEntry)
  BY <1>3, <1>4, <1>5, <1>6
<1> QED BY <1>7 DEF FireEvent, HooksTypeOK, HookEntry

LEMMA RunKeepsHooks == ASSUME HooksTypeOK, RunHook PROVE HooksTypeOK'
<1>1. hook_queue' \in Seq(HookEntry)
  BY DEF RunHook, HooksTypeOK, HookEntry
<1>2. hook_event' \in {"none", "allowed", "blocked"}
  BY DEF RunHook, HooksTypeOK
<1> QED BY <1>1, <1>2 DEF RunHook, HooksTypeOK, HookEntry

LEMMA HooksBegin == HooksInit => HooksTypeOK
<1> SUFFICES ASSUME HooksInit PROVE HooksTypeOK
  OBVIOUS
<1>1. HandWritten \cup {NoHooks, BrokenHooks} \subseteq RowFile
  <2>1. <<>> \in Rows
    BY DEF Rows
  <2>2. NoHooks \in RowFile /\ BrokenHooks \in RowFile
    BY <2>1 DEF NoHooks, BrokenHooks, RowFile
  <2>3. HandWritten \subseteq RowFile
    <3> SUFFICES ASSUME NEW file \in HandWritten PROVE file \in RowFile
      OBVIOUS
    <3>1. file \in [kind : {"rows"}, rows : Rows]
      BY HookBounds DEF Rows
    <3> QED BY <3>1 DEF RowFile
  <2> QED BY <2>2, <2>3
<1>2. hook_files \in [HookPaths -> RowFile]
  BY <1>1 DEF HooksInit
<1>3. hook_env \in [on : BOOLEAN, path : HookPaths \cup {"unset"}, closed : BOOLEAN, json : BOOLEAN,
                    script : HookScripts \cup {"unset"}]
  BY DEF HooksInit, HookPaths
<1> QED BY <1>2, <1>3 DEF HooksInit, HooksTypeOK, RowFile, Rows

(* Whatever /hooks config sets, edits, removes or imports, and whichever     *)
(* file the variables name: the file is a list of handlers, and what an      *)
(* event runs is a list of handlers of a known origin and policy.            *)
THEOREM HooksTypeCorrect == HooksSpec => []HooksTypeOK
<1>1. HooksTypeOK /\ [HooksNext]_hookVars => HooksTypeOK'
  <2> SUFFICES ASSUME HooksTypeOK, [HooksNext]_hookVars PROVE HooksTypeOK'
    OBVIOUS
  <2>1. CASE ValidateHooks
    BY <2>1 DEF ValidateHooks, Says, HooksTypeOK
  <2>2. CASE UNCHANGED hookVars
    BY <2>2 DEF hookVars, HooksTypeOK
  <2> QED BY <2>1, <2>2, SetKeepsHooks, EditKeepsHooks, RemoveKeepsHooks, ExportKeepsHooks, ImportKeepsHooks,
             FireKeepsHooks, RunKeepsHooks DEF HooksNext
<1> QED BY <1>1, HooksBegin, PTL DEF HooksSpec

------------------------------------------------------------------------------
(* The tools on files *)

FilesSpec == FilesInit /\ [][FilesNext]_fileVars

TextSet == Seq(Pieces)
LineLists == Seq(TextSet)

\* A part of a text that lies in it is a text.
LEMMA PartOf ==
  ASSUME NEW S, NEW s \in Seq(S), NEW i \in Nat \ {0}, NEW j \in Int, j <= Len(s)
  PROVE  SubSeq(s, i, j) \in Seq(S) /\ Len(SubSeq(s, i, j)) = IF i <= j THEN j - i + 1 ELSE 0
<1>1. \A k \in i..j : s[k] \in S
  <2> SUFFICES ASSUME NEW k \in i..j PROVE s[k] \in S
    OBVIOUS
  <2>1. k \in 1..Len(s)
    OBVIOUS
  <2> QED BY <2>1, ElementOfSeq
<1> QED BY <1>1, SubSeqProperties

LEMMA EndsOf ==
  ASSUME NEW S, NEW s \in Seq(S), s # <<>>
  PROVE  Front(s) \in Seq(S) /\ Last(s) \in S /\ Head(s) \in S
<1>1. Len(s) \in Nat /\ Len(s) # 0
  OBVIOUS
<1>2. Len(s) \in 1..Len(s) /\ Len(s) - 1 \in Int /\ Len(s) - 1 <= Len(s)
  BY <1>1
<1>3. Front(s) \in Seq(S)
  BY <1>2, PartOf DEF Front
<1>4. Last(s) \in S
  BY <1>2, ElementOfSeq DEF Last
<1>5. Head(s) \in S
  OBVIOUS
<1> QED BY <1>3, <1>4, <1>5

LEMMA FedTyped == ASSUME NEW acc \in TextSet, NEW c \in Pieces PROVE Fed(acc, c) \in TextSet
<1>1. CASE c = "nl" /\ acc # <<>> /\ Last(acc) = "cr"
  <2>1. Front(acc) \in TextSet
    BY <1>1, EndsOf DEF TextSet
  <2>2. Fed(acc, c) = Append(Front(acc), c)
    BY <1>1 DEF Fed
  <2> QED BY <2>1, <2>2 DEF TextSet
<1>2. CASE ~(c = "nl" /\ acc # <<>> /\ Last(acc) = "cr")
  <2>1. Fed(acc, c) = Append(acc, c)
    BY <1>2 DEF Fed
  <2> QED BY <2>1 DEF TextSet
<1> QED BY <1>1, <1>2

LEMMA LfTyped == ASSUME NEW t \in TextSet PROVE Lf(t) \in TextSet
<1> DEFINE N == Len(t)
           op == [x \in TextSet \X (1..N) |-> Fed(x[1], t[x[2]])]
           g == CHOOSE g : g = [n \in 0..N |-> IF n = 0 THEN <<>> ELSE Fed(g[n - 1], t[n])]
<1>1. N \in Nat /\ \A n \in 1..N : t[n] \in Pieces
  BY ElementOfSeq DEF TextSet
<1>2. \A s \in TextSet, n \in 1..N : Fed(s, t[n]) \in TextSet
  BY <1>1, FedTyped
<1>3. op \in [TextSet \X (1..N) -> TextSet] /\ <<>> \in TextSet
  BY <1>2 DEF TextSet
<1>7. Lf(t) = g[N]
  BY DEF Lf
<1> HIDE DEF N
<1>4. PICK f \in [0..N -> TextSet] : f[0] = <<>> /\ \A n \in 1..N : f[n] = op[<<f[n - 1], n>>]
  <2> HIDE DEF op
  <2>1. HasFold(N, TextSet, <<>>, op)
    BY <1>1, <1>3, FoldExists, Zenon
  <2> QED BY <2>1 DEF HasFold
<1>5. f = [n \in 0..N |-> IF n = 0 THEN <<>> ELSE Fed(f[n - 1], t[n])]
  <2>1. \A n \in 1..N : op[<<f[n - 1], n>>] = Fed(f[n - 1], t[n])
    BY <1>1
  <2> HIDE DEF op
  <2>2. \A n \in 0..N : n = 0 \/ n \in 1..N
    BY <1>1
  <2>3. \A n \in 0..N : f[n] = IF n = 0 THEN <<>> ELSE Fed(f[n - 1], t[n])
    BY <1>4, <2>1, <2>2
  <2> QED BY <1>4, <2>3
<1>6. g = [n \in 0..N |-> IF n = 0 THEN <<>> ELSE Fed(g[n - 1], t[n])]
  BY <1>5
<1>8. \A n \in 0..N : g[n] \in TextSet
  <2> HIDE DEF g
  <2>1. g[0] \in TextSet
    BY <1>1, <1>3, <1>6
  <2>2. \A n \in 1..N : g[n] = Fed(g[n - 1], t[n])
    <3> SUFFICES ASSUME NEW n \in 1..N PROVE g[n] = Fed(g[n - 1], t[n])
      OBVIOUS
    <3>1. n \in 0..N /\ n # 0
      BY <1>1
    <3> QED BY <1>6, <3>1
  <2>3. \A n \in 1..N : g[n - 1] \in TextSet => g[n] \in TextSet
    BY <1>2, <2>2
  <2> QED BY <1>1, <2>1, <2>3, FoldStays
<1> HIDE DEF g
<1> QED BY <1>1, <1>7, <1>8

Unbroken == {textLines \in LineLists : textLines # <<>>}
LEMMA BrokenTyped == ASSUME NEW acc \in Unbroken, NEW c \in Pieces PROVE Broken(acc, c) \in Unbroken
<1>1. acc \in Seq(TextSet) /\ acc # <<>> /\ <<>> \in TextSet
  BY DEF Unbroken, LineLists, TextSet
<1>2. Front(acc) \in Seq(TextSet) /\ Last(acc) \in TextSet
  BY <1>1, EndsOf
<1>3. Append(Last(acc), c) \in TextSet
  BY <1>2 DEF TextSet
<1>4. Append(acc, <<>>) \in Unbroken
  BY <1>1 DEF Unbroken, LineLists
<1>5. Append(Front(acc), Append(Last(acc), c)) \in Unbroken
  <2>1. \A s \in Seq(TextSet), x \in TextSet : Append(s, x) \in Seq(TextSet) /\ Append(s, x) # <<>>
    OBVIOUS
  <2> QED BY <1>2, <1>3, <2>1 DEF Unbroken, LineLists
<1> QED BY <1>4, <1>5 DEF Broken

LEMMA LinesTyped == ASSUME NEW t \in TextSet PROVE LinesOf(t) \in LineLists
<1> DEFINE u == Lf(t)
           N == Len(u)
           op == [x \in Unbroken \X (1..N) |-> Broken(x[1], u[x[2]])]
           g == CHOOSE g : g = [n \in 0..N |-> IF n = 0 THEN <<<<>>>> ELSE Broken(g[n - 1], u[n])]
<1>1. N \in Nat /\ \A n \in 1..N : u[n] \in Pieces
  <2>1. u \in Seq(Pieces)
    BY LfTyped DEF TextSet
  <2> HIDE DEF u
  <2> QED BY <2>1, ElementOfSeq
<1>2. \A s \in Unbroken, n \in 1..N : Broken(s, u[n]) \in Unbroken
  BY <1>1, BrokenTyped
<1>3. op \in [Unbroken \X (1..N) -> Unbroken] /\ <<<<>>>> \in Unbroken
  <2>1. <<<<>>>> \in Unbroken
    BY DEF Unbroken, LineLists, TextSet
  <2> HIDE DEF u, N
  <2> QED BY <1>2, <2>1
<1>7. LinesOf(t) = IF Last(g[N]) = <<>> THEN Front(g[N]) ELSE g[N]
  BY DEF LinesOf
<1> HIDE DEF N, u
<1>4. PICK f \in [0..N -> Unbroken] : f[0] = <<<<>>>> /\ \A n \in 1..N : f[n] = op[<<f[n - 1], n>>]
  <2> HIDE DEF op
  <2>1. HasFold(N, Unbroken, <<<<>>>>, op)
    BY <1>1, <1>3, FoldExists, Zenon
  <2> QED BY <2>1 DEF HasFold
<1>5. f = [n \in 0..N |-> IF n = 0 THEN <<<<>>>> ELSE Broken(f[n - 1], u[n])]
  <2>1. \A n \in 1..N : op[<<f[n - 1], n>>] = Broken(f[n - 1], u[n])
    BY <1>1
  <2> HIDE DEF op
  <2>2. \A n \in 0..N : n = 0 \/ n \in 1..N
    BY <1>1
  <2>3. \A n \in 0..N : f[n] = IF n = 0 THEN <<<<>>>> ELSE Broken(f[n - 1], u[n])
    BY <1>4, <2>1, <2>2
  <2> QED BY <1>4, <2>3
<1>6. g = [n \in 0..N |-> IF n = 0 THEN <<<<>>>> ELSE Broken(g[n - 1], u[n])]
  BY <1>5
<1>8. \A n \in 0..N : g[n] \in Unbroken
  <2> HIDE DEF g
  <2>1. g[0] \in Unbroken
    BY <1>1, <1>3, <1>6
  <2>2. \A n \in 1..N : g[n] = Broken(g[n - 1], u[n])
    <3> SUFFICES ASSUME NEW n \in 1..N PROVE g[n] = Broken(g[n - 1], u[n])
      OBVIOUS
    <3>1. n \in 0..N /\ n # 0
      BY <1>1
    <3> QED BY <1>6, <3>1
  <2>3. \A n \in 1..N : g[n - 1] \in Unbroken => g[n] \in Unbroken
    BY <1>2, <2>2
  <2> QED BY <1>1, <2>1, <2>3, FoldStays
<1> HIDE DEF g
<1>9. g[N] \in Seq(TextSet) /\ g[N] # <<>>
  BY <1>1, <1>8 DEF Unbroken, LineLists
<1>10. Front(g[N]) \in Seq(TextSet)
  BY <1>9, EndsOf
<1> QED BY <1>7, <1>9, <1>10 DEF LineLists

LEMMA JoinedTyped == ASSUME NEW textLines \in LineLists PROVE Joined(textLines) \in TextSet
<1> DEFINE parts == [i \in DOMAIN textLines |-> (IF i = 1 THEN <<>> ELSE <<"nl">>) \o textLines[i]]
<1>1. \A i \in 1..Len(textLines) : textLines[i] \in TextSet
  BY ElementOfSeq DEF LineLists
<1>2. \A i \in 1..Len(textLines) : (IF i = 1 THEN <<>> ELSE <<"nl">>) \o textLines[i] \in TextSet
  <2> SUFFICES ASSUME NEW i \in 1..Len(textLines) PROVE (IF i = 1 THEN <<>> ELSE <<"nl">>) \o textLines[i] \in TextSet
    OBVIOUS
  <2>1. <<>> \in Seq(Pieces) /\ <<"nl">> \in Seq(Pieces)
    BY DEF Pieces
  <2>2. textLines[i] \in Seq(Pieces)
    BY <1>1 DEF TextSet
  <2> QED BY <2>1, <2>2 DEF TextSet
<1>3. DOMAIN textLines = 1..Len(textLines) /\ Len(textLines) \in Nat
  BY DEF LineLists
<1>4. parts \in Seq(TextSet)
  BY <1>2, <1>3
<1> HIDE DEF parts
<1>5. FlattenSeq(parts) \in TextSet
  BY <1>4, FlattenTyped DEF TextSet
<1> QED BY <1>5 DEF Joined, parts

LEMMA CrlfTyped == ASSUME NEW t \in TextSet PROVE Crlf(t) \in TextSet
<1> DEFINE parts == [i \in DOMAIN t |-> IF t[i] = "nl" THEN <<"cr", "nl">> ELSE <<t[i]>>]
<1>1. DOMAIN t = 1..Len(t) /\ Len(t) \in Nat /\ \A i \in 1..Len(t) : t[i] \in Pieces
  BY ElementOfSeq DEF TextSet
<1>2. \A i \in 1..Len(t) : (IF t[i] = "nl" THEN <<"cr", "nl">> ELSE <<t[i]>>) \in TextSet
  <2>1. <<"cr", "nl">> \in TextSet /\ \A c \in Pieces : <<c>> \in TextSet
    BY DEF Pieces, TextSet
  <2> QED BY <1>1, <2>1
<1>3. parts \in Seq(TextSet)
  BY <1>1, <1>2
<1> HIDE DEF parts
<1>4. FlattenSeq(parts) \in TextSet
  BY <1>3, FlattenTyped DEF TextSet
<1> QED BY <1>4 DEF Crlf, parts

\* A text that occurs in another is found somewhere.
LEMMA PlacesThere == ASSUME NEW t \in TextSet, NEW old \in TextSet, CountOf(t, old) # 0 PROVE PlacesOf(t, old) # {}
<1> SUFFICES ASSUME PlacesOf(t, old) = {} PROVE CountOf(t, old) = 0
  OBVIOUS
<1> DEFINE N == Len(t)
           M == Len(t) + Len(old) + 1
           g == CHOOSE g : g = [i \in 1..M |->
                  IF i > N THEN 0 ELSE IF i \in PlacesOf(t, old) THEN 1 + g[i + Len(old)] ELSE g[i + 1]]
           zero == [i \in 1..M |-> 0]
<1>1. N \in Nat /\ M \in Nat /\ N + 1 <= M
  BY DEF TextSet
<1>2. CountOf(t, old) = g[1]
  BY DEF CountOf
<1> HIDE DEF N, M
<1>3. zero = [i \in 1..M |-> IF i > N THEN 0 ELSE IF i \in PlacesOf(t, old) THEN 1 + zero[i + Len(old)] ELSE zero[i + 1]]
  <2>1. ASSUME NEW i \in 1..M
        PROVE  0 = IF i > N THEN 0 ELSE IF i \in PlacesOf(t, old) THEN 1 + zero[i + Len(old)] ELSE zero[i + 1]
    <3>1. CASE i > N
      BY <3>1
    <3>2. CASE ~(i > N)
      <4>1. i + 1 \in 1..M
        BY <1>1, <3>2
      <4> QED BY <3>2, <4>1
    <3> QED BY <3>1, <3>2
  <2> QED BY <2>1
<1>4. g = [i \in 1..M |-> IF i > N THEN 0 ELSE IF i \in PlacesOf(t, old) THEN 1 + g[i + Len(old)] ELSE g[i + 1]]
  <2> HIDE DEF zero
  <2> QED BY <1>3
<1> HIDE DEF g
<1> DEFINE f == [k \in 0..N |-> g[N + 1 - k]]
<1>5. f[0] \in {0}
  <2>1. f[0] = g[N + 1] /\ N + 1 \in 1..M /\ N + 1 > N
    BY <1>1
  <2> HIDE DEF f
  <2> QED BY <1>4, <2>1
<1>6. \A k \in 1..N : f[k - 1] \in {0} => f[k] \in {0}
  <2> SUFFICES ASSUME NEW k \in 1..N, f[k - 1] = 0 PROVE f[k] = 0
    OBVIOUS
  <2> DEFINE i == N + 1 - k
  <2>1. i \in 1..M /\ ~(i > N) /\ i + 1 = N + 1 - (k - 1) /\ k - 1 \in 0..N /\ k \in 0..N
    BY <1>1
  <2>2. f[k] = g[i] /\ f[k - 1] = g[i + 1]
    BY <2>1
  <2> HIDE DEF i, f
  <2>3. g[i] = g[i + 1]
    BY <1>4, <2>1
  <2> QED BY <2>2, <2>3
<1>7. f[N] = 0
  <2> DEFINE Z == {0}
  <2>2. f[0] \in Z /\ \A k \in 1..N : f[k - 1] \in Z => f[k] \in Z
    BY <1>5, <1>6
  <2> HIDE DEF f, Z
  <2>3. \A k \in 0..N : f[k] \in Z
    BY <1>1, <2>2, FoldStays
  <2>1. \A k \in 0..N : f[k] \in {0}
    BY <2>3 DEF Z
  <2> QED BY <1>1, <2>1
<1>8. f[N] = g[1]
  <2>1. N \in 0..N /\ N + 1 - N = 1
    BY <1>1
  <2> QED BY <2>1
<1> HIDE DEF f
<1> QED BY <1>2, <1>7, <1>8

LEMMA ReplacedTyped ==
  ASSUME NEW t \in TextSet, NEW old \in TextSet, NEW new \in TextSet, NEW i \in PlacesOf(t, old)
  PROVE  ReplacedAt(t, i, old, new) \in TextSet
<1>1. i \in Nat \ {0} /\ i + Len(old) \in Nat \ {0} /\ i - 1 \in Int /\ i - 1 <= Len(t) /\ Len(t) \in Int
  BY DEF PlacesOf, TextSet
<1>2. SubSeq(t, 1, i - 1) \in Seq(Pieces)
  BY <1>1, PartOf DEF TextSet
<1>3. SubSeq(t, i + Len(old), Len(t)) \in Seq(Pieces)
  <2> DEFINE j == i + Len(old)
             n == Len(t)
  <2>1. j \in Nat \ {0} /\ n \in Int /\ n <= Len(t) /\ t \in Seq(Pieces)
    BY <1>1 DEF TextSet
  <2> HIDE DEF j, n
  <2>2. SubSeq(t, j, n) \in Seq(Pieces)
    BY <2>1, PartOf
  <2> QED BY <2>2 DEF j, n
<1> QED BY <1>2, <1>3 DEF ReplacedAt, TextSet

LEMMA FirstTyped ==
  ASSUME NEW t \in TextSet, NEW old \in TextSet, NEW new \in TextSet, CountOf(t, old) = 1
  PROVE  ReplacedFirst(t, old, new) \in TextSet
<1>1. PlacesOf(t, old) # {}
  BY PlacesThere
<1>2. PlacesOf(t, old) \in SUBSET Nat
  BY DEF PlacesOf, TextSet
<1>3. Min(PlacesOf(t, old)) \in PlacesOf(t, old)
  BY <1>1, <1>2, LeastIn
<1> QED BY <1>3, ReplacedTyped DEF ReplacedFirst

LEMMA UpdatedTyped ==
  ASSUME NEW t \in TextSet, NEW old \in TextSet, NEW new \in TextSet, OnePlace(t, old)
  PROVE  Updated(t, old, new) \in TextSet
<1>1. CASE CountOf(t, old) = 1
  BY <1>1, FirstTyped DEF Updated
<1>2. CASE CountOf(t, old) # 1
  <2>1. Lf(t) \in TextSet /\ Lf(old) \in TextSet /\ Lf(new) \in TextSet
    BY LfTyped
  <2>2. CountOf(Lf(t), Lf(old)) = 1
    BY <1>2 DEF OnePlace
  <2>3. ReplacedFirst(Lf(t), Lf(old), Lf(new)) \in TextSet
    BY <2>1, <2>2, FirstTyped
  <2>4. Crlf(ReplacedFirst(Lf(t), Lf(old), Lf(new))) \in TextSet
    BY <2>3, CrlfTyped
  <2> QED BY <1>2, <2>3, <2>4 DEF Updated
<1> QED BY <1>1, <1>2

LEMMA DecodedTyped == ASSUME NEW t \in TextSet PROVE Decoded(t) \in TextSet
<1>1. DOMAIN t = 1..Len(t) /\ Len(t) \in Nat /\ \A i \in 1..Len(t) : t[i] \in Pieces
  BY ElementOfSeq DEF TextSet
<1>2. "nl" \in Pieces
  BY DEF Pieces
<1> QED BY <1>1, <1>2 DEF Decoded, TextSet

LEMMA UnquotedTyped == ASSUME NEW t \in TextSet PROVE Unquoted(t) \in TextSet
<1> DEFINE words == {i \in DOMAIN t : t[i] \notin {"nl", "cr"}}
<1>1. CASE words = {}
  BY <1>1 DEF Unquoted, TextSet
<1>2. CASE words # {}
  <2>1. words \in SUBSET Nat /\ (\A k \in words : k \in Nat /\ k # 0 /\ k <= Len(t)) /\ Len(t) \in Nat
    BY DEF TextSet
  <2>2. Unquoted(t) = Decoded(SubSeq(t, Min(words), Max(words)))
    BY <1>2 DEF Unquoted
  <2> HIDE DEF words
  <2>3. Min(words) \in words /\ Max(words) \in words
    BY <1>2, <2>1, LeastIn, GreatestOf
  <2>4. SubSeq(t, Min(words), Max(words)) \in TextSet
    <3> DEFINE i == Min(words)
               j == Max(words)
    <3>3. i \in words /\ j \in words
      BY <2>3
    <3> HIDE DEF i, j
    <3>4. i \in Nat /\ i # 0 /\ j \in Nat /\ j <= Len(t)
      BY <2>1, <3>3
    <3>1. i \in Nat \ {0} /\ j \in Int /\ j <= Len(t) /\ t \in Seq(Pieces)
      BY <3>4 DEF TextSet
    <3>2. SubSeq(t, i, j) \in TextSet
      BY <3>1, PartOf DEF TextSet
    <3> QED BY <3>2 DEF i, j
  <2> QED BY <2>2, <2>4, DecodedTyped
<1> QED BY <1>1, <1>2

LEMMA BodyTyped == ASSUME NEW t \in TextSet PROVE BodyOf(t) \in TextSet
<1> DEFINE ls == LinesOf(t \o <<"nl">>)
           ends == {i \in DOMAIN ls : ls[i] = <<"mark">>}
<1>1. ls \in LineLists
  <2>1. t \o <<"nl">> \in TextSet
    BY DEF TextSet, Pieces
  <2> QED BY <2>1, LinesTyped
<1>2. BodyOf(t) = Joined(IF ends = {} THEN ls ELSE SubSeq(ls, 1, Min(ends) - 1))
  BY DEF BodyOf
<1> HIDE DEF ls
<1>3. CASE ends = {}
  BY <1>1, <1>2, <1>3, JoinedTyped
<1>4. CASE ends # {}
  <2>1. ends \in SUBSET Nat /\ (\A i \in ends : i \in Nat /\ i <= Len(ls)) /\ Len(ls) \in Nat
    BY <1>1 DEF LineLists
  <2> HIDE DEF ends
  <2>2. Min(ends) \in ends
    BY <1>4, <2>1, LeastIn
  <2> DEFINE first == Min(ends)
             j == first - 1
  <2>6. first \in ends
    BY <2>2
  <2>3. j \in Int /\ j <= Len(ls) /\ ls \in Seq(TextSet)
    <3> HIDE DEF first
    <3>1. first \in Nat /\ first <= Len(ls) /\ Len(ls) \in Nat
      BY <2>1, <2>6
    <3>2. j \in Int /\ j <= Len(ls)
      BY <3>1
    <3> QED BY <1>1, <3>2 DEF LineLists
  <2>4. BodyOf(t) = Joined(SubSeq(ls, 1, j))
    BY <1>2, <1>4
  <2> HIDE DEF j
  <2>5. SubSeq(ls, 1, j) \in LineLists
    BY <2>3, PartOf DEF LineLists
  <2> QED BY <2>4, <2>5, JoinedTyped
<1> QED BY <1>3, <1>4

LEMMA TrimmedTyped == ASSUME NEW t \in TextSet PROVE Trimmed(t) \in TextSet
<1> DEFINE kept == {0} \cup {i \in DOMAIN t : t[i] # "nl"}
           j == Max(kept)
<1>1. kept \in SUBSET Nat /\ kept # {} /\ (\A i \in kept : i \in Nat /\ i <= Len(t)) /\ Len(t) \in Nat
  BY DEF TextSet
<1> HIDE DEF kept
<1>2. Max(kept) \in kept
  BY <1>1, GreatestOf
<1>5. j \in kept
  BY <1>2
<1>3. j \in Int /\ j <= Len(t) /\ t \in Seq(Pieces)
  <2> HIDE DEF j
  <2>1. j \in Nat /\ j <= Len(t)
    BY <1>1, <1>5
  <2> QED BY <2>1 DEF TextSet
<1>4. Trimmed(t) = SubSeq(t, 1, j)
  BY DEF Trimmed, kept
<1> HIDE DEF j
<1> QED BY <1>3, <1>4, PartOf DEF TextSet

\* Every form makes a text of a text.
LEMMA WrittenTyped ==
  ASSUME NEW t \in TextSet, NEW form \in Forms
  PROVE  TextWritten(form, t) \in TextSet /\ EditText(form, t) \in TextSet
<1>1. Decoded(t) \in TextSet /\ Unquoted(t) \in TextSet /\ BodyOf(t) \in TextSet /\ Trimmed(t) \in TextSet
  BY DecodedTyped, UnquotedTyped, BodyTyped, TrimmedTyped
<1>2. TextWritten(form, t) \in TextSet
  BY <1>1 DEF TextWritten, Forms, InQuotes
<1> QED BY <1>1, <1>2 DEF EditText

LEMMA IntendedTyped == ASSUME NEW t \in TextSet, NEW form PROVE Intended(form, t) \in TextSet
BY DecodedTyped, LfTyped DEF Intended
LEMMA FormKnown == \A route, form : form \in FormsOf(route) => form \in Forms
BY DEF FormsOf, Forms

LEMMA PageTyped ==
  ASSUME FileTypeOK, NEW start \in Nat \ {0}, NEW count \in Nat \ {0}
  PROVE  PageFrom(start, count) \in [lines : LineLists, next : Nat]
<1> DEFINE textLines == LinesOf(file_text)
           end == start + count - 1
           last == Min({end, Len(textLines)})
           shown == IF start > Len(textLines) THEN <<>> ELSE SubSeq(textLines, start, last)
           more == IF start <= Len(textLines) /\ last < Len(textLines) THEN last + 1 ELSE 0
<1>1. textLines \in LineLists
  BY LinesTyped DEF FileTypeOK, TextSet
<1>2. PageFrom(start, count) = [lines |-> shown, next |-> more]
  BY DEF PageFrom
<1> HIDE DEF textLines
<1>3. end \in Nat /\ Len(textLines) \in Nat
  BY <1>1 DEF LineLists
<1> HIDE DEF end
<1>4. last \in Nat /\ last <= Len(textLines)
  BY <1>3, LesserOf
<1> HIDE DEF last
<1>5. SubSeq(textLines, start, last) \in LineLists
  BY <1>1, <1>4, PartOf DEF LineLists
<1>6. shown \in LineLists
  BY <1>5 DEF LineLists
<1>7. more \in Nat
  BY <1>4
<1> HIDE DEF shown, more
<1> QED BY <1>2, <1>6, <1>7

LEMMA ShowKeeps ==
  ASSUME FileTypeOK, NEW start \in Nat \ {0}, NEW count \in Nat \ {0}, Show(start, count)
  PROVE  FileTypeOK'
<1> DEFINE p == PageFrom(start, count)
           textLines == (IF start = 1 THEN <<>> ELSE page.lines) \o p.lines
           same == start = 1 \/ page.same
<1>1. p.lines \in LineLists /\ p.next \in Nat
  BY PageTyped
<1>2. /\ page' = IF p.next = 0 THEN NoPage ELSE [lines |-> textLines, next |-> p.next, same |-> same]
      /\ known' = IF p.next = 0 /\ same THEN {Joined(textLines), Joined(textLines) \o <<"nl">>} ELSE known
      /\ UNCHANGED <<file_text, editing, diffed, search>>
  BY DEF Show
<1> HIDE DEF p
<1>3. textLines \in LineLists
  <2>1. page.lines \in LineLists /\ <<>> \in LineLists
    BY DEF FileTypeOK, LineLists, TextSet
  <2>2. \A s, t \in LineLists : s \o t \in LineLists
    BY DEF LineLists
  <2> QED BY <1>1, <2>1, <2>2
<1>4. same \in BOOLEAN
  BY DEF FileTypeOK
<1> HIDE DEF textLines, same
<1>5. page' \in [lines : LineLists, next : Nat, same : BOOLEAN]
  <2>1. NoPage \in [lines : LineLists, next : Nat, same : BOOLEAN]
    BY DEF NoPage, LineLists
  <2> QED BY <1>1, <1>2, <1>3, <1>4, <2>1
<1>6. known' \subseteq TextSet
  <2>1. Joined(textLines) \in TextSet
    BY <1>3, JoinedTyped
  <2>2. Joined(textLines) \o <<"nl">> \in TextSet
    BY <2>1 DEF TextSet, Pieces
  <2>3. known \subseteq TextSet
    BY DEF FileTypeOK, TextSet
  <2> QED BY <1>2, <2>1, <2>2, <2>3
<1> QED BY <1>2, <1>5, <1>6 DEF FileTypeOK, LineLists, TextSet

LEMMA ReadKeepsFile == ASSUME FileTypeOK, ReadFile \/ ReadRange PROVE FileTypeOK'
<1>1. MediumLines \in Nat \ {0} /\ DefaultLines \in Nat \ {0} /\ MaxLines \in Nat \ {0}
  BY FileBounds
<1>2. CASE ReadFile
  <2> DEFINE count == IF Len(LinesOf(file_text)) <= MediumLines THEN MediumLines ELSE DefaultLines
  <2>1. Show(1, count) /\ count \in Nat \ {0}
    BY <1>1, <1>2 DEF ReadFile
  <2> HIDE DEF count
  <2> QED BY <2>1, ShowKeeps
<1>3. CASE ReadRange
  <2>1. PICK start \in {1, page.next} \ {0}, given \in {0, 1, MaxLines + 1} : Show(start, Max({1, Min({given, MaxLines})}))
    BY <1>3 DEF ReadRange
  <2>2. start \in Nat \ {0} /\ given \in Nat
    BY <1>1 DEF FileTypeOK
  <2>3. Min({given, MaxLines}) \in Nat
    BY <1>1, <2>2, LesserOf
  <2> DEFINE least == Min({given, MaxLines})
             count == Max({1, least})
  <2>4. count \in Nat \ {0}
    <3>1. least \in Nat
      BY <2>3
    <3> HIDE DEF least
    <3>2. 1 \in Nat /\ Max({1, least}) \in {1, least} /\ 1 <= Max({1, least})
      BY <3>1, GreaterOf
    <3> QED BY <3>1, <3>2
  <2>5. Show(start, count)
    BY <2>1
  <2> HIDE DEF count
  <2> QED BY <2>2, <2>4, <2>5, ShowKeeps
<1> QED BY <1>2, <1>3

LEMMA StaleKeeps == ASSUME FileTypeOK, PageStale PROVE page' \in [lines : Seq(Seq(Pieces)), next : Nat, same : BOOLEAN]
BY DEF FileTypeOK, PageStale

\* A write that was cut leaves a text, and no one knows it.
LEMMA CutKeepsFile ==
  ASSUME FileTypeOK, NEW t \in TextSet, CutWrite(t)
  PROVE  /\ file_text' \in TextSet /\ known' \subseteq TextSet
         /\ page' \in [lines : Seq(Seq(Pieces)), next : Nat, same : BOOLEAN]
<1>1. CASE UNCHANGED <<file_text, page, known>>
  BY <1>1 DEF FileTypeOK, TextSet
<1>2. CASE file_text' \in Prefixes(t) /\ PageStale /\ known' = {}
  <2>1. PICK l \in 0..Len(t) : file_text' = SubSeq(t, 1, l)
    BY <1>2 DEF Prefixes
  <2>2. file_text' \in TextSet
    BY <2>1 DEF TextSet
  <2> QED BY <1>2, <2>2, StaleKeeps
<1> QED BY <1>1, <1>2 DEF CutWrite

LEMMA WriteKeepsFile == ASSUME FileTypeOK, WriteFile PROVE FileTypeOK'
<1>1. PICK t \in Texts, route \in {"native", "text"} : \E form \in FormsOf(route) :
        IF ~Understood(form, {t}) THEN UNCHANGED <<file_text, page, known>>
        ELSE \/ /\ file_text' = TextWritten(form, t) /\ PageStale
                /\ known' = IF Cut(form, t) THEN {} ELSE {Intended(form, t)}
             \/ CutWrite(TextWritten(form, t))
  BY Zenon DEF WriteFile
<1>2. PICK form \in FormsOf(route) :
        IF ~Understood(form, {t}) THEN UNCHANGED <<file_text, page, known>>
        ELSE \/ /\ file_text' = TextWritten(form, t) /\ PageStale
                /\ known' = IF Cut(form, t) THEN {} ELSE {Intended(form, t)}
             \/ CutWrite(TextWritten(form, t))
  BY <1>1
<1>3. form \in Forms /\ t \in TextSet
  BY FormKnown, FileBounds DEF TextSet
<1>4. TextWritten(form, t) \in TextSet /\ Intended(form, t) \in TextSet
  BY <1>3, WrittenTyped, IntendedTyped
<1>5. UNCHANGED <<editing, diffed, search>>
  BY DEF WriteFile
<1>6. CASE ~Understood(form, {t})
  BY <1>2, <1>5, <1>6 DEF FileTypeOK
<1>7. CASE Understood(form, {t}) /\ ~CutWrite(TextWritten(form, t))
  <2>1. page' \in [lines : Seq(Seq(Pieces)), next : Nat, same : BOOLEAN]
    BY <1>2, <1>7, StaleKeeps
  <2>2. file_text' \in TextSet /\ known' \subseteq TextSet
    BY <1>2, <1>4, <1>7
  <2> QED BY <1>5, <2>1, <2>2 DEF FileTypeOK, TextSet
<1>8. CASE CutWrite(TextWritten(form, t))
  BY <1>4, <1>5, <1>8, CutKeepsFile DEF FileTypeOK, TextSet
<1> QED BY <1>6, <1>7, <1>8

LEMMA EditKeepsFile == ASSUME FileTypeOK, EditFile PROVE FileTypeOK'
<1>1. PICK e \in Edits, form \in Forms :
        /\ OnePlace(file_text, EditText(form, e.old))
        /\ editing' = [text |-> file_text, updated |-> Updated(file_text, EditText(form, e.old), EditText(form, e.new)),
                       old |-> EditText(form, e.old), new |-> EditText(form, e.new), live |-> TRUE]
  BY FormKnown DEF EditFile
<1> DEFINE old == EditText(form, e.old)
           new == EditText(form, e.new)
<1>2. old \in TextSet /\ new \in TextSet
  <2>1. e.old \in TextSet /\ e.new \in TextSet
    BY FileBounds DEF TextSet
  <2> QED BY <2>1, WrittenTyped
<1>3. file_text \in TextSet
  BY DEF FileTypeOK, TextSet
<1>4. Updated(file_text, old, new) \in TextSet
  <2>1. OnePlace(file_text, old)
    BY <1>1
  <2> HIDE DEF old, new
  <2> QED BY <1>2, <1>3, <2>1, UpdatedTyped
<1>5. editing' = [text |-> file_text, updated |-> Updated(file_text, old, new), old |-> old, new |-> new, live |-> TRUE]
  BY <1>1
<1> HIDE DEF old, new
<1>6. editing' \in [text : TextSet, updated : TextSet, old : TextSet, new : TextSet, live : BOOLEAN]
  BY <1>2, <1>3, <1>4, <1>5
<1> QED BY <1>6 DEF EditFile, FileTypeOK, TextSet

LEMMA NothingEdited == NoEdit \in [text : TextSet, updated : TextSet, old : TextSet, new : TextSet, live : BOOLEAN]
<1>1. <<>> \in TextSet
  BY DEF TextSet
<1> QED BY <1>1 DEF NoEdit

LEMMA WriteEditKeeps == ASSUME FileTypeOK, WriteEdit PROVE FileTypeOK'
<1>1. editing' \in [text : TextSet, updated : TextSet, old : TextSet, new : TextSet, live : BOOLEAN] /\ search' = search
  BY NothingEdited DEF WriteEdit
<1>3. CASE /\ file_text' = editing.updated /\ PageStale
           /\ known' = UNION {{ReplacedAt(k, i, Lf(editing.old), Lf(editing.new)) : i \in PlacesOf(k, Lf(editing.old))} : k \in known}
  <2>1. editing.old \in TextSet /\ editing.new \in TextSet /\ editing.updated \in TextSet
    BY DEF FileTypeOK, TextSet
  <2>2. Lf(editing.old) \in TextSet /\ Lf(editing.new) \in TextSet
    BY <2>1, LfTyped
  <2>3. \A k \in known : \A i \in PlacesOf(k, Lf(editing.old)) : ReplacedAt(k, i, Lf(editing.old), Lf(editing.new)) \in TextSet
    <3>1. known \subseteq TextSet
      BY DEF FileTypeOK, TextSet
    <3> QED BY <2>2, <3>1, ReplacedTyped
  <2>4. known' \subseteq TextSet
    BY <1>3, <2>3
  <2>5. page' \in [lines : Seq(Seq(Pieces)), next : Nat, same : BOOLEAN]
    BY <1>3, StaleKeeps
  <2> QED BY <1>1, <1>3, <2>1, <2>4, <2>5 DEF FileTypeOK, TextSet
<1>4. CASE CutWrite(editing.updated) /\ UNCHANGED diffed
  <2>1. editing.updated \in TextSet
    BY DEF FileTypeOK, TextSet
  <2> QED BY <1>1, <1>4, <2>1, CutKeepsFile DEF FileTypeOK, TextSet
<1> QED BY <1>3, <1>4 DEF WriteEdit

LEMMA OtherKeeps == ASSUME FileTypeOK, OtherWrite PROVE FileTypeOK'
<1>1. file_text' \in TextSet /\ known' \subseteq TextSet
  BY FileBounds DEF OtherWrite, TextSet
<1>2. page' \in [lines : Seq(Seq(Pieces)), next : Nat, same : BOOLEAN]
  BY StaleKeeps DEF OtherWrite
<1> QED BY <1>1, <1>2 DEF OtherWrite, FileTypeOK, TextSet

Walks == {w \in [visited : Nat, hits : Seq(Nat \X Nat)] : Len(w.hits) <= MaxHits}
Searched == [kind : {"text", "skipped", "pruned"}, hits : Nat]

LEMMA VisitTyped == ASSUME NEW acc \in Walks, NEW i \in Nat, NEW file \in Searched PROVE Visit(acc, i, file) \in Walks
<1>1. acc.visited \in Nat /\ acc.hits \in Seq(Nat \X Nat) /\ Len(acc.hits) <= MaxHits /\ MaxHits \in Nat
  BY FileBounds DEF Walks
<1>2. CASE Len(acc.hits) >= MaxHits \/ acc.visited >= MaxVisited \/ file.kind = "pruned"
  BY <1>2 DEF Visit
<1>3. CASE ~(Len(acc.hits) >= MaxHits \/ acc.visited >= MaxVisited \/ file.kind = "pruned")
  <2> DEFINE room == MaxHits - Len(acc.hits)
             more == Min({file.hits, room})
             found == [n \in 1..more |-> <<i, n>>]
             hits == IF file.kind = "skipped" THEN acc.hits ELSE acc.hits \o found
  <2>1. room \in Nat /\ file.hits \in Nat
    BY <1>1, <1>3 DEF Searched
  <2>2. more \in Nat /\ more <= room
    <3> HIDE DEF room
    <3> QED BY <2>1, LesserOf
  <2>3. found \in Seq(Nat \X Nat) /\ Len(found) = more
    <3> HIDE DEF more
    <3> QED BY <2>2
  <2>4. Visit(acc, i, file) = [visited |-> acc.visited + 1, hits |-> hits]
    BY <1>3 DEF Visit
  <2> HIDE DEF found, more
  <2>5. acc.hits \o found \in Seq(Nat \X Nat) /\ Len(acc.hits \o found) = Len(acc.hits) + more
    <3> DEFINE Hits == Nat \X Nat
               s == acc.hits
    <3>1. s \in Seq(Hits) /\ found \in Seq(Hits) /\ Len(found) = more
      BY <1>1, <2>3
    <3> HIDE DEF Hits, s
    <3>2. s \o found \in Seq(Hits) /\ Len(s \o found) = Len(s) + Len(found)
      BY <3>1, ConcatProperties
    <3> QED BY <3>1, <3>2 DEF Hits, s
  <2>6. hits \in Seq(Nat \X Nat) /\ Len(hits) <= MaxHits
    <3>1. Len(acc.hits) \in Nat /\ Len(acc.hits) + more <= MaxHits
      BY <1>1, <2>2
    <3> QED BY <1>1, <2>5, <3>1
  <2> HIDE DEF hits
  <2> QED BY <1>1, <2>4, <2>6 DEF Walks
<1> QED BY <1>2, <1>3

\* A tree is walked file by file.
WalkedBy(tree, g) ==
  /\ Walk(tree) = g[Len(tree)] /\ g[0] = [visited |-> 0, hits |-> <<>>]
  /\ \A n \in 1..Len(tree) : g[n] = Visit(g[n - 1], n, tree[n])

LEMMA WalkedAlong == ASSUME NEW tree \in Seq(Searched) PROVE \E g : WalkedBy(tree, g) /\ \A n \in 0..Len(tree) : g[n] \in Walks
<1> DEFINE N == Len(tree)
           start == [visited |-> 0, hits |-> <<>>]
           op == [x \in Walks \X (1..N) |-> Visit(x[1], x[2], tree[x[2]])]
           g == CHOOSE g : g = [i \in 0..N |-> IF i = 0 THEN start ELSE Visit(g[i - 1], i, tree[i])]
<1>1. N \in Nat /\ \A n \in 1..N : n \in Nat /\ tree[n] \in Searched
  BY ElementOfSeq
<1>2. \A s \in Walks, n \in 1..N : Visit(s, n, tree[n]) \in Walks
  BY <1>1, VisitTyped
<1>3. op \in [Walks \X (1..N) -> Walks] /\ start \in Walks
  <2>1. start \in Walks
    <3>1. <<>> \in Seq(Nat \X Nat) /\ Len(<<>>) <= MaxHits
      BY FileBounds
    <3> QED BY <3>1 DEF Walks
  <2> HIDE DEF N
  <2> QED BY <1>2, <2>1
<1>4. Walk(tree) = g[N]
  BY DEF Walk
<1> HIDE DEF N, start
<1>5. PICK f \in [0..N -> Walks] : f[0] = start /\ \A n \in 1..N : f[n] = op[<<f[n - 1], n>>]
  <2> HIDE DEF op
  <2>1. HasFold(N, Walks, start, op)
    BY <1>1, <1>3, FoldExists, Zenon
  <2> QED BY <2>1 DEF HasFold
<1>6. f = [i \in 0..N |-> IF i = 0 THEN start ELSE Visit(f[i - 1], i, tree[i])]
  <2>1. \A n \in 1..N : op[<<f[n - 1], n>>] = Visit(f[n - 1], n, tree[n])
    BY <1>1
  <2> HIDE DEF op
  <2>2. \A n \in 0..N : n = 0 \/ n \in 1..N
    BY <1>1
  <2>3. \A n \in 0..N : f[n] = IF n = 0 THEN start ELSE Visit(f[n - 1], n, tree[n])
    BY <1>5, <2>1, <2>2
  <2> QED BY <1>5, <2>3
<1>7. g = [i \in 0..N |-> IF i = 0 THEN start ELSE Visit(g[i - 1], i, tree[i])]
  BY <1>6
<1> HIDE DEF g
<1>8. g[0] = start
  BY <1>1, <1>7
<1>9. \A n \in 1..N : g[n] = Visit(g[n - 1], n, tree[n])
  <2> SUFFICES ASSUME NEW n \in 1..N PROVE g[n] = Visit(g[n - 1], n, tree[n])
    OBVIOUS
  <2>1. n \in 0..N /\ n # 0
    BY <1>1
  <2> QED BY <1>7, <2>1
<1>10. \A n \in 0..N : g[n] \in Walks
  <2>1. \A n \in 1..N : g[n - 1] \in Walks => g[n] \in Walks
    BY <1>2, <1>9
  <2> QED BY <1>1, <1>3, <1>8, <2>1, FoldStays
<1> QED BY <1>4, <1>8, <1>9, <1>10 DEF N, start, WalkedBy

LEMMA WalkTyped == ASSUME NEW tree \in Seq(Searched) PROVE Walk(tree) \in Walks
<1>1. PICK g : WalkedBy(tree, g) /\ \A n \in 0..Len(tree) : g[n] \in Walks
  BY WalkedAlong
<1>2. Len(tree) \in 0..Len(tree)
  OBVIOUS
<1> QED BY <1>1, <1>2 DEF WalkedBy

LEMMA SearchKeeps == ASSUME FileTypeOK, GrepSearch PROVE FileTypeOK'
<1>1. PICK tree \in Trees : search' = [tree |-> tree, hits |-> Walk(tree).hits,
                                       note |-> Walk(tree).visited >= MaxVisited /\ Len(Walk(tree).hits) < MaxHits]
  BY DEF GrepSearch
<1>2. Walk(tree) \in Walks
  <2>1. tree \in Seq(Searched)
    BY FileBounds DEF Searched
  <2> QED BY <2>1, WalkTyped
<1>3. search'.hits \in Seq(Nat \X Nat) /\ Len(search'.hits) <= MaxHits
  BY <1>1, <1>2 DEF Walks
<1> QED BY <1>3 DEF GrepSearch, FileTypeOK

LEMMA FilesBegin == FilesInit => FileTypeOK
<1> SUFFICES ASSUME FilesInit PROVE FileTypeOK
  OBVIOUS
<1>1. file_text \in Seq(Pieces) /\ known \subseteq Seq(Pieces)
  BY FileBounds DEF FilesInit
<1>2. editing \in [text : TextSet, updated : TextSet, old : TextSet, new : TextSet, live : BOOLEAN]
  BY NothingEdited DEF FilesInit
<1>3. page \in [lines : Seq(TextSet), next : Nat, same : BOOLEAN]
  BY DEF FilesInit, NoPage
<1>4. search.hits \in Seq(Nat \X Nat) /\ Len(search.hits) <= MaxHits
  BY FileBounds DEF FilesInit, NoSearch
<1> QED BY <1>1, <1>2, <1>3, <1>4 DEF FileTypeOK, TextSet

(* For every text, tree and limit of the file tools: what a write, an edit   *)
(* or a page leaves behind is made of the pieces a text has, however its     *)
(* lines were cut, and a search returns places, never more than its limit.   *)
THEOREM FilesTypeCorrect == FilesSpec => []FileTypeOK
<1>1. FileTypeOK /\ [FilesNext]_fileVars => FileTypeOK'
  <2> SUFFICES ASSUME FileTypeOK, [FilesNext]_fileVars PROVE FileTypeOK'
    OBVIOUS
  <2>1. CASE UNCHANGED fileVars
    BY <2>1 DEF fileVars, FileTypeOK
  <2> QED BY <2>1, ReadKeepsFile, WriteKeepsFile, EditKeepsFile, WriteEditKeeps, OtherKeeps, SearchKeeps DEF FilesNext
<1> QED BY <1>1, FilesBegin, PTL DEF FilesSpec

\* What there is to be found in the first files of a tree.
There(tree, i) ==
  {hit \in (1..i) \X (1..MaxHits) : tree[hit[1]].kind = "text" /\ hit[2] <= tree[hit[1]].hits}

\* A walk that met neither limit has found it.
Thorough(tree, i, w) == Len(w.hits) < MaxHits /\ w.visited < MaxVisited => ToSet(w.hits) = There(tree, i)

\* The elements of a list and of what it is continued with.
LEMMA ToSetJoins == ASSUME NEW S, NEW s \in Seq(S), NEW t \in Seq(S) PROVE ToSet(s \o t) = ToSet(s) \cup ToSet(t)
<1>1. Len(s \o t) = Len(s) + Len(t) /\ Len(s) \in Nat /\ Len(t) \in Nat
  OBVIOUS
<1>2. \A i \in 1..(Len(s) + Len(t)) : (s \o t)[i] = IF i <= Len(s) THEN s[i] ELSE t[i - Len(s)]
  OBVIOUS
<1>3. ASSUME NEW x \in ToSet(s) PROVE x \in ToSet(s \o t)
  <2>1. PICK i \in 1..Len(s) : x = s[i]
    BY DEF ToSet
  <2>2. i \in 1..(Len(s) + Len(t)) /\ (s \o t)[i] = x
    BY <1>1, <1>2, <2>1
  <2> QED BY <1>1, <2>2 DEF ToSet
<1>4. ASSUME NEW x \in ToSet(t) PROVE x \in ToSet(s \o t)
  <2>1. PICK i \in 1..Len(t) : x = t[i]
    BY DEF ToSet
  <2>2. Len(s) + i \in 1..(Len(s) + Len(t)) /\ (s \o t)[Len(s) + i] = x
    BY <1>1, <1>2, <2>1
  <2> QED BY <1>1, <2>2 DEF ToSet
<1>5. ASSUME NEW x \in ToSet(s \o t) PROVE x \in ToSet(s) \cup ToSet(t)
  <2>1. PICK i \in 1..(Len(s) + Len(t)) : x = (s \o t)[i]
    BY <1>1 DEF ToSet
  <2>2. CASE i <= Len(s)
    BY <1>1, <1>2, <2>1, <2>2 DEF ToSet
  <2>3. CASE ~(i <= Len(s))
    <3>1. i - Len(s) \in 1..Len(t) /\ x = t[i - Len(s)]
      BY <1>1, <1>2, <2>1, <2>3
    <3> QED BY <3>1 DEF ToSet
  <2> QED BY <2>2, <2>3
<1> QED BY <1>3, <1>4, <1>5

LEMMA VisitFinds ==
  ASSUME NEW tree \in Seq(Searched), NEW i \in 1..Len(tree), NEW acc \in Walks, Thorough(tree, i - 1, acc)
  PROVE  Thorough(tree, i, Visit(acc, i, tree[i]))
<1> DEFINE file == tree[i]
           w == Visit(acc, i, file)
<1>1. /\ acc.visited \in Nat /\ acc.hits \in Seq(Nat \X Nat) /\ Len(acc.hits) \in Nat
      /\ MaxHits \in Nat /\ MaxVisited \in Nat /\ i \in Nat /\ file.hits \in Nat /\ file.kind \in {"text", "skipped", "pruned"}
  <2>1. tree[i] \in Searched
    BY ElementOfSeq
  <2>2. i \in Nat /\ Len(acc.hits) \in Nat /\ acc.hits \in Seq(Nat \X Nat) /\ acc.visited \in Nat
    BY DEF Walks
  <2> QED BY <2>1, <2>2, FileBounds DEF Searched
<1>2. CASE Len(acc.hits) >= MaxHits \/ acc.visited >= MaxVisited
  <2>1. w = acc
    BY <1>2 DEF Visit
  <2> QED BY <1>1, <1>2, <2>1 DEF Thorough
<1>3. CASE ~(Len(acc.hits) >= MaxHits \/ acc.visited >= MaxVisited)
  <2>1. ToSet(acc.hits) = There(tree, i - 1)
    BY <1>1, <1>3 DEF Thorough
  <2>2. CASE file.kind # "text"
    <3>1. w.hits = acc.hits
      BY <1>1, <1>3, <2>2 DEF Visit
    <3>2. There(tree, i) = There(tree, i - 1)
      <4>1. \A j \in 1..i : j \in 1..(i - 1) \/ j = i
        BY <1>1
      <4>2. 1..(i - 1) \subseteq 1..i
        BY <1>1
      <4> QED BY <2>2, <4>1, <4>2 DEF There
    <3> HIDE DEF w
    <3>3. ToSet(w.hits) = There(tree, i)
      BY <2>1, <3>1, <3>2
    <3> QED BY <3>3 DEF Thorough, w
  <2>3. CASE file.kind = "text"
    <3> DEFINE room == MaxHits - Len(acc.hits)
               more == Min({file.hits, room})
               found == [n \in 1..more |-> <<i, n>>]
               Hits == Nat \X Nat
    <3>1. w.hits = acc.hits \o found
      BY <1>1, <1>3, <2>3 DEF Visit
    <3>2. room \in Nat
      BY <1>1, <1>3
    <3>3. more \in Nat /\ more \in {file.hits, room} /\ more <= file.hits
      <4> HIDE DEF room
      <4> QED BY <1>1, <3>2, LesserOf
    <3> HIDE DEF more, w
    <3>4. found \in Seq(Hits) /\ Len(found) = more /\ ToSet(found) = {<<i, n>> : n \in 1..more}
      BY <1>1, <3>3 DEF ToSet
    <3> HIDE DEF found
    <3>5. ToSet(w.hits) = ToSet(acc.hits) \cup ToSet(found) /\ Len(w.hits) = Len(acc.hits) + more
      <4> DEFINE s == acc.hits
      <4>1. s \in Seq(Hits)
        BY <1>1
      <4> HIDE DEF Hits, s
      <4>2. Len(s \o found) = Len(s) + Len(found)
        BY <3>4, <4>1, ConcatProperties
      <4>3. ToSet(s \o found) = ToSet(s) \cup ToSet(found)
        BY <3>4, <4>1, ToSetJoins
      <4> QED BY <3>1, <3>4, <4>2, <4>3 DEF s
    <3> SUFFICES ASSUME Len(w.hits) < MaxHits PROVE ToSet(w.hits) = There(tree, i)
      BY DEF Thorough, w
    <3>6. more = file.hits /\ more <= MaxHits
      BY <1>1, <3>2, <3>3, <3>5
    <3>7. There(tree, i) = There(tree, i - 1) \cup {<<i, n>> : n \in 1..more}
      <4>1. ASSUME NEW hit \in There(tree, i) PROVE hit \in There(tree, i - 1) \cup {<<i, n>> : n \in 1..more}
        <5>1. PICK j \in 1..i, n \in 1..MaxHits : hit = <<j, n>> /\ tree[j].kind = "text" /\ n <= tree[j].hits
          BY DEF There
        <5>2. CASE j = i
          BY <1>1, <3>6, <5>1, <5>2
        <5>3. CASE j # i
          BY <1>1, <5>1, <5>3 DEF There
        <5> QED BY <5>2, <5>3
      <4>2. ASSUME NEW hit \in There(tree, i - 1) PROVE hit \in There(tree, i)
        BY <1>1, <4>2 DEF There
      <4>3. ASSUME NEW n \in 1..more PROVE <<i, n>> \in There(tree, i)
        BY <1>1, <2>3, <3>6, <4>3 DEF There
      <4> QED BY <4>1, <4>2, <4>3
    <3> QED BY <2>1, <3>4, <3>5, <3>7
  <2> QED BY <2>2, <2>3
<1> QED BY <1>2, <1>3

LEMMA WalkFinds ==
  ASSUME NEW tree \in Seq(Searched) PROVE Thorough(tree, Len(tree), Walk(tree))
<1> DEFINE N == Len(tree)
<1>1. PICK g : WalkedBy(tree, g) /\ \A n \in 0..N : g[n] \in Walks
  BY WalkedAlong
<1> DEFINE Good == {n \in 0..N : Thorough(tree, n, g[n])}
<1>2. N \in Nat
  OBVIOUS
<1>3. 0 \in Good
  <2>1. There(tree, 0) = {}
    BY DEF There
  <2>2. g[0].hits = <<>>
    BY <1>1 DEF WalkedBy
  <2>3. ToSet(g[0].hits) = {}
    BY <2>2 DEF ToSet
  <2>4. Thorough(tree, 0, g[0])
    BY <2>1, <2>3 DEF Thorough
  <2> QED BY <1>2, <2>4
<1>4. \A n \in 1..N : n - 1 \in Good => n \in Good
  <2> SUFFICES ASSUME NEW n \in 1..N, n - 1 \in Good PROVE n \in Good
    OBVIOUS
  <2>1. Thorough(tree, n - 1, g[n - 1]) /\ g[n - 1] \in Walks
    BY <1>1
  <2>2. g[n] = Visit(g[n - 1], n, tree[n])
    BY <1>1 DEF WalkedBy
  <2> QED BY <2>1, <2>2, VisitFinds
<1>5. N \in Good
  <2> HIDE DEF Good, N
  <2>1. 0..N \subseteq Good
    BY <1>2, <1>3, <1>4, UpTo
  <2> QED BY <1>2, <2>1
<1> QED BY <1>1, <1>5 DEF WalkedBy

\* A page that stayed the same goes on where the lines before it end.
LEMMA ShowFollows ==
  ASSUME FileTypeOK, PagesTold, NEW start \in {1, page.next} \ {0}, NEW count \in Nat \ {0}, Show(start, count)
  PROVE  PagesTold'
<1> DEFINE ls == LinesOf(file_text)
           p == PageFrom(start, count)
           end == start + count - 1
           last == Min({end, Len(ls)})
           before == IF start = 1 THEN <<>> ELSE page.lines
<1>1. start \in Nat \ {0} /\ file_text' = file_text
  BY DEF FileTypeOK, Show
<1>2. page' = IF p.next = 0 THEN NoPage ELSE [lines |-> before \o p.lines, next |-> p.next, same |-> start = 1 \/ page.same]
  BY DEF Show
<1>3. p = [lines |-> IF start > Len(ls) THEN <<>> ELSE SubSeq(ls, start, last),
           next |-> IF start <= Len(ls) /\ last < Len(ls) THEN last + 1 ELSE 0]
  BY DEF PageFrom
<1>4. ls \in Seq(TextSet) /\ Len(ls) \in Nat
  BY LinesTyped DEF FileTypeOK, TextSet, LineLists
<1>5. start # 1 /\ page.same => page.lines = SubSeq(ls, 1, start - 1)
  BY <1>1 DEF PagesTold
<1>6. PagesTold' <=> (page'.next # 0 /\ page'.same => page'.lines = SubSeq(ls, 1, page'.next - 1))
  BY <1>1 DEF PagesTold
<1>7. end \in Nat /\ start <= end
  BY <1>1
<1> HIDE DEF p, end, before, ls
<1>8. last \in {end, Len(ls)} /\ last \in Nat
  BY <1>4, <1>7, LesserOf
<1> HIDE DEF last
<1> SUFFICES ASSUME page'.next # 0, page'.same PROVE page'.lines = SubSeq(ls, 1, page'.next - 1)
  BY <1>6
<1>9. p.next # 0 /\ page' = [lines |-> before \o p.lines, next |-> p.next, same |-> start = 1 \/ page.same]
  <2>1. NoPage.next = 0
    BY DEF NoPage
  <2> QED BY <1>2, <2>1
<1>10. /\ start <= Len(ls) /\ last < Len(ls) /\ p.next = last + 1
       /\ p.lines = SubSeq(ls, start, last) /\ start <= last
  BY <1>1, <1>3, <1>4, <1>7, <1>8, <1>9
<1>11. before \o SubSeq(ls, start, last) = SubSeq(ls, 1, last)
  <2>1. CASE start = 1
    <3>1. SubSeq(ls, 1, last) \in Seq(TextSet)
      BY <1>4, <1>8, <1>10, <2>1, SubSeqProperties
    <3> QED BY <2>1, <3>1 DEF before
  <2>2. CASE start # 1
    <3>1. before = SubSeq(ls, 1, start - 1)
      BY <1>5, <1>9, <2>2 DEF before
    <3> DEFINE k == start - 1
    <3>2. k \in 0..Len(ls) /\ last \in k..Len(ls) /\ k + 1 = start /\ 1 \in 1..(Len(ls) + 1)
      BY <1>1, <1>4, <1>8, <1>10
    <3> HIDE DEF k
    <3>3. SubSeq(ls, 1, k) \o SubSeq(ls, k + 1, last) = SubSeq(ls, 1, last)
      BY <1>4, <3>2, ConcatAdjacentSubSeq
    <3> QED BY <3>1, <3>2, <3>3 DEF k
  <2> QED BY <2>1, <2>2
<1> QED BY <1>8, <1>9, <1>10, <1>11

LEMMA PagesKeep == ASSUME FileTypeOK, PagesTold, FilesNext PROVE PagesTold'
<1>1. CASE ReadFile
  <2>1. PICK count \in {MediumLines, DefaultLines} : Show(1, count)
    BY <1>1 DEF ReadFile
  <2>2. count \in Nat \ {0}
    BY FileBounds
  <2> QED BY <2>1, <2>2, ShowFollows
<1>2. CASE ReadRange
  <2>1. PICK start \in {1, page.next} \ {0}, given \in {0, 1, MaxLines + 1} : Show(start, Max({1, Min({given, MaxLines})}))
    BY <1>2 DEF ReadRange
  <2> DEFINE least == Min({given, MaxLines})
             count == Max({1, least})
  <2>2. given \in Nat /\ MaxLines \in Nat
    BY FileBounds
  <2>3. least \in Nat
    BY <2>2, LesserOf
  <2> HIDE DEF least
  <2>4. count \in Nat \ {0}
    <3>1. Max({1, least}) \in {1, least} /\ 1 <= Max({1, least})
      BY <2>3, GreaterOf
    <3> QED BY <2>3, <3>1
  <2>5. Show(start, count)
    BY <2>1 DEF least
  <2> HIDE DEF count
  <2> QED BY <2>4, <2>5, ShowFollows
<1>3. CASE WriteFile \/ WriteEdit \/ OtherWrite
  <2>1. PageStale \/ UNCHANGED <<page, file_text>>
    BY <1>3 DEF WriteFile, WriteEdit, OtherWrite, CutWrite
  <2>2. CASE PageStale
    <3>1. ~page'.same
      BY <2>2 DEF PageStale, FileTypeOK
    <3> QED BY <3>1 DEF PagesTold
  <2>3. CASE UNCHANGED <<page, file_text>>
    BY <2>3 DEF PagesTold
  <2> QED BY <2>1, <2>2, <2>3
<1>4. CASE EditFile \/ GrepSearch
  BY <1>4 DEF EditFile, GrepSearch, PagesTold
<1> QED BY <1>1, <1>2, <1>3, <1>4 DEF FilesNext

LEMMA SearchesKeep == ASSUME SearchTold, FilesNext PROVE SearchTold'
<1>1. CASE GrepSearch
  <2>1. PICK tree \in Trees : search' = [tree |-> tree, hits |-> Walk(tree).hits,
                                         note |-> Walk(tree).visited >= MaxVisited /\ Len(Walk(tree).hits) < MaxHits]
    BY <1>1 DEF GrepSearch
  <2>2. tree \in Seq(Searched)
    BY FileBounds DEF Searched
  <2>3. Walk(tree) \in Walks /\ Thorough(tree, Len(tree), Walk(tree))
    BY <2>2, WalkTyped, WalkFinds
  <2> DEFINE w == Walk(tree)
  <2>4. w.visited \in Nat /\ MaxVisited \in Nat
    BY <2>3, FileBounds DEF Walks
  <2>5. DOMAIN tree = 1..Len(tree)
    BY <2>2
  <2> HIDE DEF w
  <2>6. search'.tree = tree /\ search'.hits = w.hits /\ search'.note = (w.visited >= MaxVisited /\ Len(w.hits) < MaxHits)
    BY <2>1 DEF w
  <2>7. Len(w.hits) < MaxHits /\ ~(w.visited >= MaxVisited) => ToSet(w.hits) = There(tree, Len(tree))
    BY <2>3, <2>4 DEF Thorough, w
  <2> QED BY <2>5, <2>6, <2>7 DEF SearchTold, There
<1>2. CASE ~GrepSearch
  <2>1. search' = search
    BY <1>2 DEF FilesNext, ReadFile, ReadRange, Show, WriteFile, EditFile, WriteEdit, OtherWrite
  <2> QED BY <2>1 DEF SearchTold
<1> QED BY <1>1, <1>2

\* A file that stays as it is while it is read page by page, each from the line the page
\* before it names, is read without a gap or a line twice, for any limits of a page
\* (read_file_range_with_policy of tools.rs).
THEOREM PagesFollow == FilesSpec => []PagesTold
<1>1. FilesInit => PagesTold
  BY DEF FilesInit, PagesTold, NoPage
<1>2. FileTypeOK /\ PagesTold /\ [FilesNext]_fileVars => PagesTold'
  BY PagesKeep DEF fileVars, PagesTold
<1> QED BY <1>1, <1>2, FilesTypeCorrect, PTL DEF FilesSpec

\* A search with fewer hits than its limit and without a note has found all there are,
\* for any tree and any limits (grep_search of tools.rs).
THEOREM SearchFindsAll == FilesSpec => []SearchTold
<1>1. FilesInit => SearchTold
  <2>1. ToSet(<<>>) = {} /\ DOMAIN <<>> = {}
    BY DEF ToSet
  <2> QED BY <2>1 DEF FilesInit, SearchTold, NoSearch
<1>2. SearchTold /\ [FilesNext]_fileVars => SearchTold'
  BY SearchesKeep DEF fileVars, SearchTold
<1> QED BY <1>1, <1>2, PTL DEF FilesSpec

------------------------------------------------------------------------------
(* The parser of a reply *)

\* What a pass writes for a line, when the lines are n.
Rewrites(n, S) == [out : Seq(S), next : 1..(n + 1), quoted : BOOLEAN]

LEMMA SewnTyped ==
  ASSUME NEW N \in Nat, NEW S, NEW made \in [(1..N) \X BOOLEAN -> Rewrites(N, S)],
         \A i \in 1..N, q \in BOOLEAN : made[<<i, q>>].next > i
  PROVE  Sewn(made, N) \in Seq(S)
<1> DEFINE Q == Seq(S)
           D(m) == (m..(N + 1)) \X BOOLEAN
           Value(f, p) == IF p[1] > N THEN <<>> ELSE made[p].out \o f[<<made[p].next, made[p].quoted>>]
           Good(m) == \E f \in [D(m) -> Q] : \A p \in D(m) : f[p] = Value(f, p)
           Wrong == {k \in 0..N : ~Good(N + 1 - k)}
           g == CHOOSE g : g = [p \in D(1) |-> Value(g, p)]
<1>1. \A i \in 1..N, q \in BOOLEAN :
        /\ made[<<i, q>>].out \in Q /\ made[<<i, q>>].next \in 1..(N + 1) /\ made[<<i, q>>].next > i
        /\ made[<<i, q>>].quoted \in BOOLEAN
  BY DEF Rewrites
<1>2. <<>> \in Q /\ \A s, t \in Q : s \o t \in Q
  OBVIOUS
<1> HIDE DEF Q
\* A step down.
<1>3. ASSUME NEW m \in 1..N, NEW f \in [D(m + 1) -> Q], NEW q \in BOOLEAN
      PROVE  Value(f, <<m, q>>) \in Q
  <2> DEFINE p == <<m, q>>
             to == <<made[p].next, made[p].quoted>>
  <2>1. to \in D(m + 1)
    BY <1>1, <1>3
  <2>2. f[to] \in Q
    BY <2>1
  <2>3. made[p].out \o f[to] \in Q
    BY <1>1, <1>2, <2>2
  <2> QED BY <2>3
<1>4. Good(N + 1)
  <2> DEFINE f == [p \in D(N + 1) |-> <<>>]
  <2>1. f \in [D(N + 1) -> Q] /\ \A p \in D(N + 1) : p[1] > N
    BY <1>2
  <2> QED BY <2>1
<1>5. ASSUME NEW m \in 1..N, Good(m + 1) PROVE Good(m)
  <2>1. PICK f \in [D(m + 1) -> Q] : \A p \in D(m + 1) : f[p] = Value(f, p)
    BY <1>5
  <2> DEFINE h == [p \in D(m) |-> IF p[1] = m THEN Value(f, p) ELSE f[p]]
  <2>2. \A p \in D(m) : p \in D(m + 1) \/ \E q \in BOOLEAN : p = <<m, q>>
    <3> SUFFICES ASSUME NEW p \in D(m) PROVE p \in D(m + 1) \/ \E q \in BOOLEAN : p = <<m, q>>
      OBVIOUS
    <3>1. p = <<p[1], p[2]>> /\ p[1] \in m..(N + 1) /\ p[2] \in BOOLEAN
      OBVIOUS
    <3>2. CASE p[1] = m
      BY <3>1, <3>2
    <3>3. CASE p[1] # m
      <4>1. p[1] \in (m + 1)..(N + 1)
        BY <3>1, <3>3
      <4>2. <<p[1], p[2]>> \in D(m + 1)
        BY <3>1, <4>1
      <4> HIDE DEF D
      <4> QED BY <3>1, <4>2
    <3> QED BY <3>2, <3>3
  <2>3. \A p \in D(m + 1) : p \in D(m) /\ h[p] = f[p]
    <3> SUFFICES ASSUME NEW p \in D(m + 1) PROVE p \in D(m) /\ h[p] = f[p]
      OBVIOUS
    <3>1. p = <<p[1], p[2]>> /\ p[1] \in (m + 1)..(N + 1) /\ p[2] \in BOOLEAN
      OBVIOUS
    <3>2. p[1] \in m..(N + 1) /\ p[1] # m
      BY <3>1
    <3>3. <<p[1], p[2]>> \in D(m)
      BY <3>1, <3>2
    <3>4. p \in D(m)
      <4> HIDE DEF D
      <4> QED BY <3>1, <3>3
    <3>5. h[p] = IF p[1] = m THEN Value(f, p) ELSE f[p]
      <4> HIDE DEF D, Value
      <4> QED BY <3>4
    <3> QED BY <3>2, <3>4, <3>5
  <2>4. \A q \in BOOLEAN : <<m, q>> \in D(m) /\ h[<<m, q>>] = Value(f, <<m, q>>)
    <3> SUFFICES ASSUME NEW q \in BOOLEAN PROVE <<m, q>> \in D(m) /\ h[<<m, q>>] = Value(f, <<m, q>>)
      OBVIOUS
    <3>1. <<m, q>> \in D(m) /\ <<m, q>>[1] = m
      OBVIOUS
    <3> DEFINE p == <<m, q>>
    <3> HIDE DEF D, Value, p
    <3>2. p \in D(m) /\ p[1] = m
      BY <3>1 DEF p
    <3>3. h[p] = Value(f, p)
      BY <3>2
    <3> QED BY <3>2, <3>3 DEF p
  <2>5. h \in [D(m) -> Q]
    <3>1. ASSUME NEW p \in D(m) PROVE h[p] \in Q
      <4>1. CASE p \in D(m + 1)
        <5>1. f[p] \in Q /\ h[p] = f[p]
          <6> HIDE DEF D, h
          <6> QED BY <2>3, <4>1
        <5> QED BY <5>1
      <4>2. CASE \E q \in BOOLEAN : p = <<m, q>>
        <5>1. PICK q \in BOOLEAN : p = <<m, q>>
          BY <4>2
        <5>2. Value(f, <<m, q>>) \in Q
          BY <1>3
        <5> HIDE DEF h, Value
        <5> QED BY <2>4, <5>1, <5>2
      <4> QED BY <2>2, <4>1, <4>2
    <3>2. \A p \in D(m) : (IF p[1] = m THEN Value(f, p) ELSE f[p]) \in Q
      <4> SUFFICES ASSUME NEW p \in D(m) PROVE (IF p[1] = m THEN Value(f, p) ELSE f[p]) \in Q
        OBVIOUS
      <4>1. h[p] = IF p[1] = m THEN Value(f, p) ELSE f[p]
        <5> HIDE DEF D, Value
        <5> QED OBVIOUS
      <4> HIDE DEF h, D, Value
      <4> QED BY <3>1, <4>1
    <3> HIDE DEF D, Value
    <3> QED BY <3>2
  <2> HIDE DEF h
  <2>6. \A p \in D(m) : p[1] \in 1..N => Value(h, p) = Value(f, p)
    <3> SUFFICES ASSUME NEW p \in D(m), p[1] \in 1..N PROVE Value(h, p) = Value(f, p)
      OBVIOUS
    <3>1. p = <<p[1], p[2]>> /\ p[2] \in BOOLEAN /\ p[1] >= m
      OBVIOUS
    <3>2. <<made[p].next, made[p].quoted>> \in D(m + 1)
      BY <1>1, <3>1
    <3> QED BY <2>3, <3>2
  <2>7. ASSUME NEW p \in D(m) PROVE h[p] = Value(h, p)
    <3>1. CASE p[1] > N
      <4>1. p \in D(m + 1)
        BY <3>1
      <4> QED BY <2>1, <2>3, <3>1, <4>1
    <3>2. CASE ~(p[1] > N)
      <4>1. p[1] \in 1..N
        BY <3>2
      <4>2. Value(h, p) = Value(f, p)
        BY <2>6, <4>1
      <4>3. h[p] = Value(f, p)
        <5> HIDE DEF D, Value
        <5> QED BY <2>1, <2>2, <2>3, <2>4
      <4> HIDE DEF Value
      <4> QED BY <4>2, <4>3
    <3> QED BY <3>1, <3>2
  <2> HIDE DEF Value, D
  <2> QED BY <2>5, <2>7
<1> HIDE DEF Good
<1>6. Wrong = {}
  <2> SUFFICES ASSUME Wrong # {} PROVE FALSE
    OBVIOUS
  <2>1. PICK n \in Wrong : \A k \in Wrong : n <= k
    <3>1. Wrong \in SUBSET Nat
      OBVIOUS
    <3> HIDE DEF Wrong
    <3> QED BY <3>1, LeastOf
  <2>2. n \in 0..N /\ ~Good(N + 1 - n)
    BY <2>1
  <2>3. n # 0
    BY <1>4, <2>2
  <2> DEFINE m == N + 1 - n
  <2>4. n - 1 \in 0..N /\ ~(n <= n - 1) /\ m \in 1..N /\ N + 1 - (n - 1) = m + 1
    BY <2>2, <2>3
  <2>5. Good(m + 1)
    BY <2>1, <2>4
  <2> QED BY <1>5, <2>2, <2>4, <2>5
<1>7. Good(1)
  <2>1. N \in 0..N /\ N + 1 - N = 1
    OBVIOUS
  <2>2. Good(N + 1 - N)
    BY <1>6, <2>1
  <2> QED BY <2>1, <2>2
<1>8. PICK f \in [D(1) -> Q] : \A p \in D(1) : f[p] = Value(f, p)
  BY <1>7 DEF Good
<1>9. f = [p \in D(1) |-> Value(f, p)]
  <2> HIDE DEF D, Value
  <2> QED BY <1>8
<1>10. g = [p \in D(1) |-> Value(g, p)]
  <2> HIDE DEF D, Value
  <2> QED BY <1>9
<1>11. Sewn(made, N) = g[<<1, FALSE>>]
  BY DEF Sewn
<1> HIDE DEF g
<1>12. \A k \in 0..N : \A q \in BOOLEAN : g[<<N + 1 - k, q>>] \in Q
  <2> DEFINE Bad == {k \in 0..N : \E q \in BOOLEAN : g[<<N + 1 - k, q>>] \notin Q}
  <2> SUFFICES ASSUME Bad # {} PROVE FALSE
    OBVIOUS
  <2>1. PICK k \in Bad : \A j \in Bad : k <= j
    <3>1. Bad \in SUBSET Nat
      OBVIOUS
    <3> HIDE DEF Bad
    <3> QED BY <3>1, LeastOf
  <2>2. k \in 0..N
    BY <2>1
  <2>3. PICK q \in BOOLEAN : g[<<N + 1 - k, q>>] \notin Q
    BY <2>1
  <2> DEFINE i == N + 1 - k
             p == <<i, q>>
  <2>4. i \in 1..(N + 1) /\ p \in D(1)
    BY <2>2
  <2>5. g[p] = Value(g, p)
    <3> HIDE DEF D, Value, p
    <3> QED BY <1>10, <2>4
  <2>6. CASE i > N
    BY <1>2, <2>3, <2>5, <2>6
  <2>7. CASE ~(i > N)
    <3>1. i \in 1..N
      BY <2>4, <2>7
    <3> DEFINE nxt == made[p].next
               j == N + 1 - nxt
    <3>2. nxt \in 1..(N + 1) /\ nxt > i /\ made[p].quoted \in BOOLEAN /\ made[p].out \in Q
      BY <1>1, <3>1
    <3>3. j \in 0..N /\ ~(k <= j) /\ N + 1 - j = nxt
      <4> HIDE DEF nxt
      <4> QED BY <2>2, <3>2
    <3>4. \A r \in BOOLEAN : g[<<N + 1 - j, r>>] \in Q
      BY <2>1, <3>3
    <3>5. g[<<nxt, made[p].quoted>>] \in Q
      <4> HIDE DEF nxt, j, p
      <4> QED BY <3>2, <3>3, <3>4
    <3>6. Value(g, p) = made[p].out \o g[<<nxt, made[p].quoted>>]
      BY <2>7
    <3> HIDE DEF nxt, j, p, Value
    <3>7. g[p] \in Q
      BY <1>2, <2>5, <3>2, <3>5, <3>6
    <3> QED BY <2>3, <3>7 DEF p
  <2> QED BY <2>6, <2>7
<1>13. g[<<N + 1 - N, FALSE>>] \in Q /\ N + 1 - N = 1
  <2>1. N \in 0..N /\ N + 1 - N = 1
    OBVIOUS
  <2>2. g[<<N + 1 - N, FALSE>>] \in Q
    BY <1>12, <2>1
  <2> QED BY <2>1, <2>2
<1> QED BY <1>11, <1>13 DEF Q

ReplyLines == Seq(ReplyLine)
ToolOrNone == Tools \cup {"none"}
Arguments == Seq(Labels)

\* What a pass may make of line i.
Fit(ls, i) == [out : ReplyLines, next : (i + 1)..(Len(ls) + 1), quoted : BOOLEAN]

LEMMA LineTyped ==
  ASSUME NEW kind \in LineKinds, NEW tool \in ToolOrNone, NEW args \in Arguments
  PROVE  Line(kind, tool, args) \in ReplyLine
BY DEF Line, ReplyLine, ToolOrNone, Arguments

LEMMA LineIs ==
  ASSUME NEW l \in ReplyLine
  PROVE  /\ l.kind \in LineKinds /\ l.tool \in ToolOrNone /\ l.args \in Arguments
         /\ \A kind \in LineKinds : [l EXCEPT !.kind = kind] \in ReplyLine
BY DEF ReplyLine, ToolOrNone, Arguments

LEMMA LineAtIs == ASSUME NEW ls \in ReplyLines, NEW i \in 1..Len(ls) PROVE ls[i] \in ReplyLine
BY ElementOfSeq DEF ReplyLines

LEMMA NoArgs == <<>> \in Arguments /\ <<>> \in ReplyLines /\ "none" \in ToolOrNone
BY DEF Arguments, ReplyLines, ToolOrNone

LEMMA ListsGrow ==
  /\ \A s, t \in ReplyLines : s \o t \in ReplyLines
  /\ \A s \in ReplyLines, l \in ReplyLine : Append(s, l) \in ReplyLines
  /\ \A l \in ReplyLine : <<l>> \in ReplyLines
  /\ \A s, t \in Arguments : s \o t \in Arguments
BY DEF ReplyLines, Arguments

LEMMA GivesTyped ==
  ASSUME NEW ls \in ReplyLines, NEW i \in 1..Len(ls), NEW out \in ReplyLines, NEW nxt \in (i + 1)..(Len(ls) + 1)
  PROVE  Gives(out, nxt) \in Fit(ls, i)
BY DEF Gives, Fit

LEMMA StaysTyped ==
  ASSUME NEW ls \in ReplyLines, NEW i \in 1..Len(ls)
  PROVE  Stays(ls, i) \in Fit(ls, i) /\ Stays(ls, i) = [out |-> <<ls[i]>>, next |-> i + 1, quoted |-> FALSE]
         /\ i + 1 \in (i + 1)..(Len(ls) + 1)
<1>1. i + 1 \in (i + 1)..(Len(ls) + 1)
  BY DEF ReplyLines
<1>2. <<ls[i]>> \in ReplyLines
  BY LineAtIs, ListsGrow
<1> QED BY <1>1, <1>2, GivesTyped DEF Stays, Gives

\* The first line of a kind after a line is one of them.
LEMMA AfterTyped ==
  ASSUME NEW ls \in ReplyLines, NEW i \in Nat, NEW kinds, After(ls, i, kinds) # 0
  PROVE  After(ls, i, kinds) \in (i + 1)..Len(ls) /\ ls[After(ls, i, kinds)].kind \in kinds
<1> DEFINE at == {j \in (i + 1)..Len(ls) : ls[j].kind \in kinds}
           first == CHOOSE k \in at : \A j \in at : k <= j
<1>1. at # {} /\ After(ls, i, kinds) = first
  BY DEF After
<1>2. first \in at
  <2>1. at \in SUBSET Nat
    BY DEF ReplyLines
  <2> HIDE DEF at
  <2>2. \E k \in at : \A j \in at : k <= j
    BY <1>1, <2>1, LeastOf
  <2> QED BY <2>2
<1> HIDE DEF first
<1> QED BY <1>1, <1>2

\* Lines between two of a list are lines.
LEMMA LinesBetween ==
  ASSUME NEW ls \in ReplyLines, NEW i \in Nat, NEW j \in Int, j <= Len(ls)
  PROVE  SubSeq(ls, i + 1, j) \in ReplyLines
<1>1. i + 1 \in Nat \ {0} /\ ls \in Seq(ReplyLine)
  BY DEF ReplyLines
<1> DEFINE k == i + 1
<1> HIDE DEF k
<1>2. SubSeq(ls, k, j) \in ReplyLines
  <2>1. k \in Nat \ {0}
    BY <1>1 DEF k
  <2> QED BY <1>1, <2>1, PartOf DEF ReplyLines
<1> QED BY <1>2 DEF k

LEMMA LinesIn ==
  ASSUME NEW ls \in ReplyLines, NEW i \in Nat, NEW j \in Int, j <= Len(ls) + 1
  PROVE  Body(ls, i, j) \in ReplyLines
<1> DEFINE k == j - 1
<1>1. k \in Int /\ k <= Len(ls)
  BY DEF ReplyLines
<1>2. Body(ls, i, j) = SubSeq(ls, i + 1, k)
  BY DEF Body
<1> HIDE DEF k
<1> QED BY <1>1, <1>2, LinesBetween

LEMMA FullTyped == ASSUME NEW body \in ReplyLines PROVE Full(body) \in ReplyLines /\ Params(body) \in ReplyLines
BY PickedTyped DEF Full, Params, ReplyLines

LEMMA ArgsTyped == ASSUME NEW body \in ReplyLines PROVE ArgsOf(body) \in Arguments
<1> DEFINE all == [k \in 1..Len(body) |-> body[k].args]
<1>1. Len(body) \in Nat /\ \A k \in 1..Len(body) : body[k].args \in Arguments
  BY LineAtIs, LineIs DEF ReplyLines
<1>2. all \in Seq(Arguments)
  BY <1>1
<1> HIDE DEF all
<1>3. FlattenSeq(all) \in Arguments
  BY <1>2, FlattenTyped DEF Arguments
<1> QED BY <1>3 DEF ArgsOf, all

LEMMA FirstAndRest ==
  ASSUME NEW body \in ReplyLines, body # <<>>
  PROVE  Head(body) \in ReplyLine /\ body[1] \in ReplyLine /\ Tail(body) \in ReplyLines /\ body[Len(body)] \in ReplyLine
<1>1. 1 \in 1..Len(body) /\ Len(body) \in 1..Len(body)
  BY DEF ReplyLines
<1>2. Head(body) \in ReplyLine /\ Tail(body) \in ReplyLines
  BY DEF ReplyLines
<1> QED BY <1>1, <1>2, LineAtIs

LEMMA GluedTyped == ASSUME NEW tool \in ToolOrNone, NEW body \in ReplyLines PROVE GluedCall(tool, body) \in ReplyLines
<1>1. Full(body) \in ReplyLines /\ "call" \in LineKinds
  BY FullTyped DEF LineKinds, CallKinds
<1>2. CASE Full(body) = <<>>
  <2>1. Line("call", tool, <<>>) \in ReplyLine
    BY <1>1, NoArgs, LineTyped
  <2> QED BY <1>2, <2>1, ListsGrow DEF GluedCall
<1>3. CASE Full(body) # <<>>
  <2>1. Head(Full(body)).args \in Arguments /\ Tail(Full(body)) \in ReplyLines
    BY <1>1, <1>3, FirstAndRest, LineIs
  <2>2. Line("call", tool, Head(Full(body)).args) \in ReplyLine
    BY <1>1, <2>1, LineTyped
  <2>3. <<Line("call", tool, Head(Full(body)).args)>> \in ReplyLines
    BY <2>2, ListsGrow
  <2> QED BY <1>3, <2>1, <2>3, ListsGrow DEF GluedCall
<1> QED BY <1>2, <1>3

LEMMA QuotedTyped ==
  ASSUME NEW tool \in ToolOrNone, NEW args \in Arguments, NEW body \in ReplyLines
  PROVE  QuotedCall(tool, args, body) \in ReplyLines
<1>1. {"call", "open_quote", "end_quote"} \subseteq LineKinds /\ Len(body) \in Nat
  BY DEF LineKinds, CallKinds, OddKinds, ReplyLines
<1>2. CASE Len(body) < 2
  <2>1. args \o ArgsOf(body) \in Arguments
    BY ArgsTyped, ListsGrow
  <2>2. Line("call", tool, args \o ArgsOf(body)) \in ReplyLine
    BY <1>1, <2>1, LineTyped
  <2> QED BY <1>2, <2>2, ListsGrow DEF QuotedCall
<1>3. CASE ~(Len(body) < 2)
  <2>1. body # <<>>
    BY <1>3
  <2>2. Head(body).args \in Arguments /\ body[Len(body)].args \in Arguments
    BY <2>1, FirstAndRest, LineIs
  <2>3. args \o Head(body).args \in Arguments
    BY <2>2, ListsGrow
  <2> DEFINE first == Line("open_quote", tool, args \o Head(body).args)
             inner == SubSeq(body, 2, Len(body) - 1)
             last == Line("end_quote", "none", body[Len(body)].args)
  <2>4. <<first>> \in ReplyLines
    <3>1. first \in ReplyLine
      BY <1>1, <2>3, LineTyped
    <3> HIDE DEF first
    <3> QED BY <3>1, ListsGrow
  <2>5. <<last>> \in ReplyLines
    <3>1. last \in ReplyLine
      BY <1>1, <2>2, NoArgs, LineTyped
    <3> HIDE DEF last
    <3> QED BY <3>1, ListsGrow
  <2>6. inner \in ReplyLines
    <3> DEFINE n == Len(body) - 1
    <3>1. n \in Int /\ n <= Len(body)
      BY <1>1
    <3> HIDE DEF n
    <3>2. SubSeq(body, 2, n) \in ReplyLines
      BY <3>1, PartOf DEF ReplyLines
    <3> QED BY <3>2 DEF n
  <2>7. QuotedCall(tool, args, body) = <<first>> \o inner \o <<last>>
    BY <1>3 DEF QuotedCall
  <2> HIDE DEF first, inner, last
  <2> QED BY <2>4, <2>5, <2>6, <2>7, ListsGrow
<1> QED BY <1>2, <1>3

LEMMA HeredocTyped ==
  ASSUME NEW tool \in ToolOrNone, NEW args \in Arguments, NEW body \in ReplyLines
  PROVE  HeredocCall(tool, args, body) \in ReplyLines
<1> DEFINE first == Line("heredoc", tool, args)
           last == Line("end", "none", <<>>)
<1>1. {"heredoc", "end"} \subseteq LineKinds
  BY DEF LineKinds, CallKinds
<1>2. first \in ReplyLine /\ last \in ReplyLine
  BY <1>1, NoArgs, LineTyped
<1>3. HeredocCall(tool, args, body) = <<first>> \o body \o <<last>>
  BY DEF HeredocCall
<1> HIDE DEF first, last
<1>4. <<first>> \in ReplyLines /\ <<last>> \in ReplyLines
  BY <1>2, ListsGrow
<1> QED BY <1>3, <1>4, ListsGrow

LEMMA SewnLines ==
  ASSUME NEW ls \in ReplyLines, NEW made,
         made = [at \in (1..Len(ls)) \X BOOLEAN |-> made[at]],
         \A i \in 1..Len(ls), q \in BOOLEAN : made[<<i, q>>] \in Fit(ls, i)
  PROVE  Sewn(made, Len(ls)) \in ReplyLines
<1> DEFINE N == Len(ls)
           D == (1..N) \X BOOLEAN
<1>1. N \in Nat
  BY DEF ReplyLines
<1>2. \A i \in 1..N : \A r \in Fit(ls, i) : r \in Rewrites(N, ReplyLine) /\ r.next > i
  BY <1>1 DEF Fit, Rewrites, ReplyLines
<1>3. \A i \in 1..N, q \in BOOLEAN : made[<<i, q>>] \in Rewrites(N, ReplyLine) /\ made[<<i, q>>].next > i
  BY <1>2
<1>4. \A p \in D : made[p] \in Rewrites(N, ReplyLine)
  <2> SUFFICES ASSUME NEW p \in D PROVE made[p] \in Rewrites(N, ReplyLine)
    OBVIOUS
  <2>1. p = <<p[1], p[2]>> /\ p[1] \in 1..N /\ p[2] \in BOOLEAN
    OBVIOUS
  <2>2. made[<<p[1], p[2]>>] \in Rewrites(N, ReplyLine)
    BY <1>3, <2>1
  <2> HIDE DEF D
  <2> QED BY <2>1, <2>2
<1>5. made \in [D -> Rewrites(N, ReplyLine)]
  <2> HIDE DEF D
  <2>1. made = [at \in D |-> made[at]]
    BY DEF D
  <2> QED BY <1>4, <2>1
<1> HIDE DEF N
<1>6. Sewn(made, N) \in Seq(ReplyLine)
  BY <1>1, <1>3, <1>5, SewnTyped
<1> QED BY <1>6 DEF ReplyLines, N

LEMMA PromotedCall ==
  ASSUME NEW l \in ReplyLine PROVE [l EXCEPT !.kind = "call"] \in ReplyLine /\ <<[l EXCEPT !.kind = "call"]>> \in ReplyLines
<1>1. "call" \in LineKinds
  BY DEF LineKinds, CallKinds
<1>2. [l EXCEPT !.kind = "call"] \in ReplyLine
  BY <1>1, LineIs
<1> QED BY <1>2, ListsGrow

\* The line itself, made a call.
LEMMA CalledTyped ==
  ASSUME NEW ls \in ReplyLines, NEW i \in 1..Len(ls)
  PROVE  /\ Gives(<<[ls[i] EXCEPT !.kind = "call"]>>, i + 1) \in Fit(ls, i)
         /\ Gives(<<>>, i + 1) \in Fit(ls, i)
BY LineAtIs, PromotedCall, GivesTyped, StaysTyped, NoArgs

LEMMA PseudoXmlFits ==
  ASSUME NEW ls \in ReplyLines, NEW i \in 1..Len(ls), NEW q \in BOOLEAN
  PROVE  PseudoXmlAt(ls, i, q) \in Fit(ls, i)
<1> DEFINE j == After(ls, i, Filled)
           blanks == Body(ls, i, j)
           promoted == Gives(blanks \o <<[ls[j] EXCEPT !.kind = "call"]>>, j + 1)
<1>1. CASE ls[i].kind \in {"spaced", "wrapper", "wrapper_end"} /\ IsKind(ls, j, {"bare"})
  <2>1. j # 0
    BY <1>1 DEF IsKind
  <2>2. i \in Nat /\ Len(ls) \in Nat
    BY DEF ReplyLines
  <2>3. j \in (i + 1)..Len(ls)
    BY <2>1, <2>2, AfterTyped
  <2> HIDE DEF j
  <2>4. blanks \in ReplyLines
    BY <2>2, <2>3, LinesIn
  <2>5. j \in 1..Len(ls) /\ j + 1 \in (i + 1)..(Len(ls) + 1)
    BY <2>2, <2>3
  <2>6. blanks \o <<[ls[j] EXCEPT !.kind = "call"]>> \in ReplyLines
    BY <2>4, <2>5, LineAtIs, PromotedCall, ListsGrow
  <2> HIDE DEF blanks
  <2>7. promoted \in Fit(ls, i)
    BY <2>5, <2>6, GivesTyped
  <2>8. PseudoXmlAt(ls, i, q) = promoted
    BY <1>1 DEF PseudoXmlAt, j, blanks
  <2> QED BY <2>7, <2>8
<1>2. CASE ls[i].kind = "spaced" /\ ~IsKind(ls, j, {"bare"})
  BY <1>2, CalledTyped DEF PseudoXmlAt
<1>3. CASE ~(ls[i].kind \in {"spaced", "wrapper", "wrapper_end"} /\ IsKind(ls, j, {"bare"}))
           /\ ~(ls[i].kind = "spaced" /\ ~IsKind(ls, j, {"bare"}))
  BY <1>3, StaysTyped DEF PseudoXmlAt
<1> QED BY <1>1, <1>2, <1>3

LEMMA PseudoXmlTyped == ASSUME NEW ls \in ReplyLines PROVE Rewritten(ls, PseudoXmlAt) \in ReplyLines
<1> DEFINE made == [at \in (1..Len(ls)) \X BOOLEAN |-> PseudoXmlAt(ls, at[1], at[2])]
<1>1. \A i \in 1..Len(ls), q \in BOOLEAN : made[<<i, q>>] \in Fit(ls, i)
  BY PseudoXmlFits
<1>2. made = [at \in (1..Len(ls)) \X BOOLEAN |-> made[at]]
  OBVIOUS
<1>3. Rewritten(ls, PseudoXmlAt) = Sewn(made, Len(ls))
  BY DEF Rewritten
<1> HIDE DEF made
<1> QED BY <1>1, <1>2, <1>3, SewnLines

LEMMA CjkBracketFits ==
  ASSUME NEW ls \in ReplyLines, NEW i \in 1..Len(ls), NEW q \in BOOLEAN
  PROVE  CjkBracketAt(ls, i, q) \in Fit(ls, i)
BY CalledTyped, StaysTyped DEF CjkBracketAt

LEMMA CjkBracketTyped == ASSUME NEW ls \in ReplyLines PROVE Rewritten(ls, CjkBracketAt) \in ReplyLines
<1> DEFINE made == [at \in (1..Len(ls)) \X BOOLEAN |-> CjkBracketAt(ls, at[1], at[2])]
<1>1. \A i \in 1..Len(ls), q \in BOOLEAN : made[<<i, q>>] \in Fit(ls, i)
  BY CjkBracketFits
<1>2. made = [at \in (1..Len(ls)) \X BOOLEAN |-> made[at]]
  OBVIOUS
<1>3. Rewritten(ls, CjkBracketAt) = Sewn(made, Len(ls))
  BY DEF Rewritten
<1> HIDE DEF made
<1> QED BY <1>1, <1>2, <1>3, SewnLines

LEMMA InlineAngleFits ==
  ASSUME NEW ls \in ReplyLines, NEW i \in 1..Len(ls), NEW q \in BOOLEAN
  PROVE  InlineAngleAt(ls, i, q) \in Fit(ls, i)
BY CalledTyped, StaysTyped DEF InlineAngleAt

LEMMA InlineAngleTyped == ASSUME NEW ls \in ReplyLines PROVE Rewritten(ls, InlineAngleAt) \in ReplyLines
<1> DEFINE made == [at \in (1..Len(ls)) \X BOOLEAN |-> InlineAngleAt(ls, at[1], at[2])]
<1>1. \A i \in 1..Len(ls), q \in BOOLEAN : made[<<i, q>>] \in Fit(ls, i)
  BY InlineAngleFits
<1>2. made = [at \in (1..Len(ls)) \X BOOLEAN |-> made[at]]
  OBVIOUS
<1>3. Rewritten(ls, InlineAngleAt) = Sewn(made, Len(ls))
  BY DEF Rewritten
<1> HIDE DEF made
<1> QED BY <1>1, <1>2, <1>3, SewnLines

LEMMA CallingFits ==
  ASSUME NEW ls \in ReplyLines, NEW i \in 1..Len(ls), NEW q \in BOOLEAN
  PROVE  CallingAt(ls, i, q) \in Fit(ls, i)
<1> DEFINE j == After(ls, i, Filled)
           k == IF IsKind(ls, j, FenceKinds) THEN After(ls, j, {"fence"}) ELSE 0
<1>1. i \in Nat /\ Len(ls) \in Nat /\ ls[i].tool \in ToolOrNone
  BY LineAtIs, LineIs DEF ReplyLines
<1>2. CASE ls[i].kind = "calling" /\ k # 0
  <2>1. IsKind(ls, j, FenceKinds) /\ k = After(ls, j, {"fence"})
    BY <1>2
  <2>2. j # 0
    BY <2>1 DEF IsKind
  <2>3. j \in (i + 1)..Len(ls)
    BY <1>1, <2>2, AfterTyped
  <2> HIDE DEF j
  <2>4. j \in Nat /\ k # 0
    BY <1>1, <1>2, <2>3
  <2> HIDE DEF k
  <2>5. k \in (j + 1)..Len(ls)
    BY <2>1, <2>4, AfterTyped
  <2>6. k \in Int /\ k <= Len(ls) + 1 /\ k + 1 \in (i + 1)..(Len(ls) + 1)
    BY <1>1, <2>3, <2>5
  <2>7. GluedCall(ls[i].tool, Body(ls, j, k)) \in ReplyLines
    BY <1>1, <2>4, <2>6, LinesIn, GluedTyped
  <2>8. CallingAt(ls, i, q) = Gives(GluedCall(ls[i].tool, Body(ls, j, k)), k + 1)
    BY <1>2 DEF CallingAt, j, k
  <2> QED BY <2>6, <2>7, <2>8, GivesTyped
<1>3. CASE ls[i].kind = "calling" /\ k = 0
  <2>1. "call" \in LineKinds
    BY DEF LineKinds, CallKinds
  <2>2. <<Line("call", ls[i].tool, <<>>)>> \in ReplyLines
    BY <1>1, <2>1, NoArgs, LineTyped, ListsGrow
  <2>3. CallingAt(ls, i, q) = Gives(<<Line("call", ls[i].tool, <<>>)>>, i + 1)
    BY <1>3 DEF CallingAt
  <2> QED BY <2>2, <2>3, GivesTyped, StaysTyped
<1>4. CASE ls[i].kind # "calling"
  BY <1>4, StaysTyped DEF CallingAt
<1> QED BY <1>2, <1>3, <1>4

LEMMA CallingTyped == ASSUME NEW ls \in ReplyLines PROVE Rewritten(ls, CallingAt) \in ReplyLines
<1> DEFINE made == [at \in (1..Len(ls)) \X BOOLEAN |-> CallingAt(ls, at[1], at[2])]
<1>1. \A i \in 1..Len(ls), q \in BOOLEAN : made[<<i, q>>] \in Fit(ls, i)
  BY CallingFits
<1>2. made = [at \in (1..Len(ls)) \X BOOLEAN |-> made[at]]
  OBVIOUS
<1>3. Rewritten(ls, CallingAt) = Sewn(made, Len(ls))
  BY DEF Rewritten
<1> HIDE DEF made
<1> QED BY <1>1, <1>2, <1>3, SewnLines

LEMMA DsmlFits ==
  ASSUME NEW ls \in ReplyLines, NEW i \in 1..Len(ls), NEW q \in BOOLEAN
  PROVE  DsmlAt(ls, i, q) \in Fit(ls, i)
<1>1. CASE ls[i].kind \in DsmlKinds
  <2> DEFINE kind == Plain[ls[i].kind]
  <2>1. ls[i] \in ReplyLine
    BY LineAtIs
  <2>2. kind \in LineKinds
    BY <1>1 DEF Plain, DsmlKinds, LineKinds, TagKinds
  <2>3. DsmlAt(ls, i, q) = Gives(<<[ls[i] EXCEPT !.kind = kind]>>, i + 1)
    BY <1>1 DEF DsmlAt
  <2> HIDE DEF kind
  <2>4. <<[ls[i] EXCEPT !.kind = kind]>> \in ReplyLines
    BY <2>1, <2>2, LineIs, ListsGrow
  <2> QED BY <2>3, <2>4, GivesTyped, StaysTyped
<1>2. CASE ls[i].kind \notin DsmlKinds
  BY <1>2, StaysTyped DEF DsmlAt
<1> QED BY <1>1, <1>2

LEMMA DsmlTyped == ASSUME NEW ls \in ReplyLines PROVE Rewritten(ls, DsmlAt) \in ReplyLines
<1> DEFINE made == [at \in (1..Len(ls)) \X BOOLEAN |-> DsmlAt(ls, at[1], at[2])]
<1>1. \A i \in 1..Len(ls), q \in BOOLEAN : made[<<i, q>>] \in Fit(ls, i)
  BY DsmlFits
<1>2. made = [at \in (1..Len(ls)) \X BOOLEAN |-> made[at]]
  OBVIOUS
<1>3. Rewritten(ls, DsmlAt) = Sewn(made, Len(ls))
  BY DEF Rewritten
<1> HIDE DEF made
<1> QED BY <1>1, <1>2, <1>3, SewnLines

LEMMA ContentFits ==
  ASSUME NEW ls \in ReplyLines, NEW i \in 1..Len(ls), NEW q \in BOOLEAN
  PROVE  ContentAt(ls, i, q) \in Fit(ls, i)
<1> DEFINE j == After(ls, i, {"content_end"})
<1>1. i \in Nat /\ Len(ls) \in Nat /\ ls[i].tool \in ToolOrNone /\ ls[i].args \in Arguments
  BY LineAtIs, LineIs DEF ReplyLines
<1>2. CASE ls[i].kind = "content_tag" /\ j # 0
  <2>1. j \in (i + 1)..Len(ls)
    BY <1>1, <1>2, AfterTyped
  <2>2. ContentAt(ls, i, q) = Gives(HeredocCall(ls[i].tool, ls[i].args, Body(ls, i, j)), j + 1)
    BY <1>2 DEF ContentAt
  <2> HIDE DEF j
  <2>3. j \in Int /\ j <= Len(ls) + 1 /\ j + 1 \in (i + 1)..(Len(ls) + 1)
    BY <1>1, <2>1
  <2>4. HeredocCall(ls[i].tool, ls[i].args, Body(ls, i, j)) \in ReplyLines
    BY <1>1, <2>3, LinesIn, HeredocTyped
  <2> QED BY <2>2, <2>3, <2>4, GivesTyped
<1>3. CASE ~(ls[i].kind = "content_tag" /\ j # 0)
  BY <1>3, StaysTyped DEF ContentAt
<1> QED BY <1>2, <1>3

LEMMA ContentTyped == ASSUME NEW ls \in ReplyLines PROVE Rewritten(ls, ContentAt) \in ReplyLines
<1> DEFINE made == [at \in (1..Len(ls)) \X BOOLEAN |-> ContentAt(ls, at[1], at[2])]
<1>1. \A i \in 1..Len(ls), q \in BOOLEAN : made[<<i, q>>] \in Fit(ls, i)
  BY ContentFits
<1>2. made = [at \in (1..Len(ls)) \X BOOLEAN |-> made[at]]
  OBVIOUS
<1>3. Rewritten(ls, ContentAt) = Sewn(made, Len(ls))
  BY DEF Rewritten
<1> HIDE DEF made
<1> QED BY <1>1, <1>2, <1>3, SewnLines

LEMMA FileAliasFits ==
  ASSUME NEW ls \in ReplyLines, NEW i \in 1..Len(ls), NEW q \in BOOLEAN
  PROVE  FileAliasAt(ls, i, q) \in Fit(ls, i)
<1>1. CASE ls[i].kind = "file_tag"
  <2> DEFINE tool == FileAlias(ToSet(ls[i].args))
  <2>1. tool \in ToolOrNone /\ ls[i].args \in Arguments
    BY LineAtIs, LineIs DEF FileAlias, ToolOrNone, Tools, WriteTools
  <2>2. "self_tag" \in LineKinds
    BY DEF LineKinds, TagKinds
  <2>3. FileAliasAt(ls, i, q) = Gives(<<Line("self_tag", tool, ls[i].args)>>, i + 1)
    BY <1>1 DEF FileAliasAt
  <2> HIDE DEF tool
  <2>4. <<Line("self_tag", tool, ls[i].args)>> \in ReplyLines
    BY <2>1, <2>2, LineTyped, ListsGrow
  <2> QED BY <2>3, <2>4, GivesTyped, StaysTyped
<1>2. CASE ls[i].kind # "file_tag"
  BY <1>2, StaysTyped DEF FileAliasAt
<1> QED BY <1>1, <1>2

LEMMA FileAliasTyped == ASSUME NEW ls \in ReplyLines PROVE Rewritten(ls, FileAliasAt) \in ReplyLines
<1> DEFINE made == [at \in (1..Len(ls)) \X BOOLEAN |-> FileAliasAt(ls, at[1], at[2])]
<1>1. \A i \in 1..Len(ls), q \in BOOLEAN : made[<<i, q>>] \in Fit(ls, i)
  BY FileAliasFits
<1>2. made = [at \in (1..Len(ls)) \X BOOLEAN |-> made[at]]
  OBVIOUS
<1>3. Rewritten(ls, FileAliasAt) = Sewn(made, Len(ls))
  BY DEF Rewritten
<1> HIDE DEF made
<1> QED BY <1>1, <1>2, <1>3, SewnLines

\* Nothing is picked of nothing.
LEMMA NonePicked == ASSUME NEW s, Len(s) = 0, NEW at PROVE Picked(s, at) = <<>>
<1> DEFINE g == CHOOSE g : g = [n \in 0..Len(s) |-> IF n = 0 THEN <<>> ELSE IF n \in at THEN Append(g[n - 1], s[n]) ELSE g[n - 1]]
           f == [n \in 0..Len(s) |-> <<>>]
<1>1. \A n \in 0..Len(s) : n = 0
  OBVIOUS
<1>2. f = [n \in 0..Len(s) |-> IF n = 0 THEN <<>> ELSE IF n \in at THEN Append(f[n - 1], s[n]) ELSE f[n - 1]]
  BY <1>1
<1> HIDE DEF f
<1>3. g = [n \in 0..Len(s) |-> IF n = 0 THEN <<>> ELSE IF n \in at THEN Append(g[n - 1], s[n]) ELSE g[n - 1]]
  BY <1>2
<1>4. Picked(s, at) = g[Len(s)]
  BY DEF Picked
<1> HIDE DEF g
<1>5. g[0] = <<>>
  BY <1>3
<1> QED BY <1>4, <1>5

LEMMA FullIsSome == ASSUME NEW body, Full(body) # <<>> PROVE body # <<>>
<1>1. ASSUME body = <<>> PROVE Full(body) = <<>>
  <2>1. Len(body) = 0
    BY <1>1
  <2> QED BY <2>1, NonePicked DEF Full
<1> QED BY <1>1

LEMMA PromotedTyped == ASSUME NEW opening, NEW body \in ReplyLines PROVE Promoted(opening, body) \in ReplyLines
<1>1. "bash" \in ToolOrNone /\ "write_file" \in ToolOrNone
  BY DEF ToolOrNone, Tools, WriteTools
<1>2. QuotedCall("bash", <<>>, body) \in ReplyLines
  BY <1>1, NoArgs, QuotedTyped
<1>3. ASSUME Full(body) # <<>> PROVE HeredocCall("write_file", body[1].args, Tail(body)) \in ReplyLines
  <2>1. body # <<>>
    BY <1>3, FullIsSome
  <2>2. body[1].args \in Arguments /\ Tail(body) \in ReplyLines
    BY <2>1, FirstAndRest, LineIs
  <2> QED BY <1>1, <2>2, HeredocTyped
<1> QED BY <1>2, <1>3, NoArgs DEF Promoted

LEMMA FencesFits ==
  ASSUME NEW ls \in ReplyLines, NEW i \in 1..Len(ls), NEW q \in BOOLEAN
  PROVE  FencesAt(ls, i, q) \in Fit(ls, i)
<1> DEFINE j == After(ls, i, FenceKinds)
           aCall == IF j = 0 THEN <<>> ELSE Promoted(ls[i], Body(ls, i, j))
<1>1. i \in Nat /\ Len(ls) \in Nat
  BY DEF ReplyLines
<1>2. CASE ~q /\ ls[i].kind \in {"fence_shell", "fence_code"}
  <2>1. CASE aCall # <<>>
    <3>1. j # 0 /\ aCall = Promoted(ls[i], Body(ls, i, j))
      BY <2>1
    <3>2. j \in (i + 1)..Len(ls)
      BY <1>1, <3>1, AfterTyped
    <3>3. FencesAt(ls, i, q) = Gives(aCall, j + 1)
      BY <1>2, <2>1 DEF FencesAt
    <3> HIDE DEF j, aCall
    <3>4. j \in Int /\ j <= Len(ls) + 1 /\ j + 1 \in (i + 1)..(Len(ls) + 1)
      BY <1>1, <3>2
    <3>5. aCall \in ReplyLines
      BY <1>1, <3>1, <3>4, LinesIn, PromotedTyped
    <3> QED BY <3>3, <3>4, <3>5, GivesTyped
  <2>2. CASE aCall = <<>>
    BY <1>2, <2>2, StaysTyped DEF FencesAt
  <2> QED BY <2>1, <2>2
<1>3. CASE ~(~q /\ ls[i].kind \in {"fence_shell", "fence_code"})
  <2>1. FencesAt(ls, i, q) = [Stays(ls, i) EXCEPT !.quoted = (q # (ls[i].kind \in OddKinds))]
    BY <1>3 DEF FencesAt
  <2>2. (q # (ls[i].kind \in OddKinds)) \in BOOLEAN
    OBVIOUS
  <2> QED BY <2>1, <2>2, StaysTyped DEF Fit
<1> QED BY <1>2, <1>3

LEMMA FencesTyped == ASSUME NEW ls \in ReplyLines PROVE Rewritten(ls, FencesAt) \in ReplyLines
<1> DEFINE made == [at \in (1..Len(ls)) \X BOOLEAN |-> FencesAt(ls, at[1], at[2])]
<1>1. \A i \in 1..Len(ls), q \in BOOLEAN : made[<<i, q>>] \in Fit(ls, i)
  BY FencesFits
<1>2. made = [at \in (1..Len(ls)) \X BOOLEAN |-> made[at]]
  OBVIOUS
<1>3. Rewritten(ls, FencesAt) = Sewn(made, Len(ls))
  BY DEF Rewritten
<1> HIDE DEF made
<1> QED BY <1>1, <1>2, <1>3, SewnLines

LEMMA PairsFits ==
  ASSUME NEW ls \in ReplyLines, NEW i \in 1..Len(ls), NEW q \in BOOLEAN
  PROVE  PairsAt(ls, i, q) \in Fit(ls, i)
<1> DEFINE others == {j \in (i + 1)..Len(ls) : ls[j].kind \notin {"blank", "arguments"}}
           first == CHOOSE j \in others : \A k \in others : j <= k
           last == IF others = {} THEN Len(ls) ELSE first - 1
           args == ArgsOf(SubSeq(ls, i + 1, last))
<1>1. i \in Nat /\ Len(ls) \in Nat /\ i <= Len(ls) /\ ls[i].tool \in ToolOrNone
  BY LineAtIs, LineIs DEF ReplyLines
<1>2. others # {} => first \in others
  <2>1. others \in SUBSET Nat
    BY <1>1
  <2> HIDE DEF others
  <2>2. ASSUME others # {} PROVE \E j \in others : \A k \in others : j <= k
    BY <2>1, <2>2, LeastOf
  <2> QED BY <2>2
<1> HIDE DEF first
<1>3. last \in i..Len(ls)
  BY <1>1, <1>2
<1>4. PairsAt(ls, i, q) = IF ls[i].kind = "header" /\ args # <<>>
        THEN Gives(<<Line("call", ls[i].tool, args)>>, last + 1) ELSE Stays(ls, i)
  BY DEF PairsAt, first
<1> HIDE DEF last
<1>5. SubSeq(ls, i + 1, last) \in ReplyLines
  BY <1>1, <1>3, LinesBetween
<1>6. args \in Arguments
  BY <1>5, ArgsTyped
<1> HIDE DEF args
<1>7. "call" \in LineKinds
  BY DEF LineKinds, CallKinds
<1>8. <<Line("call", ls[i].tool, args)>> \in ReplyLines
  BY <1>1, <1>6, <1>7, LineTyped, ListsGrow
<1>9. last + 1 \in (i + 1)..(Len(ls) + 1)
  BY <1>1, <1>3
<1> QED BY <1>4, <1>8, <1>9, GivesTyped, StaysTyped

LEMMA PairsTyped == ASSUME NEW ls \in ReplyLines PROVE Rewritten(ls, PairsAt) \in ReplyLines
<1> DEFINE made == [at \in (1..Len(ls)) \X BOOLEAN |-> PairsAt(ls, at[1], at[2])]
<1>1. \A i \in 1..Len(ls), q \in BOOLEAN : made[<<i, q>>] \in Fit(ls, i)
  BY PairsFits
<1>2. made = [at \in (1..Len(ls)) \X BOOLEAN |-> made[at]]
  OBVIOUS
<1>3. Rewritten(ls, PairsAt) = Sewn(made, Len(ls))
  BY DEF Rewritten
<1> HIDE DEF made
<1> QED BY <1>1, <1>2, <1>3, SewnLines

LEMMA CoalesceFits ==
  ASSUME NEW ls \in ReplyLines, NEW i \in 1..Len(ls), NEW q \in BOOLEAN
  PROVE  CoalesceAt(ls, i, q) \in Fit(ls, i)
<1> DEFINE j == After(ls, i, {"param_end"})
           long == LongParam(ls[i], Body(ls, i, j))
<1>1. i \in Nat /\ Len(ls) \in Nat /\ ls[i].tool \in ToolOrNone /\ ls[i].args \in Arguments
  BY LineAtIs, LineIs DEF ReplyLines
<1>2. CASE ls[i].kind = "param_open" /\ j # 0
  <2>1. j \in (i + 1)..Len(ls)
    BY <1>1, <1>2, AfterTyped
  <2>2. CoalesceAt(ls, i, q) = Gives(<<long>>, j + 1)
    BY <1>2 DEF CoalesceAt
  <2> HIDE DEF j
  <2>3. j \in Int /\ j <= Len(ls) + 1 /\ j + 1 \in (i + 1)..(Len(ls) + 1)
    BY <1>1, <2>1
  <2>4. ls[i].args \o ArgsOf(Body(ls, i, j)) \in Arguments
    BY <1>1, <2>3, LinesIn, ArgsTyped, ListsGrow
  <2>5. "param_open" \in LineKinds
    BY DEF LineKinds, TagKinds
  <2>6. <<long>> \in ReplyLines
    BY <1>1, <2>4, <2>5, LineTyped, ListsGrow DEF LongParam
  <2> HIDE DEF long
  <2> QED BY <2>2, <2>3, <2>6, GivesTyped
<1>3. CASE ~(ls[i].kind = "param_open" /\ j # 0)
  BY <1>3, StaysTyped DEF CoalesceAt
<1> QED BY <1>2, <1>3

LEMMA CoalesceTyped == ASSUME NEW ls \in ReplyLines PROVE Rewritten(ls, CoalesceAt) \in ReplyLines
<1> DEFINE made == [at \in (1..Len(ls)) \X BOOLEAN |-> CoalesceAt(ls, at[1], at[2])]
<1>1. \A i \in 1..Len(ls), q \in BOOLEAN : made[<<i, q>>] \in Fit(ls, i)
  BY CoalesceFits
<1>2. made = [at \in (1..Len(ls)) \X BOOLEAN |-> made[at]]
  OBVIOUS
<1>3. Rewritten(ls, CoalesceAt) = Sewn(made, Len(ls))
  BY DEF Rewritten
<1> HIDE DEF made
<1> QED BY <1>1, <1>2, <1>3, SewnLines

LEMMA CallWithTyped == ASSUME NEW tool \in ToolOrNone, NEW params \in ReplyLines PROVE CallWith(tool, params) \in ReplyLines
<1>1. {"open_quote", "end_quote", "call"} \subseteq LineKinds /\ ArgsOf(params) \in Arguments
  BY ArgsTyped DEF LineKinds, CallKinds, OddKinds
<1> DEFINE opened == Line("open_quote", tool, ArgsOf(params))
           ended == Line("end_quote", "none", <<>>)
           aCall == Line("call", tool, ArgsOf(params))
<1>2. opened \in ReplyLine /\ ended \in ReplyLine /\ aCall \in ReplyLine
  BY <1>1, NoArgs, LineTyped
<1>3. CallWith(tool, params) \in {<<opened, ended>>, <<aCall>>}
  BY DEF CallWith
<1> HIDE DEF opened, ended, aCall
<1>4. <<opened, ended>> \in ReplyLines /\ <<aCall>> \in ReplyLines
  BY <1>2 DEF ReplyLines
<1> QED BY <1>3, <1>4

LEMMA InferredTyped == ASSUME NEW args PROVE Inferred(args) \in ToolOrNone
BY DEF Inferred, ToolOrNone, Tools, WriteTools

LEMMA WrapperTyped ==
  ASSUME NEW name \in ToolOrNone, NEW body \in ReplyLines PROVE WrapperCall(name, body) \in ReplyLines
<1> DEFINE inner == Full(body)
           ls == Rewritten(body, CoalesceAt)
           named == Picked(ls, {k \in 1..Len(ls) : ls[k].kind \in {"tool_name", "invoke"}})
           params == Params(ls)
           tool == IF named # <<>> THEN named[Len(named)].tool
                   ELSE IF name # "none" THEN name ELSE Inferred(ArgsOf(params))
<1>1. ls \in ReplyLines /\ inner \in ReplyLines
  BY CoalesceTyped, FullTyped
<1>2. WrapperCall(name, body) =
        IF name = "none" /\ inner # <<>> /\ Head(inner).kind = "tag" THEN GluedCall(Head(inner).tool, Tail(inner))
        ELSE IF tool = "none" THEN <<>> ELSE CallWith(tool, params)
  BY DEF WrapperCall
<1> HIDE DEF ls, inner
<1>3. named \in ReplyLines /\ params \in ReplyLines
  BY <1>1, FullTyped, PickedTyped DEF ReplyLines
<1> HIDE DEF named, params
<1>4. tool \in ToolOrNone
  <2>1. named # <<>> => named[Len(named)].tool \in ToolOrNone
    BY <1>3, FirstAndRest, LineIs
  <2> QED BY <2>1, InferredTyped
<1> HIDE DEF tool
<1>5. CallWith(tool, params) \in ReplyLines
  BY <1>3, <1>4, CallWithTyped
<1>6. inner # <<>> => GluedCall(Head(inner).tool, Tail(inner)) \in ReplyLines
  BY <1>1, FirstAndRest, LineIs, GluedTyped
<1> QED BY <1>2, <1>5, <1>6, NoArgs

\* What parse_function_calls_block carries from line to line.
BlockStates == [in_call : BOOLEAN, tool : ToolOrNone, params : ReplyLines, out : ReplyLines]

LEMMA BlockStatesTyped ==
  /\ \A out \in ReplyLines : Outside(out) \in BlockStates
  /\ \A tool \in ToolOrNone, params, out \in ReplyLines : InCall(tool, params, out) \in BlockStates
BY NoArgs DEF Outside, InCall, BlockStates

LEMMA BlockLineTyped == ASSUME NEW s \in BlockStates, NEW l \in ReplyLine PROVE BlockLine(s, l) \in BlockStates
<1>1. s.in_call \in BOOLEAN /\ s.tool \in ToolOrNone /\ s.params \in ReplyLines /\ s.out \in ReplyLines /\ l.tool \in ToolOrNone
  BY LineIs DEF BlockStates
<1>2. CASE l.kind \in {"invoke", "named_wrapper"} /\ ~s.in_call
  BY <1>1, <1>2, NoArgs, BlockStatesTyped DEF BlockLine
<1>3. CASE l.kind = "invoke" /\ s.in_call
  <2>1. BlockLine(s, l) = InCall(l.tool, s.params, s.out)
    BY <1>3 DEF BlockLine
  <2> QED BY <1>1, <2>1, BlockStatesTyped
<1>4. CASE l.kind = "wrapper" /\ ~s.in_call
  <2>1. BlockLine(s, l) = InCall("none", <<>>, s.out)
    BY <1>4 DEF BlockLine
  <2> QED BY <1>1, <2>1, NoArgs, BlockStatesTyped
<1>5. CASE l.kind \in {"invoke_end", "wrapper_end"} /\ s.in_call /\ s.tool # "none"
  <2>1. BlockLine(s, l) = Outside(s.out \o CallWith(s.tool, s.params))
    BY <1>5 DEF BlockLine
  <2>2. s.out \o CallWith(s.tool, s.params) \in ReplyLines
    BY <1>1, CallWithTyped, ListsGrow
  <2> QED BY <2>1, <2>2, BlockStatesTyped
<1>6. CASE l.kind = "wrapper_end" /\ s.in_call /\ s.tool = "none"
  <2>1. BlockLine(s, l) = Outside(s.out)
    BY <1>6 DEF BlockLine
  <2> QED BY <1>1, <2>1, BlockStatesTyped
<1>7. CASE l.kind = "self_tag" /\ ~s.in_call
  <2>1. BlockLine(s, l) = Outside(Append(s.out, [l EXCEPT !.kind = "call"]))
    BY <1>7 DEF BlockLine
  <2>2. Append(s.out, [l EXCEPT !.kind = "call"]) \in ReplyLines
    BY <1>1, PromotedCall, ListsGrow
  <2> QED BY <2>1, <2>2, BlockStatesTyped
<1>8. CASE l.kind \in {"param", "param_open"} /\ s.in_call
  <2>1. BlockLine(s, l) = InCall(s.tool, Append(s.params, l), s.out)
    BY <1>8 DEF BlockLine
  <2>2. Append(s.params, l) \in ReplyLines
    BY <1>1, ListsGrow
  <2> QED BY <1>1, <2>1, <2>2, BlockStatesTyped
<1>9. CASE /\ ~(l.kind \in {"invoke", "named_wrapper"} /\ ~s.in_call) /\ ~(l.kind = "invoke" /\ s.in_call)
           /\ ~(l.kind = "wrapper" /\ ~s.in_call)
           /\ ~(l.kind \in {"invoke_end", "wrapper_end"} /\ s.in_call /\ s.tool # "none")
           /\ ~(l.kind = "wrapper_end" /\ s.in_call /\ s.tool = "none") /\ ~(l.kind = "self_tag" /\ ~s.in_call)
           /\ ~(l.kind \in {"param", "param_open"} /\ s.in_call)
  <2>1. BlockLine(s, l) = s
    BY <1>9 DEF BlockLine
  <2> QED BY <2>1
<1> QED BY <1>2, <1>3, <1>4, <1>5, <1>6, <1>7, <1>8, <1>9

LEMMA BlockTyped == ASSUME NEW body \in ReplyLines PROVE CallsOfBlock(body) \in ReplyLines
<1> DEFINE ls == Rewritten(body, CoalesceAt)
           N == Len(ls)
           op == [x \in BlockStates \X (1..N) |-> BlockLine(x[1], ls[x[2]])]
           g == CHOOSE g : g = [n \in 0..N |-> IF n = 0 THEN Outside(<<>>) ELSE BlockLine(g[n - 1], ls[n])]
<1>0. ls \in ReplyLines
  BY CoalesceTyped
<1>7. CallsOfBlock(body) = g[N].out
  BY DEF CallsOfBlock
<1> HIDE DEF ls
<1>1. N \in Nat /\ \A n \in 1..N : ls[n] \in ReplyLine
  BY <1>0, LineAtIs DEF ReplyLines
<1>2. \A s \in BlockStates, n \in 1..N : BlockLine(s, ls[n]) \in BlockStates
  BY <1>1, BlockLineTyped
<1>3. op \in [BlockStates \X (1..N) -> BlockStates] /\ Outside(<<>>) \in BlockStates
  BY <1>2, NoArgs, BlockStatesTyped
<1> HIDE DEF N
<1>4. PICK f \in [0..N -> BlockStates] : f[0] = Outside(<<>>) /\ \A n \in 1..N : f[n] = op[<<f[n - 1], n>>]
  <2> HIDE DEF op
  <2>1. HasFold(N, BlockStates, Outside(<<>>), op)
    BY <1>1, <1>3, FoldExists, Zenon
  <2> QED BY <2>1 DEF HasFold
<1>5. f = [n \in 0..N |-> IF n = 0 THEN Outside(<<>>) ELSE BlockLine(f[n - 1], ls[n])]
  <2>1. \A n \in 1..N : op[<<f[n - 1], n>>] = BlockLine(f[n - 1], ls[n])
    BY <1>1
  <2> HIDE DEF op
  <2>2. \A n \in 0..N : n = 0 \/ n \in 1..N
    BY <1>1
  <2>3. \A n \in 0..N : f[n] = IF n = 0 THEN Outside(<<>>) ELSE BlockLine(f[n - 1], ls[n])
    BY <1>4, <2>1, <2>2
  <2> QED BY <1>4, <2>3
<1>6. g = [n \in 0..N |-> IF n = 0 THEN Outside(<<>>) ELSE BlockLine(g[n - 1], ls[n])]
  BY <1>5
<1>8. \A n \in 0..N : g[n] \in BlockStates
  <2> HIDE DEF g
  <2>1. g[0] \in BlockStates
    BY <1>1, <1>3, <1>6
  <2>2. \A n \in 1..N : g[n] = BlockLine(g[n - 1], ls[n])
    <3> SUFFICES ASSUME NEW n \in 1..N PROVE g[n] = BlockLine(g[n - 1], ls[n])
      OBVIOUS
    <3>1. n \in 0..N /\ n # 0
      BY <1>1
    <3> QED BY <1>6, <3>1
  <2>3. \A n \in 1..N : g[n - 1] \in BlockStates => g[n] \in BlockStates
    BY <1>2, <2>2
  <2> QED BY <1>1, <2>1, <2>3, FoldStays
<1> HIDE DEF g
<1>9. g[N] \in BlockStates
  BY <1>1, <1>8
<1> QED BY <1>7, <1>9 DEF BlockStates

LEMMA TagTyped == ASSUME NEW l \in ReplyLine, NEW body \in ReplyLines PROVE TagCall(l, body) \in ReplyLines
<1> DEFINE params == Params(Rewritten(body, CoalesceAt))
<1>1. params \in ReplyLines
  BY CoalesceTyped, FullTyped
<1>2. l.tool \in ToolOrNone /\ l.args \in Arguments /\ "none" \in ToolOrNone /\ "call" \in LineKinds
  BY LineIs, NoArgs DEF LineKinds, CallKinds
<1>3. TagCall(l, body) \in {WrapperCall("none", body), CallWith(l.tool, params), <<Line("call", l.tool, l.args)>>,
                            HeredocCall(l.tool, l.args, body)}
  BY DEF TagCall
<1> HIDE DEF params
<1>4. WrapperCall("none", body) \in ReplyLines /\ CallWith(l.tool, params) \in ReplyLines
  BY <1>1, <1>2, WrapperTyped, CallWithTyped
<1>5. <<Line("call", l.tool, l.args)>> \in ReplyLines /\ HeredocCall(l.tool, l.args, body) \in ReplyLines
  BY <1>2, LineTyped, ListsGrow, HeredocTyped
<1> QED BY <1>3, <1>4, <1>5

LEMMA TagsFits ==
  ASSUME NEW ls \in ReplyLines, NEW i \in 1..Len(ls), NEW q \in BOOLEAN
  PROVE  TagsAt(ls, i, q) \in Fit(ls, i)
<1> DEFINE l == ls[i]
           end == CASE l.kind = "calls" -> After(ls, i, {"calls_end"})
                    [] l.kind \in {"wrapper", "named_wrapper"} -> After(ls, i, {"wrapper_end"})
                    [] l.kind = "unknown" -> After(ls, i, {"unknown_end"})
                    [] l.kind = "tag" -> After(ls, i, {"tag_end"})
                    [] l.kind = "long_tag" -> After(ls, i, {"long_end"})
                    [] OTHER -> 0
           body == Body(ls, i, end)
           aCall == CASE l.kind \in {"wrapper", "named_wrapper"} -> WrapperCall(l.tool, body)
                     [] l.kind = "unknown" /\ StartsWithParam(body) -> WrapperCall("none", body)
                     [] l.kind = "tag" -> TagCall(l, body)
                     [] l.kind = "long_tag" -> QuotedCall(l.tool, l.args, Append(body, ls[end]))
                     [] OTHER -> <<>>
<1>1. i \in Nat /\ Len(ls) \in Nat /\ l \in ReplyLine /\ l.tool \in ToolOrNone /\ l.args \in Arguments
  BY LineAtIs, LineIs DEF ReplyLines
<1>2. CASE l.kind = "self_tag"
  BY <1>2, CalledTyped DEF TagsAt
<1>3. CASE l.kind # "self_tag" /\ end = 0
  BY <1>3, StaysTyped DEF TagsAt
<1>4. CASE l.kind # "self_tag" /\ end # 0
  <2>1. end \in (i + 1)..Len(ls)
    <3>1. \E kinds : end = After(ls, i, kinds)
      BY <1>4
    <3> HIDE DEF end
    <3> QED BY <1>1, <1>4, <3>1, AfterTyped
  <2>2. TagsAt(ls, i, q) = IF l.kind = "calls" THEN Gives(CallsOfBlock(body), end + 1)
                           ELSE IF aCall # <<>> THEN Gives(aCall, end + 1) ELSE Stays(ls, i)
    BY <1>4 DEF TagsAt
  <2> HIDE DEF end
  <2>3. end \in Int /\ end <= Len(ls) + 1 /\ end + 1 \in (i + 1)..(Len(ls) + 1) /\ end \in 1..Len(ls)
    BY <1>1, <2>1
  <2>4. body \in ReplyLines
    BY <1>1, <2>3, LinesIn
  <2> HIDE DEF body, l
  <2>5. CallsOfBlock(body) \in ReplyLines
    BY <2>4, BlockTyped
  <2>6. aCall \in ReplyLines
    <3>1. WrapperCall(l.tool, body) \in ReplyLines /\ WrapperCall("none", body) \in ReplyLines /\ TagCall(l, body) \in ReplyLines
      BY <1>1, <2>4, NoArgs, WrapperTyped, TagTyped
    <3>2. Append(body, ls[end]) \in ReplyLines
      BY <2>3, <2>4, LineAtIs, ListsGrow
    <3>3. QuotedCall(l.tool, l.args, Append(body, ls[end])) \in ReplyLines
      BY <1>1, <3>2, QuotedTyped
    <3>4. aCall \in {WrapperCall(l.tool, body), WrapperCall("none", body), TagCall(l, body),
                     QuotedCall(l.tool, l.args, Append(body, ls[end])), <<>>}
      OBVIOUS
    <3> HIDE DEF aCall
    <3> QED BY <3>1, <3>3, <3>4, NoArgs
  <2> HIDE DEF aCall
  <2> QED BY <2>2, <2>3, <2>5, <2>6, GivesTyped, StaysTyped
<1> QED BY <1>2, <1>3, <1>4

LEMMA TagsTyped == ASSUME NEW ls \in ReplyLines PROVE Rewritten(ls, TagsAt) \in ReplyLines
<1> DEFINE made == [at \in (1..Len(ls)) \X BOOLEAN |-> TagsAt(ls, at[1], at[2])]
<1>1. \A i \in 1..Len(ls), q \in BOOLEAN : made[<<i, q>>] \in Fit(ls, i)
  BY TagsFits
<1>2. made = [at \in (1..Len(ls)) \X BOOLEAN |-> made[at]]
  OBVIOUS
<1>3. Rewritten(ls, TagsAt) = Sewn(made, Len(ls))
  BY DEF Rewritten
<1> HIDE DEF made
<1> QED BY <1>1, <1>2, <1>3, SewnLines

ParserSpec == ParserInit /\ [][ParserNext]_parserVars

LEMMA StrippedTyped == ASSUME NEW l \in ReplyLine PROVE Stripped(l) \in ReplyLine
<1>1. "blank" \in LineKinds /\ "text" \in LineKinds
  BY DEF LineKinds
<1> QED BY <1>1, LineIs DEF Stripped

LEMMA FencesKeep ==
  ASSUME NEW ls \in ReplyLines PROVE [k \in 1..Len(ls) |-> Stripped(ls[k])] \in ReplyLines
<1>1. Len(ls) \in Nat /\ \A k \in 1..Len(ls) : Stripped(ls[k]) \in ReplyLine
  BY LineAtIs, StrippedTyped DEF ReplyLines
<1> QED BY <1>1 DEF ReplyLines

\* A call that a line captures.
CapturedLines == [kind : LineKinds, tool : ToolOrNone, args : Arguments, first : Nat, last : Nat, closed : BOOLEAN]

LEMMA CaptureFits ==
  ASSUME NEW ls \in ReplyLines, NEW i \in 1..Len(ls), NEW q \in BOOLEAN
  PROVE  CaptureAt(ls, i, q) \in Rewrites(Len(ls), CapturedLines) /\ CaptureAt(ls, i, q).next > i
<1> DEFINE l == ls[i]
           nxt == After(ls, i, Filled)
           end == CASE l.kind = "heredoc" /\ l.tool \in WriteTools -> After(ls, i, {"end"})
                    [] l.kind = "open_quote" /\ l.tool \in WriteTools -> After(ls, i, OddKinds)
                    [] l.kind = "call" /\ l.args = <<>> /\ nxt # 0 ->
                         IF ls[nxt].kind \in CallKinds \cup TagKinds \cup FenceKinds THEN nxt - 1 ELSE nxt
                    [] l.kind = "call" /\ l.args = <<>> /\ nxt = 0 -> 0
                    [] OTHER -> i
           last == IF end = 0 THEN Len(ls) ELSE end
           closed == l.kind # "open_quote" \/ (l.tool \in WriteTools /\ end # 0)
           aCall == CapturedCall(l.kind, l.tool, ArgsOf(SubSeq(ls, i, last)), i, last, closed)
<1>1. i \in Nat /\ Len(ls) \in Nat /\ i <= Len(ls) /\ l.kind \in LineKinds /\ l.tool \in ToolOrNone
  BY LineAtIs, LineIs DEF ReplyLines
<1>2. CASE l.kind \notin CallKinds
  <2>1. CaptureAt(ls, i, q) = [out |-> <<>>, next |-> i + 1, quoted |-> FALSE]
    BY <1>2 DEF CaptureAt, Gives
  <2> QED BY <1>1, <2>1 DEF Rewrites
<1>3. CASE l.kind \in CallKinds
  <2>1. end = 0 \/ end \in i..Len(ls)
    <3>1. \A kinds : After(ls, i, kinds) = 0 \/ After(ls, i, kinds) \in (i + 1)..Len(ls)
      BY <1>1, AfterTyped
    <3>2. nxt = 0 \/ nxt \in (i + 1)..Len(ls)
      BY <3>1
    <3>3. CASE l.kind = "heredoc" /\ l.tool \in WriteTools
      <4>1. end = After(ls, i, {"end"})
        BY <3>3
      <4> HIDE DEF end
      <4> QED BY <1>1, <3>1, <4>1
    <3>4. CASE l.kind = "open_quote" /\ l.tool \in WriteTools
      <4>1. end = After(ls, i, OddKinds)
        BY <3>4
      <4> HIDE DEF end
      <4> QED BY <1>1, <3>1, <4>1
    <3>5. CASE l.kind = "call" /\ l.args = <<>> /\ nxt # 0
      <4>1. end = nxt - 1 \/ end = nxt
        BY <3>5
      <4> HIDE DEF end, nxt
      <4> QED BY <1>1, <3>2, <3>5, <4>1
    <3>6. CASE l.kind = "call" /\ l.args = <<>> /\ nxt = 0
      BY <3>6
    <3>7. CASE ~(l.kind = "heredoc" /\ l.tool \in WriteTools) /\ ~(l.kind = "open_quote" /\ l.tool \in WriteTools)
               /\ ~(l.kind = "call" /\ l.args = <<>>)
      <4>1. end = i
        BY <3>7
      <4> HIDE DEF end
      <4> QED BY <1>1, <4>1
    <3> QED BY <3>3, <3>4, <3>5, <3>6, <3>7
  <2>2. CaptureAt(ls, i, q) = [out |-> <<aCall>>, next |-> last + 1, quoted |-> FALSE]
    BY <1>3 DEF CaptureAt, Gives
  <2>3. closed \in BOOLEAN
    OBVIOUS
  <2> HIDE DEF end, closed
  <2>4. last \in i..Len(ls)
    BY <1>1, <2>1
  <2> HIDE DEF last, l
  <2>5. SubSeq(ls, i, last) \in ReplyLines
    <3>1. i \in Nat \ {0} /\ last \in Int /\ last <= Len(ls)
      BY <1>1, <2>4
    <3> QED BY <3>1, PartOf DEF ReplyLines
  <2>6. aCall \in CapturedLines
    <3>1. ArgsOf(SubSeq(ls, i, last)) \in Arguments /\ last \in Nat
      BY <1>1, <2>4, <2>5, ArgsTyped
    <3> QED BY <1>1, <2>3, <3>1 DEF CapturedCall, CapturedLines
  <2> HIDE DEF aCall
  <2>7. <<aCall>> \in Seq(CapturedLines) /\ last + 1 \in 1..(Len(ls) + 1) /\ last + 1 > i
    BY <1>1, <2>4, <2>6
  <2> QED BY <2>2, <2>7 DEF Rewrites
<1> QED BY <1>2, <1>3

LEMMA CapturesTyped == ASSUME NEW ls \in ReplyLines PROVE Rewritten(ls, CaptureAt) \in Seq(CapturedLines)
<1> DEFINE N == Len(ls)
           D == (1..N) \X BOOLEAN
           made == [at \in D |-> CaptureAt(ls, at[1], at[2])]
<1>1. N \in Nat
  BY DEF ReplyLines
<1>2. \A i \in 1..N, q \in BOOLEAN : CaptureAt(ls, i, q) \in Rewrites(N, CapturedLines) /\ CaptureAt(ls, i, q).next > i
  BY CaptureFits
<1>3. Rewritten(ls, CaptureAt) = Sewn(made, N)
  BY DEF Rewritten
<1> HIDE DEF N
<1>4. made \in [D -> Rewrites(N, CapturedLines)]
  <2>1. \A p \in D : CaptureAt(ls, p[1], p[2]) \in Rewrites(N, CapturedLines)
    <3> SUFFICES ASSUME NEW p \in D PROVE CaptureAt(ls, p[1], p[2]) \in Rewrites(N, CapturedLines)
      OBVIOUS
    <3>1. p[1] \in 1..N /\ p[2] \in BOOLEAN
      OBVIOUS
    <3> QED BY <1>2, <3>1
  <2> HIDE DEF D
  <2> QED BY <2>1
<1>5. \A i \in 1..N, q \in BOOLEAN : made[<<i, q>>].next > i
  BY <1>2
<1> HIDE DEF made
<1>6. Sewn(made, N) \in Seq(CapturedLines)
  BY <1>1, <1>4, <1>5, SewnTyped
<1> QED BY <1>3, <1>6

LEMMA MergeTyped == ASSUME NEW items \in Seq(CapturedLines), NEW c \in CapturedLines PROVE Merge(items, c) \in Seq(CapturedLines)
<1> DEFINE l == Last(items)
           both == CapturedCall(l.kind, l.tool, l.args \o c.args, l.first, c.last, l.closed)
<1>1. Append(items, c) \in Seq(CapturedLines)
  OBVIOUS
<1>2. ASSUME items # <<>> PROVE Append(Front(items), both) \in Seq(CapturedLines)
  <2>1. Front(items) \in Seq(CapturedLines) /\ l \in CapturedLines
    BY <1>2, EndsOf
  <2> HIDE DEF l
  <2>2. l.args \o c.args \in Arguments
    BY <2>1, ListsGrow DEF CapturedLines
  <2>3. both \in CapturedLines
    BY <2>1, <2>2 DEF CapturedLines, CapturedCall
  <2> HIDE DEF both
  <2> QED BY <2>1, <2>3
<1>3. Merge(items, c) = Append(items, c) \/ (items # <<>> /\ Merge(items, c) = Append(Front(items), both))
  BY DEF Merge
<1> HIDE DEF both
<1> QED BY <1>1, <1>2, <1>3

LEMMA AllMergedTyped == ASSUME NEW items \in Seq(CapturedLines) PROVE AllMerged(items) \in Seq(CapturedLines)
<1> DEFINE Q == Seq(CapturedLines)
           N == Len(items)
           op == [x \in Q \X (1..N) |-> Merge(x[1], items[x[2]])]
           g == CHOOSE g : g = [n \in 0..N |-> IF n = 0 THEN <<>> ELSE Merge(g[n - 1], items[n])]
<1>1. N \in Nat /\ \A n \in 1..N : items[n] \in CapturedLines
  BY ElementOfSeq
<1>2. (\A s \in Q, n \in 1..N : Merge(s, items[n]) \in Q) /\ <<>> \in Q
  <2>1. \A s \in Seq(CapturedLines), n \in 1..N : Merge(s, items[n]) \in Seq(CapturedLines)
    BY <1>1, MergeTyped
  <2>2. <<>> \in Seq(CapturedLines)
    OBVIOUS
  <2> HIDE DEF N
  <2> QED BY <2>1, <2>2
<1>7. AllMerged(items) = g[N]
  BY DEF AllMerged
<1> HIDE DEF N, Q
<1>3. op \in [Q \X (1..N) -> Q]
  BY <1>2
<1>4. PICK f \in [0..N -> Q] : f[0] = <<>> /\ \A n \in 1..N : f[n] = op[<<f[n - 1], n>>]
  <2> HIDE DEF op
  <2>1. HasFold(N, Q, <<>>, op)
    BY <1>1, <1>2, <1>3, FoldExists, Zenon
  <2> QED BY <2>1 DEF HasFold
<1>5. f = [n \in 0..N |-> IF n = 0 THEN <<>> ELSE Merge(f[n - 1], items[n])]
  <2>1. \A n \in 1..N : op[<<f[n - 1], n>>] = Merge(f[n - 1], items[n])
    BY <1>1
  <2> HIDE DEF op
  <2>2. \A n \in 0..N : n = 0 \/ n \in 1..N
    BY <1>1
  <2>3. \A n \in 0..N : f[n] = IF n = 0 THEN <<>> ELSE Merge(f[n - 1], items[n])
    BY <1>4, <2>1, <2>2
  <2> QED BY <1>4, <2>3
<1>6. g = [n \in 0..N |-> IF n = 0 THEN <<>> ELSE Merge(g[n - 1], items[n])]
  BY <1>5
<1>8. \A n \in 0..N : g[n] \in Q
  <2> HIDE DEF g
  <2>1. g[0] \in Q
    BY <1>1, <1>2, <1>6
  <2>2. \A n \in 1..N : g[n] = Merge(g[n - 1], items[n])
    <3> SUFFICES ASSUME NEW n \in 1..N PROVE g[n] = Merge(g[n - 1], items[n])
      OBVIOUS
    <3>1. n \in 0..N /\ n # 0
      BY <1>1
    <3> QED BY <1>6, <3>1
  <2>3. \A n \in 1..N : g[n - 1] \in Q => g[n] \in Q
    BY <1>2, <2>2
  <2> QED BY <1>1, <2>1, <2>3, FoldStays
<1> HIDE DEF g
<1> QED BY <1>1, <1>7, <1>8 DEF Q

LEMMA DistinctTyped == ASSUME NEW calls \in ReplyLines, NEW c \in CapturedLines PROVE Distinct(calls, c) \in ReplyLines
<1>1. Line(c.kind, c.tool, c.args) \in ReplyLine
  BY LineTyped DEF CapturedLines
<1> QED BY <1>1, ListsGrow DEF Distinct

LEMMA AllDistinctTyped == ASSUME NEW items \in Seq(CapturedLines) PROVE AllDistinct(items) \in ReplyLines
<1> DEFINE N == Len(items)
           op == [x \in ReplyLines \X (1..N) |-> Distinct(x[1], items[x[2]])]
           g == CHOOSE g : g = [n \in 0..N |-> IF n = 0 THEN <<>> ELSE Distinct(g[n - 1], items[n])]
<1>1. N \in Nat /\ \A n \in 1..N : items[n] \in CapturedLines
  BY ElementOfSeq
<1>2. (\A s \in ReplyLines, n \in 1..N : Distinct(s, items[n]) \in ReplyLines) /\ <<>> \in ReplyLines
  BY <1>1, DistinctTyped, NoArgs
<1>7. AllDistinct(items) = g[N]
  BY DEF AllDistinct
<1> HIDE DEF N
<1>3. op \in [ReplyLines \X (1..N) -> ReplyLines]
  BY <1>2
<1>4. PICK f \in [0..N -> ReplyLines] : f[0] = <<>> /\ \A n \in 1..N : f[n] = op[<<f[n - 1], n>>]
  <2> HIDE DEF op
  <2>1. HasFold(N, ReplyLines, <<>>, op)
    BY <1>1, <1>2, <1>3, FoldExists, Zenon
  <2> QED BY <2>1 DEF HasFold
<1>5. f = [n \in 0..N |-> IF n = 0 THEN <<>> ELSE Distinct(f[n - 1], items[n])]
  <2>1. \A n \in 1..N : op[<<f[n - 1], n>>] = Distinct(f[n - 1], items[n])
    BY <1>1
  <2> HIDE DEF op
  <2>2. \A n \in 0..N : n = 0 \/ n \in 1..N
    BY <1>1
  <2>3. \A n \in 0..N : f[n] = IF n = 0 THEN <<>> ELSE Distinct(f[n - 1], items[n])
    BY <1>4, <2>1, <2>2
  <2> QED BY <1>4, <2>3
<1>6. g = [n \in 0..N |-> IF n = 0 THEN <<>> ELSE Distinct(g[n - 1], items[n])]
  BY <1>5
<1>8. \A n \in 0..N : g[n] \in ReplyLines
  <2> HIDE DEF g
  <2>1. g[0] \in ReplyLines
    BY <1>1, <1>2, <1>6
  <2>2. \A n \in 1..N : g[n] = Distinct(g[n - 1], items[n])
    <3> SUFFICES ASSUME NEW n \in 1..N PROVE g[n] = Distinct(g[n - 1], items[n])
      OBVIOUS
    <3>1. n \in 0..N /\ n # 0
      BY <1>1
    <3> QED BY <1>6, <3>1
  <2>3. \A n \in 1..N : g[n - 1] \in ReplyLines => g[n] \in ReplyLines
    BY <1>2, <2>2
  <2> QED BY <1>1, <2>1, <2>3, FoldStays
<1> HIDE DEF g
<1> QED BY <1>1, <1>7, <1>8

LEMMA ExtractedTyped == ASSUME NEW ls \in ReplyLines PROVE Extracted(ls) \in Seq(ReplyCall)
<1> DEFINE calls == AllDistinct(AllMerged(Rewritten(ls, CaptureAt)))
<1>1. calls \in ReplyLines
  BY CapturesTyped, AllMergedTyped, AllDistinctTyped
<1>2. Extracted(ls) = [k \in 1..Len(calls) |-> Called(calls[k].tool, calls[k].args)]
  BY DEF Extracted
<1> HIDE DEF calls
<1>3. Len(calls) \in Nat /\ \A k \in 1..Len(calls) : Called(calls[k].tool, calls[k].args) \in ReplyCall
  BY <1>1, LineAtIs, LineIs DEF ReplyLines, Called, ReplyCall, ToolOrNone, Arguments
<1> QED BY <1>2, <1>3

LEMMA ParserBegins == ParserInit => ParserTypeOK
<1> SUFFICES ASSUME ParserInit PROVE ParserTypeOK
  OBVIOUS
<1> USE ParserBounds DEF ParserInit
<1>1. PICK n \in 0..MaxBlocks : message \in [1..n -> Blocks]
  BY DEF Replies
<1>2. message \in Seq(Blocks) /\ Len(message) = n
  BY <1>1
<1> DEFINE all == [k \in 1..Len(message) |-> message[k].lines]
<1>3. \A k \in 1..Len(message) : message[k].lines \in Seq(ReplyLine)
  BY <1>2, ElementOfSeq
<1>4. all \in Seq(Seq(ReplyLine))
  BY <1>2, <1>3
<1> HIDE DEF all
<1>5. FlattenSeq(all) \in Seq(ReplyLine)
  BY <1>4, FlattenTyped
<1>6. rewritten \in Seq(ReplyLine)
  BY <1>5 DEF all
<1>7. pass \in PassNames /\ extracted \in Seq(ReplyCall)
  BY DEF PassNames
<1> QED BY <1>1, <1>2, <1>6, <1>7 DEF ParserTypeOK

LEMMA ParserGoesOn == ASSUME ParserTypeOK, [ParserNext]_parserVars PROVE ParserTypeOK'
<1>1. rewritten \in ReplyLines /\ pass \in PassNames
  BY DEF ParserTypeOK, ReplyLines
<1>2. ASSUME NEW made \in ReplyLines, rewritten' = made, pass' \in PassNames, UNCHANGED <<message, extracted>>
      PROVE  ParserTypeOK'
  BY <1>2 DEF ParserTypeOK, ReplyLines
<1> USE DEF PassNames
<1>3. CASE PseudoXml
  BY <1>1, <1>2, <1>3, PseudoXmlTyped DEF PseudoXml, Pass
<1>4. CASE CjkBracket
  BY <1>1, <1>2, <1>4, CjkBracketTyped DEF CjkBracket, Pass
<1>5. CASE InlineAngle
  BY <1>1, <1>2, <1>5, InlineAngleTyped DEF InlineAngle, Pass
<1>6. CASE CallingMarkdown
  BY <1>1, <1>2, <1>6, CallingTyped DEF CallingMarkdown, Pass
<1>7. CASE DsmlTags
  BY <1>1, <1>2, <1>7, DsmlTyped DEF DsmlTags, Pass
<1>8. CASE XmlContent
  BY <1>1, <1>2, <1>8, ContentTyped DEF XmlContent, Pass
<1>9. CASE FileTagAliases
  BY <1>1, <1>2, <1>9, FileAliasTyped DEF FileTagAliases, Pass
<1>10. CASE MarkdownFences
  BY <1>1, <1>2, <1>10, FencesTyped, FencesKeep DEF MarkdownFences
<1>11. CASE ArgumentPairs
  BY <1>1, <1>2, <1>11, PairsTyped DEF ArgumentPairs, Pass
<1>12. CASE TagStyle
  BY <1>1, <1>2, <1>12, TagsTyped DEF TagStyle, Pass
<1>13. CASE Extract
  BY <1>1, <1>13, ExtractedTyped DEF Extract, ParserTypeOK
<1>14. CASE UNCHANGED parserVars
  BY <1>14 DEF parserVars, ParserTypeOK
<1> QED BY <1>3, <1>4, <1>5, <1>6, <1>7, <1>8, <1>9, <1>10, <1>11, <1>12, <1>13, <1>14 DEF ParserNext

(* Every pass of the parser, over every message, makes lines of lines,       *)
(* whatever it cuts out, joins or drops on its way, and what is extracted    *)
(* at the end is a list of calls.                                            *)
THEOREM ParserTypeCorrect == ParserSpec => []ParserTypeOK
<1>1. ParserInit => ParserTypeOK
  BY ParserBegins
<1>2. ParserTypeOK /\ [ParserNext]_parserVars => ParserTypeOK'
  BY ParserGoesOn
<1> QED BY <1>1, <1>2, PTL DEF ParserSpec
==============================================================================
