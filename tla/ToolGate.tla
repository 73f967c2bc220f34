------------------------------- MODULE ToolGate -------------------------------
(***************************************************************************)
(* What a tool call passes before it runs (src/src/runtime.rs): the hooks, *)
(* the rules and the mode, the approval asked of the user, the review, the *)
(* audit entry.  A submission brings calls to the gate in one of three     *)
(* ways: the calls of a native reply one after another, a /toolcall alone, *)
(* or a batch of the auto-loop on a worker thread with a snapshot of the   *)
(* rules.  The arguments of a call are words; a call is wide when more     *)
(* than one blank separates the first of them.                             *)
(***************************************************************************)
EXTENDS Naturals, Sequences, SequencesExt

CONSTANTS
  Calls,           \* calls the model may make: [tool, args, wide]
  MaxCommands,     \* bound of the model: /permissions commands
  MaxSubmissions,  \* bound of the model
  MaxBatch         \* bound of the model: calls in one native reply

ASSUME GateBounds ==
  /\ {MaxCommands, MaxSubmissions, MaxBatch} \subseteq Nat
  /\ Calls \subseteq [tool : STRING, args : Seq(STRING), wide : BOOLEAN]

VARIABLES
  mode,       \* permission_mode
  allow,      \* allow rules of the configuration and of the session
  deny,       \* deny rules of the configuration and of the session
  next,       \* next_permission_allow_rules
  said,       \* interactive_approval_*_rules: [allow, deny], sets of rules
  way,        \* how the calls came: "native", "manual" or "batch"
  todo,       \* calls of the submission not decided yet
  stage,      \* where the first of them is; "idle" between submissions
  entry,      \* audit entry of the call at hand: "none", "allowed", "denied"
  refused,    \* calls the user refused for good
  due,        \* a submission with calls was at the gate since the last grant of next
  commands, submissions

rules == <<allow, deny, next, said>>
gateVars == <<mode, rules, way, todo, stage, entry, refused, due, commands, submissions>>

Modes == {"read-only", "workspace-write", "on-request", "danger-full-access"}
Stages == {"idle", "hook", "rules", "approval", "request", "review", "audit", "run", "report"}
Interactive == mode = "on-request"
Level == CASE mode = "read-only" -> 0 [] mode = "workspace-write" -> 1 [] OTHER -> 2

\* The tools that look and those that act; of the latter every one is confirmed.
Looking ==
  {"read_file", "glob_search", "grep_search", "web_search", "web_fetch", "screenshot", "find_window",
   "read_screen_text", "probe_diff", "video_keyframes"}
Acting ==
  {"bash", "write_file", "edit_file", "click", "mouse_click", "click_text", "type", "type_text", "ue5_bridge",
   "ue5_scene_probe", "blender_bridge", "blender_scene_probe", "unity_bridge", "unity_scene_probe", "video_capture"}
Required(tool) == CASE tool \in Looking -> 0 [] tool \in Acting -> 1 [] OTHER -> 2
Confirmed(tool) == tool \in Acting

\* rule_matches: the tool alone, or the tool and how the arguments begin.
Covers(rule, call) ==
  /\ rule.tool = call.tool
  /\ rule.args = <<>> \/ (~call.wide /\ IsPrefix(rule.args, call.args))
Covered(rs, call) == \E rule \in rs : Covers(rule, call)

FirstWords(call, n) == SubSeq(call.args, 1, IF Len(call.args) < n THEN Len(call.args) ELSE n)

\* interactive_approval_rule: at most three words of a command, the path of an edit.
Suggested(call) ==
  [tool |-> call.tool,
   args |-> CASE call.tool = "bash" -> FirstWords(call, 3)
              [] call.tool \in {"write_file", "edit_file"} -> FirstWords(call, 1)
              [] OTHER -> <<>>]

Rules == {Suggested(c) : c \in Calls} \cup {[tool |-> c.tool, args |-> <<>>] : c \in Calls}

GateTypeOK ==
  /\ mode \in Modes /\ stage \in Stages /\ way \in {"native", "manual", "batch"}
  /\ allow \subseteq Rules /\ deny \subseteq Rules /\ next \subseteq Rules
  /\ said \in [allow : SUBSET Rules, deny : SUBSET Rules]
  /\ todo \in Seq(Calls) /\ (stage \notin {"idle", "report"} => todo # <<>>)
  /\ entry \in {"none", "allowed", "denied"} /\ refused \subseteq Calls /\ due \in BOOLEAN

GateInit ==
  /\ mode \in Modes /\ allow = {} /\ deny = {} /\ next = {}
  /\ said = [allow |-> {}, deny |-> {}]
  /\ way = "manual" /\ todo = <<>> /\ stage = "idle" /\ entry = "none" /\ refused = {}
  /\ due = FALSE /\ commands = 0 /\ submissions = 0

------------------------------------------------------------------------------
\* /permissions, between submissions.

Command == stage = "idle" /\ commands < MaxCommands /\ commands' = commands + 1
Gate == <<way, todo, stage, entry, refused, submissions>>

SetMode ==
  Command /\ mode' \in Modes /\ UNCHANGED <<rules, due, Gate>>

\* allow, temp-allow, their removal, and the clearing of either list
ChangeAllow ==
  /\ Command /\ \E r \in Rules : allow' \in {allow \cup {r}, allow \ {r}, {}}
  /\ UNCHANGED <<mode, deny, next, said, due, Gate>>

ChangeDeny ==
  /\ Command /\ \E r \in Rules : deny' \in {deny \cup {r}, deny \ {r}, {}}
  /\ UNCHANGED <<mode, allow, next, said, due, Gate>>

GrantNext ==
  /\ Command /\ \E r \in Rules : next' = next \cup {r}
  /\ due' = FALSE
  /\ UNCHANGED <<mode, allow, deny, said, Gate>>

ClearNext ==
  /\ Command /\ next' = {}
  /\ UNCHANGED <<mode, allow, deny, said, due, Gate>>

------------------------------------------------------------------------------
\* A submission.  The auto-loop uses a batch only while nothing is granted for
\* the next call alone and nobody has to be asked.

BringCalls(w, calls) ==
  /\ stage = "idle" /\ submissions < MaxSubmissions
  /\ submissions' = submissions + 1
  /\ way' = w /\ todo' = calls /\ stage' = "hook" /\ entry' = "none"
  /\ due' = TRUE
  /\ UNCHANGED <<mode, rules, refused, commands>>

NativeCalls == \E n \in 1..MaxBatch : \E calls \in [1..n -> Calls] : BringCalls("native", calls)
ManualCall == \E call \in Calls : BringCalls("manual", <<call>>)
BatchCall == next = {} /\ ~Interactive /\ \E call \in Calls : BringCalls("batch", <<call>>)

\* A /toolcall of a tool that does not exist.
UnknownTool ==
  /\ stage = "idle" /\ submissions < MaxSubmissions
  /\ submissions' = submissions + 1 /\ next' = {} /\ due' = TRUE
  /\ UNCHANGED <<mode, allow, deny, said, way, todo, stage, entry, refused, commands>>

call == Head(todo)
Rest == UNCHANGED <<mode, allow, deny, commands, submissions, due, way>>
answers == <<said, refused>>

\* The call at hand is done with: a native reply goes on with its next call,
\* and the last call hands the results over.
Onward == todo' = Tail(todo) /\ stage' = IF Tail(todo) = <<>> THEN "report" ELSE "hook"

\* Refused: an audit entry says so (of a batch when the worker has ended), and
\* a /toolcall takes what was granted for it along.
Refuse ==
  /\ entry' = "denied" /\ Onward
  /\ next' = IF way = "manual" THEN {} ELSE next

Passes(s) == stage' = s /\ UNCHANGED <<next, todo, entry>>

PreToolUse ==
  /\ stage = "hook" /\ (Refuse \/ Passes("rules"))
  /\ Rest /\ UNCHANGED answers

\* deny_reason: deny rules, allow rules if there are any, the mode; killswitches,
\* the path guard, the sandbox and the safe shell may refuse any call as well.
RulesDeny ==
  \/ Covered(deny, call)
  \/ allow \cup next # {} /\ ~Covered(allow \cup next, call)
  \/ Level < Required(call.tool)

CheckRules ==
  /\ stage = "rules" /\ (Refuse \/ (~RulesDeny /\ Passes("approval")))
  /\ Rest /\ UNCHANGED answers

MustAsk == Interactive /\ Confirmed(call.tool) /\ way # "batch" /\ ~Covered(said.deny \cup said.allow, call)

\* Mutant of Approve: permissions given for good come before refusals.
ApproveAllowFirst ==
  /\ stage = "approval" /\ ~MustAsk
  /\ IF /\ Interactive /\ Confirmed(call.tool) /\ ~Covered(said.allow, call)
        /\ way = "batch" \/ Covered(said.deny, call)
       THEN Refuse ELSE Passes("request")
  /\ Rest /\ UNCHANGED answers

\* request_tool_approval: answers given for good come first, refusals before
\* permissions.  A worker never asks: it refuses.
Approve ==
  /\ stage = "approval" /\ ~MustAsk
  /\ IF Interactive /\ Confirmed(call.tool) /\ (way = "batch" \/ Covered(said.deny, call))
       THEN Refuse ELSE Passes("request")
  /\ Rest /\ UNCHANGED answers

\* The user says yes or no (an empty answer, or no terminal), or either for good.
AnswerOnce ==
  /\ stage = "approval" /\ MustAsk /\ (Refuse \/ Passes("request"))
  /\ Rest /\ UNCHANGED answers

AnswerForGood ==
  /\ stage = "approval" /\ MustAsk
  /\ \/ /\ Passes("request") /\ said' = [said EXCEPT !.allow = @ \cup {Suggested(call)}]
        /\ UNCHANGED refused
     \/ /\ Refuse /\ said' = [said EXCEPT !.deny = @ \cup {Suggested(call)}]
        /\ refused' = refused \cup {call}
  /\ Rest

PermissionRequest ==
  /\ stage = "request" /\ (Refuse \/ Passes("review"))
  /\ Rest /\ UNCHANGED answers

\* auto_review_decision: any call may be severe enough to be stopped.
AutoReview ==
  /\ stage = "review" /\ (Refuse \/ Passes(IF way = "batch" THEN "run" ELSE "audit"))
  /\ Rest /\ UNCHANGED answers

\* The entry is written before the tool runs, except for a worker.
AuditAllowed ==
  /\ stage = "audit" /\ entry' = "allowed" /\ stage' = "run"
  /\ next' = IF way = "manual" THEN {} ELSE next
  /\ Rest /\ UNCHANGED <<answers, todo>>

RunTool ==
  /\ stage = "run" /\ Onward
  /\ \/ entry' = "allowed"
     \/ way = "batch" /\ entry' = "none"  \* the worker panicked
  /\ Rest /\ UNCHANGED <<next, answers>>

\* Mutant of Report: the rules for the next call stay after a native reply.
ReportKeeping ==
  /\ stage = "report" /\ stage' = "idle"
  /\ next' = IF way = "batch" THEN {} ELSE next
  /\ Rest /\ UNCHANGED <<answers, todo, entry>>

\* The results go into the history and what was granted for once is over.
Report ==
  /\ stage = "report" /\ stage' = "idle"
  /\ next' = IF way = "manual" THEN next ELSE {}
  /\ Rest /\ UNCHANGED <<answers, todo, entry>>

Gatekeeper ==
  \/ PreToolUse \/ CheckRules \/ Approve \/ AnswerOnce \/ AnswerForGood
  \/ PermissionRequest \/ AutoReview \/ AuditAllowed \/ RunTool \/ Report

GateNext ==
  \/ SetMode \/ ChangeAllow \/ ChangeDeny \/ GrantNext \/ ClearNext
  \/ NativeCalls \/ ManualCall \/ BatchCall \/ UnknownTool
  \/ Gatekeeper

------------------------------------------------------------------------------
\* What is granted for the next submission with tool calls is gone when it is
\* over, however it went and whichever way the calls came.
NextIsForNext == stage = "idle" /\ due => next = {}

\* A call the user refused for good does not run while the mode asks the user:
\* not in a later reply or batch, not when a permission given for good covers it
\* too.  This is for calls whose words are separated by single blanks; of others
\* the suggested rule does not match the call it was made from.
DenialHolds ==
  stage = "run" /\ Interactive /\ Confirmed(call.tool) /\ ~call.wide => call \notin refused

==============================================================================
