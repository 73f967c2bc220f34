------------------------------ MODULE TurnEngine ------------------------------
(***************************************************************************)
(* One Runtime (src/src/runtime.rs) as the interactive session drives it:  *)
(* the history it sends to the provider, a turn with native tool calls,    *)
(* the fall back to the text protocol, retries, the change of model, the   *)
(* continuation of replies cut by length, compaction, and the pre-turn     *)
(* guard of the REPL (src/src/main.rs) and of the auto-loop.  What one     *)
(* tool call is allowed to do is in ToolGate, what a stream delivers in    *)
(* Streams: here a call just runs, and an answer of the provider is one of *)
(* the classes classify_provider_error and the stop reason tell apart.     *)
(***************************************************************************)
EXTENDS Naturals, Sequences, FiniteSets

CONSTANTS
  MaxTurns,        \* max_turns of the runtime
  TurnThreshold,   \* ceil(max_turns * ASI_AUTO_COMPACT_TURN_RATIO)
  KeepLast,        \* messages a compaction keeps: 8 in the code
  LoopCompactions, \* compactions of one auto-loop: 8 in the code
  RetryLimit,      \* ASI_PROVIDER_MAX_RETRIES
  Rounds,          \* ASI_LENGTH_CONTINUATION_MAX_ROUNDS
  NativeModels,    \* models for which native calling is the default
  MaxCalls,        \* bound of the model: calls in one reply
  MaxInputs        \* bound of the model: inputs of the session

ASSUME TurnBounds ==
  /\ {MaxTurns, TurnThreshold, KeepLast, MaxCalls} \subseteq Nat \ {0}
  /\ {LoopCompactions, RetryLimit, Rounds, MaxInputs} \subseteq Nat
  /\ TurnThreshold <= MaxTurns
  /\ NativeModels \subseteq {"chosen", "default"}

VARIABLES
  messages,      \* the history, a sequence of Tags
  tokens,        \* cumulative_input_tokens reached the threshold
  native,        \* native_tool_calling
  auto_disabled, \* native_tool_auto_disabled_reason is set
  model,         \* "chosen", or "default" after the change of model
  stop_reason,   \* last_stop_reason_raw
  phase,         \* where run_turn or compact_with_summary is
  input,         \* what is being handled: "prompt", "followup" or "command"
  vetoed,        \* a PreCompact hook denied the compaction of this input
  compactions,   \* auto_compactions_done of the auto-loop
  tries,         \* retry_attempts
  rounds,        \* rounds of length continuation
  left,          \* tool calls of the reply still to run
  spoke,         \* the reply with tool calls had a text
  inputs         \* inputs so far

engine == <<native, auto_disabled, model>>
turn == <<tries, rounds, left, spoke>>
engineVars == <<messages, tokens, engine, stop_reason, phase, input, vetoed, compactions, turn, inputs>>

UserTags == {"task", "results", "continue", "command", "feedback"}
AssistantTags == {"reply", "calls", "summary", "result"}
SystemTags == {"context", "bare"}  \* with or without the project's documents
Tags == SystemTags \cup UserTags \cup AssistantTags

\* What classify_provider_error makes of an error.
ErrorKinds == {"no_tools", "model_not_found", "decode", "network", "auth", "quota", "unknown"}
Retryable == {"decode", "network"}

EngineTypeOK ==
  /\ messages \in Seq(Tags) /\ messages # <<>>
  /\ messages[1] \in SystemTags
  /\ \A i \in 2..Len(messages) : messages[i] \in UserTags \cup AssistantTags
  /\ {tokens, native, auto_disabled, vetoed, spoke} \subseteq BOOLEAN
  /\ model \in {"chosen", "default"}
  /\ phase \in {"idle", "submit", "summary", "native", "text", "calls"}
  /\ input \in {"prompt", "followup", "command"}
  /\ {compactions, tries, rounds, left, inputs} \subseteq Nat

Turns(ms) == Cardinality({i \in 1..Len(ms) : ms[i] \in UserTags})

\* Mutant of Recent: the oldest messages are kept.
Oldest(ms, k) == SubSeq(ms, 2, IF Len(ms) > k THEN k + 1 ELSE Len(ms))

\* head plus the last k messages.
Recent(ms, k) ==
  SubSeq(ms, IF Len(ms) > k THEN Len(ms) - k + 1 ELSE 2, Len(ms))

\* default_native_tool_calling, or what ASI_NATIVE_TOOL_CALLING says instead.
DefaultNative(m) == m \in NativeModels

Ready == phase = "idle" /\ inputs < MaxInputs
Restart == tries' = 0 /\ rounds' = 0 /\ left' = 0 /\ spoke' = FALSE
Ends(reason) == phase' = "idle" /\ stop_reason' = reason /\ Restart

EngineInit ==
  /\ messages = <<"context">>
  /\ model \in {"chosen", "default"} /\ native = DefaultNative(model)
  /\ tokens = FALSE /\ auto_disabled = FALSE
  /\ stop_reason = "none" /\ phase = "idle" /\ input = "prompt" /\ vetoed = FALSE
  /\ compactions = 0 /\ inputs = 0
  /\ tries = 0 /\ rounds = 0 /\ left = 0 /\ spoke = FALSE

------------------------------------------------------------------------------
\* Compaction and the guards before a turn.

\* Mutant of NearLimit: the guard looks one turn too late.
NearLimitPast == tokens \/ Turns(messages) > TurnThreshold

NearLimit == tokens \/ Turns(messages) >= TurnThreshold

\* compact_with_summary up to its request: a hook may veto it, and a history
\* no longer than what it keeps is left alone.
StartCompaction(k, next) ==
  \/ vetoed' = TRUE /\ phase' = next
  \/ vetoed' = FALSE /\ phase' = IF Len(messages) - 1 > k THEN "summary" ELSE next

Summarise ==
  /\ phase = "summary"
  /\ phase' = IF input = "command" THEN "idle" ELSE "submit"
  /\ \/ messages' = <<messages[1], "summary">> \o Recent(messages, KeepLast)
     \/ messages' = <<messages[1]>> \o Recent(messages, KeepLast)
  /\ UNCHANGED <<tokens, engine, stop_reason, input, vetoed, compactions, turn, inputs>>

\* A prompt typed in the REPL: the guard looks at tokens and turns first.
Prompt ==
  /\ Ready
  /\ input' = "prompt" /\ inputs' = inputs + 1 /\ compactions' = 0
  /\ IF NearLimit THEN StartCompaction(KeepLast, "submit")
                  ELSE vetoed' = FALSE /\ phase' = "submit"
  /\ UNCHANGED <<messages, tokens, engine, stop_reason, turn>>

\* A follow-up of the auto-loop: the same guard, a bounded number of times.
Followup ==
  /\ Ready
  /\ input' = "followup" /\ inputs' = inputs + 1
  /\ IF NearLimit /\ compactions < LoopCompactions
       THEN StartCompaction(KeepLast, "submit") /\ compactions' = compactions + 1
       ELSE vetoed' = FALSE /\ phase' = "submit" /\ UNCHANGED compactions
  /\ UNCHANGED <<messages, tokens, engine, stop_reason, turn>>

\* /compact, and the plain compaction of /compact lossy.
CompactCommand ==
  /\ Ready
  /\ input' = "command" /\ inputs' = inputs + 1
  /\ StartCompaction(KeepLast, "idle")
  /\ UNCHANGED <<messages, tokens, engine, stop_reason, compactions, turn>>

Compact ==
  /\ Ready
  /\ input' = "command" /\ inputs' = inputs + 1
  /\ \/ messages' = <<messages[1]>> \o Recent(messages, KeepLast)
     \/ UNCHANGED messages  \* vetoed by a hook
  /\ UNCHANGED <<tokens, engine, stop_reason, phase, vetoed, compactions, turn>>

------------------------------------------------------------------------------
\* A turn.

\* run_turn_streaming up to its first request: the UserPromptSubmit hook, the
\* limit of turns, the user's message.
Submit ==
  /\ phase = "submit"
  /\ \/ Ends("permission_denied") /\ UNCHANGED messages
     \/ /\ Turns(messages) >= MaxTurns
        /\ Ends("max_turns_reached") /\ UNCHANGED messages
     \/ /\ Turns(messages) < MaxTurns
        /\ messages' = Append(messages, "task")
        /\ phase' = IF native THEN "native" ELSE "text"
        /\ UNCHANGED <<stop_reason, tries, rounds, left, spoke>>
  /\ UNCHANGED <<tokens, engine, input, vetoed, compactions, inputs>>

Waiting == phase \in {"native", "text"}

\* An error worth a retry: network trouble or a body that does not decode.
CanRetry(e) == e \in Retryable /\ tries < RetryLimit
\* Mutant of CanChangeModel: the default model is replaced, too.
CanChangeModelAgain(e) == e = "model_not_found"

CanChangeModel(e) == e = "model_not_found" /\ model = "chosen"

Retry ==
  /\ Waiting /\ \E e \in ErrorKinds : CanRetry(e)
  /\ tries' = tries + 1
  /\ UNCHANGED <<messages, tokens, engine, stop_reason, phase, input, vetoed, compactions, rounds, left, spoke, inputs>>

\* The model does not exist: the provider's default replaces it, once.
ModelFallback ==
  /\ Waiting /\ \E e \in ErrorKinds : CanChangeModel(e)
  /\ model' = "default" /\ tries' = 0
  /\ UNCHANGED <<messages, tokens, native, auto_disabled, stop_reason, phase, input, vetoed, compactions, rounds, left, spoke, inputs>>

\* Any other error of a native turn: the turn goes on with the text protocol,
\* and for good when the endpoint does not know tools.
NativeFails ==
  /\ phase = "native"
  /\ phase' = "text" /\ tries' = 0
  /\ \E e \in ErrorKinds :
       /\ ~CanRetry(e) /\ ~CanChangeModel(e)
       /\ native' = (native /\ e # "no_tools")
       /\ auto_disabled' = (auto_disabled \/ e = "no_tools")
  /\ UNCHANGED <<messages, tokens, model, stop_reason, input, vetoed, compactions, rounds, left, spoke, inputs>>

\* cumulative_input_tokens only grows.
Counted == tokens' \in {tokens, TRUE}

NativeReply ==
  /\ phase = "native" /\ Counted
  /\ \E text \in BOOLEAN, n \in 0..MaxCalls :
       /\ messages' = IF text THEN Append(messages, "reply") ELSE messages
       /\ IF n = 0
            THEN Ends("completed")
            ELSE /\ phase' = "calls" /\ left' = n /\ spoke' = text
                 /\ UNCHANGED <<stop_reason, tries, rounds>>
  /\ UNCHANGED <<engine, input, vetoed, compactions, inputs>>

RunNativeCall ==
  /\ phase = "calls" /\ left > 0
  /\ left' = left - 1
  /\ UNCHANGED <<messages, tokens, engine, stop_reason, phase, input, vetoed, compactions, tries, rounds, spoke, inputs>>

ReportResults ==
  /\ phase = "calls" /\ left = 0
  /\ messages' = messages \o IF spoke THEN <<"results">> ELSE <<"calls", "results">>
  /\ Ends("tool_use")
  /\ UNCHANGED <<tokens, engine, input, vetoed, compactions, inputs>>

\* A reply of the text protocol cut by length, with rounds left.
Continue ==
  /\ phase = "text" /\ rounds < Rounds
  /\ messages' = messages \o <<"reply", "continue">>
  /\ rounds' = rounds + 1 /\ tries' = 0
  /\ UNCHANGED <<tokens, engine, stop_reason, phase, input, vetoed, compactions, left, spoke, inputs>>

TextReply ==
  /\ phase = "text" /\ Counted
  /\ \/ Ends("completed")
     \/ rounds = Rounds /\ Ends("length")
  /\ messages' = Append(messages, "reply")
  /\ UNCHANGED <<engine, input, vetoed, compactions, inputs>>

TextFails ==
  /\ phase = "text" /\ \E e \in ErrorKinds : ~CanRetry(e) /\ ~CanChangeModel(e)
  /\ Ends("provider_error")
  /\ UNCHANGED <<messages, tokens, engine, input, vetoed, compactions, inputs>>

------------------------------------------------------------------------------
\* Commands and calls between turns.

\* /toolcall, through run_turn: hook and limit of turns come first, an unknown
\* or denied call leaves the history alone.
ManualToolcall ==
  /\ Ready
  /\ input' = "command" /\ inputs' = inputs + 1
  /\ \/ Turns(messages) >= MaxTurns /\ stop_reason' = "max_turns_reached" /\ UNCHANGED messages
     \/ stop_reason' \in {"permission_denied", "unknown_tool"} /\ UNCHANGED messages
     \/ /\ Turns(messages) < MaxTurns
        /\ stop_reason' = "tool_result" /\ messages' = messages \o <<"command", "result">>
  /\ UNCHANGED <<tokens, engine, phase, vetoed, compactions, turn>>

\* The auto-loop's batches and the feedback of its tests: no limit of turns.
BatchToolcall ==
  /\ Ready
  /\ input' = "command" /\ inputs' = inputs + 1
  /\ stop_reason' = "tool_result" /\ messages' = messages \o <<"command", "result">>
  /\ UNCHANGED <<tokens, engine, phase, vetoed, compactions, turn>>

PushUserMessage ==
  /\ Ready
  /\ input' = "command" /\ inputs' = inputs + 1
  /\ messages' = Append(messages, "feedback")
  /\ UNCHANGED <<tokens, engine, stop_reason, phase, vetoed, compactions, turn>>

Clear ==
  /\ Ready
  /\ input' = "command" /\ inputs' = inputs + 1
  /\ messages' = <<"bare">> /\ tokens' = FALSE
  /\ auto_disabled' = FALSE /\ stop_reason' = "none"
  /\ UNCHANGED <<native, model, phase, vetoed, compactions, turn>>

\* load_session_messages and apply_runtime_flags_from_cfg (/resume and the
\* checkpoint commands); a saved history holds users and assistants only.
LoadSession ==
  /\ Ready
  /\ input' = "command" /\ inputs' = inputs + 1
  /\ \E saved \in {<<>>, <<"task", "reply">>, <<"task", "task">>} : messages' = <<"bare">> \o saved
  /\ tokens' = FALSE /\ auto_disabled' = FALSE /\ stop_reason' = "none"
  /\ model' = "chosen" /\ native' = DefaultNative("chosen")
  /\ UNCHANGED <<phase, vetoed, compactions, turn>>

\* /model and /provider: rebind_provider_model, then the flags.
Rebind ==
  /\ Ready
  /\ input' = "command" /\ inputs' = inputs + 1
  /\ model' \in {"chosen", "default"} /\ native' = DefaultNative(model')
  /\ auto_disabled' = FALSE /\ stop_reason' = "none"
  /\ UNCHANGED <<messages, tokens, phase, vetoed, compactions, turn>>

\* apply_runtime_flags_from_cfg, called by /permissions, /flags, /privacy,
\* /project and others: native calling is again the default of the model.
ApplyFlags ==
  /\ Ready
  /\ input' = "command" /\ inputs' = inputs + 1
  /\ native' = DefaultNative(model)
  /\ UNCHANGED <<messages, tokens, auto_disabled, model, stop_reason, phase, vetoed, compactions, turn>>

\* /native on, /native off
NativeCommand ==
  /\ Ready
  /\ input' = "command" /\ inputs' = inputs + 1
  /\ native' \in BOOLEAN
  /\ UNCHANGED <<messages, tokens, auto_disabled, model, stop_reason, phase, vetoed, compactions, turn>>

Engine ==
  \/ Summarise \/ Submit \/ Retry \/ ModelFallback \/ NativeFails \/ NativeReply
  \/ RunNativeCall \/ ReportResults \/ Continue \/ TextReply \/ TextFails

Commands ==
  \/ Prompt \/ Followup \/ CompactCommand \/ Compact \/ ManualToolcall \/ BatchToolcall
  \/ PushUserMessage \/ Clear \/ LoadSession \/ Rebind \/ ApplyFlags \/ NativeCommand

EngineNext == Engine \/ Commands

------------------------------------------------------------------------------
\* A prompt typed in the REPL is never turned away for the number of turns,
\* unless a hook vetoed the compaction: the pre-turn guard makes room "so this
\* turn can actually run" (main.rs), whatever failed turns, batches and
\* follow-ups left behind, provided max_turns exceeds what a compaction keeps.
PromptAccepted ==
  KeepLast < MaxTurns =>
    ~(phase = "idle" /\ input = "prompt" /\ ~vetoed /\ stop_reason = "max_turns_reached")

\* What is sent to the provider, and what is saved between turns, never shows
\* an announced batch of tool calls without its results.
CallsAnswered ==
  phase # "calls" =>
    \A i \in 1..Len(messages) :
      messages[i] = "calls" => i < Len(messages) /\ messages[i + 1] = "results"

\* Every input is answered: the turn ends whatever the provider answers.
TurnEnds == (phase # "idle") ~> (phase = "idle")
==============================================================================
