--------------------------------- MODULE Hooks ---------------------------------
(***************************************************************************)
(* The hooks of the user: the file of handlers, the commands that change   *)
(* it (/hooks config of src/src/main.rs), and what an event runs           *)
(* (run_event_hooks of src/src/runtime.rs).  The runtime reads the file    *)
(* that the environment names, and only that; the commands fall back to    *)
(* one in the project.  What a plugin adds to an event is in Plugins, how  *)
(* a hook runs is in ChildProcess, what a refusal means is in ToolGate.    *)
(***************************************************************************)
EXTENDS Naturals, Sequences, SequencesExt, Lists

CONSTANTS
  HookScripts,   \* commands to run
  HandWritten,   \* what a file may hold before
  MaxHookRows,   \* bound of the model: handlers of a file
  MaxHookOps     \* bound of the model: commands that write

VARIABLES
  hook_env,    \* the environment: [on, path, closed, json, script]
  hook_files,  \* per path: [kind, rows]
  hook_queue,  \* the hooks an event has still to run: sequence of [source, policy]
  hook_event,  \* the last event: none, running, allowed or blocked
  hook_reply,  \* what the last command said
  hook_ops

hookVars == <<hook_env, hook_files, hook_queue, hook_event, hook_reply, hook_ops>>

HookPaths == {"project", "named"}
HookEvents == {"PreToolUse", "Stop"}
HookTools == {"bash", "read_file"}
\* An event may also be written in another way, which the commands know and the
\* runtime does not; "*" is the other way round.
WrittenEvents == HookEvents \cup {"pre_tool_use", "*"}
Policies == {"none", "open", "closed"}
HookPrefixes == {"none", "bash"}
Handler == [event : WrittenEvents, script : HookScripts \cup {""}, policy : Policies, prefix : HookPrefixes]
HookFile(rows) == [kind |-> "rows", rows |-> rows]
NoHooks == [kind |-> "absent", rows |-> <<>>]
BrokenHooks == [kind |-> "broken", rows |-> <<>>]

ASSUME HookBounds ==
  /\ MaxHookRows \in Nat /\ MaxHookOps \in Nat
  /\ HandWritten \subseteq [kind : {"rows"}, rows : Seq(Handler)]

HooksTypeOK ==
  /\ hook_env \in [on : BOOLEAN, path : HookPaths \cup {"unset"}, closed : BOOLEAN, json : BOOLEAN,
                   script : HookScripts \cup {"unset"}]
  /\ hook_files \in [HookPaths -> [kind : {"absent", "rows", "broken"}, rows : Seq(Handler)]]
  /\ hook_queue \in Seq([source : {"env", "config", "plugin"}, policy : Policies])
  /\ hook_event \in {"none", "allowed", "blocked"}
  /\ hook_reply \in {"none", "error", "saved", "valid", "warned", "invalid"}

HooksInit ==
  /\ hook_env \in [on : {TRUE}, path : {"unset", "named"}, closed : BOOLEAN, json : {TRUE}, script : {"unset"}]
                  \cup [on : BOOLEAN, path : {"named"}, closed : {TRUE}, json : {FALSE}, script : HookScripts]
  /\ hook_files \in [HookPaths -> HandWritten \cup {NoHooks, BrokenHooks}]
  /\ hook_queue = <<>> /\ hook_event = "none" /\ hook_reply = "none" /\ hook_ops = 0

------------------------------------------------------------------------------
(* Commands. *)

\* resolve_hooks_config_path
Default == IF hook_env.path # "unset" THEN hook_env.path ELSE "project"

\* load_hooks_config_file: rows must have an event and a script.
HooksReadable(p) == hook_files[p].kind # "broken" /\ \A r \in ToSet(hook_files[p].rows) : r.script # ""
HandlersOf(p) == hook_files[p].rows

Says(reply) == hook_reply' = reply /\ hook_event' = "none" /\ UNCHANGED <<hook_env, hook_queue>>
HookCommand == hook_queue = <<>> /\ hook_ops < MaxHookOps /\ hook_ops' = hook_ops + 1
SaveHooks(p, rows) ==
  /\ Len(rows) <= MaxHookRows
  /\ hook_files' = [hook_files EXCEPT ![p] = HookFile(rows)] /\ Says("saved")
Rejected == Says("error") /\ UNCHANGED hook_files

\* Overrides keep, clear or set what a handler has.
Override(old, new) == IF new = "keep" THEN old ELSE new
Fresh(new) == IF new = "keep" THEN "none" ELSE new
ChangedHandler(r, script, policy, prefix) ==
  [event |-> r.event, script |-> script, policy |-> Override(r.policy, policy), prefix |-> Override(r.prefix, prefix)]

\* hooks_config_set_handler, and hooks_config_set, which overrides nothing: all
\* handlers of the event get the script; without one, a handler is added.
SetHandler ==
  /\ HookCommand
  /\ \E p \in HookPaths, e \in HookEvents, s \in HookScripts, policy \in {"keep", "closed"}, prefix \in {"keep", "bash"} :
       LET of(r) == IF r.event = e THEN ChangedHandler(r, s, policy, prefix) ELSE r
           rows == [k \in 1..Len(HandlersOf(p)) |-> of(HandlersOf(p)[k])]
           added == [event |-> e, script |-> s, policy |-> Fresh(policy), prefix |-> Fresh(prefix)]
       IN IF ~HooksReadable(p) THEN Rejected
          ELSE SaveHooks(p, IF \E r \in ToSet(rows) : r.event = e THEN rows ELSE Append(rows, added))

\* The first handler of the event with the script
EditHandler ==
  /\ HookCommand
  /\ \E e \in HookEvents, s, new \in HookScripts, policy \in {"keep", "none", "open"} :
       LET p == Default
           at == {k \in 1..Len(HandlersOf(p)) : HandlersOf(p)[k].event = e /\ HandlersOf(p)[k].script = s}
           first == CHOOSE k \in at : \A j \in at : k <= j
       IN IF ~HooksReadable(p) \/ at = {} THEN Rejected
          ELSE SaveHooks(p, [HandlersOf(p) EXCEPT ![first] = ChangedHandler(@, new, policy, "keep")])

\* hooks_config_rm: all handlers of the event; hooks_config_rm_handler: those with
\* the script
RemoveHandlers ==
  /\ HookCommand
  /\ \E e \in HookEvents, scripts \in {HookScripts} \cup {{s} : s \in HookScripts} :
       LET p == Default
           kept == {k \in 1..Len(HandlersOf(p)) : HandlersOf(p)[k].event # e \/ HandlersOf(p)[k].script \notin scripts}
       IN IF ~HooksReadable(p) THEN Rejected ELSE SaveHooks(p, Picked(HandlersOf(p), kept))

ExportHooks ==
  /\ HookCommand
  /\ \E p \in HookPaths \ {Default} : IF ~HooksReadable(Default) THEN Rejected ELSE SaveHooks(p, HandlersOf(Default))

\* A handler that comes in takes the place of the first of its event.
Placed(rows, r) ==
  LET at == {k \in 1..Len(rows) : rows[k].event = r.event}
  IN IF at = {} THEN Append(rows, r) ELSE [rows EXCEPT ![CHOOSE k \in at : \A j \in at : k <= j] = r]
\* All that come in, one after the other.
Merged(rows, others) ==
  LET upto[n \in 0..Len(others)] == IF n = 0 THEN rows ELSE Placed(upto[n - 1], others[n])
  IN upto[Len(others)]
ImportHooks ==
  /\ HookCommand
  /\ \E p \in HookPaths \ {Default}, merge \in BOOLEAN :
       IF ~HooksReadable(p) \/ (merge /\ ~HooksReadable(Default)) THEN Rejected
       ELSE SaveHooks(Default, IF merge THEN Merged(HandlersOf(Default), HandlersOf(p)) ELSE HandlersOf(p))

\* hooks_config_validate: events as the commands know them; handlers that are twice
\* there are a warning.  Permission modes are never wrong, since one that is not
\* known is read as on-request.
ValidateHooks ==
  /\ hook_queue = <<>>
  /\ LET p == Default
         unknown == \E r \in ToSet(HandlersOf(p)) : r.event = "*"
         twice == \E j, k \in 1..Len(HandlersOf(p)) :
                    j # k /\ HandlersOf(p)[j].event = HandlersOf(p)[k].event /\ HandlersOf(p)[j].script = HandlersOf(p)[k].script
     IN Says(IF ~HooksReadable(p) THEN "error" ELSE IF unknown THEN "invalid" ELSE IF twice THEN "warned" ELSE "valid")
  /\ UNCHANGED <<hook_files, hook_ops>>

------------------------------------------------------------------------------
(* Events. *)

\* load_hook_config: handlers of the file the environment names, and none if it
\* cannot be read; those without a script are left out.
LoadedHooks ==
  IF hook_env.path = "unset" THEN <<>>
  ELSE LET rows == HandlersOf(hook_env.path) IN Picked(rows, {k \in 1..Len(rows) : rows[k].script # ""})

\* hook_handler_matches
Runs(r, event, tool) == r.event \in {event, "*"} /\ (r.prefix = "none" \/ r.prefix = tool)

\* run_hook: what a script does (its exit, or a refusal it prints) is an answer; a
\* printed one counts under the JSON protocol only, and is an error unless it says
\* otherwise.
Deeds == {"succeeds", "fails", "refuses", "refuses_calmly"}
AnswerOf(deed, json) ==
  CASE deed = "succeeds" -> [allow |-> TRUE, error |-> FALSE]
    [] deed = "fails" -> [allow |-> FALSE, error |-> TRUE]
    [] deed = "refuses" -> [allow |-> ~json, error |-> json]
    [] OTHER -> [allow |-> ~json, error |-> FALSE]

\* An event: the script of the environment, the handlers that match in their order,
\* and what plugins add.  Without ASI_HOOKS_ENABLED only plugins are asked.
\* /hooks status makes every event happen, /hooks test one.
FireEvent ==
  /\ hook_queue = <<>>
  /\ \E event \in HookEvents, tool \in HookTools, plugin \in BOOLEAN :
       LET own == IF hook_env.script # "unset" /\ event = "PreToolUse" THEN <<"none">> ELSE <<>>
           rows == Picked(LoadedHooks, {k \in 1..Len(LoadedHooks) : Runs(LoadedHooks[k], event, tool)})
           entry(source, policy) == [source |-> source, policy |-> policy]
           users == [k \in 1..Len(own) |-> entry("env", own[k])]
                    \o [k \in 1..Len(rows) |-> entry("config", rows[k].policy)]
       IN hook_queue' = (IF hook_env.on THEN users ELSE <<>>) \o (IF plugin THEN <<entry("plugin", "none")>> ELSE <<>>)
  /\ hook_event' = "allowed" /\ hook_reply' = "none" /\ UNCHANGED <<hook_env, hook_files, hook_ops>>

\* Each hook runs, whatever the ones before it said; the event is blocked if one of
\* them does not allow it (apply_hook_failure_policy).  The defaults of hooks that
\* are off are closed, and without JSON.
RunHook ==
  /\ hook_queue # <<>> /\ hook_queue' = Tail(hook_queue)
  /\ \E deed \in Deeds :
       LET a == AnswerOf(deed, hook_env.on /\ hook_env.json)
           policy == Head(hook_queue).policy
           closed == policy = "closed" \/ (policy = "none" /\ (hook_env.closed \/ ~hook_env.on))
       IN hook_event' = IF a.allow \/ (a.error /\ ~closed) THEN hook_event ELSE "blocked"
  /\ UNCHANGED <<hook_env, hook_files, hook_reply, hook_ops>>

HooksNext ==
  \/ SetHandler \/ EditHandler \/ RemoveHandlers \/ ExportHooks \/ ImportHooks \/ ValidateHooks
  \/ FireEvent \/ RunHook
=============================================================================
