-------------------------------- MODULE Plugins --------------------------------
(***************************************************************************)
(* The plugin records of a project and the hooks that trusted plugins give *)
(* to an event (src/src/plugin.rs).  Every function loads the whole file,  *)
(* and those that change it save the whole file without a lock: sessions   *)
(* and `asi plugin` commands of one project overwrite each other.  Nobody  *)
(* keeps a plugin's directory from being edited meanwhile.                 *)
(***************************************************************************)
EXTENDS Naturals, FiniteSets

CONSTANTS
  PluginNames, \* plugins
  Processes,   \* sessions and commands that share the file
  Editions,    \* what the hashed files of a plugin may hold
  MaxEdits,    \* bound of the model: edits of plugin directories
  MaxOps       \* bound of the model: operations begun

ASSUME PluginBounds == {MaxEdits, MaxOps} \subseteq Nat

VARIABLES
  records,   \* the file: per plugin its record, or NoRecord
  exported,  \* an exported file
  content,   \* per plugin, what its hashed files hold, or Unreadable
  loaded,    \* per process, the records it works on
  op,        \* per process, the operation under way: [what, plugin], or Rests
  offered,   \* per process, the hooks of its event: [plugin, policy, checked]
  approved,  \* per plugin, what the user trusted by hash
  edits, ops

pluginVars == <<records, exported, content, loaded, op, offered, approved, edits, ops>>

Unreadable == "unreadable"
NoRecord == [known |-> FALSE, enabled |-> FALSE, trusted |-> FALSE, policy |-> "manual", hash |-> "none"]
Record == [known : BOOLEAN, enabled : BOOLEAN, trusted : BOOLEAN, policy : {"manual", "hash"},
           hash : Editions \cup {"none"}]
Files == [PluginNames -> Record]
NoFile == [p \in PluginNames |-> NoRecord]
Rests == [what |-> "none", plugin |-> CHOOSE p \in PluginNames : TRUE]
Changes == {"add", "rm", "enable", "disable", "manual", "distrust", "hash", "config"}

PluginsTypeOK ==
  /\ records \in Files /\ exported \in Files /\ loaded \in [Processes -> Files]
  /\ content \in [PluginNames -> Editions \cup {Unreadable}]
  /\ op \in [Processes -> [what : Changes \cup {"none", "verify", "event"}, plugin : PluginNames \cup {Rests.plugin}]]
  /\ approved \in [PluginNames -> SUBSET Editions]
  /\ \A q \in PluginNames : records[q].policy = "hash" => records[q].hash \in approved[q]

PluginsInit ==
  /\ records = NoFile /\ exported = NoFile
  /\ content \in [PluginNames -> Editions]
  /\ loaded = [s \in Processes |-> NoFile] /\ op = [s \in Processes |-> Rests]
  /\ offered = [s \in Processes |-> {}]
  /\ approved = [p \in PluginNames |-> {}] /\ edits = 0 /\ ops = 0

\* Somebody edits a plugin, or makes it unreadable.
Edit ==
  /\ edits < MaxEdits /\ edits' = edits + 1
  /\ \E p \in PluginNames, c \in Editions \cup {Unreadable} : content' = [content EXCEPT ![p] = c]
  /\ UNCHANGED <<records, exported, loaded, op, offered, approved, ops>>

\* load_state: a file that cannot be read or parsed, as one that is being
\* written, counts as no records.
LoadRecords(s) ==
  /\ op[s] = Rests /\ ops < MaxOps /\ ops' = ops + 1
  /\ \E what \in Changes \cup {"verify", "event"}, p \in PluginNames :
       op' = [op EXCEPT ![s] = [what |-> what, plugin |-> p]]
  /\ \E seen \in {records, NoFile} : loaded' = [loaded EXCEPT ![s] = seen]
  /\ UNCHANGED <<records, exported, content, offered, approved, edits>>

\* An error of save_state is returned, or ignored by the verifications; it leaves the file
\* as it was, or cut, which counts as no records.
Saves(file) == records' \in {records, file, NoFile}
Finishes(s) == op' = [op EXCEPT ![s] = Rests] /\ UNCHANGED <<exported, content, loaded, edits, ops>>

\* What a command makes of the record r of plugin p.
Changed(what, p, r) ==
  CASE what = "add" -> [NoRecord EXCEPT !.known = TRUE, !.enabled = TRUE]
    [] what = "rm" -> NoRecord
    [] what = "enable" -> [r EXCEPT !.enabled = TRUE]
    [] what = "disable" -> [r EXCEPT !.enabled = FALSE]
    [] what = "manual" -> [r EXCEPT !.policy = "manual", !.trusted = TRUE, !.hash = "none"]
    [] what = "distrust" -> [r EXCEPT !.policy = "manual", !.trusted = FALSE, !.hash = "none"]
    [] what = "hash" -> [r EXCEPT !.policy = "hash", !.trusted = TRUE, !.hash = content[p]]
    [] what = "config" -> r

\* Add wants a new name, all others a known one; add and hash read the directory.
CanChange(s) ==
  LET what == op[s].what
      p == op[s].plugin
  IN /\ what \in Changes
     /\ loaded[s][p].known # (what = "add")
     /\ what \in {"add", "hash"} => content[p] # Unreadable

SaveChange(s) ==
  /\ CanChange(s)
  /\ LET p == op[s].plugin
         what == op[s].what
     IN /\ Saves([loaded[s] EXCEPT ![p] = Changed(what, p, @)])
        /\ approved' = IF what = "hash" THEN [approved EXCEPT ![p] = @ \cup {content[p]}] ELSE approved
  /\ Finishes(s) /\ UNCHANGED offered

RefuseChange(s) ==
  /\ op[s].what \in Changes /\ ~CanChange(s)
  /\ Finishes(s) /\ UNCHANGED <<records, offered, approved>>

\* What verification makes of a record: trust by hash is what the files say now,
\* other trust stays.
Verified(p, r) ==
  IF ~r.enabled \/ r.policy # "hash" THEN r ELSE [r EXCEPT !.trusted = r.hash = content[p]]

\* verify_plugin_trust, of one plugin
VerifyPlugin(s) ==
  /\ op[s].what = "verify"
  /\ LET p == op[s].plugin
         r == loaded[s][p]
     IN IF r.enabled /\ r.policy = "hash" /\ content[p] # Unreadable
          THEN Saves([loaded[s] EXCEPT ![p] = Verified(p, r)]) ELSE UNCHANGED records
  /\ Finishes(s) /\ UNCHANGED <<offered, approved>>

\* Mutant of RunEvent: the hooks come from the records before the verification.
RunEventUnverified(s) ==
  /\ op[s].what = "event"
  /\ LET now == [p \in PluginNames |-> Verified(p, loaded[s][p])]
         was == loaded[s]
     IN /\ IF now # was THEN Saves(now) ELSE UNCHANGED records
        /\ offered' = [offered EXCEPT ![s] =
             {[plugin |-> p, policy |-> was[p].policy, checked |-> content[p]] :
                p \in {q \in PluginNames : was[q].enabled /\ was[q].trusted}}]
  /\ Finishes(s) /\ UNCHANGED approved

\* list_enabled_trusted_plugin_hooks for an event: every enabled plugin is
\* verified, and the file saved if that changed anything.
RunEvent(s) ==
  /\ op[s].what = "event"
  /\ LET now == [p \in PluginNames |-> Verified(p, loaded[s][p])]
     IN /\ IF now # loaded[s] THEN Saves(now) ELSE UNCHANGED records
        /\ offered' = [offered EXCEPT ![s] =
             {[plugin |-> p, policy |-> now[p].policy, checked |-> content[p]] :
                p \in {q \in PluginNames : now[q].enabled /\ now[q].trusted}}]
  /\ Finishes(s) /\ UNCHANGED approved

ExportRecords ==
  /\ ops < MaxOps /\ ops' = ops + 1 /\ exported' = records
  /\ UNCHANGED <<records, content, loaded, op, offered, approved, edits>>

\* A known name is replaced, or all are.
ImportRecords ==
  /\ ops < MaxOps /\ ops' = ops + 1
  /\ \E merge \in BOOLEAN :
       Saves([p \in PluginNames |-> IF merge /\ ~exported[p].known THEN records[p] ELSE exported[p]])
  /\ UNCHANGED <<exported, content, loaded, op, offered, approved, edits>>

PluginsNext ==
  \/ Edit \/ ExportRecords \/ ImportRecords
  \/ \E s \in Processes :
       LoadRecords(s) \/ SaveChange(s) \/ RefuseChange(s) \/ VerifyPlugin(s) \/ RunEvent(s)

------------------------------------------------------------------------------
\* A plugin trusted by hash gives hooks to an event only if the user trusted the
\* files it had when it was verified for that event, whatever was edited,
\* imported, overwritten by another process or not saved before.  (What is
\* edited between the verification and the run of the hook is not seen.)
OnlyTrusted ==
  \A s \in Processes : \A hook \in offered[s] :
    hook.policy = "hash" => hook.checked \in approved[hook.plugin]
==============================================================================
