----------------------------- MODULE SessionProofs -----------------------------
(***************************************************************************)
(* What Settings, Plugins, Voice, LoopJournal, Streams, Gateway, Subagents, *)
(* McpServers and Worktree promise, proved for every number of projects,   *)
(* plugins, processes, helpers, calls, clients, subagents and servers.  The *)
(* modules share no variable; a part of this one stands for each.          *)
(***************************************************************************)
EXTENDS Settings, Plugins, Voice, Streams, LoopJournal, Gateway, Subagents, McpServers, Worktree,
        SequenceTheorems, TLAPS

------------------------------------------------------------------------------
(* Settings: the Runtime's copies. *)

SettingsSpec == SettingsInit /\ [][SettingsNext]_settingsVars

\* The copies agree only because every command that changes the one starts from
\* copies that agree, so the type and the agreement are inductive together.
SettingsInv == SettingsTypeOK /\ RuntimeFollows

LEMMA SettingsBegin == SettingsInit => SettingsInv
<1> SUFFICES ASSUME SettingsInit PROVE SettingsInv
  OBVIOUS
<1>1. PICK p \in Providers, mode \in Permissions, flags \in FlagSets, first \in Config :
        cfg = first /\ rt = first /\ file = [q \in Projects |-> first]
  BY DEF SettingsInit, Config, Providers, Models, DefaultModel
<1>2. saved \in [provider : Providers, model : Models]
  BY DEF SettingsInit, Providers, Models
<1> QED BY <1>1, <1>2 DEF SettingsInit, SettingsInv, SettingsTypeOK, RuntimeFollows

LEMMA DefaultFits == \A p \in Providers, m \in Models : DefaultModel(p) \in Models /\ Reconcile(p, m) \in Models
  BY DEF Providers, Models, DefaultModel, Reconcile

LEMMA SaveKeepsType ==
  ASSUME file \in [Projects -> Config], NEW c \in Config, Save(c) PROVE file' \in [Projects -> Config]
  BY DEF Save

LEMMA SettingsStep == SettingsInv /\ [SettingsNext]_settingsVars => SettingsInv'
<1> SUFFICES ASSUME SettingsInv, [SettingsNext]_settingsVars PROVE SettingsInv'
  OBVIOUS
<1> USE DEF SettingsInv, SettingsTypeOK, RuntimeFollows
<1>1. CASE Start
  <2>1. PICK from \in Projects, to \in Projects, p \in Providers, m \in Models, mode \in Permissions, wizard \in BOOLEAN :
          LET read == file[from]
              c == [read EXCEPT !.provider = p, !.model = Reconcile(p, m), !.mode = mode]
          IN /\ p = read.provider \/ wizard
             /\ m \in {read.model, DefaultModel(p)} /\ mode \in {read.mode, "workspace-write"}
             /\ cwd' = to /\ cfg' = c /\ rt' = c
             /\ file' = IF wizard THEN [file EXCEPT ![to] = c] ELSE file
    BY <1>1, Zenon DEF Start
  <2> DEFINE c == [file[from] EXCEPT !.provider = p, !.model = Reconcile(p, m), !.mode = mode]
  <2>2. c \in Config
    <3>1. file[from] \in Config
      OBVIOUS
    <3> QED BY <3>1, DefaultFits DEF Config
  <2> HIDE DEF c
  <2>3. cwd' = to /\ cfg' = c /\ rt' = c /\ file' = IF wizard THEN [file EXCEPT ![to] = c] ELSE file
    BY <2>1 DEF c
  <2>4. file' \in [Projects -> Config] /\ cfg' \in Config /\ rt' \in Config /\ cwd' \in Projects
    BY <2>2, <2>3
  <2> QED BY <1>1, <2>3, <2>4 DEF Start
<1>2. CASE Leave
  <2>1. saved' \in [provider : Providers, model : Models]
    BY <1>2 DEF Leave, Config
  <2> QED BY <1>2, <2>1 DEF Leave
<1>3. CASE SwitchProject
  <2>1. rt' \in Config /\ rt' = Applied(cfg)
    BY <1>3 DEF SwitchProject, Applied, Config
  <2> QED BY <1>3, <2>1 DEF SwitchProject, Applied, Config
<1>4. CASE PermissionMode
  <2>1. PICK m \in Permissions : cfg' = [cfg EXCEPT !.mode = m] /\ rt' = [rt EXCEPT !.mode = m]
    BY <1>4 DEF PermissionMode
  <2>2. cfg' \in Config /\ rt' \in Config
    BY <2>1 DEF Config
  <2>3. file' \in [Projects -> Config]
    BY <1>4, <2>2, SaveKeepsType DEF PermissionMode
  <2> QED BY <1>4, <2>1, <2>2, <2>3 DEF PermissionMode, Typed, Change, Keeps, Stay, Config
<1>5. CASE ChangeFlags
  <2>1. PICK f \in FlagSets : cfg' = [cfg EXCEPT !.flags = f] /\ rt' = Applied(cfg')
    BY <1>5 DEF ChangeFlags
  <2>2. cfg' \in Config /\ rt' \in Config
    BY <2>1 DEF Config, Applied
  <2>3. file' \in [Projects -> Config]
    BY <1>5, <2>2, SaveKeepsType DEF ChangeFlags
  <2> QED BY <1>5, <2>1, <2>2, <2>3 DEF ChangeFlags, Typed, Change, Keeps, Stay, Config, Applied
<1>6. CASE Think
  <2>1. PICK on \in BOOLEAN : cfg' = [cfg EXCEPT !.think = on] /\ rt' = [rt EXCEPT !.think = on]
    BY <1>6 DEF Think
  <2>2. cfg' \in Config /\ rt' \in Config
    BY <2>1 DEF Config
  <2>3. file' \in [Projects -> Config]
    BY <1>6, <2>2, SaveKeepsType DEF Think
  <2> QED BY <1>6, <2>1, <2>2, <2>3 DEF Think, Typed, Change, Keeps, Stay, Config
<1>7. CASE PolicySync
  <2>1. PICK patch \in Config :
          LET c == [patch EXCEPT !.mode = IF @ \in Unsafe THEN cfg.mode ELSE @]
          IN cfg' = c /\ Save(c) /\ rt' = [Bound(c) EXCEPT !.mode = c.mode]
    BY <1>7 DEF PolicySync
  <2> DEFINE c == [patch EXCEPT !.mode = IF @ \in Unsafe THEN cfg.mode ELSE @]
  <2>2. c \in Config
    BY <2>1 DEF Config
  <2>3. rt' \in Config /\ rt'.flags = c.flags /\ rt'.mode = c.mode /\ rt'.provider = c.provider /\ rt'.model = c.model
    BY <2>1, <2>2 DEF Config, Bound, Applied
  <2>4. file' \in [Projects -> Config]
    BY <2>1, <2>2, SaveKeepsType
  <2> QED BY <1>7, <2>1, <2>2, <2>3, <2>4 DEF PolicySync, Typed, Change
<1>8. CASE ModelCommand
  <2>1. PICK m \in Models : cfg' = [cfg EXCEPT !.model = Reconcile(rt.provider, m)]
                            /\ rt' = [Applied(cfg') EXCEPT !.model = cfg'.model]
    BY <1>8 DEF ModelCommand
  <2>2. Reconcile(rt.provider, m) \in Models
    BY DefaultFits DEF Config
  <2>3. cfg' \in Config /\ rt' \in Config
    BY <2>1, <2>2 DEF Config, Applied
  <2>4. file' \in [Projects -> Config]
    BY <1>8, <2>3, SaveKeepsType DEF ModelCommand
  <2> QED BY <1>8, <2>1, <2>2, <2>3, <2>4 DEF ModelCommand, Typed, Change, Stay, Config, Applied
<1>9. CASE ProviderCommand
  <2>1. PICK p \in Providers, m \in Models : cfg' = [cfg EXCEPT !.provider = p, !.model = Reconcile(p, m)] /\ rt' = Bound(cfg')
    BY <1>9 DEF ProviderCommand
  <2>2. Reconcile(p, m) \in Models
    BY DefaultFits
  <2>3. cfg' \in Config /\ rt' \in Config
    BY <2>1, <2>2 DEF Config, Applied, Bound
  <2>4. file' \in [Projects -> Config]
    BY <1>9, <2>3, SaveKeepsType DEF ProviderCommand
  <2> QED BY <1>9, <2>1, <2>2, <2>3, <2>4 DEF ProviderCommand, Typed, Change, Stay, Config, Applied, Bound
<1>10. CASE SetupWizard
  <2>1. PICK p \in Providers, m \in Models : cfg' = [cfg EXCEPT !.provider = p, !.model = Reconcile(p, m)] /\ rt' = Bound(cfg')
    BY <1>10 DEF SetupWizard
  <2>2. Reconcile(p, m) \in Models
    BY DefaultFits
  <2>3. cfg' \in Config /\ rt' \in Config
    BY <2>1, <2>2 DEF Config, Applied, Bound
  <2>4. file' \in [Projects -> Config]
    BY <1>10, <2>3 DEF SetupWizard
  <2> QED BY <1>10, <2>1, <2>2, <2>3, <2>4 DEF SetupWizard, Typed, Change, Stay, Config, Applied, Bound
<1>11. CASE Resume
  <2>1. cfg' \in Config /\ rt' \in Config
    BY <1>11 DEF Resume, Config, Applied, Bound
  <2> QED BY <1>11, <2>1 DEF Resume, Typed, Change, Stay, Config, Applied, Bound
<1>12. CASE ReplaceModel
  <2>1. DefaultModel(rt.provider) \in Models
    BY DefaultFits DEF Config
  <2> QED BY <1>12, <2>1 DEF ReplaceModel, Typed, Change, Stay, Config
<1>13. CASE UNCHANGED settingsVars
  BY <1>13 DEF settingsVars
<1> QED BY <1>1, <1>2, <1>3, <1>4, <1>5, <1>6, <1>7, <1>8, <1>9, <1>10, <1>11, <1>12, <1>13 DEF SettingsNext

\* The configuration, its files and its copies have their types: a command never
\* leaves one without a field or with a value that is none.
THEOREM SettingsTyped == SettingsSpec => []SettingsTypeOK
<1>1. SettingsInv => SettingsTypeOK
  BY DEF SettingsInv
<1> QED BY <1>1, SettingsBegin, SettingsStep, PTL DEF SettingsSpec

\* In a session the Runtime goes by the rules, the mode, the provider and the model
\* of the configuration the user sees, after any sequence of commands, in any number
\* of projects (the commands of main.rs that change the one or the other).
THEOREM CopiesInStep == SettingsSpec => []RuntimeFollows
<1>1. SettingsInv => RuntimeFollows
  BY DEF SettingsInv
<1> QED BY <1>1, SettingsBegin, SettingsStep, PTL DEF SettingsSpec

------------------------------------------------------------------------------
(* Plugins: what the user trusted. *)

PluginsSpec == PluginsInit /\ [][PluginsNext]_pluginVars

\* A file of records in which each hash is one the user trusted: were it not so of the
\* files that sessions hold in memory, or exported, a save or an import could bring back
\* what nobody trusted.
Trusted(f, a) == \A p \in PluginNames : f[p].policy = "hash" => f[p].hash \in a[p]

Operations == [what : Changes \cup {"none", "verify", "event"}, plugin : PluginNames \cup {Rests.plugin}]

PluginsInv ==
  /\ records \in Files /\ exported \in Files /\ loaded \in [Processes -> Files]
  /\ content \in [PluginNames -> Editions \cup {Unreadable}]
  /\ op \in [Processes -> Operations]
  /\ \A s \in Processes : op[s].what # "none" => op[s].plugin \in PluginNames
  /\ approved \in [PluginNames -> SUBSET Editions]
  /\ DOMAIN offered = Processes
  /\ Trusted(records, approved) /\ Trusted(exported, approved)
  /\ \A s \in Processes : Trusted(loaded[s], approved)
  /\ OnlyTrusted

LEMMA NoRecordsTrusted == NoFile \in Files /\ \A a : Trusted(NoFile, a)
  BY DEF NoFile, Files, NoRecord, Record, Trusted

LEMMA RestsOp == Rests \in Operations /\ Rests.what = "none"
  BY DEF Rests, Operations

LEMMA PluginsBegin == PluginsInit => PluginsInv
<1> SUFFICES ASSUME PluginsInit PROVE PluginsInv
  OBVIOUS
<1>1. /\ records \in Files /\ exported \in Files /\ loaded \in [Processes -> Files]
      /\ Trusted(records, approved) /\ Trusted(exported, approved)
      /\ \A s \in Processes : Trusted(loaded[s], approved)
  BY NoRecordsTrusted DEF PluginsInit
<1>2. op \in [Processes -> Operations] /\ \A s \in Processes : op[s].what # "none" => op[s].plugin \in PluginNames
  BY RestsOp DEF PluginsInit
<1> QED BY <1>1, <1>2 DEF PluginsInit, PluginsInv, OnlyTrusted

\* Trust only grows.
LEMMA MoreTrusted ==
  ASSUME NEW f \in Files, NEW a, NEW b, Trusted(f, a), \A p \in PluginNames : a[p] \subseteq b[p]
  PROVE  Trusted(f, b)
  BY DEF Trusted

\* A record of a file and what a step puts in its place.
LEMMA RecordOf ==
  ASSUME NEW f \in Files, NEW p \in PluginNames, NEW r \in Record, NEW a, Trusted(f, a),
         r.policy = "hash" => r.hash \in a[p]
  PROVE  [f EXCEPT ![p] = r] \in Files /\ Trusted([f EXCEPT ![p] = r], a)
  BY DEF Files, Trusted

\* What a command makes of a record is one, and its hash, if it goes by one, is the one
\* it had or that of the files just trusted.
LEMMA ChangedRecord ==
  ASSUME NEW what \in Changes, NEW p \in PluginNames, NEW r \in Record,
         content \in [PluginNames -> Editions \cup {Unreadable}],
         what = "hash" => content[p] # Unreadable
  PROVE  /\ Changed(what, p, r) \in Record
         /\ Changed(what, p, r).policy = "hash" =>
              IF what = "hash" THEN Changed(what, p, r).hash = content[p]
              ELSE r.policy = "hash" /\ Changed(what, p, r).hash = r.hash
<1>1. CASE what = "add"
  BY <1>1 DEF Changed, Record, NoRecord
<1>2. CASE what = "rm"
  BY <1>2 DEF Changed, Record, NoRecord
<1>3. CASE what = "enable"
  BY <1>3 DEF Changed, Record
<1>4. CASE what = "disable"
  BY <1>4 DEF Changed, Record
<1>5. CASE what = "manual"
  BY <1>5 DEF Changed, Record
<1>6. CASE what = "hash"
  <2>1. content[p] \in Editions
    BY <1>6
  <2> QED BY <1>6, <2>1 DEF Changed, Record
<1>7. CASE what = "config"
  BY <1>7 DEF Changed, Record
<1>8. CASE what = "distrust"
  BY <1>8 DEF Changed, Record
<1> QED BY <1>1, <1>2, <1>3, <1>4, <1>5, <1>6, <1>7, <1>8 DEF Changes

\* A verified record goes by the same hash, and is trusted by it only if the files have it.
LEMMA VerifiedRecord ==
  ASSUME NEW p \in PluginNames, NEW r \in Record
  PROVE  /\ Verified(p, r) \in Record /\ Verified(p, r).policy = r.policy /\ Verified(p, r).hash = r.hash
         /\ Verified(p, r).enabled = r.enabled
         /\ r.policy = "hash" /\ r.enabled /\ Verified(p, r).trusted => r.hash = content[p]
  BY DEF Verified, Record

\* A command of s that ends.
LEMMA FinishPluginKeeps ==
  ASSUME NEW s \in Processes, PluginsInv, Finishes(s)
  PROVE  /\ op' \in [Processes -> Operations]
         /\ \A t \in Processes : op'[t].what # "none" => op'[t].plugin \in PluginNames
         /\ UNCHANGED <<exported, content, loaded>>
  BY RestsOp DEF Finishes, PluginsInv

\* A step that only saves a file of trusted hashes.
LEMMA SaveKeeps ==
  ASSUME PluginsInv, NEW f \in Files, Trusted(f, approved), Saves(f) \/ UNCHANGED records
  PROVE  records' \in Files /\ Trusted(records', approved)
  BY NoRecordsTrusted DEF PluginsInv, Saves

LEMMA PluginsStep == PluginsInv /\ [PluginsNext]_pluginVars => PluginsInv'
<1> SUFFICES ASSUME PluginsInv, [PluginsNext]_pluginVars PROVE PluginsInv'
  OBVIOUS
<1>1. CASE Edit
  BY <1>1 DEF Edit, PluginsInv, OnlyTrusted
<1>2. CASE ExportRecords
  BY <1>2 DEF ExportRecords, PluginsInv, OnlyTrusted
<1>3. CASE ImportRecords
  <2>1. PICK merge \in BOOLEAN :
          Saves([p \in PluginNames |-> IF merge /\ ~exported[p].known THEN records[p] ELSE exported[p]])
    BY <1>3 DEF ImportRecords
  <2> DEFINE f == [p \in PluginNames |-> IF merge /\ ~exported[p].known THEN records[p] ELSE exported[p]]
  <2>2. f \in Files /\ Trusted(f, approved)
    BY DEF PluginsInv, Files, Trusted
  <2>3. records' \in Files /\ Trusted(records', approved)
    <3> HIDE DEF f
    <3> QED BY <2>1, <2>2, SaveKeeps DEF f
  <2> QED BY <1>3, <2>3 DEF ImportRecords, PluginsInv, OnlyTrusted
<1>4. ASSUME NEW s \in Processes, LoadRecords(s) PROVE PluginsInv'
  <2>1. PICK what \in Changes \cup {"verify", "event"}, p \in PluginNames :
          op' = [op EXCEPT ![s] = [what |-> what, plugin |-> p]]
    BY <1>4 DEF LoadRecords
  <2>2. op' \in [Processes -> Operations] /\ \A t \in Processes : op'[t].what # "none" => op'[t].plugin \in PluginNames
    <3>1. [what |-> what, plugin |-> p] \in Operations
      BY DEF Operations
    <3> QED BY <2>1, <3>1 DEF PluginsInv
  <2>3. PICK seen \in {records, NoFile} : loaded' = [loaded EXCEPT ![s] = seen]
    BY <1>4 DEF LoadRecords
  <2>4. loaded' \in [Processes -> Files] /\ \A t \in Processes : Trusted(loaded'[t], approved)
    BY <2>3, NoRecordsTrusted DEF PluginsInv
  <2> QED BY <1>4, <2>2, <2>4 DEF LoadRecords, PluginsInv, OnlyTrusted
<1>5. ASSUME NEW s \in Processes, SaveChange(s) PROVE PluginsInv'
  <2> DEFINE p == op[s].plugin
             what == op[s].what
             r == Changed(what, p, loaded[s][p])
             f == [loaded[s] EXCEPT ![p] = r]
  <2>1. what \in Changes /\ p \in PluginNames /\ (what = "hash" => content[p] # Unreadable)
    BY <1>5 DEF SaveChange, CanChange, PluginsInv, Changes
  <2>2. loaded[s] \in Files /\ loaded[s][p] \in Record /\ Trusted(loaded[s], approved)
    BY <2>1 DEF PluginsInv, Files
  <2>3. Saves(f) /\ approved' = IF what = "hash" THEN [approved EXCEPT ![p] = @ \cup {content[p]}] ELSE approved
    BY <1>5 DEF SaveChange
  <2>4. /\ r \in Record
        /\ r.policy = "hash" => IF what = "hash" THEN r.hash = content[p]
                                ELSE loaded[s][p].policy = "hash" /\ r.hash = loaded[s][p].hash
    <3> HIDE DEF p, what
    <3> QED BY <2>1, <2>2, ChangedRecord DEF PluginsInv
  <2> HIDE DEF r
  <2>5. approved' \in [PluginNames -> SUBSET Editions]
    BY <2>1, <2>3 DEF PluginsInv
  <2>6. \A q \in PluginNames : approved[q] \subseteq approved'[q]
    BY <2>3 DEF PluginsInv
  <2>7. r.policy = "hash" => r.hash \in approved'[p]
    <3>1. CASE what = "hash"
      BY <2>1, <2>3, <2>4, <3>1 DEF PluginsInv
    <3>2. CASE what # "hash"
      BY <2>1, <2>2, <2>3, <2>4, <3>2 DEF Trusted
    <3> QED BY <3>1, <3>2
  <2>8. f \in Files /\ Trusted(f, approved')
    <3>1. Trusted(loaded[s], approved')
      BY <2>2, <2>6, MoreTrusted
    <3> QED BY <2>1, <2>2, <2>4, <2>7, <3>1, RecordOf
  <2>9. records' \in Files /\ Trusted(records', approved')
    <3>1. Trusted(records, approved') /\ records \in Files
      BY <2>6, MoreTrusted DEF PluginsInv
    <3> QED BY <2>3, <2>8, <3>1, NoRecordsTrusted DEF Saves
  <2>10. Finishes(s) /\ UNCHANGED offered
    BY <1>5 DEF SaveChange
  <2>11. Trusted(exported, approved') /\ \A t \in Processes : Trusted(loaded[t], approved')
    BY <2>6, MoreTrusted DEF PluginsInv
  <2>12. OnlyTrusted'
    <3> SUFFICES ASSUME NEW t \in Processes, NEW hook \in offered[t], hook.policy = "hash"
                 PROVE  hook.checked \in approved'[hook.plugin]
      BY <2>10 DEF OnlyTrusted
    <3>1. hook.checked \in approved[hook.plugin]
      BY DEF PluginsInv, OnlyTrusted
    <3> QED BY <2>3, <3>1 DEF PluginsInv
  <2> HIDE DEF p, what, f
  <2> QED BY <2>5, <2>9, <2>10, <2>11, <2>12, FinishPluginKeeps DEF PluginsInv
<1>6. ASSUME NEW s \in Processes, RefuseChange(s) PROVE PluginsInv'
  BY <1>6, FinishPluginKeeps DEF RefuseChange, PluginsInv, OnlyTrusted
<1>7. ASSUME NEW s \in Processes, VerifyPlugin(s) PROVE PluginsInv'
  <2> DEFINE p == op[s].plugin
             r == Verified(p, loaded[s][p])
             f == [loaded[s] EXCEPT ![p] = r]
  <2>1. p \in PluginNames
    BY <1>7 DEF VerifyPlugin, PluginsInv
  <2>2. loaded[s] \in Files /\ loaded[s][p] \in Record /\ Trusted(loaded[s], approved)
    BY <2>1 DEF PluginsInv, Files
  <2>3. Saves(f) \/ UNCHANGED records
    BY <1>7 DEF VerifyPlugin
  <2>4. r \in Record /\ r.policy = loaded[s][p].policy /\ r.hash = loaded[s][p].hash
    <3> HIDE DEF p
    <3> QED BY <2>1, <2>2, VerifiedRecord
  <2> HIDE DEF r
  <2>5. f \in Files /\ Trusted(f, approved)
    BY <2>1, <2>2, <2>4, RecordOf DEF Trusted
  <2>6. records' \in Files /\ Trusted(records', approved)
    <3> HIDE DEF f
    <3> QED BY <2>3, <2>5, SaveKeeps
  <2>7. Finishes(s) /\ UNCHANGED <<offered, approved>>
    BY <1>7 DEF VerifyPlugin
  <2> QED BY <2>6, <2>7, FinishPluginKeeps DEF PluginsInv, OnlyTrusted
<1>8. ASSUME NEW s \in Processes, RunEvent(s) PROVE PluginsInv'
  <2> DEFINE now == [p \in PluginNames |-> Verified(p, loaded[s][p])]
             hooks == {[plugin |-> p, policy |-> now[p].policy, checked |-> content[p]] :
                         p \in {q \in PluginNames : now[q].enabled /\ now[q].trusted}}
  <2>1. loaded[s] \in Files /\ Trusted(loaded[s], approved)
    BY DEF PluginsInv
  <2>2. \A p \in PluginNames :
          /\ now[p] \in Record /\ now[p].policy = loaded[s][p].policy /\ now[p].hash = loaded[s][p].hash
          /\ now[p].policy = "hash" /\ now[p].enabled /\ now[p].trusted => now[p].hash = content[p]
    BY <2>1, VerifiedRecord DEF Files
  <2>3. now \in Files /\ Trusted(now, approved)
    <3>1. now \in Files
      BY <2>2 DEF Files
    <3>2. Trusted(now, approved)
      <4> HIDE DEF now
      <4> QED BY <2>1, <2>2 DEF Trusted
    <3> QED BY <3>1, <3>2
  <2>4. (Saves(now) \/ UNCHANGED records) /\ offered' = [offered EXCEPT ![s] = hooks]
    BY <1>8 DEF RunEvent
  <2>5. Finishes(s) /\ UNCHANGED approved
    BY <1>8 DEF RunEvent
  <2> HIDE DEF now
  <2>6. records' \in Files /\ Trusted(records', approved)
    BY <2>3, <2>4, SaveKeeps
  <2>7. \A hook \in hooks : hook.policy = "hash" => hook.checked \in approved[hook.plugin]
    BY <2>2, <2>3 DEF Trusted
  <2>8. OnlyTrusted'
    <3> HIDE DEF hooks
    <3> QED BY <2>4, <2>5, <2>7 DEF PluginsInv, OnlyTrusted
  <2>9. DOMAIN offered' = Processes
    <3> HIDE DEF hooks
    <3> QED BY <2>4 DEF PluginsInv
  <2> QED BY <2>5, <2>6, <2>8, <2>9, FinishPluginKeeps DEF PluginsInv
<1>9. CASE UNCHANGED pluginVars
  BY <1>9 DEF pluginVars, PluginsInv, OnlyTrusted
<1> QED BY <1>1, <1>2, <1>3, <1>4, <1>5, <1>6, <1>7, <1>8, <1>9 DEF PluginsNext

\* The hooks of an event come from plugins whose files the user trusted as they were
\* then, for any number of processes that overwrite each other's records
\* (list_enabled_trusted_plugin_hooks of plugin.rs).
THEOREM HooksTrusted == PluginsSpec => []OnlyTrusted
<1>1. PluginsInv => OnlyTrusted
  BY DEF PluginsInv
<1> QED BY <1>1, PluginsBegin, PluginsStep, PTL DEF PluginsSpec

\* The records, those in memory and those in a file are records, and a plugin that goes
\* by a hash goes by one the user trusted.
THEOREM PluginsTyped == PluginsSpec => []PluginsTypeOK
<1>1. PluginsInv => PluginsTypeOK
  BY DEF PluginsInv, PluginsTypeOK, Operations, Trusted
<1> QED BY <1>1, PluginsBegin, PluginsStep, PTL DEF PluginsSpec

------------------------------------------------------------------------------
(* Voice: what outlives a session. *)

VoiceSpec == VoiceInit /\ [][VoiceNext]_voiceVars

\* A variable of the environment that a session has set, or the user's shell.
Environment ==
  [mode : {"unset"}, engine : {"unset", "auto"}, mute : {"unset"}, ptt : Switch \cup {"unset"},
   trigger : Triggers \cup {"unset"}, hotkey : Hotkeys \cup {"?", "unset"},
   fallback : Switch \cup {"unset"}, soft : Switch \cup {"unset"}]

\* What a session goes by: an engine that was chosen, a key that is one, and listening
\* only on a platform that has voices.
Settled(v) == v \in VoiceConfig /\ v.engine \in Engines /\ v.hotkey \in Hotkeys /\ (v.mode = "on" => voice_able)

VoiceTypes ==
  /\ Settled(voice) /\ voice_env \in Environment
  /\ voice_cfg \in VoiceConfig /\ voice_file \in VoiceConfig /\ voice_able \in BOOLEAN

\* In a session the environment has what no variable of the session has, and the key of
\* the session.
InStep(v, env) == env.fallback \in Switch /\ env.soft \in Switch /\ env.hotkey # "unset" /\ Valid(env.hotkey) = v.hotkey

\* After the end of a session its file is what it went by.
Kept == ~voice_open /\ voice_last # NoVoice => voice_file = voice_last /\ Settled(voice_last)

VoiceInv == VoiceTypes /\ (voice_open => InStep(voice, voice_env)) /\ Kept /\ VoiceSurvives

LEMMA DefaultIsSettled == DefaultVoice \in VoiceConfig /\ Settled(DefaultVoice)
  BY VoiceBounds DEF DefaultVoice, VoiceConfig, Settled, Switch, Engines, Hotkeys

LEMMA UnsetFields ==
  /\ Unset = [mode |-> "unset", engine |-> "unset", mute |-> "unset", ptt |-> "unset", trigger |-> "unset",
              hotkey |-> "unset", fallback |-> "unset", soft |-> "unset"]
  /\ OuterEnvs \subseteq Environment
  /\ \A env \in OuterEnvs : env.fallback = "unset" /\ env.trigger = "unset"
<1>1. Unset = [mode |-> "unset", engine |-> "unset", mute |-> "unset", ptt |-> "unset", trigger |-> "unset",
               hotkey |-> "unset", fallback |-> "unset", soft |-> "unset"]
  BY DEF Unset, DefaultVoice
<1> DEFINE third == [Unset EXCEPT !.engine = "auto", !.ptt = "on", !.soft = "off"]
<1>2. Unset \in Environment /\ Unset.fallback = "unset" /\ Unset.trigger = "unset"
  BY <1>1 DEF Environment
<1>3. LET env == [Unset EXCEPT !.hotkey = "?"]
      IN env \in Environment /\ env.fallback = "unset" /\ env.trigger = "unset"
  BY <1>1 DEF Environment
<1>4. third \in Environment /\ third.fallback = "unset" /\ third.trigger = "unset"
  BY <1>1 DEF Environment, Switch
<1> QED BY <1>1, <1>2, <1>3, <1>4 DEF OuterEnvs

LEMMA SameVoice ==
  ASSUME NEW v \in VoiceConfig, NEW w \in VoiceConfig,
         v.mode = w.mode, v.engine = w.engine, v.mute = w.mute, v.ptt = w.ptt, v.trigger = w.trigger,
         v.hotkey = w.hotkey, v.fallback = w.fallback, v.soft = w.soft
  PROVE  v = w
  BY DEF VoiceConfig

LEMMA ValidKey == \A h : Valid(h) \in Hotkeys /\ Valid(Valid(h)) = Valid(h) /\ (h \in Hotkeys => Valid(h) = h)
  BY DEF Valid, Hotkeys

\* What the configuration remembers, or the file, is what the session goes by.
LEMMA SyncedIsInEffect ==
  ASSUME NEW v, NEW env \in Environment, Settled(v), InStep(v, env)
  PROVE  /\ Synced(v, env) \in VoiceConfig /\ Settled(Synced(v, env))
         /\ Synced(v, env) = [v EXCEPT !.fallback = env.fallback, !.soft = env.soft]
<1>1. Valid(IF env.hotkey = "unset" THEN voice_cfg.hotkey ELSE env.hotkey) = v.hotkey
  BY DEF InStep
<1>2. Synced(v, env) \in VoiceConfig /\ Settled(Synced(v, env))
  BY <1>1 DEF Synced, Settled, VoiceConfig, InStep
<1> QED BY <1>1, <1>2 DEF Synced, Settled, VoiceConfig, InStep

LEMMA VoiceBegin == VoiceInit => VoiceInv
<1> SUFFICES ASSUME VoiceInit PROVE VoiceInv
  OBVIOUS
<1>1. voice_file \in VoiceConfig
  BY DefaultIsSettled DEF VoiceInit, VoiceConfig, DefaultVoice, Switch, Hotkeys
<1>2. voice_env \in Environment
  BY UnsetFields DEF VoiceInit, Environment
<1> QED BY <1>1, <1>2, DefaultIsSettled DEF VoiceInit, VoiceInv, VoiceTypes, Kept, VoiceSurvives

\* The settings read at the start: the file's, where the shell says nothing.
LEMMA ReadSettings ==
  ASSUME NEW env \in OuterEnvs, voice_file \in VoiceConfig
  PROVE  LET read == [f \in DOMAIN env |-> IF env[f] = "unset" THEN voice_file[f] ELSE env[f]]
         IN /\ read \in VoiceConfig /\ (env = Unset => read = voice_file)
            /\ read.engine = IF env.engine = "unset" THEN voice_file.engine ELSE env.engine
            /\ read.hotkey = IF env.hotkey = "unset" THEN voice_file.hotkey ELSE env.hotkey
<1> DEFINE read == [f \in DOMAIN env |-> IF env[f] = "unset" THEN voice_file[f] ELSE env[f]]
           named == [mode |-> IF env.mode = "unset" THEN voice_file.mode ELSE env.mode,
                     engine |-> IF env.engine = "unset" THEN voice_file.engine ELSE env.engine,
                     mute |-> IF env.mute = "unset" THEN voice_file.mute ELSE env.mute,
                     ptt |-> IF env.ptt = "unset" THEN voice_file.ptt ELSE env.ptt,
                     trigger |-> IF env.trigger = "unset" THEN voice_file.trigger ELSE env.trigger,
                     hotkey |-> IF env.hotkey = "unset" THEN voice_file.hotkey ELSE env.hotkey,
                     fallback |-> IF env.fallback = "unset" THEN voice_file.fallback ELSE env.fallback,
                     soft |-> IF env.soft = "unset" THEN voice_file.soft ELSE env.soft]
<1>1. env \in Environment
  BY UnsetFields
<1>2. read = named
  BY <1>1 DEF Environment
<1>3. named \in VoiceConfig
  BY <1>1, UnsetFields DEF Environment, VoiceConfig
<1>4. env = Unset => named = voice_file
  BY UnsetFields DEF VoiceConfig
<1>5. /\ named.engine = IF env.engine = "unset" THEN voice_file.engine ELSE env.engine
      /\ named.hotkey = IF env.hotkey = "unset" THEN voice_file.hotkey ELSE env.hotkey
  OBVIOUS
<1> HIDE DEF read, named
<1>6. /\ read \in VoiceConfig /\ (env = Unset => read = voice_file)
      /\ read.engine = IF env.engine = "unset" THEN voice_file.engine ELSE env.engine
      /\ read.hotkey = IF env.hotkey = "unset" THEN voice_file.hotkey ELSE env.hotkey
  BY <1>2, <1>3, <1>4, <1>5
<1> QED BY <1>6, Zenon DEF read

\* A session that starts without a wish of its own goes by the file.
LEMMA StartsSettled ==
  ASSUME VoiceInv, StartVoice PROVE VoiceInv'
<1>1. PICK env \in OuterEnvs, flag \in BOOLEAN, key \in BOOLEAN :
        LET read == [f \in DOMAIN env |-> IF env[f] = "unset" THEN voice_file[f] ELSE env[f]]
            wished == IF flag \/ read.mode = "on" THEN "on" ELSE "off"
            v == [read EXCEPT !.mode = Supported(wished),
                             !.engine = Chosen(env.engine, @, key), !.hotkey = Valid(@)]
            fill(f, x) == IF env[f] = "unset" THEN x ELSE env[f]
        IN /\ voice' = v /\ voice_cfg' = read
           /\ voice_env' = [env EXCEPT !.fallback = fill("fallback", read.fallback), !.soft = fill("soft", read.soft),
                                       !.ptt = fill("ptt", read.ptt), !.trigger = fill("trigger", v.trigger),
                                       !.hotkey = fill("hotkey", v.hotkey)]
           /\ voice_fresh' = (env = Unset /\ ~flag /\ voice_able)
  BY Zenon DEF StartVoice
<1> DEFINE read == [f \in DOMAIN env |-> IF env[f] = "unset" THEN voice_file[f] ELSE env[f]]
           wished == IF flag \/ read.mode = "on" THEN "on" ELSE "off"
           v == [read EXCEPT !.mode = Supported(wished),
                            !.engine = Chosen(env.engine, @, key), !.hotkey = Valid(@)]
<1>2. /\ read \in VoiceConfig /\ (env = Unset => read = voice_file)
      /\ read.engine = IF env.engine = "unset" THEN voice_file.engine ELSE env.engine
      /\ read.hotkey = IF env.hotkey = "unset" THEN voice_file.hotkey ELSE env.hotkey
  <2>1. voice_file \in VoiceConfig
    BY DEF VoiceInv, VoiceTypes
  <2> QED BY <2>1, ReadSettings, Zenon
<1>3. env \in Environment /\ env.fallback = "unset" /\ env.trigger = "unset" /\ voice_able \in BOOLEAN
  BY UnsetFields DEF VoiceInv, VoiceTypes
<1>4. /\ voice' = v /\ voice_cfg' = read /\ voice_fresh' = (env = Unset /\ ~flag /\ voice_able)
      /\ voice_env' = [env EXCEPT !.fallback = read.fallback, !.soft = IF env.soft = "unset" THEN read.soft ELSE env.soft,
                                  !.ptt = IF env.ptt = "unset" THEN read.ptt ELSE env.ptt, !.trigger = v.trigger,
                                  !.hotkey = IF env.hotkey = "unset" THEN v.hotkey ELSE env.hotkey]
  BY <1>1, <1>3
<1>5. UNCHANGED <<voice_able, voice_file, voice_last>> /\ voice_open' = TRUE
  BY DEF StartVoice
<1>6. /\ Supported(wished) \in Switch /\ (Supported(wished) = "on" => voice_able)
      /\ (read.mode \in Switch /\ ~flag /\ voice_able => Supported(wished) = read.mode)
  BY DEF Supported, Switch
<1>7. /\ Chosen(env.engine, read.engine, key) \in Engines
      /\ (env.engine = "unset" /\ read.engine \in Engines => Chosen(env.engine, read.engine, key) = read.engine)
  BY <1>2, <1>3 DEF Chosen, Engines, Environment, VoiceConfig, VoiceInv, VoiceTypes
<1> HIDE DEF read, wished
<1>8. /\ v.mode = Supported(wished) /\ v.engine = Chosen(env.engine, read.engine, key) /\ v.hotkey = Valid(read.hotkey)
      /\ v.mute = read.mute /\ v.ptt = read.ptt /\ v.trigger = read.trigger
      /\ v.fallback = read.fallback /\ v.soft = read.soft
      /\ v \in VoiceConfig
  BY <1>2, <1>6, <1>7, ValidKey DEF VoiceConfig
<1> HIDE DEF v
<1>9. Settled(v)
  BY <1>6, <1>7, <1>8, ValidKey DEF Settled
<1>10. voice_env' \in Environment /\ InStep(v, voice_env')
  <2>1. /\ read.fallback \in Switch /\ read.soft \in Switch /\ read.ptt \in Switch /\ v.trigger \in Triggers
        /\ v.hotkey \in Hotkeys
    BY <1>2, <1>8, ValidKey DEF VoiceConfig
  <2>2. voice_env' \in Environment
    BY <1>3, <1>4, <2>1 DEF Environment
  <2>3. /\ voice_env'.fallback = read.fallback
        /\ voice_env'.soft = IF env.soft = "unset" THEN read.soft ELSE env.soft
        /\ voice_env'.hotkey = IF env.hotkey = "unset" THEN v.hotkey ELSE env.hotkey
    BY <1>3, <1>4 DEF Environment
  <2>4. env.soft \in Switch \cup {"unset"} /\ env.hotkey \in Hotkeys \cup {"?", "unset"}
    BY <1>3 DEF Environment
  <2>5. voice_env'.hotkey # "unset" /\ Valid(voice_env'.hotkey) = v.hotkey
    BY <1>2, <1>8, <2>1, <2>3, <2>4, ValidKey DEF Hotkeys
  <2> QED BY <2>1, <2>2, <2>3, <2>4, <2>5 DEF InStep
<1>11. VoiceTypes'
  BY <1>2, <1>3, <1>4, <1>5, <1>9, <1>10 DEF VoiceInv, VoiceTypes, Settled
<1>12. VoiceSurvives'
  <2> SUFFICES ASSUME voice_fresh', voice_last' # NoVoice PROVE InEffect' = voice_last'
    BY DEF VoiceSurvives
  <2>1. env = Unset /\ ~flag /\ voice_able /\ read = voice_file
    BY <1>2, <1>4
  <2>2. voice_file = voice_last /\ Settled(voice_last) /\ UNCHANGED voice_last
    BY <1>5 DEF VoiceInv, Kept, StartVoice
  <2>3. env.engine = "unset" /\ env.soft = "unset"
    BY <2>1, UnsetFields
  <2>4. /\ v.mode = read.mode /\ v.engine = read.engine /\ v.hotkey = read.hotkey
    BY <1>6, <1>7, <1>8, <2>1, <2>2, <2>3, ValidKey DEF Settled, VoiceConfig
  <2>5. v = read
    BY <1>2, <1>8, <2>4, SameVoice
  <2>6. voice_env'.fallback = read.fallback /\ voice_env'.soft = read.soft
    BY <1>3, <1>4, <2>3 DEF Environment
  <2>7. InEffect' = [v EXCEPT !.fallback = read.fallback, !.soft = read.soft]
    BY <1>4, <2>6 DEF InEffect
  <2>8. InEffect' = v
    BY <1>2, <2>5, <2>7 DEF VoiceConfig
  <2> QED BY <2>1, <2>2, <2>5, <2>8
<1> QED BY <1>4, <1>5, <1>10, <1>11, <1>12 DEF VoiceInv, Kept

\* A command leaves a session that goes by settings of which the environment has its part.
LEMMA CommandKeeps ==
  ASSUME VoiceInv, VoiceCommand, Settled(voice'), voice_env' \in Environment, InStep(voice', voice_env'),
         voice_cfg' = Synced(voice', voice_env'),
         \/ UNCHANGED <<voice_file, voice_open, voice_last>>
         \/ voice_file' = voice_cfg' /\ UNCHANGED <<voice_open, voice_last>>
         \/ voice_open' = FALSE /\ voice_last' = NoVoice /\ UNCHANGED voice_file
  PROVE  VoiceInv'
<1>1. Synced(voice', voice_env') \in VoiceConfig
  <2>1. PICK v, env : v = voice' /\ env = voice_env'
    OBVIOUS
  <2>2. Settled(v) /\ env \in Environment /\ InStep(v, env)
    BY <2>1 DEF Settled, InStep
  <2>3. Synced(v, env) \in VoiceConfig
    BY <2>2, SyncedIsInEffect
  <2> QED BY <2>1, <2>3
<1>2. voice_open /\ ~voice_fresh' /\ UNCHANGED voice_able
  BY DEF VoiceCommand
<1>3. VoiceTypes'
  BY <1>1, <1>2 DEF VoiceInv, VoiceTypes, Settled
<1>4. Kept'
  BY <1>2 DEF Kept
<1> QED BY <1>2, <1>3, <1>4 DEF VoiceInv, VoiceSurvives

\* One setting of a session takes another value it may have.
LEMMA SetsOne ==
  ASSUME NEW v, Settled(v)
  PROVE  /\ \A x \in Switch : \A f \in {"mute", "ptt"} :
              Settled([v EXCEPT ![f] = x]) /\ [v EXCEPT ![f] = x].hotkey = v.hotkey
         /\ \A x \in Triggers : Settled([v EXCEPT !.trigger = x]) /\ [v EXCEPT !.trigger = x].hotkey = v.hotkey
         /\ \A x \in Engines : Settled([v EXCEPT !.engine = x]) /\ [v EXCEPT !.engine = x].hotkey = v.hotkey
         /\ \A x \in Hotkeys : Settled([v EXCEPT !.hotkey = x]) /\ [v EXCEPT !.hotkey = x].hotkey = x
         /\ \A x \in Switch : (x = "on" => voice_able) =>
              Settled([v EXCEPT !.mode = x]) /\ [v EXCEPT !.mode = x].hotkey = v.hotkey
<1>1. \A x \in Switch : Settled([v EXCEPT !.mute = x]) /\ [v EXCEPT !.mute = x].hotkey = v.hotkey
  BY DEF Settled, VoiceConfig
<1>2. \A x \in Switch : Settled([v EXCEPT !.ptt = x]) /\ [v EXCEPT !.ptt = x].hotkey = v.hotkey
  BY DEF Settled, VoiceConfig
<1>3. \A x \in Switch : \A f \in {"mute", "ptt"} :
        Settled([v EXCEPT ![f] = x]) /\ [v EXCEPT ![f] = x].hotkey = v.hotkey
  BY <1>1, <1>2
<1>4. \A x \in Triggers : Settled([v EXCEPT !.trigger = x]) /\ [v EXCEPT !.trigger = x].hotkey = v.hotkey
  BY DEF Settled, VoiceConfig
<1>5. \A x \in Engines : Settled([v EXCEPT !.engine = x]) /\ [v EXCEPT !.engine = x].hotkey = v.hotkey
  BY DEF Settled, VoiceConfig, Engines
<1>6. \A x \in Hotkeys : Settled([v EXCEPT !.hotkey = x]) /\ [v EXCEPT !.hotkey = x].hotkey = x
  BY DEF Settled, VoiceConfig
<1>7. \A x \in Switch : (x = "on" => voice_able) =>
        Settled([v EXCEPT !.mode = x]) /\ [v EXCEPT !.mode = x].hotkey = v.hotkey
  BY DEF Settled, VoiceConfig
<1> QED BY <1>3, <1>4, <1>5, <1>6, <1>7

\* ... and one of the environment.
LEMMA SetsVariable ==
  ASSUME NEW env \in Environment, NEW v, InStep(v, env)
  PROVE  /\ \A x \in Switch : \A f \in {"fallback", "soft", "ptt"} :
              [env EXCEPT ![f] = x] \in Environment /\ InStep(v, [env EXCEPT ![f] = x])
         /\ \A x \in Triggers : [env EXCEPT !.trigger = x] \in Environment /\ InStep(v, [env EXCEPT !.trigger = x])
         /\ \A x \in Hotkeys : \A w : w.hotkey = x =>
              [env EXCEPT !.hotkey = x] \in Environment /\ InStep(w, [env EXCEPT !.hotkey = x])
<1>1. \A x \in Switch : [env EXCEPT !.fallback = x] \in Environment /\ InStep(v, [env EXCEPT !.fallback = x])
  BY DEF Environment, InStep
<1>2. \A x \in Switch : [env EXCEPT !.soft = x] \in Environment /\ InStep(v, [env EXCEPT !.soft = x])
  BY DEF Environment, InStep
<1>3. \A x \in Switch : [env EXCEPT !.ptt = x] \in Environment /\ InStep(v, [env EXCEPT !.ptt = x])
  BY DEF Environment, InStep
<1>4. \A x \in Triggers : [env EXCEPT !.trigger = x] \in Environment /\ InStep(v, [env EXCEPT !.trigger = x])
  BY DEF Environment, InStep
<1>5. \A x \in Hotkeys : \A w : w.hotkey = x =>
        [env EXCEPT !.hotkey = x] \in Environment /\ InStep(w, [env EXCEPT !.hotkey = x])
  BY ValidKey DEF Environment, InStep, Hotkeys
<1>6. \A x \in Switch : \A f \in {"fallback", "soft", "ptt"} :
        [env EXCEPT ![f] = x] \in Environment /\ InStep(v, [env EXCEPT ![f] = x])
  BY <1>1, <1>2, <1>3
<1> QED BY <1>4, <1>5, <1>6

\* A new value keeps a session settled if the key stays that of the environment.
LEMMA SameKey ==
  ASSUME NEW v, NEW w, NEW env, InStep(v, env), w.hotkey = v.hotkey PROVE InStep(w, env)
  BY DEF InStep

LEMMA VoiceStep == VoiceInv /\ [VoiceNext]_voiceVars => VoiceInv'
<1> SUFFICES ASSUME VoiceInv, [VoiceNext]_voiceVars PROVE VoiceInv'
  OBVIOUS
<1>0. Settled(voice) /\ voice_env \in Environment /\ (voice_open => InStep(voice, voice_env)) /\ voice_able \in BOOLEAN
  BY DEF VoiceInv, VoiceTypes
<1> DEFINE Suits(v, env) == Settled(v) /\ env \in Environment /\ InStep(v, env)
<1>a. ASSUME NEW v, NEW env, Suits(v, env), voice' = v, voice_env' = env, VoiceCommand, Remembered \/ Persisted
      PROVE  VoiceInv'
  <2>1. Settled(voice') /\ voice_env' \in Environment /\ InStep(voice', voice_env')
    BY <1>a DEF Settled, InStep
  <2>2. voice_cfg' = Synced(voice', voice_env')
    BY <1>a DEF Remembered, Persisted
  <2>3. \/ UNCHANGED <<voice_file, voice_open, voice_last>>
        \/ voice_file' = voice_cfg' /\ UNCHANGED <<voice_open, voice_last>>
        \/ voice_open' = FALSE /\ voice_last' = NoVoice /\ UNCHANGED voice_file
    BY <1>a DEF Remembered, Persisted
  <2> QED BY <1>a, <2>1, <2>2, <2>3, CommandKeeps, Zenon
<1>1. CASE StartVoice
  BY <1>1, StartsSettled
<1>2. CASE ExitVoice
  <2>1. Synced(voice, voice_env) \in VoiceConfig /\ Settled(Synced(voice, voice_env)) /\ Synced(voice, voice_env) = InEffect
    BY <1>0, <1>2, SyncedIsInEffect DEF ExitVoice, InEffect
  <2>2. /\ voice_open' = FALSE /\ voice_fresh' = FALSE /\ voice_cfg' = Synced(voice, voice_env)
        /\ UNCHANGED <<voice_able, voice, voice_env>>
        /\ \/ voice_file' = voice_cfg' /\ voice_last' = InEffect
           \/ voice_file' = voice_file /\ voice_last' = NoVoice
    BY <1>2 DEF ExitVoice
  <2>3. VoiceTypes'
    BY <2>1, <2>2 DEF VoiceInv, VoiceTypes, Settled
  <2>4. Kept'
    BY <2>1, <2>2 DEF Kept, Settled
  <2> QED BY <2>2, <2>3, <2>4 DEF VoiceInv, VoiceSurvives
<1>3. CASE SwitchVoice
  <2>1. PICK x \in Switch : (x = "on" => voice_able) /\ voice' = [voice EXCEPT !.mode = x] /\ UNCHANGED voice_env
    BY <1>3 DEF SwitchVoice
  <2>2. Suits([voice EXCEPT !.mode = x], voice_env)
    BY <1>0, <1>3, <2>1, SetsOne, SameKey DEF SwitchVoice, VoiceCommand
  <2> QED BY <1>3, <1>a, <2>1, <2>2 DEF SwitchVoice
<1>4. CASE SetVoice
  <2>1. CASE \E x \in Switch, f \in {"mute", "ptt"} : voice' = [voice EXCEPT ![f] = x]
    <3>1. PICK x \in Switch, f \in {"mute", "ptt"} : voice' = [voice EXCEPT ![f] = x]
      BY <2>1
    <3>2. Suits([voice EXCEPT ![f] = x], voice_env)
      BY <1>0, <1>4, SetsOne, SameKey DEF SetVoice, VoiceCommand
    <3> QED BY <1>4, <1>a, <3>1, <3>2 DEF SetVoice
  <2>2. CASE \E x \in Triggers : voice' = [voice EXCEPT !.trigger = x]
    <3>1. PICK x \in Triggers : voice' = [voice EXCEPT !.trigger = x]
      BY <2>2
    <3>2. Suits([voice EXCEPT !.trigger = x], voice_env)
      BY <1>0, <1>4, SetsOne, SameKey DEF SetVoice, VoiceCommand
    <3> QED BY <1>4, <1>a, <3>1, <3>2 DEF SetVoice
  <2> QED BY <1>4, <2>1, <2>2 DEF SetVoice
<1>5. CASE SetEngine
  <2>1. PICK x \in Engines : voice' = [voice EXCEPT !.engine = x]
    BY <1>5 DEF SetEngine
  <2>2. Suits([voice EXCEPT !.engine = x], voice_env)
    BY <1>0, <1>5, SetsOne, SameKey DEF SetEngine, VoiceCommand
  <2> QED BY <1>5, <1>a, <2>1, <2>2 DEF SetEngine
<1>6. CASE SetHotkey
  <2>1. PICK x \in Hotkeys : voice' = [voice EXCEPT !.hotkey = x] /\ voice_env' = [voice_env EXCEPT !.hotkey = x]
    BY <1>6 DEF SetHotkey
  <2>2. Suits([voice EXCEPT !.hotkey = x], [voice_env EXCEPT !.hotkey = x])
    BY <1>0, <1>6, SetsOne, SetsVariable DEF SetHotkey, VoiceCommand
  <2> QED BY <1>6, <1>a, <2>1, <2>2 DEF SetHotkey
<1>7. CASE ConfigVoice
  <2>0. VoiceCommand /\ Persisted /\ voice_open
    BY <1>7 DEF ConfigVoice, VoiceCommand
  <2>1. CASE \E x \in Switch, f \in {"fallback", "soft"} : voice_env' = [voice_env EXCEPT ![f] = x] /\ UNCHANGED voice
    <3>1. PICK x \in Switch, f \in {"fallback", "soft"} : voice_env' = [voice_env EXCEPT ![f] = x] /\ UNCHANGED voice
      BY <2>1
    <3>2. Suits(voice, [voice_env EXCEPT ![f] = x])
      BY <1>0, <2>0, SetsVariable
    <3> QED BY <1>a, <2>0, <3>1, <3>2
  <2>2. CASE \E x \in Switch : voice' = [voice EXCEPT !.ptt = x] /\ voice_env' = [voice_env EXCEPT !.ptt = x]
    <3>1. PICK x \in Switch : voice' = [voice EXCEPT !.ptt = x] /\ voice_env' = [voice_env EXCEPT !.ptt = x]
      BY <2>2
    <3>2. Suits([voice EXCEPT !.ptt = x], [voice_env EXCEPT !.ptt = x])
      BY <1>0, <2>0, SetsOne, SetsVariable, SameKey
    <3> QED BY <1>a, <2>0, <3>1, <3>2
  <2>3. CASE \E x \in Triggers : voice' = [voice EXCEPT !.trigger = x] /\ voice_env' = [voice_env EXCEPT !.trigger = x]
    <3>1. PICK x \in Triggers : voice' = [voice EXCEPT !.trigger = x] /\ voice_env' = [voice_env EXCEPT !.trigger = x]
      BY <2>3
    <3>2. Suits([voice EXCEPT !.trigger = x], [voice_env EXCEPT !.trigger = x])
      BY <1>0, <2>0, SetsOne, SetsVariable, SameKey
    <3> QED BY <1>a, <2>0, <3>1, <3>2
  <2>4. CASE \E x \in Hotkeys : voice' = [voice EXCEPT !.hotkey = x] /\ voice_env' = [voice_env EXCEPT !.hotkey = x]
    <3>1. PICK x \in Hotkeys : voice' = [voice EXCEPT !.hotkey = x] /\ voice_env' = [voice_env EXCEPT !.hotkey = x]
      BY <2>4
    <3>2. Suits([voice EXCEPT !.hotkey = x], [voice_env EXCEPT !.hotkey = x])
      BY <1>0, <2>0, SetsOne, SetsVariable
    <3> QED BY <1>a, <2>0, <3>1, <3>2
  <2> QED BY <1>7, <2>1, <2>2, <2>3, <2>4 DEF ConfigVoice
<1>8. CASE ShowVoice \/ SaveVoice
  BY <1>0, <1>8, <1>a DEF ShowVoice, SaveVoice, VoiceCommand
<1>9. CASE SaveOther
  BY <1>9 DEF SaveOther, VoiceCommand, VoiceInv, VoiceTypes, Settled, InStep, Kept, VoiceSurvives
<1>10. ASSUME NEW outcomes, Listened(outcomes) PROVE VoiceInv'
  BY <1>10 DEF Listened, VoiceInv, VoiceTypes, Settled, InStep, Kept, VoiceSurvives, InEffect
<1>11. CASE ListenNow \/ ListenTrigger \/ ListenBlank \/ ListenHotkey \/ TestVoice \/ SpeakReply
  BY <1>10, <1>11 DEF ListenNow, ListenTrigger, ListenBlank, ListenHotkey, TestVoice, SpeakReply
<1>12. CASE UNCHANGED voiceVars
  BY <1>12 DEF voiceVars, VoiceInv, VoiceTypes, Settled, InStep, Kept, VoiceSurvives, InEffect
<1> QED BY <1>1, <1>2, <1>3, <1>4, <1>5, <1>6, <1>7, <1>8, <1>9, <1>11, <1>12 DEF VoiceNext

\* What the user chose by any of the commands of /voice holds in the next session, for
\* any triggers and any number of sessions and commands.
THEOREM VoiceKept == VoiceSpec => []VoiceSurvives
<1>1. VoiceInv => VoiceSurvives
  BY DEF VoiceInv
<1> QED BY <1>1, VoiceBegin, VoiceStep, PTL DEF VoiceSpec

------------------------------------------------------------------------------
(* Streams: the calls the reader has. *)

StreamsSpec == StreamsInit /\ [][StreamsNext]_streamVars

SentCalls == Seq([args : Nat, whole : BOOLEAN])
HeardCalls == Seq([named : BOOLEAN, ended : BOOLEAN, args : Nat])

StreamTypes ==
  /\ family \in {"openai", "claude"} /\ protocol \in {"tools", "text"}
  /\ stream \in {"idle", "open", "ended", "plain", "ok", "error"}
  /\ reply \in SentCalls /\ heard \in HeardCalls /\ Len(heard) = Len(reply)
  /\ block \in 0..Len(reply) /\ text \in BOOLEAN /\ lost \in Nat
  /\ {reason, stop} \subseteq {"", "completed", "tool_use", "length"}

\* What the reader has of each call is what was sent of it.  With Claude a call has
\* ended for the reader if it has for the server, and the block it has open is the one
\* call that has not: without this the pieces of one call could go to another.
AllHeard ==
  /\ \A i \in 1..Len(reply) : heard[i].named /\ heard[i].args = reply[i].args
  /\ family = "claude" =>
       /\ \A i \in 1..Len(reply) : heard[i].ended = reply[i].whole
       /\ \A i \in 1..Len(reply) : ~reply[i].whole => block = i

StreamsInv ==
  /\ StreamTypes
  /\ protocol = "text" => reply = <<>>
  /\ stream = "plain" => protocol = "text"
  /\ family = "openai" => block = 0
  /\ reason = "completed" => reply = <<>>
  /\ lost = 0 => AllHeard
  /\ stream = "ok" /\ Returned # {} => stop # "completed"

LEMMA StreamsBegin == StreamsInit => StreamsInv
<1> SUFFICES ASSUME StreamsInit PROVE StreamsInv
  OBVIOUS
<1>1. reply = <<>> /\ heard = <<>> /\ stream = "idle" /\ reason = "" /\ stop = "" /\ block = 0
      /\ lost = 0 /\ text = FALSE
  BY DEF StreamsInit
<1>2. reply \in SentCalls /\ heard \in HeardCalls /\ Len(reply) = 0 /\ Len(heard) = 0
  <2>1. <<>> \in SentCalls /\ <<>> \in HeardCalls /\ Len(<<>>) = 0
    BY EmptySeq DEF SentCalls, HeardCalls
  <2> QED BY <1>1, <2>1
<1>3. StreamTypes
  <2>1. {reason, stop} \subseteq {"", "completed", "tool_use", "length"}
    BY <1>1
  <2>2. lost \in Nat /\ block \in 0..Len(reply) /\ text \in BOOLEAN
    <3>1. 0 \in Nat /\ 0 \in 0..0
      OBVIOUS
    <3> QED BY <1>1, <1>2, <3>1, Zenon
  <2> QED BY <1>2, <2>1, <2>2 DEF StreamsInit, StreamTypes
<1>4. AllHeard
  BY <1>2 DEF AllHeard
<1> QED BY <1>1, <1>3, <1>4 DEF StreamsInv

\* A new call, ...
LEMMA CallBegun ==
  ASSUME NEW S, NEW q \in Seq(S), NEW x \in S
  PROVE  /\ Append(q, x) \in Seq(S) /\ Len(Append(q, x)) = Len(q) + 1 /\ Append(q, x)[Len(q) + 1] = x
         /\ \A i \in 1..Len(q) : Append(q, x)[i] = q[i]
  BY AppendProperties

\* ... one that changes, ...
LEMMA CallChanged ==
  ASSUME NEW S, NEW q \in Seq(S), NEW i \in 1..Len(q), NEW x \in S
  PROVE  /\ [q EXCEPT ![i] = x] \in Seq(S) /\ Len([q EXCEPT ![i] = x]) = Len(q) /\ [q EXCEPT ![i] = x][i] = x
         /\ \A j \in 1..Len(q) : j # i => [q EXCEPT ![i] = x][j] = q[j]
  BY ExceptSeq

\* ... and what the reader has when the line of a piece is lost.
LEMMA LineLost ==
  ASSUME NEW h \in HeardCalls, NEW n \in Nat, n = Len(h) \/ n = Len(h) + 1
  PROVE  LET longer == SubSeq(h \o <<[named |-> FALSE, ended |-> FALSE, args |-> 0]>>, 1, n)
         IN longer \in HeardCalls /\ Len(longer) = n
<1> DEFINE S == [named : BOOLEAN, ended : BOOLEAN, args : Nat]
           x == [named |-> FALSE, ended |-> FALSE, args |-> 0]
           more == h \o <<x>>
<1>1. x \in S /\ h \in Seq(S)
  BY DEF HeardCalls
<1> HIDE DEF S, x
<1>2. <<x>> \in Seq(S) /\ Len(<<x>>) = 1
  BY <1>1
<1>3. more \in Seq(S) /\ Len(more) = Len(h) + 1
  BY <1>1, <1>2, ConcatProperties
<1> HIDE DEF more
<1>4. SubSeq(more, 1, n) \in Seq(S) /\ Len(SubSeq(more, 1, n)) = n
  <2>1. Len(h) \in Nat
    BY <1>1
  <2>2. 1 \in 1..(Len(more) + 1) /\ n \in 0..Len(more)
    BY <1>3, <2>1
  <2> QED BY <1>3, <2>1, <2>2, SubSeqProperties
<1> QED BY <1>4 DEF more, x, S, HeardCalls

LEMMA Successor == \A n \in Nat : n + 1 \in Nat /\ n + 1 # 0
  OBVIOUS

\* A piece of the stream: what of the state it leaves, ...
SentFrame == stream = "open" /\ reason = "" /\ UNCHANGED <<family, protocol, stream, reason, stop>>
Lost ==
  /\ lost' = lost + 1 /\ UNCHANGED <<block, text>>
  /\ heard' = SubSeq(heard \o <<[named |-> FALSE, ended |-> FALSE, args |-> 0]>>, 1, Len(reply'))

\* ... when its line is lost ...
LEMMA LossKeeps ==
  ASSUME StreamsInv, SentFrame, Lost, reply' \in SentCalls, protocol = "text" => reply' = <<>>,
         Len(reply') = Len(reply) \/ Len(reply') = Len(reply) + 1
  PROVE  StreamsInv'
<1>1. lost' # 0 /\ lost' \in Nat
  <2>1. lost \in Nat
    BY DEF StreamsInv, StreamTypes
  <2> QED BY <2>1, Successor, Zenon DEF Lost
<1>2. PICK n, l, c : n = Len(reply') /\ l = Len(reply) /\ c = block
  OBVIOUS
<1>3. l \in Nat
  BY <1>2, LenProperties DEF StreamsInv, StreamTypes, SentCalls
<1>4. n = l \/ n = l + 1
  BY <1>2
<1>5. n \in Nat /\ 0..l \subseteq 0..n
  BY ONLY <1>3, <1>4
<1>6. heard' \in HeardCalls /\ Len(heard') = n
  <2>1. heard \in HeardCalls /\ Len(heard) = l
    BY <1>2 DEF StreamsInv, StreamTypes
  <2> QED BY <1>2, <1>4, <1>5, <2>1, LineLost DEF Lost
<1>8. block' \in 0..n
  <2>1. block \in 0..l /\ block' = block
    BY <1>2 DEF StreamsInv, StreamTypes, Lost
  <2> QED BY <1>5, <2>1
<1>7. StreamTypes'
  BY <1>1, <1>2, <1>6, <1>8 DEF StreamsInv, StreamTypes, SentFrame, Lost
<1> QED BY <1>1, <1>7 DEF StreamsInv, SentFrame, Lost

\* ... and when it is read.
LEMMA ReadKeeps ==
  ASSUME StreamsInv, SentFrame, lost' = lost, text' \in BOOLEAN, reply' \in SentCalls, heard' \in HeardCalls,
         Len(heard') = Len(reply'), block' \in 0..Len(reply'), family = "openai" => block' = 0,
         protocol = "text" => reply' = <<>>, AllHeard => AllHeard'
  PROVE  StreamsInv'
<1>1. StreamTypes'
  BY DEF StreamsInv, StreamTypes, SentFrame
<1> QED BY <1>1 DEF StreamsInv, SentFrame

\* In each case the one or the other.
LEMMA TextPieceSent ==
  TextPiece => SentFrame /\ \/ Lost
                            \/ text' = TRUE /\ block' = 0 /\ heard' = heard /\ lost' = lost
  BY DEF TextPiece, Sends, SentFrame, Lost

LEMMA StartCallSent ==
  StartCall => SentFrame /\ \/ Lost
                            \/ /\ heard' = Append(heard, [named |-> TRUE, ended |-> FALSE, args |-> 0])
                               /\ block' = IF family = "claude" THEN Len(reply') ELSE 0
                               /\ text' = text /\ lost' = lost
  BY Zenon DEF StartCall, Sends, SentFrame, Lost

LEMMA ArgumentPieceSent ==
  ArgumentPiece => \E i \in Unfinished :
    /\ reply' = [reply EXCEPT ![i].args = @ + 1] /\ SentFrame
    /\ \/ Lost
       \/ LET to == IF family = "openai" THEN i ELSE block
          IN /\ heard' = IF to = 0 THEN heard ELSE [heard EXCEPT ![to].args = @ + 1]
             /\ block' = block /\ text' = text /\ lost' = lost
  BY DEF ArgumentPiece, Sends, SentFrame, Lost

LEMMA EndCallSent ==
  EndCall => \E i \in Unfinished :
    /\ reply' = [reply EXCEPT ![i].whole = TRUE] /\ SentFrame
    /\ \/ Lost
       \/ /\ heard' = IF block = 0 THEN heard ELSE [heard EXCEPT ![block].ended = TRUE]
          /\ block' = 0 /\ text' = text /\ lost' = lost
  BY DEF EndCall, Sends, SentFrame, Lost

Sent == [args : Nat, whole : BOOLEAN]
Heard1 == [named : BOOLEAN, ended : BOOLEAN, args : Nat]

\* One more piece of a record of either side.
LEMMA OneMore ==
  /\ \A r \in Sent : LET x == [r EXCEPT !.args = r.args + 1]
                     IN x \in Sent /\ x.args = r.args + 1 /\ x.whole = r.whole
  /\ \A h \in Heard1 : LET x == [h EXCEPT !.args = h.args + 1]
                       IN x \in Heard1 /\ x.args = h.args + 1 /\ x.named = h.named /\ x.ended = h.ended
  /\ \A r \in Sent : LET x == [r EXCEPT !.whole = TRUE] IN x \in Sent /\ x.args = r.args /\ x.whole
  /\ \A h \in Heard1 : LET x == [h EXCEPT !.ended = TRUE]
                       IN x \in Heard1 /\ x.args = h.args /\ x.named = h.named /\ x.ended
<1>1. ASSUME NEW r \in Sent
      PROVE  LET x == [r EXCEPT !.args = r.args + 1] IN x \in Sent /\ x.args = r.args + 1 /\ x.whole = r.whole
  <2>1. r.args + 1 \in Nat
    BY DEF Sent
  <2>2. PICK n \in Nat : n = r.args + 1
    BY <2>1
  <2> QED BY <2>2 DEF Sent
<1>2. ASSUME NEW h \in Heard1
      PROVE  LET x == [h EXCEPT !.args = h.args + 1]
             IN x \in Heard1 /\ x.args = h.args + 1 /\ x.named = h.named /\ x.ended = h.ended
  <2>1. h.args + 1 \in Nat
    BY DEF Heard1
  <2>2. PICK n \in Nat : n = h.args + 1
    BY <2>1
  <2> QED BY <2>2 DEF Heard1
<1>3. /\ \A r \in Sent : LET x == [r EXCEPT !.whole = TRUE] IN x \in Sent /\ x.args = r.args /\ x.whole
      /\ \A h \in Heard1 : LET x == [h EXCEPT !.ended = TRUE]
                           IN x \in Heard1 /\ x.args = h.args /\ x.named = h.named /\ x.ended
  BY DEF Sent, Heard1
<1> QED BY <1>1, <1>2, <1>3

\* The block the reader has open is that of a call, or none.
LEMMA BlockOfCall ==
  ASSUME StreamsInv
  PROVE  /\ block = 0 \/ block \in 1..Len(reply)
         /\ {0, block} \subseteq 0..Len(reply) /\ text \in BOOLEAN /\ family \in {"openai", "claude"}
         /\ family = "openai" => block = 0
<1>1. PICK n, b : n \in Nat /\ n = Len(reply) /\ b = block
  BY LenProperties DEF StreamsInv, StreamTypes, SentCalls
<1>2. b \in 0..n
  BY <1>1 DEF StreamsInv, StreamTypes
<1>3. (b = 0 \/ b \in 1..n) /\ {0, b} \subseteq 0..n
  BY ONLY <1>1, <1>2
<1> QED BY <1>1, <1>3 DEF StreamsInv, StreamTypes

LEMMA Lengths ==
  ASSUME StreamsInv
  PROVE  /\ reply \in Seq(Sent) /\ heard \in Seq(Heard1) /\ Len(reply) \in Nat /\ Len(heard) = Len(reply)
         /\ \A i \in 1..Len(reply) : reply[i] \in Sent /\ heard[i] \in Heard1
<1>1. reply \in Seq(Sent) /\ heard \in Seq(Heard1) /\ Len(heard) = Len(reply)
  BY DEF StreamsInv, StreamTypes, SentCalls, HeardCalls, Sent, Heard1
<1> QED BY <1>1, LenProperties, ElementOfSeq

LEMMA TextPieceKeeps == ASSUME StreamsInv, TextPiece PROVE StreamsInv'
<1>1. SentFrame /\ UNCHANGED reply /\ Between
  BY TextPieceSent DEF TextPiece
<1>2. CASE Lost
  BY <1>1, <1>2, LossKeeps DEF StreamsInv, StreamTypes
<1>3. CASE text' = TRUE /\ block' = 0 /\ heard' = heard /\ lost' = lost
  <2>1. AllHeard => AllHeard'
    BY <1>1, <1>3 DEF AllHeard, Between, Unfinished, SentFrame
  <2>2. block' \in 0..Len(reply')
    BY <1>1, <1>3, Lengths
  <2> QED BY <1>1, <1>3, <2>1, <2>2, ReadKeeps DEF StreamsInv, StreamTypes
<1> QED BY <1>2, <1>3, TextPieceSent

LEMMA StartCallKeeps == ASSUME StreamsInv, StartCall PROVE StreamsInv'
<1> DEFINE r == [args |-> 0, whole |-> FALSE]
           h == [named |-> TRUE, ended |-> FALSE, args |-> 0]
<1>1. SentFrame /\ protocol = "tools" /\ Between /\ reply' = Append(reply, r)
  BY StartCallSent DEF StartCall
<1>2. PICK n \in Nat : n = Len(reply)
  BY Lengths
<1>3. r \in Sent /\ h \in Heard1 /\ r.args = 0 /\ ~r.whole /\ h.named /\ h.args = 0 /\ ~h.ended
  BY DEF Sent, Heard1
<1> HIDE DEF r, h
<1>4. /\ reply' \in Seq(Sent) /\ Len(reply') = n + 1 /\ reply'[n + 1] = r
      /\ \A i \in 1..n : reply'[i] = reply[i]
  BY <1>1, <1>2, <1>3, Lengths, CallBegun
<1>5. reply' \in SentCalls
  BY <1>4 DEF Sent, SentCalls
<1>6. CASE Lost
  BY <1>1, <1>2, <1>4, <1>5, <1>6, LossKeeps
<1>7. CASE /\ heard' = Append(heard, h) /\ block' = IF family = "claude" THEN Len(reply') ELSE 0
           /\ text' = text /\ lost' = lost
  <2>1. /\ heard' \in Seq(Heard1) /\ Len(heard') = n + 1 /\ heard'[n + 1] = h
        /\ \A i \in 1..n : heard'[i] = heard[i]
    BY <1>2, <1>3, <1>7, Lengths, CallBegun
  <2>2. heard' \in HeardCalls
    BY <2>1 DEF Heard1, HeardCalls
  <2>3. n + 1 \in 0..(n + 1) /\ 0 \in 0..(n + 1) /\ 1..(n + 1) = 1..n \cup {n + 1}
    BY ONLY <1>2
  <2>4. block' \in 0..Len(reply') /\ (family = "openai" => block' = 0)
    BY <1>4, <1>7, <2>3
  <2>5. ASSUME AllHeard PROVE AllHeard'
    <3>1. \A i \in 1..Len(reply') : heard'[i].named /\ heard'[i].args = reply'[i].args
      BY <1>2, <1>3, <1>4, <2>1, <2>3, <2>5 DEF AllHeard
    <3>2. ASSUME family = "claude" PROVE \A i \in 1..Len(reply') : heard'[i].ended = reply'[i].whole
      <4>1. heard'[n + 1].ended = reply'[n + 1].whole
        BY <1>3, <1>4, <2>1 DEF Sent, Heard1
      <4> QED BY <1>2, <1>4, <2>1, <2>3, <2>5, <3>2, <4>1 DEF AllHeard
    <3>3. ASSUME family = "claude" PROVE \A i \in 1..Len(reply') : ~reply'[i].whole => block' = i
      BY <1>1, <1>2, <1>4, <1>7, <2>3, <3>3 DEF Between, Unfinished
    <3> QED BY <1>1, <3>1, <3>2, <3>3 DEF AllHeard, SentFrame
  <2>6. text' \in BOOLEAN
    BY <1>7 DEF StreamsInv, StreamTypes
  <2> QED BY <1>1, <1>4, <1>5, <1>7, <2>1, <2>2, <2>4, <2>5, <2>6, ReadKeeps
<1> QED BY <1>6, <1>7, StartCallSent DEF h

LEMMA ArgumentPieceKeeps == ASSUME StreamsInv, ArgumentPiece PROVE StreamsInv'
<1>1. PICK i \in Unfinished :
        /\ reply' = [reply EXCEPT ![i].args = @ + 1] /\ SentFrame
        /\ \/ Lost
           \/ LET to == IF family = "openai" THEN i ELSE block
              IN /\ heard' = IF to = 0 THEN heard ELSE [heard EXCEPT ![to].args = @ + 1]
                 /\ block' = block /\ text' = text /\ lost' = lost
  BY ArgumentPieceSent
<1> DEFINE to == IF family = "openai" THEN i ELSE block
           r == [reply[i] EXCEPT !.args = reply[i].args + 1]
           h == [heard[to] EXCEPT !.args = heard[to].args + 1]
<1>2. i \in 1..Len(reply) /\ ~reply[i].whole
  BY DEF Unfinished
<1>3. r \in Sent /\ r.args = reply[i].args + 1 /\ r.whole = reply[i].whole /\ reply' = [reply EXCEPT ![i] = r]
  BY <1>1, <1>2, Lengths, OneMore
<1> HIDE DEF r
<1>4. /\ reply' \in Seq(Sent) /\ Len(reply') = Len(reply) /\ reply'[i] = r
      /\ \A j \in 1..Len(reply) : j # i => reply'[j] = reply[j]
  BY <1>2, <1>3, Lengths, CallChanged
<1>5. reply' \in SentCalls /\ (protocol = "text" => reply' = <<>>)
  BY <1>2, <1>4 DEF Sent, SentCalls, StreamsInv
<1>6. CASE Lost
  BY <1>1, <1>4, <1>5, <1>6, LossKeeps
<1>7. CASE /\ heard' = IF to = 0 THEN heard ELSE [heard EXCEPT ![to].args = @ + 1]
           /\ block' = block /\ text' = text /\ lost' = lost
  <2>1. to = 0 \/ to \in 1..Len(heard)
    BY <1>2, Lengths, BlockOfCall
  <2>2. heard' \in HeardCalls /\ Len(heard') = Len(reply')
    <3>1. CASE to = 0
      BY <1>4, <1>7, <3>1, Lengths DEF Heard1, HeardCalls
    <3>2. CASE to # 0
      <4>1. h \in Heard1 /\ heard' = [heard EXCEPT ![to] = h]
        BY <1>7, <2>1, <3>2, Lengths, OneMore
      <4> HIDE DEF h, to
      <4>2. heard' \in Seq(Heard1) /\ Len(heard') = Len(heard)
        BY <2>1, <3>2, <4>1, Lengths, CallChanged
      <4> QED BY <1>4, <4>2, Lengths DEF Heard1, HeardCalls
    <3> QED BY <3>1, <3>2
  <2>3. ASSUME AllHeard PROVE AllHeard'
    <3>1. to = i
      BY <1>2, <2>3 DEF AllHeard, StreamsInv, StreamTypes
    <3>2. /\ h \in Heard1 /\ h.args = heard[i].args + 1 /\ h.named = heard[i].named /\ h.ended = heard[i].ended
          /\ heard' = [heard EXCEPT ![i] = h]
      <4>1. i # 0
        BY <1>2
      <4> QED BY <1>2, <1>7, <3>1, <4>1, Lengths, OneMore
    <3> HIDE DEF h, to
    <3>3. heard'[i] = h /\ \A j \in 1..Len(reply) : j # i => heard'[j] = heard[j]
      BY <1>2, <3>2, Lengths, CallChanged
    <3>4. \A j \in 1..Len(reply) : heard'[j].named /\ heard'[j].args = reply'[j].args
      <4>1. heard'[i].named /\ heard'[i].args = reply'[i].args
        BY <1>2, <1>3, <1>4, <2>3, <3>2, <3>3 DEF AllHeard
      <4> QED BY <1>4, <2>3, <3>3, <4>1 DEF AllHeard
    <3>5. \A j \in 1..Len(reply) : reply'[j].whole = reply[j].whole /\ heard'[j].ended = heard[j].ended
      BY <1>3, <1>4, <3>2, <3>3
    <3>6. UNCHANGED <<family, block>>
      BY <1>1, <1>7 DEF SentFrame
    <3> QED BY <1>4, <2>3, <3>4, <3>5, <3>6 DEF AllHeard
  <2>4. text' \in BOOLEAN /\ block' \in 0..Len(reply') /\ (family = "openai" => block' = 0)
    BY <1>4, <1>7 DEF StreamsInv, StreamTypes
  <2> QED BY <1>1, <1>5, <1>7, <2>2, <2>3, <2>4, ReadKeeps
<1> QED BY <1>1, <1>6, <1>7

LEMMA EndCallKeeps == ASSUME StreamsInv, EndCall PROVE StreamsInv'
<1>1. PICK i \in Unfinished :
        /\ reply' = [reply EXCEPT ![i].whole = TRUE] /\ SentFrame
        /\ \/ Lost
           \/ /\ heard' = IF block = 0 THEN heard ELSE [heard EXCEPT ![block].ended = TRUE]
              /\ block' = 0 /\ text' = text /\ lost' = lost
  BY EndCallSent
<1> DEFINE r == [reply[i] EXCEPT !.whole = TRUE]
           h == [heard[block] EXCEPT !.ended = TRUE]
<1>2. i \in 1..Len(reply) /\ ~reply[i].whole
  BY DEF Unfinished
<1>3. r \in Sent /\ r.args = reply[i].args /\ r.whole /\ reply' = [reply EXCEPT ![i] = r]
  BY <1>1, <1>2, Lengths, OneMore
<1> HIDE DEF r
<1>4. /\ reply' \in Seq(Sent) /\ Len(reply') = Len(reply) /\ reply'[i] = r
      /\ \A j \in 1..Len(reply) : j # i => reply'[j] = reply[j]
  BY <1>2, <1>3, Lengths, CallChanged
<1>5. reply' \in SentCalls /\ (protocol = "text" => reply' = <<>>)
  BY <1>2, <1>4 DEF Sent, SentCalls, StreamsInv
<1>6. CASE Lost
  BY <1>1, <1>4, <1>5, <1>6, LossKeeps
<1>7. CASE /\ heard' = IF block = 0 THEN heard ELSE [heard EXCEPT ![block].ended = TRUE]
           /\ block' = 0 /\ text' = text /\ lost' = lost
  <2>1. CASE block = 0
    <3>1. ASSUME AllHeard PROVE AllHeard'
      <4>1. family = "openai" /\ family' = "openai"
        <5>1. i # 0
          BY <1>2
        <5>2. family = "openai"
          BY <1>2, <2>1, <3>1, <5>1, BlockOfCall DEF AllHeard
        <5> QED BY <1>1, <5>2 DEF SentFrame
      <4>2. \A j \in 1..Len(reply) : reply'[j].args = reply[j].args
        BY <1>3, <1>4
      <4>3. heard' = heard
        BY <1>7, <2>1
      <4> QED BY <1>4, <3>1, <4>1, <4>2, <4>3 DEF AllHeard
    <3>2. heard' \in HeardCalls /\ Len(heard') = Len(reply')
      BY <1>4, <1>7, <2>1 DEF StreamsInv, StreamTypes
    <3>3. text' \in BOOLEAN /\ block' \in 0..Len(reply')
      BY <1>4, <1>7, BlockOfCall
    <3> QED BY <1>1, <1>5, <1>7, <3>1, <3>2, <3>3, ReadKeeps
  <2>2. CASE block # 0
    <3>1. block \in 1..Len(reply) /\ family = "claude"
      BY <2>2, BlockOfCall
    <3>2. h \in Heard1 /\ h.args = heard[block].args /\ h.named = heard[block].named /\ h.ended
          /\ heard' = [heard EXCEPT ![block] = h]
      BY <1>7, <2>2, <3>1, Lengths, OneMore
    <3> HIDE DEF h
    <3>3. /\ heard' \in Seq(Heard1) /\ Len(heard') = Len(heard) /\ heard'[block] = h
          /\ \A j \in 1..Len(reply) : j # block => heard'[j] = heard[j]
      BY <3>1, <3>2, Lengths, CallChanged
    <3>4. heard' \in HeardCalls /\ Len(heard') = Len(reply')
      BY <1>4, <3>3, Lengths DEF Heard1, HeardCalls
    <3>5. ASSUME AllHeard PROVE AllHeard'
      <4>1. block = i
        BY <1>2, <3>1, <3>5 DEF AllHeard
      <4>2. \A j \in 1..Len(reply) : heard'[j].named /\ heard'[j].args = reply'[j].args
        BY <1>2, <1>3, <1>4, <3>2, <3>3, <3>5, <4>1 DEF AllHeard
      <4>3. heard'[i].ended = reply'[i].whole
        <5>1. heard'[i].ended /\ reply'[i].whole /\ heard'[i] \in Heard1 /\ reply'[i] \in Sent
          BY <1>2, <1>3, <1>4, <3>2, <3>3, <4>1
        <5> QED BY <5>1 DEF Heard1, Sent
      <4>4. \A j \in 1..Len(reply) : heard'[j].ended = reply'[j].whole
        BY <1>4, <3>1, <3>3, <3>5, <4>1, <4>3 DEF AllHeard
      <4>5. \A j \in 1..Len(reply) : reply'[j].whole
        BY <1>3, <1>4, <3>1, <3>5, <4>1 DEF AllHeard
      <4> QED BY <1>1, <1>4, <4>2, <4>4, <4>5 DEF AllHeard, SentFrame
    <3>6. text' \in BOOLEAN /\ block' \in 0..Len(reply')
      BY <1>4, <1>7, BlockOfCall
    <3> QED BY <1>1, <1>5, <1>7, <3>4, <3>5, <3>6, ReadKeeps
  <2> QED BY <2>1, <2>2
<1> QED BY <1>1, <1>6, <1>7

LEMMA PostRequestKeeps == ASSUME StreamsInv, PostRequest PROVE StreamsInv'
<1>1. reply' = <<>> /\ heard' = <<>> /\ Len(<<>>) = 0 /\ <<>> \in SentCalls /\ <<>> \in HeardCalls
  BY EmptySeq DEF PostRequest, SentCalls, HeardCalls
<1>2. 0 \in Nat /\ 0 \in 0..0 /\ 1..0 = {}
  OBVIOUS
<1>3. /\ block' = 0 /\ text' = FALSE /\ reason' = "" /\ stop' = "" /\ lost' = 0
      /\ family' = family /\ protocol' \in {"tools", "text"} /\ stream' \in {"open", "error"}
  BY DEF PostRequest, StreamsInv, StreamTypes
<1>4. family' \in {"openai", "claude"}
  BY <1>3 DEF StreamsInv, StreamTypes
<1>5. StreamTypes'
  <2>1. {reason', stop'} \subseteq {"", "completed", "tool_use", "length"}
    BY <1>3
  <2>2. block' \in 0..Len(reply') /\ lost' \in Nat /\ text' \in BOOLEAN
    BY <1>1, <1>2, <1>3
  <2> QED BY <1>1, <1>3, <1>4, <2>1, <2>2 DEF StreamTypes
<1>6. AllHeard'
  BY <1>1, <1>2 DEF AllHeard
<1> QED BY <1>1, <1>3, <1>5, <1>6 DEF StreamsInv

\* A step after which the calls are as they were.
LEMMA CallsStand ==
  ASSUME StreamsInv, UNCHANGED <<family, protocol, reply, heard, block, lost>>,
         text' \in BOOLEAN, stream' \in {"idle", "open", "ended", "plain", "ok", "error"},
         {reason', stop'} \subseteq {"", "completed", "tool_use", "length"},
         stream' = "plain" => protocol = "text", reason' = "completed" => reply = <<>>,
         stream' = "ok" /\ Returned # {} => stop' # "completed"
  PROVE  StreamsInv'
<1>1. StreamTypes'
  BY DEF StreamsInv, StreamTypes
<1>2. (lost = 0 => AllHeard)' /\ Returned' = Returned
  BY DEF StreamsInv, AllHeard, Returned
<1> QED BY <1>1, <1>2 DEF StreamsInv

LEMMA StreamsStep == StreamsInv /\ [StreamsNext]_streamVars => StreamsInv'
<1> SUFFICES ASSUME StreamsInv, [StreamsNext]_streamVars PROVE StreamsInv'
  OBVIOUS
<1>0. /\ text \in BOOLEAN /\ stream \in {"idle", "open", "ended", "plain", "ok", "error"}
      /\ family \in {"openai", "claude"} /\ protocol \in {"tools", "text"}
      /\ reason \in {"", "completed", "tool_use", "length"} /\ stop \in {"", "completed", "tool_use", "length"}
  BY DEF StreamsInv, StreamTypes
<1>00. reply = <<>> => Returned = {}
  <2>1. Len(<<>>) = 0 /\ 1..0 = {}
    BY EmptySeq
  <2> QED BY <2>1, Lengths DEF Returned
<1>1. CASE FinishReason
  <2>1. reason' = "completed" => reply = <<>>
    BY <1>1 DEF FinishReason
  <2>2. reason' \in {"completed", "tool_use", "length"} /\ stream = "open"
        /\ UNCHANGED <<family, protocol, stream, reply, heard, block, text, stop, lost>>
    BY <1>1 DEF FinishReason
  <2> QED BY <1>0, <2>1, <2>2, CallsStand
<1>2. CASE EndOfStream
  <2>1. stream' \in {"ended", "error"} /\ UNCHANGED <<family, protocol, reply, heard, block, text, reason, stop, lost>>
    BY <1>2 DEF EndOfStream
  <2> QED BY <1>0, <2>1, CallsStand DEF StreamsInv
<1>3. CASE ToolsResult
  <2>1. /\ stream' = "ok" /\ UNCHANGED <<family, protocol, reply, heard, block, text, reason, lost>>
        /\ stop' = IF Returned # {} /\ (family = "openai" \/ reason = "") THEN "tool_use" ELSE OrCompleted
    BY <1>3 DEF ToolsResult
  <2>2. stop' \in {"", "completed", "tool_use", "length"}
    BY <1>0, <2>1 DEF OrCompleted
  <2>3. Returned # {} => stop' # "completed"
    BY <1>00, <2>1 DEF OrCompleted, StreamsInv
  <2> QED BY <1>0, <2>1, <2>2, <2>3, CallsStand DEF StreamsInv
<1>4. CASE TextResult
  <2>1. /\ protocol = "text" /\ stream' \in {"ok", "plain"}
        /\ UNCHANGED <<family, protocol, reply, heard, block, text, reason, lost>>
        /\ stop' \in {"completed", OrCompleted}
    BY <1>4 DEF TextResult
  <2>2. Returned = {}
    BY <1>00, <2>1 DEF StreamsInv
  <2> QED BY <1>0, <2>1, <2>2, CallsStand DEF StreamsInv, OrCompleted
<1>5. CASE PlainRequest
  <2>1. /\ stream = "plain" /\ stream' \in {"ok", "error"} /\ text' \in BOOLEAN
        /\ stop' \in {stop, "completed", "length"}
        /\ UNCHANGED <<family, protocol, reply, heard, block, reason, lost>>
    BY <1>0, <1>5 DEF PlainRequest
  <2>2. Returned = {}
    BY <1>00, <2>1 DEF StreamsInv
  <2> QED BY <1>0, <2>1, <2>2, CallsStand DEF StreamsInv
<1>6. CASE UNCHANGED streamVars
  BY <1>0, <1>6, CallsStand DEF streamVars, StreamsInv
<1> QED
  BY <1>1, <1>2, <1>3, <1>4, <1>5, <1>6, PostRequestKeeps, TextPieceKeeps, StartCallKeeps, ArgumentPieceKeeps,
     EndCallKeeps DEF StreamsNext

\* The calls a reply is taken for are those the model made, with the arguments that were
\* sent for them, for any number of calls, pieces and requests (the SSE readers of
\* provider.rs).
THEOREM CallsHeard == StreamsSpec => []CallsFaithful
<1>1. StreamsInv => CallsFaithful
  <2> SUFFICES ASSUME StreamsInv, stream = "ok", lost = 0 PROVE CallsFaithful
    BY DEF CallsFaithful
  <2>1. AllHeard /\ (Returned # {} => stop # "completed") /\ family \in {"openai", "claude"}
    BY DEF StreamsInv, StreamTypes
  <2> QED BY <2>1, Lengths DEF CallsFaithful, AllHeard, Returned
<1> QED BY <1>1, StreamsBegin, StreamsStep, PTL DEF StreamsSpec

------------------------------------------------------------------------------
(* LoopJournal: the loop a session offers to resume. *)

JournalSpec == JournalInit /\ [][JournalNext]_journalVars

FileStates == Checkpoints \cup {Nothing, Torn}
WriteStates == Checkpoints \cup {Nothing}
Numbers == {0} \cup LoopIds

JournalTypes ==
  /\ disk \in FileStates /\ writing \in [Writers -> WriteStates] /\ running \in [Writers -> Numbers]
  /\ ended \subseteq LoopIds /\ loops \in Nat

\* The loops so far have the first numbers.
LoopsBegun ==
  /\ \A w \in Writers : running[w] <= loops /\ writing[w].loop <= loops
  /\ \A l \in ended : l <= loops

\* Nobody but the one who runs a loop writes of it: who writes that it runs runs it, and
\* once its last save is under way nobody runs it.  So no save that says that it runs
\* can come after the last.
OneWriter ==
  /\ \A v, w \in Writers : running[v] = running[w] /\ running[v] # 0 => v = w
  /\ \A w \in Writers : writing[w].live => running[w] # 0 /\ writing[w].loop = running[w]
  /\ \A v, w \in Writers : ~writing[v].live /\ writing[v].loop # 0 => running[w] # writing[v].loop

EndedStays ==
  /\ \A w \in Writers : running[w] # 0 => running[w] \notin ended
  /\ disk.live => disk.loop \notin ended

JournalInv == JournalTypes /\ LoopsBegun /\ OneWriter /\ EndedStays

LEMMA WritesKnown ==
  /\ Nothing.loop = 0 /\ ~Nothing.live /\ ~Torn.live /\ Nothing \in WriteStates /\ {Nothing, Torn} \subseteq FileStates
  /\ WriteStates \subseteq FileStates
  /\ \A c \in WriteStates : c.loop \in Numbers /\ c.live \in BOOLEAN
  /\ \A l \in Numbers, live \in BOOLEAN :
       Journal(l, live) \in WriteStates /\ Journal(l, live).loop = l /\ Journal(l, live).live = live
<1>1. \A l \in Numbers, live \in BOOLEAN :
        Journal(l, live) \in Checkpoints /\ Journal(l, live).loop = l /\ Journal(l, live).live = live
  BY DEF Journal, Content, Checkpoints, Numbers
<1>2. \A c \in Checkpoints : c.loop \in Numbers /\ c.live \in BOOLEAN
  BY DEF Journal, Content, Checkpoints, Numbers
<1>3. Nothing.loop = 0 /\ Nothing.live = FALSE /\ Torn.live = FALSE
  BY DEF Nothing, Torn, Content
<1> QED BY <1>1, <1>2, <1>3 DEF WriteStates, FileStates, Numbers

LEMMA LoopNumbers ==
  /\ Numbers \subseteq Nat /\ 0 \in Numbers /\ MaxLoops \in Nat /\ LoopIds = {l \in Numbers : l # 0}
  /\ \A n \in Nat : n < MaxLoops => n + 1 \in LoopIds
<1>1. MaxLoops \in Nat
  BY JournalBounds
<1> QED BY <1>1 DEF Numbers, LoopIds

LEMMA JournalBegin == JournalInit => JournalInv
<1> SUFFICES ASSUME JournalInit PROVE JournalInv
  OBVIOUS
<1>1. /\ disk = Nothing /\ loops = 0 /\ ended = {} /\ writing = [w \in Writers |-> Nothing]
      /\ running = [w \in Writers |-> 0]
  BY DEF JournalInit
<1>2. JournalTypes
  BY <1>1, WritesKnown, LoopNumbers DEF JournalTypes
<1> QED BY <1>1, <1>2, WritesKnown DEF JournalInv, LoopsBegun, OneWriter, EndedStays

\* A save of content c by w, of a loop w runs or ends, or of none.
LEMMA SaveOpened ==
  ASSUME JournalInv, NEW w \in Writers, Free(w), NEW c \in WriteStates, NEW r \in [Writers -> Numbers], NEW n \in Nat,
         Opens(w, c), running' = r, loops' = n, UNCHANGED ended, loops <= n, c.loop <= n,
         \A v \in Writers : r[v] <= n,
         \A u, v \in Writers : r[u] = r[v] /\ r[u] # 0 => u = v,
         \A v \in Writers : v # w => r[v] = running[v],
         \A v \in Writers : r[v] # 0 => r[v] \notin ended,
         r[w] = running[w] \/ r[w] = 0 \/ \A v \in Writers : writing[v].loop # r[w],
         c.live => r[w] # 0 /\ c.loop = r[w],
         ~c.live /\ c.loop # 0 => \A v \in Writers : r[v] # c.loop
  PROVE  JournalInv'
<1> DEFINE WriteBegins == disk' = Torn /\ writing' = [writing EXCEPT ![w] = c]
           WriteFails == UNCHANGED <<disk, writing>>
<1>1. WriteBegins \/ WriteFails
  BY DEF Opens
<1>2. writing[w] = Nothing /\ Nothing.loop = 0 /\ ~Nothing.live
  BY WritesKnown DEF Free
<1>3. \A v \in Writers : v # w => writing'[v] = writing[v]
  BY <1>1 DEF JournalInv, JournalTypes
<1>4. writing'[w] = c \/ writing'[w] = Nothing
  BY <1>1, <1>2 DEF JournalInv, JournalTypes
<1>5. JournalTypes'
  BY <1>1, WritesKnown DEF JournalInv, JournalTypes
<1>6. LoopsBegun'
  <2>1. \A v \in Writers : writing[v].loop \in Nat /\ writing[v].loop <= loops
    BY WritesKnown, LoopNumbers DEF JournalInv, JournalTypes, LoopsBegun
  <2>2. loops \in Nat /\ \A l \in ended : l \in Nat /\ l <= loops
    BY LoopNumbers DEF JournalInv, JournalTypes, LoopsBegun
  <2>3. \A v \in Writers : v # w => writing'[v].loop <= n
    BY <1>3, <2>1, <2>2
  <2>4. writing'[w].loop <= n
    BY <1>2, <1>4
  <2>5. \A l \in ended : l <= n
    BY <2>2
  <2> QED BY <2>3, <2>4, <2>5 DEF LoopsBegun
<1>7. \A v \in Writers : writing'[v].live => r[v] # 0 /\ writing'[v].loop = r[v]
  BY <1>2, <1>3, <1>4 DEF JournalInv, OneWriter
<1>8. \A u, v \in Writers : ~writing'[u].live /\ writing'[u].loop # 0 => r[v] # writing'[u].loop
  <2> SUFFICES ASSUME NEW u \in Writers, NEW v \in Writers, ~writing'[u].live, writing'[u].loop # 0
               PROVE  r[v] # writing'[u].loop
    OBVIOUS
  <2>1. CASE u = w
    BY <1>2, <1>4, <2>1
  <2>2. CASE u # w
    <3>1. writing'[u] = writing[u] /\ running[v] # writing[u].loop /\ running[w] # writing[u].loop
      BY <1>3, <2>2 DEF JournalInv, OneWriter
    <3> QED BY <2>2, <3>1
  <2> QED BY <2>1, <2>2
<1>9. OneWriter'
  BY <1>7, <1>8 DEF OneWriter
<1>10. EndedStays'
  BY <1>1, WritesKnown DEF JournalInv, EndedStays
<1> QED BY <1>5, <1>6, <1>9, <1>10 DEF JournalInv

LEMMA FillKeeps == ASSUME JournalInv, NEW w \in Writers, FillFile(w) PROVE JournalInv'
<1> DEFINE c == writing[w]
<1>1. c \in WriteStates /\ c.loop \in Numbers /\ c.live \in BOOLEAN
  BY WritesKnown DEF JournalInv, JournalTypes
<1>2. /\ disk' \in {c, Torn} /\ writing' = [writing EXCEPT ![w] = Nothing] /\ UNCHANGED <<running, loops>>
      /\ ended' = IF c.loop # 0 /\ ~c.live THEN ended \cup {c.loop} ELSE ended
  BY DEF FillFile, Progress
<1>3. ended' \subseteq LoopIds /\ \A l \in ended' : l <= loops
  BY <1>1, <1>2, LoopNumbers DEF JournalInv, JournalTypes, LoopsBegun
<1>4. /\ writing'[w] = Nothing /\ \A v \in Writers : v # w => writing'[v] = writing[v]
      /\ writing' \in [Writers -> WriteStates]
  BY <1>2, WritesKnown DEF JournalInv, JournalTypes
<1>5. JournalTypes'
  BY <1>1, <1>2, <1>3, <1>4, WritesKnown DEF JournalInv, JournalTypes
<1>6. LoopsBegun'
  <2>1. 0 <= loops
    BY DEF JournalInv, JournalTypes
  <2> QED BY <1>2, <1>3, <1>4, <2>1, WritesKnown DEF JournalInv, LoopsBegun
<1>7. OneWriter'
  BY <1>2, <1>4, WritesKnown DEF JournalInv, OneWriter
<1>8. EndedStays'
  <2>1. \A v \in Writers : running[v] # 0 => running[v] \notin ended'
    BY <1>2 DEF JournalInv, EndedStays, OneWriter
  <2>2. ASSUME disk'.live PROVE disk'.loop \notin ended'
    <3>1. disk' = c /\ c.live
      BY <1>2, <2>2, WritesKnown
    <3>2. c.loop = running[w] /\ running[w] # 0
      BY <3>1 DEF JournalInv, OneWriter
    <3> QED BY <2>1, <3>1, <3>2
  <2> QED BY <1>2, <2>1, <2>2 DEF EndedStays
<1> QED BY <1>5, <1>6, <1>7, <1>8 DEF JournalInv

LEMMA FillFailKeeps == ASSUME JournalInv, NEW w \in Writers, FillFails(w) PROVE JournalInv'
<1>1. disk' = Torn /\ writing' = [writing EXCEPT ![w] = Nothing] /\ UNCHANGED <<running, loops, ended>>
  BY DEF FillFails, Progress
<1>2. /\ writing'[w] = Nothing /\ \A v \in Writers : v # w => writing'[v] = writing[v]
      /\ writing' \in [Writers -> WriteStates]
  BY <1>1, WritesKnown DEF JournalInv, JournalTypes
<1>3. JournalTypes'
  BY <1>1, <1>2, WritesKnown DEF JournalInv, JournalTypes
<1>4. LoopsBegun'
  <2>1. 0 <= loops
    BY DEF JournalInv, JournalTypes
  <2> QED BY <1>1, <1>2, <2>1, WritesKnown DEF JournalInv, LoopsBegun
<1>5. OneWriter'
  BY <1>1, <1>2, WritesKnown DEF JournalInv, OneWriter
<1>6. EndedStays'
  BY <1>1, WritesKnown DEF JournalInv, EndedStays
<1> QED BY <1>3, <1>4, <1>5, <1>6 DEF JournalInv

LEMMA EnterKeeps == ASSUME JournalInv, NEW w \in Writers, EnterLoop(w) PROVE JournalInv'
<1>1. PICK n : n = loops + 1
  OBVIOUS
<1>2. /\ Free(w) /\ running[w] = 0 /\ loops < MaxLoops /\ loops' = n /\ running' = [running EXCEPT ![w] = n]
      /\ Opens(w, Journal(running'[w], TRUE)) /\ UNCHANGED ended
  BY <1>1 DEF EnterLoop, SaveJournal
<1>3. loops \in Nat /\ running \in [Writers -> Numbers]
  BY DEF JournalInv, JournalTypes
<1>4. n \in LoopIds /\ n \in Nat /\ n # 0 /\ n \in Numbers /\ loops <= n /\ n <= n /\ \A m \in Nat : m <= loops => m <= n /\ m # n
  BY <1>1, <1>2, <1>3, LoopNumbers
<1> DEFINE r == [running EXCEPT ![w] = n]
           c == Journal(n, TRUE)
<1>5. r \in [Writers -> Numbers] /\ r[w] = n /\ \A v \in Writers : v # w => r[v] = running[v]
  BY <1>3, <1>4
<1>6. c \in WriteStates /\ c.loop = n /\ c.live /\ Opens(w, c) /\ running' = r
  BY <1>2, <1>4, <1>5, WritesKnown
<1> HIDE DEF r, c
<1>7. \A v \in Writers : running[v] \in Nat /\ running[v] <= loops /\ writing[v].loop \in Nat /\ writing[v].loop <= loops
  BY <1>3, WritesKnown, LoopNumbers DEF JournalInv, JournalTypes, LoopsBegun
<1>8. \A l \in ended : l \in Nat /\ l <= loops
  BY LoopNumbers DEF JournalInv, JournalTypes, LoopsBegun
<1>9. \A v \in Writers : r[v] <= n
  BY <1>4, <1>5, <1>7
<1>10. \A u, v \in Writers : r[u] = r[v] /\ r[u] # 0 => u = v
  BY <1>4, <1>5, <1>7 DEF JournalInv, OneWriter
<1>11. \A v \in Writers : r[v] # 0 => r[v] \notin ended
  BY <1>4, <1>5, <1>8 DEF JournalInv, EndedStays
<1>12. \A v \in Writers : writing[v].loop # r[w]
  BY <1>4, <1>5, <1>7
<1> QED BY <1>2, <1>4, <1>5, <1>6, <1>9, <1>10, <1>11, <1>12, SaveOpened

\* The loops of the writers as they are, or without that of w.
LEMMA LeavesLoop ==
  ASSUME JournalInv, NEW w \in Writers
  PROVE  /\ running \in [Writers -> Numbers] /\ loops \in Nat /\ loops <= loops
         /\ LET r == [running EXCEPT ![w] = 0]
            IN /\ r \in [Writers -> Numbers] /\ r[w] = 0 /\ \A v \in Writers : v # w => r[v] = running[v]
               /\ \A v \in Writers : r[v] <= loops
               /\ \A u, v \in Writers : r[u] = r[v] /\ r[u] # 0 => u = v
               /\ \A v \in Writers : r[v] # 0 => r[v] \notin ended
               /\ running[w] # 0 => \A v \in Writers : r[v] # running[w]
<1>1. running \in [Writers -> Numbers] /\ loops \in Nat
  BY DEF JournalInv, JournalTypes
<1>2. 0 \in Numbers /\ 0 <= loops
  BY <1>1, LoopNumbers
<1> QED BY <1>1, <1>2 DEF JournalInv, LoopsBegun, OneWriter, EndedStays

LEMMA IterateKeeps == ASSUME JournalInv, NEW w \in Writers, Iterate(w) PROVE JournalInv'
<1>1. PICK c : c = Journal(running[w], TRUE)
  OBVIOUS
<1>2. Free(w) /\ running[w] # 0 /\ Opens(w, c) /\ running' = running /\ loops' = loops /\ UNCHANGED ended
  BY <1>1 DEF Iterate, SaveJournal
<1>3. c \in WriteStates /\ c.loop = running[w] /\ c.live /\ c.loop <= loops
  BY <1>1, WritesKnown DEF JournalInv, JournalTypes, LoopsBegun
<1> QED BY <1>2, <1>3, LeavesLoop, SaveOpened DEF JournalInv, LoopsBegun, OneWriter, EndedStays

LEMMA LeaveKeeps == ASSUME JournalInv, NEW w \in Writers, LeaveLoop(w) PROVE JournalInv'
<1>1. PICK c, r : c = Journal(running[w], FALSE) /\ r = [running EXCEPT ![w] = 0]
  OBVIOUS
<1>2. Free(w) /\ running[w] # 0 /\ Opens(w, c) /\ running' = r /\ loops' = loops /\ UNCHANGED ended
  BY <1>1 DEF LeaveLoop, Progress
<1>3. c \in WriteStates /\ c.loop = running[w] /\ ~c.live /\ c.loop <= loops
  BY <1>1, WritesKnown DEF JournalInv, JournalTypes, LoopsBegun
<1>4. /\ r \in [Writers -> Numbers] /\ r[w] = 0 /\ loops \in Nat /\ loops <= loops
      /\ \A v \in Writers : v # w => r[v] = running[v]
      /\ \A v \in Writers : r[v] <= loops
      /\ \A u, v \in Writers : r[u] = r[v] /\ r[u] # 0 => u = v
      /\ \A v \in Writers : r[v] # 0 => r[v] \notin ended
      /\ \A v \in Writers : r[v] # c.loop
  BY <1>1, <1>2, <1>3, LeavesLoop
<1> QED BY <1>2, <1>3, <1>4, SaveOpened

\* A checkpoint of a session that runs no loop.
LEMMA BareKeeps ==
  ASSUME JournalInv, Free("session"), Opens("session", Bare), UNCHANGED <<running, loops, ended>>
  PROVE  JournalInv'
<1>1. "session" \in Writers
  BY DEF Writers
<1>2. Bare \in WriteStates /\ Bare.loop = 0 /\ ~Bare.live
  BY WritesKnown, LoopNumbers DEF Bare
<1>3. 0 <= loops
  BY DEF JournalInv, JournalTypes
<1> QED BY <1>1, <1>2, <1>3, LeavesLoop, SaveOpened DEF JournalInv, LoopsBegun, OneWriter, EndedStays

\* Some processes end: their loops and their writes are gone.
LEMMA GoneKeeps ==
  ASSUME JournalInv, NEW gone, UNCHANGED <<disk, loops, ended>>,
         running' = [w \in Writers |-> IF w \in gone THEN 0 ELSE running[w]],
         writing' = [w \in Writers |-> IF w \in gone THEN Nothing ELSE writing[w]]
  PROVE  JournalInv'
<1>1. JournalTypes'
  BY WritesKnown, LoopNumbers DEF JournalInv, JournalTypes
<1>2. LoopsBegun'
  <2>1. 0 <= loops
    BY DEF JournalInv, JournalTypes
  <2> QED BY <2>1, WritesKnown DEF JournalInv, LoopsBegun
<1>3. OneWriter'
  BY WritesKnown DEF JournalInv, OneWriter
<1>4. EndedStays'
  BY DEF JournalInv, EndedStays
<1> QED BY <1>1, <1>2, <1>3, <1>4 DEF JournalInv

LEMMA JournalStep == JournalInv /\ [JournalNext]_journalVars => JournalInv'
<1> SUFFICES ASSUME JournalInv, [JournalNext]_journalVars PROVE JournalInv'
  OBVIOUS
<1>1. ASSUME UNCHANGED <<writing, running, loops, ended>>, disk' \in {disk, Nothing} PROVE JournalInv'
  BY <1>1, WritesKnown DEF JournalInv, JournalTypes, LoopsBegun, OneWriter, EndedStays
<1>2. CASE StartSession \/ AnswerResume \/ StartTurn \/ CheckpointClear \/ CheckpointResume \/ CheckpointSwitch
  BY <1>1, <1>2 DEF StartSession, AnswerResume, StartTurn, CheckpointClear, CheckpointResume, CheckpointSwitch, Progress
<1>3. CASE EndTurn
  BY <1>1, <1>3, BareKeeps DEF EndTurn, Progress
<1>4. CASE CheckpointSave
  BY <1>4, BareKeeps DEF CheckpointSave, Ready
<1>5. CASE EndSession
  BY <1>5, GoneKeeps, Zenon DEF EndSession
<1>6. CASE PromptDies
  <2>1. PICK w \in Prompts : running' = [running EXCEPT ![w] = 0] /\ writing' = [writing EXCEPT ![w] = Nothing]
    BY <1>6 DEF PromptDies
  <2>2. UNCHANGED <<disk, loops, ended>>
    BY <1>6 DEF PromptDies
  <2>3. /\ running' = [v \in Writers |-> IF v \in {w} THEN 0 ELSE running[v]]
        /\ writing' = [v \in Writers |-> IF v \in {w} THEN Nothing ELSE writing[v]]
    BY <2>1 DEF JournalInv, JournalTypes, Writers
  <2> QED BY <2>2, <2>3, GoneKeeps
<1>7. CASE UNCHANGED journalVars
  BY <1>1, <1>7 DEF journalVars
<1> QED BY <1>2, <1>3, <1>4, <1>5, <1>6, <1>7, FillKeeps, FillFailKeeps, EnterKeeps, IterateKeeps, LeaveKeeps DEF JournalNext

\* A loop whose last save succeeded is never offered again, for any number of helpers,
\* loops and crashes: README.md, "a cleanly-finished loop never triggers the resume prompt
\* on the next launch".
THEOREM FinishedStays == JournalSpec => FinishedNotOffered
<1>1. JournalInv /\ [JournalNext]_journalVars => [at = "down" /\ at' = "asking" => found'.loop \notin ended]_journalVars
  <2> SUFFICES ASSUME JournalInv, JournalNext, at = "down", at' = "asking" PROVE found'.loop \notin ended
    OBVIOUS
  <2>1. StartSession
    BY DEF JournalNext, FillFile, FillFails, EnterLoop, Iterate, LeaveLoop, AnswerResume, StartTurn, EndTurn, CheckpointSave,
           CheckpointClear, CheckpointResume, CheckpointSwitch, Ready, EndSession, PromptDies
  <2>2. found' = disk /\ disk.live
    BY <2>1 DEF StartSession, Live
  <2> QED BY <2>2 DEF JournalInv, EndedStays
<1> QED BY <1>1, JournalBegin, JournalStep, PTL DEF JournalSpec, FinishedNotOffered

\* What VoiceInv leaves open: what is remembered of the last session and of the last call.
VoiceRest ==
  /\ voice_open \in BOOLEAN /\ voice_fresh \in BOOLEAN /\ (voice_last = NoVoice \/ voice_last \in VoiceConfig)
  /\ voice_result \in {"none", "heard", "silence", "waited", "error", "said", "muted"}

\* A variable of the environment has no value that a configuration could not have.
LEMMA VariablesTyped ==
  ASSUME NEW env \in Environment
  PROVE  \A f \in DOMAIN Unset : env[f] \in {"unset"} \cup {c[f] : c \in VoiceConfig}
<1> DEFINE d(mode, engine, mute, ptt, trigger, hotkey, fallback, soft) ==
             [mode |-> mode, engine |-> engine, mute |-> mute, ptt |-> ptt, trigger |-> trigger,
              hotkey |-> hotkey, fallback |-> fallback, soft |-> soft]
<1>1. \A engine \in {"auto", "local"}, ptt, fallback, soft \in Switch, trigger \in Triggers, hotkey \in Hotkeys \cup {"?"} :
        d("off", engine, "off", ptt, trigger, hotkey, fallback, soft) \in VoiceConfig
  BY DEF VoiceConfig, Switch, Engines
<1>2. DOMAIN Unset = {"mode", "engine", "mute", "ptt", "trigger", "hotkey", "fallback", "soft"}
  BY DEF Unset, DefaultVoice
<1>3. "." \in Triggers /\ "on" \in Switch /\ "F8" \in Hotkeys \cup {"?"}
  BY VoiceBounds DEF Switch, Hotkeys
<1>4. env.mode = "unset" /\ env.mute = "unset" /\ env.engine \in {"unset", "auto"}
  BY DEF Environment
<1>5. env.engine \in {"unset"} \cup {c["engine"] : c \in VoiceConfig}
  <2>1. d("off", "auto", "off", "on", ".", "F8", "on", "on") \in VoiceConfig
    BY <1>1, <1>3
  <2>2. d("off", "auto", "off", "on", ".", "F8", "on", "on")["engine"] = "auto"
    OBVIOUS
  <2> HIDE DEF d
  <2> QED BY <1>4, <2>1, <2>2
<1>6. env.ptt \in {"unset"} \cup {c["ptt"] : c \in VoiceConfig}
  <2>1. \A x \in Switch : d("off", "auto", "off", x, ".", "F8", "on", "on") \in VoiceConfig
    BY <1>1, <1>3
  <2>2. \A x : d("off", "auto", "off", x, ".", "F8", "on", "on")["ptt"] = x
    OBVIOUS
  <2>3. env.ptt \in Switch \cup {"unset"}
    BY DEF Environment
  <2> HIDE DEF d
  <2> QED BY <2>1, <2>2, <2>3
<1>7. env.trigger \in {"unset"} \cup {c["trigger"] : c \in VoiceConfig}
  <2>1. \A x \in Triggers : d("off", "auto", "off", "on", x, "F8", "on", "on") \in VoiceConfig
    BY <1>1, <1>3
  <2>2. \A x : d("off", "auto", "off", "on", x, "F8", "on", "on")["trigger"] = x
    OBVIOUS
  <2>3. env.trigger \in Triggers \cup {"unset"}
    BY DEF Environment
  <2> HIDE DEF d
  <2> QED BY <2>1, <2>2, <2>3
<1>8. env.hotkey \in {"unset"} \cup {c["hotkey"] : c \in VoiceConfig}
  <2>1. \A x \in Hotkeys \cup {"?"} : d("off", "auto", "off", "on", ".", x, "on", "on") \in VoiceConfig
    BY <1>1, <1>3
  <2>2. \A x : d("off", "auto", "off", "on", ".", x, "on", "on")["hotkey"] = x
    OBVIOUS
  <2>3. env.hotkey \in Hotkeys \cup {"?", "unset"}
    BY DEF Environment
  <2> HIDE DEF d
  <2> QED BY <2>1, <2>2, <2>3
<1>9. env.fallback \in {"unset"} \cup {c["fallback"] : c \in VoiceConfig}
  <2>1. \A x \in Switch : d("off", "auto", "off", "on", ".", "F8", x, "on") \in VoiceConfig
    BY <1>1, <1>3
  <2>2. \A x : d("off", "auto", "off", "on", ".", "F8", x, "on")["fallback"] = x
    OBVIOUS
  <2>3. env.fallback \in Switch \cup {"unset"}
    BY DEF Environment
  <2> HIDE DEF d
  <2> QED BY <2>1, <2>2, <2>3
<1>10. env.soft \in {"unset"} \cup {c["soft"] : c \in VoiceConfig}
  <2>1. \A x \in Switch : d("off", "auto", "off", "on", ".", "F8", "on", x) \in VoiceConfig
    BY <1>1, <1>3
  <2>2. \A x : d("off", "auto", "off", "on", ".", "F8", "on", x)["soft"] = x
    OBVIOUS
  <2>3. env.soft \in Switch \cup {"unset"}
    BY DEF Environment
  <2> HIDE DEF d
  <2> QED BY <2>1, <2>2, <2>3
<1> HIDE DEF d
<1> QED BY <1>2, <1>4, <1>5, <1>6, <1>7, <1>8, <1>9, <1>10

LEMMA VoiceRestKeeps == ASSUME VoiceInv, VoiceRest, [VoiceNext]_voiceVars PROVE VoiceRest'
<1>1. CASE StartVoice
  <2>1. voice_fresh' \in BOOLEAN
    <3>1. \E b : voice_fresh' = (b /\ voice_able)
      BY <1>1 DEF StartVoice
    <3> QED BY <3>1
  <2> QED BY <1>1, <2>1 DEF StartVoice, VoiceRest
<1>2. CASE ExitVoice
  <2>1. InEffect \in VoiceConfig
    BY <1>2, SyncedIsInEffect DEF ExitVoice, InEffect, VoiceInv, VoiceTypes
  <2> QED BY <1>2, <2>1 DEF ExitVoice, VoiceRest
<1>3. CASE SwitchVoice \/ SetVoice \/ SetEngine \/ SetHotkey \/ ShowVoice
  <2>1. VoiceCommand /\ Remembered
    BY <1>3 DEF SwitchVoice, SetVoice, SetEngine, SetHotkey, ShowVoice
  <2> QED BY <2>1 DEF VoiceCommand, Remembered, VoiceRest
<1>4. CASE ConfigVoice \/ SaveVoice
  <2>1. VoiceCommand /\ Persisted
    BY <1>4 DEF ConfigVoice, SaveVoice
  <2> QED BY <2>1 DEF VoiceCommand, Persisted, VoiceRest
<1>5. CASE SaveOther
  BY <1>5 DEF SaveOther, VoiceCommand, VoiceRest
<1>6. ASSUME NEW outcomes, outcomes \subseteq {"heard", "silence", "waited", "error", "said", "muted"}, Listened(outcomes)
      PROVE  VoiceRest'
  BY <1>6 DEF Listened, VoiceRest
<1>7. CASE ListenNow \/ ListenTrigger \/ ListenBlank \/ ListenHotkey
  BY <1>6, <1>7 DEF ListenNow, ListenTrigger, ListenBlank, ListenHotkey, Heard
<1>8. CASE TestVoice \/ SpeakReply
  <2>1. Speeches \subseteq {"said", "error"}
    BY DEF Speeches
  <2>2. Listened(Speeches) \/ Listened({"muted"})
    BY <1>8 DEF TestVoice, SpeakReply
  <2> QED BY <1>6, <2>1, <2>2
<1>9. CASE UNCHANGED voiceVars
  BY <1>9 DEF voiceVars, VoiceRest
<1> QED BY <1>1, <1>2, <1>3, <1>4, <1>5, <1>7, <1>8, <1>9 DEF VoiceNext

\* What the session, the environment and the file hold of the voice are settings, after any
\* commands and sessions.
THEOREM VoiceTyped == VoiceSpec => []VoiceTypeOK
<1>1. VoiceInit => VoiceInv /\ VoiceRest
  BY VoiceBegin DEF VoiceInit, VoiceRest
<1>2. VoiceInv /\ [VoiceNext]_voiceVars => VoiceInv'
  BY VoiceStep
<1>3. VoiceInv /\ VoiceRest /\ [VoiceNext]_voiceVars => VoiceRest'
  BY VoiceRestKeeps
<1>4. VoiceInv /\ VoiceRest => VoiceTypeOK
  BY VariablesTyped DEF VoiceInv, VoiceTypes, VoiceRest, VoiceTypeOK, Settled
<1> QED BY <1>1, <1>2, <1>3, <1>4, PTL DEF VoiceSpec

\* The calls sent and those heard are as many, whatever is lost.
THEOREM StreamsTyped == StreamsSpec => []StreamsTypeOK
<1>1. StreamsInv => StreamsTypeOK
  BY DEF StreamsInv, StreamTypes, StreamsTypeOK, SentCalls, HeardCalls
<1> QED BY <1>1, StreamsBegin, StreamsStep, PTL DEF StreamsSpec

------------------------------------------------------------------------------
(* LoopJournal: what a checkpoint may hold *)

\* A save that says a loop runs names the loop.
LiveNamed == loops \in 0..MaxLoops /\ \A w \in Writers : writing[w].live => writing[w].loop # 0

JournalTyped == JournalTypeOK /\ LiveNamed

LEMMA CheckpointsTyped ==
  /\ Bare \in Checkpoints /\ Bare.loop = 0 /\ ~Bare.live
  /\ ~Nothing.live /\ Nothing.loop = 0 /\ Torn.live = FALSE
  /\ \A l \in {0} \cup LoopIds, live \in BOOLEAN :
       Journal(l, live) \in Checkpoints /\ Journal(l, live).loop = l /\ Journal(l, live).live = live
  /\ \A c \in Checkpoints \cup {Nothing} : c.loop \in {0} \cup LoopIds /\ c.live \in BOOLEAN
<1>1. \A l \in {0} \cup LoopIds, live \in BOOLEAN :
        Journal(l, live) \in Checkpoints /\ Journal(l, live).loop = l /\ Journal(l, live).live = live
  BY DEF Journal, Content, Checkpoints
<1>2. \A c \in Checkpoints : c.loop \in {0} \cup LoopIds /\ c.live \in BOOLEAN
  BY DEF Journal, Content, Checkpoints
<1>3. Nothing.loop = 0 /\ Nothing.live = FALSE /\ Torn.live = FALSE
  BY DEF Nothing, Torn, Content
<1> QED BY <1>1, <1>2, <1>3 DEF Bare

\* A write that opens, of a checkpoint that names the loop if it says that one runs.
LEMMA OpenTyped ==
  ASSUME JournalTyped, NEW w \in Writers, NEW c \in Checkpoints, c.live => c.loop # 0, Opens(w, c)
  PROVE  /\ disk' \in Checkpoints \cup {Nothing, Torn}
         /\ writing' \in [Writers -> Checkpoints \cup {Nothing}]
         /\ \A v \in Writers : writing'[v].live => writing'[v].loop # 0
BY DEF Opens, JournalTyped, LiveNamed, JournalTypeOK

LEMMA JournalTypedStep == JournalTyped /\ [JournalNext]_journalVars => JournalTyped'
<1> SUFFICES ASSUME JournalTyped, [JournalNext]_journalVars PROVE JournalTyped'
  OBVIOUS
<1>1. "session" \in Writers
  BY DEF Writers
<1>10. ASSUME NEW w \in Writers, FillFails(w) PROVE JournalTyped'
  <2>1. disk' \in Checkpoints \cup {Nothing, Torn} /\ crossed' \subseteq Writers
    BY <1>10 DEF FillFails, JournalTyped, JournalTypeOK
  <2>2. /\ writing' \in [Writers -> Checkpoints \cup {Nothing}]
        /\ \A v \in Writers : writing'[v].live => writing'[v].loop # 0
    BY <1>10, CheckpointsTyped DEF FillFails, JournalTyped, LiveNamed, JournalTypeOK
  <2> QED BY <1>10, <2>1, <2>2 DEF FillFails, Progress, JournalTyped, LiveNamed, JournalTypeOK
<1>2. ASSUME NEW w \in Writers, FillFile(w) PROVE JournalTyped'
  <2>1. writing[w] \in Checkpoints \cup {Nothing}
    BY DEF JournalTyped, JournalTypeOK
  <2>2. writing[w].loop \in {0} \cup LoopIds /\ (writing[w].live => writing[w].loop # 0)
    BY <2>1, CheckpointsTyped DEF JournalTyped, LiveNamed
  <2>3. kept' \subseteq LoopIds /\ ended' \subseteq LoopIds
    BY <1>2, <2>2 DEF FillFile, JournalTyped, JournalTypeOK
  <2>4. disk' \in Checkpoints \cup {Nothing, Torn} /\ crossed' \subseteq Writers
    BY <1>2, <2>1 DEF FillFile, JournalTyped, JournalTypeOK
  <2>5. /\ writing' \in [Writers -> Checkpoints \cup {Nothing}]
        /\ \A v \in Writers : writing'[v].live => writing'[v].loop # 0
    BY <1>2, CheckpointsTyped DEF FillFile, JournalTyped, LiveNamed, JournalTypeOK
  <2> QED BY <1>2, <2>3, <2>4, <2>5 DEF FillFile, Progress, JournalTyped, LiveNamed, JournalTypeOK
<1>3. ASSUME NEW w \in Writers, EnterLoop(w) PROVE JournalTyped'
  <2>1. loops + 1 \in LoopIds /\ loops' = loops + 1 /\ loops' \in 0..MaxLoops /\ loops + 1 # 0
    BY <1>3, JournalBounds DEF EnterLoop, LoopIds, JournalTyped, LiveNamed
  <2>2. running' = [running EXCEPT ![w] = loops + 1] /\ Opens(w, Journal(running'[w], TRUE))
    BY <1>3 DEF EnterLoop, SaveJournal
  <2>3. running' \in [Writers -> {0} \cup LoopIds] /\ running'[w] = loops + 1
    BY <2>1, <2>2 DEF JournalTyped, JournalTypeOK
  <2>4. PICK c \in Checkpoints : c = Journal(loops + 1, TRUE) /\ c.loop # 0
    BY <2>1, CheckpointsTyped
  <2>5. Opens(w, c)
    BY <2>2, <2>3, <2>4
  <2>6. /\ disk' \in Checkpoints \cup {Nothing, Torn} /\ writing' \in [Writers -> Checkpoints \cup {Nothing}]
        /\ \A v \in Writers : writing'[v].live => writing'[v].loop # 0
    BY <2>4, <2>5, OpenTyped
  <2>7. at' \in {"down", "asking", "ready", "turn", "loop"}
    BY <1>3 DEF EnterLoop, JournalTyped, JournalTypeOK
  <2> QED BY <1>3, <2>1, <2>3, <2>6, <2>7 DEF EnterLoop, JournalTyped, LiveNamed, JournalTypeOK
<1>4. ASSUME NEW w \in Writers, Iterate(w) \/ LeaveLoop(w) PROVE JournalTyped'
  <2>1. PICK live \in BOOLEAN : Opens(w, Journal(running[w], live)) /\ running[w] # 0
    BY <1>4 DEF Iterate, LeaveLoop, SaveJournal
  <2>2. running[w] \in {0} \cup LoopIds
    BY DEF JournalTyped, JournalTypeOK
  <2>3. PICK c \in Checkpoints : c = Journal(running[w], live) /\ c.loop # 0
    BY <2>1, <2>2, CheckpointsTyped
  <2>4. /\ disk' \in Checkpoints \cup {Nothing, Torn} /\ writing' \in [Writers -> Checkpoints \cup {Nothing}]
        /\ \A v \in Writers : writing'[v].live => writing'[v].loop # 0
    BY <2>1, <2>3, OpenTyped
  <2>5. running' \in [Writers -> {0} \cup LoopIds] /\ at' \in {"down", "asking", "ready", "turn", "loop"} /\ loops' = loops
    BY <1>4 DEF Iterate, LeaveLoop, Progress, JournalTyped, JournalTypeOK
  <2> QED BY <1>4, <2>4, <2>5 DEF Iterate, LeaveLoop, JournalTyped, LiveNamed, JournalTypeOK
<1>5. CASE StartSession \/ AnswerResume \/ StartTurn \/ CheckpointClear \/ CheckpointResume \/ CheckpointSwitch
  <2>1. disk' \in {disk, Nothing} /\ UNCHANGED <<writing, crossed, running, kept, ended, loops>>
    BY <1>5 DEF StartSession, AnswerResume, StartTurn, CheckpointClear, CheckpointResume, CheckpointSwitch, Progress
  <2>2. at' \in {at, "asking", "ready", "turn"} /\ found' \in {found, disk} /\ broken' \in {broken, 0}
    BY <1>5 DEF StartSession, AnswerResume, StartTurn, CheckpointClear, CheckpointResume, CheckpointSwitch, Ready
  <2>3. disk.live \in BOOLEAN
    <3>1. disk \in Checkpoints \cup {Nothing} \/ disk = Torn
      BY DEF JournalTyped, JournalTypeOK
    <3> QED BY <3>1, CheckpointsTyped
  <2>4. resumes' \in BOOLEAN /\ automatic' \in BOOLEAN
    BY <1>5, <2>3 DEF StartSession, AnswerResume, StartTurn, CheckpointClear, CheckpointResume, CheckpointSwitch,
                     Live, JournalTyped, JournalTypeOK
  <2> QED BY <2>1, <2>2, <2>4 DEF JournalTyped, LiveNamed, JournalTypeOK
<1>6. CASE EndTurn \/ CheckpointSave
  <2>1. Opens("session", Bare) \/ UNCHANGED <<disk, writing>>
    BY <1>6 DEF EndTurn, CheckpointSave
  <2>2. /\ disk' \in Checkpoints \cup {Nothing, Torn} /\ writing' \in [Writers -> Checkpoints \cup {Nothing}]
        /\ \A v \in Writers : writing'[v].live => writing'[v].loop # 0
    BY <1>1, <2>1, CheckpointsTyped, OpenTyped DEF JournalTyped, LiveNamed, JournalTypeOK
  <2>3. UNCHANGED <<crossed, running, found, automatic, kept, ended, loops, resumes>> /\ at' \in {at, "ready"} /\ broken' \in {broken, 0}
    BY <1>6 DEF EndTurn, CheckpointSave, Ready, Progress
  <2> QED BY <2>2, <2>3 DEF JournalTyped, LiveNamed, JournalTypeOK
<1>7. CASE EndSession
  <2>1. /\ writing' = [w \in Writers |-> IF w \in {"session"} \cup Threads THEN Nothing ELSE writing[w]]
        /\ running' = [w \in Writers |-> IF w \in {"session"} \cup Threads THEN 0 ELSE running[w]]
    BY <1>7 DEF EndSession
  <2>2. /\ writing' \in [Writers -> Checkpoints \cup {Nothing}]
        /\ \A v \in Writers : writing'[v].live => writing'[v].loop # 0
    BY <2>1, CheckpointsTyped DEF JournalTyped, LiveNamed, JournalTypeOK
  <2>3. running' \in [Writers -> {0} \cup LoopIds] /\ broken' \in {0} \cup LoopIds
    BY <1>1, <1>7, <2>1 DEF EndSession, JournalTyped, JournalTypeOK
  <2> QED BY <1>7, <2>2, <2>3 DEF EndSession, JournalTyped, LiveNamed, JournalTypeOK
<1>8. CASE PromptDies
  <2>1. PICK w \in Writers : running' = [running EXCEPT ![w] = 0] /\ writing' = [writing EXCEPT ![w] = Nothing] /\ crossed' = crossed \ {w}
    BY <1>8 DEF PromptDies, Writers
  <2>2. /\ writing' \in [Writers -> Checkpoints \cup {Nothing}]
        /\ \A v \in Writers : writing'[v].live => writing'[v].loop # 0
    BY <2>1, CheckpointsTyped DEF JournalTyped, LiveNamed, JournalTypeOK
  <2> QED BY <1>8, <2>1, <2>2 DEF PromptDies, JournalTyped, LiveNamed, JournalTypeOK
<1>9. CASE UNCHANGED journalVars
  BY <1>9 DEF journalVars, JournalTyped, LiveNamed, JournalTypeOK
<1> QED BY <1>2, <1>3, <1>4, <1>5, <1>6, <1>7, <1>8, <1>9, <1>10 DEF JournalNext

\* The file holds a checkpoint, none or one that was cut, and the loops saved as running
\* or ended are loops that were begun: a save that says a loop runs names it.
THEOREM JournalTypeCorrect == JournalSpec => []JournalTypeOK
<1>1. JournalInit => JournalTyped
  <2>1. 0 \in 0..MaxLoops
    BY JournalBounds
  <2> QED BY <2>1, CheckpointsTyped DEF JournalInit, JournalTyped, LiveNamed, JournalTypeOK
<1>2. JournalTyped => JournalTypeOK
  BY DEF JournalTyped
<1> QED BY <1>1, <1>2, JournalTypedStep, PTL DEF JournalSpec

------------------------------------------------------------------------------
(* Gateway: one request at a time is between the load and the save of a turn *)

GatewaySpec == GatewayInit /\ [][GatewayNext]_gatewayVars

Turn == 1..MaxHttpRequests
SessionFile == Seq(0..MaxHttpRequests)
AnswersOf == Seq(Turn)
Inside == {"locked", "loaded", "replied"}
Stands == {"none", "waiting", "locked", "loaded", "replied"}
RequestKinds == {"none", "create", "turn", "read"}
Requests == [at : Stands, what : RequestKinds, name : Nat, turn : Nat, loaded : SessionFile]

\* GatewayTypeOK, with the request field by field.
GatewayTypes ==
  /\ sessions \in [Names -> SessionFile] /\ kept_turns \in [Names -> AnswersOf]
  /\ names \subseteq Names /\ cut_files \subseteq Names
  /\ holder \subseteq Clients /\ poisoned \in BOOLEAN
  /\ turns \in 0..MaxHttpRequests /\ http_faults \in 0..MaxHttpFaults
  /\ request \in [Clients -> Requests]

\* A request that came in names a session and has a number of its own.
Received ==
  \A c \in Clients : request[c].at # "none" => request[c].name \in Names /\ request[c].turn \in Turn

\* One request at a time is inside, and it is the one that has the lock.
Exclusive ==
  /\ \A c \in Clients : request[c].at \in Inside <=> c \in holder
  /\ \A c, d \in holder : c = d

\* Nothing is stored or was saved under a name that no session has.
StoredUnder == \A n \in Names : n \notin names => sessions[n] = Missing /\ kept_turns[n] = <<>>

\* What the request inside has loaded is still what the file holds, with its own
\* turn added once it has run: nothing was saved since.
LoadedIsStored ==
  \A c \in Clients :
    /\ request[c].at \in {"loaded", "replied"} => sessions[request[c].name] # Missing
    /\ request[c].at = "loaded" => request[c].loaded = sessions[request[c].name]
    /\ request[c].at = "replied" =>
         request[c].loaded = Append(sessions[request[c].name], request[c].turn)

GatewayInv == GatewayTypes /\ Received /\ Exclusive /\ StoredUnder /\ LoadedIsStored /\ TurnsKept

LEMMA GatewayTypesOK == GatewayTypes /\ Exclusive => GatewayTypeOK
BY DEF GatewayTypes, Exclusive, GatewayTypeOK, Requests, Stands, RequestKinds, Turn, Inside, SessionFile, AnswersOf

\* The files a session starts from.
LEMMA FirstFiles ==
  /\ Missing \in SessionFile /\ <<0>> \in SessionFile /\ <<0>> # Missing
  /\ <<>> \in AnswersOf /\ <<0>> \o <<>> = <<0>>
  /\ NoRequest \in Requests /\ NoRequest.at = "none"
<1>1. 0 \in 0..MaxHttpRequests
  BY GatewayBounds
<1>2. <<>> \in SessionFile /\ <<0>> \in SessionFile /\ <<0>> # <<>> /\ <<>> \in AnswersOf
  BY <1>1 DEF SessionFile, AnswersOf
<1>3. <<0>> \o <<>> = <<0>>
  BY <1>2, ConcatEmptySeq DEF SessionFile
<1> QED
  BY <1>2, <1>3 DEF Missing, NoRequest, Requests, Stands, RequestKinds

\* A file with its prompt alone has no turn.
LEMMA OnlyPrompt ==
  ASSUME NEW answers \in AnswersOf
  PROVE  <<0>> = <<0>> \o answers => answers = <<>>
<1>1. <<0>> \in Seq(Nat) /\ answers \in Seq(Nat)
  BY GatewayBounds DEF AnswersOf, Turn
<1>2. Len(<<0>> \o answers) = 1 + Len(answers) /\ Len(answers) \in Nat
  BY <1>1
<1> QED
  BY <1>1, <1>2

\* A turn added to the file of a session is one more saved turn.
LEMMA AppendTurn ==
  ASSUME NEW storedIn \in SessionFile, NEW answers \in AnswersOf, NEW turn \in Turn
  PROVE  /\ Append(storedIn, turn) \in SessionFile /\ Append(storedIn, turn) # Missing
         /\ Append(answers, turn) \in AnswersOf
         /\ Append(<<0>> \o answers, turn) = <<0>> \o Append(answers, turn)
<1> DEFINE left == Append(<<0>> \o answers, turn)
           right == <<0>> \o Append(answers, turn)
<1>1. turn \in 0..MaxHttpRequests
  BY GatewayBounds DEF Turn
<1>2. Append(storedIn, turn) \in SessionFile /\ Append(storedIn, turn) # Missing /\ Append(answers, turn) \in AnswersOf
  BY <1>1, AppendProperties DEF SessionFile, AnswersOf, Missing
<1>3. <<0>> \in Seq(Nat) /\ answers \in Seq(Nat) /\ turn \in Nat
  BY GatewayBounds DEF Turn, AnswersOf
<1>4. left \in Seq(Nat) /\ right \in Seq(Nat) /\ Len(left) = Len(right)
  BY <1>3
<1>5. \A i \in 1..Len(left) : left[i] = right[i]
  BY <1>3
<1>6. left = right
  BY <1>4, <1>5, SeqEqual
<1> QED
  BY <1>2, <1>6

LEMMA GatewayBegins == GatewayInit => GatewayInv
<1> SUFFICES ASSUME GatewayInit PROVE GatewayInv
  OBVIOUS
<1>1. GatewayTypes
  <2>0. 0 \in 0..MaxHttpFaults
    BY GatewayBounds
  <2>1. sessions \in [Names -> SessionFile]
    BY FirstFiles DEF GatewayInit
  <2>2. kept_turns \in [Names -> AnswersOf]
    BY FirstFiles DEF GatewayInit
  <2>3. request \in [Clients -> Requests]
    BY FirstFiles DEF GatewayInit
  <2>4. turns \in 0..MaxHttpRequests
    BY GatewayBounds DEF GatewayInit
  <2> QED
    BY <2>0, <2>1, <2>2, <2>3, <2>4 DEF GatewayInit, GatewayTypes
<1>2. Received /\ Exclusive /\ StoredUnder /\ LoadedIsStored /\ TurnsKept
  BY FirstFiles DEF GatewayInit, Received, Exclusive, StoredUnder, LoadedIsStored, TurnsKept, Inside
<1> QED
  BY <1>1, <1>2 DEF GatewayInv

\* A request that moves on stays what it is.
LEMMA Move ==
  ASSUME NEW r \in Requests, NEW stand \in Stands
  PROVE  LET moved == [r EXCEPT !.at = stand]
         IN /\ moved \in Requests /\ moved.at = stand
            /\ moved.name = r.name /\ moved.turn = r.turn /\ moved.loaded = r.loaded
BY DEF Requests

\* Every action replaces one request.
LEMMA OneRequest ==
  ASSUME GatewayTypes, NEW c \in Clients, NEW new \in Requests, request' = [request EXCEPT ![c] = new]
  PROVE  /\ request' \in [Clients -> Requests] /\ request'[c] = new
         /\ \A d \in Clients : d # c => request'[d] = request[d]
BY DEF GatewayTypes

\* A request that leaves, with the lock or before it came to it.
LEMMA LeaveLockKeeps ==
  ASSUME GatewayInv, NEW c \in Clients, Done(c), holder' = holder \ {c},
         UNCHANGED <<storeFiles, turns, http_faults>>, poisoned' \in BOOLEAN
  PROVE  GatewayInv'
<1> USE DEF GatewayInv, storeFiles
<1>1. /\ request' \in [Clients -> Requests] /\ request'[c].at = "none"
      /\ \A d \in Clients : d # c => request'[d] = request[d]
  BY FirstFiles, OneRequest DEF Done
<1>2. GatewayTypes'
  BY <1>1 DEF GatewayTypes
<1>3. Received' /\ StoredUnder' /\ LoadedIsStored' /\ TurnsKept'
  BY <1>1 DEF Received, StoredUnder, LoadedIsStored, TurnsKept
<1>4. Exclusive'
  BY <1>1 DEF Exclusive, Inside
<1> QED
  BY <1>2, <1>3, <1>4

\* The one inside is all there is of the lock.
LEMMA HolderIsOne ==
  ASSUME GatewayInv, NEW c \in Clients, request[c].at \in Inside
  PROVE  /\ holder = {c}
         /\ \A d \in Clients : d # c => request[d].at \notin Inside
BY DEF GatewayInv, Exclusive, GatewayTypes

\* The files of the sessions, in the invariant.
FilesInv ==
  /\ sessions \in [Names -> SessionFile] /\ kept_turns \in [Names -> AnswersOf]
  /\ names \subseteq Names /\ cut_files \subseteq Names
  /\ StoredUnder /\ TurnsKept

LEMMA NewFileKeeps ==
  ASSUME GatewayInv, NEW n \in Names, NewFile(n)
  PROVE  FilesInv'
<1> USE DEF GatewayInv
<1>1. kept_turns[n] = <<>>
  <2>1. CASE n \notin names
    BY <2>1 DEF StoredUnder
  <2>2. CASE sessions[n] = <<0>>
    <3>1. <<0>> = <<0>> \o kept_turns[n] /\ kept_turns[n] \in AnswersOf
      BY <2>2, FirstFiles DEF TurnsKept, StoredUnder, GatewayTypes
    <3> QED
      BY <3>1, OnlyPrompt
  <2> QED
    BY <2>1, <2>2 DEF NewFile, NewName
<1>2. sessions' \in [Names -> SessionFile] /\ sessions'[n] = <<0>>
      /\ \A m \in Names : m # n => sessions'[m] = sessions[m]
  BY FirstFiles DEF GatewayTypes, NewFile
<1> QED
  BY <1>1, <1>2, FirstFiles DEF GatewayTypes, StoredUnder, TurnsKept, FilesInv, NewFile

LEMMA CutFileKeeps ==
  ASSUME GatewayInv, NEW n \in Names, CutFile(n)
  PROVE  FilesInv'
<1> USE DEF GatewayInv
<1>1. sessions' \in [Names -> SessionFile] /\ sessions'[n] = Missing
      /\ \A m \in Names : m # n => sessions'[m] = sessions[m]
  BY FirstFiles DEF GatewayTypes, CutFile
<1> QED
  BY <1>1 DEF GatewayTypes, StoredUnder, TurnsKept, FilesInv, CutFile

LEMMA TurnFileKeeps ==
  ASSUME GatewayInv, NEW c \in Clients, request[c].at = "replied", TurnFile(c)
  PROVE  FilesInv'
<1> USE DEF GatewayInv
<1> DEFINE name == request[c].name
           turn == request[c].turn
<1>1. /\ name \in Names /\ turn \in Turn /\ sessions[name] \in SessionFile /\ kept_turns[name] \in AnswersOf
      /\ sessions[name] # Missing /\ sessions[name] = <<0>> \o kept_turns[name]
      /\ name \in names /\ request[c].loaded = Append(sessions[name], turn)
  BY DEF GatewayTypes, Received, LoadedIsStored, TurnsKept, StoredUnder
<1>2. /\ request[c].loaded \in SessionFile /\ request[c].loaded # Missing
      /\ Append(kept_turns[name], turn) \in AnswersOf
      /\ request[c].loaded = <<0>> \o Append(kept_turns[name], turn)
  BY <1>1, AppendTurn
<1>3. /\ sessions' \in [Names -> SessionFile] /\ sessions'[name] = request[c].loaded
      /\ \A m \in Names : m # name => sessions'[m] = sessions[m]
  BY <1>1, <1>2 DEF GatewayTypes, TurnFile
<1>4. /\ kept_turns' \in [Names -> AnswersOf] /\ kept_turns'[name] = Append(kept_turns[name], turn)
      /\ \A m \in Names : m # name => kept_turns'[m] = kept_turns[m]
  BY <1>1, <1>2 DEF GatewayTypes, TurnFile
<1>5. UNCHANGED <<names, cut_files>>
  BY DEF TurnFile
<1> HIDE DEF name, turn
<1> QED
  BY <1>1, <1>2, <1>3, <1>4, <1>5 DEF GatewayTypes, StoredUnder, TurnsKept, FilesInv

\* The request inside leaves after a write, of which only it had loaded the file.
LEMMA LeaveWritten ==
  ASSUME GatewayInv, NEW c \in Clients, request[c].at \in Inside, Release(c), FilesInv',
         UNCHANGED <<poisoned, turns>>, http_faults' \in 0..MaxHttpFaults
  PROVE  GatewayInv'
<1> USE DEF GatewayInv
<1>1. /\ request' \in [Clients -> Requests] /\ request'[c].at = "none"
      /\ \A d \in Clients : d # c => request'[d] = request[d] /\ request[d].at \notin Inside
  BY FirstFiles, OneRequest, HolderIsOne DEF Release, Done
<1>2. holder = {c} /\ holder' = {}
  BY HolderIsOne DEF Release
<1>3. GatewayTypes'
  BY <1>1, <1>2 DEF GatewayTypes, FilesInv
<1>4. Received' /\ Exclusive' /\ LoadedIsStored'
  BY <1>1, <1>2 DEF Received, Exclusive, LoadedIsStored, Inside
<1> QED
  BY <1>3, <1>4 DEF FilesInv

\* What the last write of the one that has the lock left is in order.
LEMMA LastWriteKeeps ==
  ASSUME GatewayInv, NEW c \in Clients, LastWrite(c)
  PROVE  FilesInv'
<1>1. CASE request[c].at = "replied" /\ TurnFile(c)
  BY <1>1, TurnFileKeeps
<1>2. CASE request[c].at = "replied" /\ CutFile(request[c].name)
  BY <1>2, CutFileKeeps DEF GatewayInv, Received
<1>3. ASSUME NEW n \in Names, NewFile(n) PROVE FilesInv'
  BY <1>3, NewFileKeeps
<1>4. ASSUME NEW n \in Names, CutFile(n) PROVE FilesInv'
  BY <1>4, CutFileKeeps
<1> QED
  BY <1>1, <1>2, <1>3, <1>4 DEF LastWrite

LEMMA GatewayStep == GatewayInv /\ [GatewayNext]_gatewayVars => GatewayInv'
<1> SUFFICES ASSUME GatewayInv, [GatewayNext]_gatewayVars PROVE GatewayInv'
  OBVIOUS
<1> USE DEF GatewayInv, storeFiles, lockVars
<1>1. ASSUME NEW c \in Clients, Receive(c) PROVE GatewayInv'
  <2>1. PICK what \in {"create", "turn", "read"}, n \in Names :
          request' = [request EXCEPT ![c] =
             [NoRequest EXCEPT !.at = "waiting", !.what = what, !.name = n, !.turn = turns + 1]]
    BY <1>1 DEF Receive
  <2> DEFINE new == [NoRequest EXCEPT !.at = "waiting", !.what = what, !.name = n, !.turn = turns + 1]
  <2>2. turns + 1 \in Turn /\ turns' \in 0..MaxHttpRequests /\ n \in Nat /\ turns + 1 \in Nat
    BY <1>1, GatewayBounds DEF Receive, GatewayTypes, Turn, Names
  <2>3. new \in Requests /\ new.at = "waiting" /\ new.name = n /\ new.turn = turns + 1
    BY ONLY <2>2, FirstFiles DEF Requests, Stands, RequestKinds
  <2> HIDE DEF new
  <2>4. /\ request' \in [Clients -> Requests] /\ request'[c] = new
        /\ \A d \in Clients : d # c => request'[d] = request[d]
    BY <2>1, <2>3, OneRequest DEF new
  <2>5. GatewayTypes'
    BY <1>1, <2>2, <2>4 DEF GatewayTypes, Receive
  <2>6. Received' /\ StoredUnder' /\ LoadedIsStored' /\ TurnsKept'
    BY <1>1, <2>2, <2>3, <2>4 DEF Received, StoredUnder, LoadedIsStored, TurnsKept, Receive
  <2>7. Exclusive'
    BY <1>1, <2>3, <2>4 DEF Exclusive, Inside, Receive
  <2> QED
    BY <2>5, <2>6, <2>7
<1>2. ASSUME NEW c \in Clients, TakeLock(c) PROVE GatewayInv'
  <2> DEFINE new == [request[c] EXCEPT !.at = "locked"]
  <2>1. request' = [request EXCEPT ![c] = new]
    BY <1>2 DEF TakeLock, Moves
  <2>2. new \in Requests /\ new.at = "locked" /\ new.name = request[c].name /\ new.turn = request[c].turn
    BY Move DEF GatewayTypes, Stands
  <2> HIDE DEF new
  <2>3. /\ request' \in [Clients -> Requests] /\ request'[c] = new
        /\ \A d \in Clients : d # c => request'[d] = request[d]
    BY <2>1, <2>2, OneRequest
  <2>4. GatewayTypes'
    BY <1>2, <2>3 DEF GatewayTypes, TakeLock
  <2>5. Received' /\ StoredUnder' /\ LoadedIsStored' /\ TurnsKept'
    BY <1>2, <2>2, <2>3 DEF Received, StoredUnder, LoadedIsStored, TurnsKept, TakeLock
  <2>6. Exclusive'
    BY <1>2, <2>2, <2>3 DEF Exclusive, Inside, TakeLock
  <2> QED
    BY <2>4, <2>5, <2>6
<1>3. ASSUME NEW c \in Clients, RefusePoisoned(c) PROVE GatewayInv'
  <2>1. holder' = holder \ {c} /\ poisoned' \in BOOLEAN
    BY <1>3 DEF RefusePoisoned, GatewayTypes
  <2> QED
    BY <1>3, <2>1, LeaveLockKeeps DEF RefusePoisoned
<1>4. ASSUME NEW c \in Clients, Create(c) PROVE GatewayInv'
  <2>1. Release(c) /\ request[c].at \in Inside /\ UNCHANGED <<poisoned, turns>>
    BY <1>4 DEF Create, Inside
  <2>2. CASE UNCHANGED <<storeFiles, http_faults>>
    <3>1. Done(c) /\ holder' = holder \ {c} /\ poisoned' \in BOOLEAN
      BY <2>1, HolderIsOne DEF Release, GatewayTypes
    <3> QED
      BY <2>1, <2>2, <3>1, LeaveLockKeeps
  <2>3. ASSUME NEW n \in Names, NewFile(n), UNCHANGED http_faults PROVE GatewayInv'
    BY <2>1, <2>3, NewFileKeeps, LeaveWritten DEF GatewayTypes
  <2>4. ASSUME NEW n \in Names, CutFile(n), HttpFault PROVE GatewayInv'
    <3>1. http_faults' \in 0..MaxHttpFaults
      BY <2>4, GatewayBounds DEF GatewayTypes, HttpFault
    <3> QED
      BY <2>1, <2>4, <3>1, CutFileKeeps, LeaveWritten
  <2> QED
    BY <1>4, <2>2, <2>3, <2>4 DEF Create
<1>5. ASSUME NEW c \in Clients, Read(c) PROVE GatewayInv'
  <2>1. Done(c) /\ holder' = holder \ {c} /\ poisoned' \in BOOLEAN
    BY <1>5, HolderIsOne DEF Read, Release, Inside, GatewayTypes
  <2> QED
    BY <1>5, <2>1, LeaveLockKeeps DEF Read
<1>6. ASSUME NEW c \in Clients, Load(c) PROVE GatewayInv'
  <2> DEFINE stored == sessions[request[c].name]
  <2>1. CASE stored = Missing
    <3>1. Done(c) /\ holder' = holder \ {c} /\ poisoned' \in BOOLEAN
      BY <1>6, <2>1, HolderIsOne DEF Load, Release, Inside, GatewayTypes
    <3> QED
      BY <1>6, <3>1, LeaveLockKeeps DEF Load
  <2>2. CASE stored # Missing
    <3>1. stored \in SessionFile /\ request[c].at = "locked" /\ request[c] \in Requests
      BY <1>6 DEF Load, GatewayTypes, Received
    <3> DEFINE new == [request[c] EXCEPT !.at = "loaded", !.loaded = stored]
    <3>2. request' = [request EXCEPT ![c] = new]
      BY <1>6, <2>2 DEF Load
    <3>3. /\ new \in Requests /\ new.at = "loaded" /\ new.loaded = stored
          /\ new.name = request[c].name /\ new.turn = request[c].turn
      BY ONLY <3>1 DEF Requests, Stands
    <3>4. UNCHANGED <<storeFiles, holder, poisoned, turns, http_faults>>
      BY <1>6, <2>2 DEF Load
    <3> HIDE DEF new
    <3>5. /\ request' \in [Clients -> Requests] /\ request'[c] = new
          /\ \A d \in Clients : d # c => request'[d] = request[d]
      BY <3>2, <3>3, OneRequest
    <3>6. GatewayTypes'
      BY <3>4, <3>5 DEF GatewayTypes
    <3>7. Received' /\ StoredUnder' /\ LoadedIsStored' /\ TurnsKept'
      BY <2>2, <3>1, <3>3, <3>4, <3>5 DEF Received, StoredUnder, LoadedIsStored, TurnsKept
    <3>8. Exclusive'
      BY <3>1, <3>3, <3>4, <3>5 DEF Exclusive, Inside
    <3> QED
      BY <3>6, <3>7, <3>8
  <2> QED
    BY <2>1, <2>2
<1>7. ASSUME NEW c \in Clients, RunTurn(c) PROVE GatewayInv'
  <2> DEFINE longer == Append(request[c].loaded, request[c].turn)
             new == [request[c] EXCEPT !.at = "replied", !.loaded = longer]
  <2>1. /\ request[c].at = "loaded" /\ request[c] \in Requests /\ request[c].turn \in Turn
        /\ request[c].loaded = sessions[request[c].name] /\ sessions[request[c].name] # Missing
        /\ request' = [request EXCEPT ![c] = new]
        /\ UNCHANGED <<storeFiles, holder, poisoned, turns, http_faults>>
    BY <1>7 DEF RunTurn, GatewayTypes, Received, LoadedIsStored
  <2>2. request[c].loaded \in SessionFile
    BY <2>1 DEF Requests
  <2>3. longer \in SessionFile
    BY <2>1, <2>2, FirstFiles, AppendTurn
  <2>4. /\ new \in Requests /\ new.at = "replied" /\ new.loaded = longer
        /\ new.name = request[c].name /\ new.turn = request[c].turn
    BY ONLY <2>1, <2>3 DEF Requests, Stands
  <2> HIDE DEF new
  <2>5. /\ request' \in [Clients -> Requests] /\ request'[c] = new
        /\ \A d \in Clients : d # c => request'[d] = request[d]
    BY <2>1, <2>4, OneRequest
  <2>6. GatewayTypes'
    BY <2>1, <2>5 DEF GatewayTypes
  <2>7. Received' /\ StoredUnder' /\ LoadedIsStored' /\ TurnsKept'
    BY <2>1, <2>4, <2>5 DEF Received, StoredUnder, LoadedIsStored, TurnsKept
  <2>8. Exclusive'
    BY <2>1, <2>4, <2>5 DEF Exclusive, Inside
  <2> QED
    BY <2>6, <2>7, <2>8
<1>8. ASSUME NEW c \in Clients, PanicInTurn(c) PROVE GatewayInv'
  <2>1. Done(c) /\ holder' = holder \ {c} /\ poisoned' \in BOOLEAN
    BY <1>8, HolderIsOne DEF PanicInTurn, Release, Inside
  <2> QED
    BY <1>8, <2>1, LeaveLockKeeps DEF PanicInTurn
<1>9. ASSUME NEW c \in Clients, SaveTurn(c) PROVE GatewayInv'
  <2>1. Release(c) /\ request[c].at = "replied" /\ request[c].at \in Inside /\ UNCHANGED <<poisoned, turns>>
    BY <1>9 DEF SaveTurn, Inside
  <2>2. CASE UNCHANGED <<storeFiles, http_faults>>
    <3>1. Done(c) /\ holder' = holder \ {c} /\ poisoned' \in BOOLEAN
      BY <2>1, HolderIsOne DEF Release, GatewayTypes
    <3> QED
      BY <2>1, <2>2, <3>1, LeaveLockKeeps
  <2>3. CASE TurnFile(c) /\ UNCHANGED http_faults
    BY <2>1, <2>3, TurnFileKeeps, LeaveWritten DEF GatewayTypes
  <2>4. CASE CutFile(request[c].name) /\ HttpFault
    <3>1. http_faults' \in 0..MaxHttpFaults
      BY <2>4, GatewayBounds DEF GatewayTypes, HttpFault
    <3>2. request[c].name \in Names
      BY <2>1 DEF Received
    <3> QED
      BY <2>1, <2>4, <3>1, <3>2, CutFileKeeps, LeaveWritten
  <2> QED
    BY <1>9, <2>2, <2>3, <2>4 DEF SaveTurn
<1>10. ASSUME KillGateway PROVE GatewayInv'
  <2>1. FilesInv'
    <3>1. CASE UNCHANGED storeFiles
      BY <3>1 DEF storeFiles, FilesInv, GatewayTypes, StoredUnder, TurnsKept
    <3>2. CASE \E c \in holder : LastWrite(c)
      BY <3>2, LastWriteKeeps DEF GatewayTypes
    <3> QED
      BY <1>10, <3>1, <3>2 DEF KillGateway
  <2>2. http_faults' \in 0..MaxHttpFaults
    BY <1>10, GatewayBounds DEF GatewayTypes, KillGateway, HttpFault
  <2>3. request' \in [Clients -> Requests] /\ \A c \in Clients : request'[c].at = "none"
    BY <1>10, FirstFiles DEF KillGateway
  <2>4. GatewayTypes'
    BY <1>10, <2>1, <2>2, <2>3 DEF FilesInv, GatewayTypes, KillGateway
  <2>5. Received' /\ Exclusive' /\ LoadedIsStored'
    BY <1>10, <2>3 DEF Received, Exclusive, LoadedIsStored, Inside, KillGateway
  <2> QED
    BY <2>1, <2>4, <2>5 DEF FilesInv
<1>11. CASE UNCHANGED gatewayVars
  BY <1>11 DEF gatewayVars, GatewayTypes, Received, Exclusive, StoredUnder, LoadedIsStored, TurnsKept
<1> QED
  BY <1>1, <1>2, <1>3, <1>4, <1>5, <1>6, <1>7, <1>8, <1>9, <1>10, <1>11 DEF GatewayNext

LEMMA GatewayInvariant == GatewaySpec => []GatewayInv
BY GatewayBegins, GatewayStep, PTL DEF GatewaySpec

\* The gateway keeps its types: a request is past the lock exactly when it has the lock.
THEOREM GatewayTypeCorrect == GatewaySpec => []GatewayTypeOK
BY GatewayInvariant, GatewayTypesOK, PTL DEF GatewayInv

\* No two requests are between the load of a session and the save of its turn.
THEOREM OneInside == GatewaySpec => []Exclusive
BY GatewayInvariant, PTL DEF GatewayInv

\* The file of a session has the turns saved to it, in their order, through any requests,
\* failures, panics and ends of the gateway, unless a write left that very file cut.
THEOREM NoTurnLost == GatewaySpec => []TurnsKept
BY GatewayInvariant, PTL DEF GatewayInv

------------------------------------------------------------------------------
(* Subagents: a step answers or stops some of them, or launches a run of one, which
   the conversations of the others do not see *)

SubagentsSpec == SubagentsInit /\ [][SubagentsNext]_subagentVars

AgentStatuses == {"none", "running", "completed", "failed", "cancelled", "closed"}
AgentRuns == [agent : Agents, asked : Seq(Entries), restricted : BOOLEAN, out : Outs]

\* The runs la of a session.
RunsOK(la) == la \in Seq(AgentRuns) /\ Len(la) <= MaxLaunches

\* Subagent a with status st, run ac and history h, of the runs la.
AgentOK(a, st, ac, h, la) ==
  /\ st \in AgentStatuses /\ ac \in 0..Len(la) /\ h \in Seq(Entries)
  /\ \A i \in 1..Len(h) : h[i].run <= Len(la)
  /\ st = "running" <=> ac # 0
  /\ ac # 0 => la[ac].agent = a /\ la[ac].asked = h
  /\ \A i \in 1..Len(h) :
       h[i].role = "assistant" =>
         la[h[i].run].agent = a /\ la[h[i].run].asked = SubSeq(h, 1, i - 1)

AgentsOK == \A a \in Agents : AgentOK(a, status[a], active[a], history[a], launched)

SubagentsTypes ==
  /\ status \in [Agents -> AgentStatuses] /\ active \in [Agents -> Nat] /\ history \in [Agents -> Seq(Entries)]
  /\ profiled \in [Agents -> BOOLEAN] /\ seq \in 0..MaxAgents /\ session \in BOOLEAN
  /\ RunsOK(launched)

SubagentsInv == SubagentsTypes /\ AgentsOK

------------------------------------------------------------------------------
\* Lemmas about one subagent.

LEMMA EntryTypes ==
  ASSUME NEW role \in {"user", "assistant"}, NEW run \in 1..MaxLaunches
  PROVE  /\ Message(role, run) \in Entries
         /\ Message(role, run).role = role /\ Message(role, run).run = run
BY DEF Message, Entries

\* What stands before the last entry stands before it in a longer history.
LEMMA SubSeqOfLonger ==
  ASSUME NEW h \in Seq(Entries), NEW m \in Entries, NEW i \in 1..Len(Append(h, m))
  PROVE  SubSeq(Append(h, m), 1, i - 1) = SubSeq(h, 1, i - 1)
<1> DEFINE longer == Append(h, m)
           left == SubSeq(longer, 1, i - 1)
           right == SubSeq(h, 1, i - 1)
<1>1. /\ Len(longer) = Len(h) + 1 /\ Len(h) \in Nat /\ i - 1 \in 0..Len(h) /\ longer \in Seq(Entries)
      /\ \A j \in 1..Len(h) : longer[j] = h[j] /\ h[j] \in Entries
  BY AppendProperties
<1> HIDE DEF longer
<1>2. 1 \in Int /\ i - 1 \in Int /\ i - 1 >= 0 /\ \A j \in 1..(i - 1) : j \in 1..Len(h)
  BY <1>1
<1>3. /\ left \in Seq(Entries) /\ Len(left) = IF 1 <= i - 1 THEN i - 1 - 1 + 1 ELSE 0
      /\ \A j \in 1..(i - 1 - 1 + 1) : left[j] = longer[1 + j - 1]
  BY <1>1, <1>2, SubSeqProperties
<1>4. /\ right \in Seq(Entries) /\ Len(right) = IF 1 <= i - 1 THEN i - 1 - 1 + 1 ELSE 0
      /\ \A j \in 1..(i - 1 - 1 + 1) : right[j] = h[1 + j - 1]
  BY <1>1, <1>2, SubSeqProperties
<1> HIDE DEF left, right
<1>5. Len(left) = i - 1 /\ Len(right) = i - 1 /\ \A j \in 1..Len(left) : left[j] = right[j]
  BY <1>1, <1>2, <1>3, <1>4
<1>6. left = right
  BY <1>3, <1>4, <1>5, SeqEqual
<1> QED
  BY <1>6 DEF left, right, longer

\* An answer comes right after the history its run was given.
LEMMA Answer ==
  ASSUME NEW a \in Agents, NEW st, NEW ac, NEW h, NEW la, RunsOK(la),
         AgentOK(a, st, ac, h, la), ac # 0
  PROVE  AgentOK(a, "completed", 0, Append(h, Message("assistant", ac)), la)
<1> DEFINE m == Message("assistant", ac)
           longer == Append(h, m)
<1>1. /\ h \in Seq(Entries) /\ Len(h) \in Nat /\ Len(la) \in Nat /\ ac \in 1..Len(la) /\ Len(la) <= MaxLaunches
      /\ MaxLaunches \in Nat
  BY SubagentBounds DEF AgentOK, RunsOK
<1>2. m \in Entries /\ m.role = "assistant" /\ m.run = ac
  BY <1>1, EntryTypes
<1> HIDE DEF m
<1>3. /\ longer \in Seq(Entries) /\ Len(longer) = Len(h) + 1 /\ longer[Len(h) + 1] = m
      /\ \A i \in 1..Len(h) : longer[i] = h[i]
  BY <1>1, <1>2, AppendProperties
<1>4. ASSUME NEW i \in 1..Len(longer)
      PROVE  SubSeq(longer, 1, i - 1) = SubSeq(h, 1, i - 1)
  BY <1>1, <1>2, <1>3, SubSeqOfLonger
<1>5. SubSeq(h, 1, Len(h)) = h
  BY <1>1, SubSeqFull
<1> HIDE DEF longer
<1>6. ASSUME NEW i \in 1..Len(longer)
      PROVE  /\ longer[i].run <= Len(la)
             /\ longer[i].role = "assistant" =>
                  la[longer[i].run].agent = a /\ la[longer[i].run].asked = SubSeq(longer, 1, i - 1)
  <2>1. CASE i \in 1..Len(h)
    BY <1>3, <1>4, <2>1 DEF AgentOK
  <2>2. CASE i = Len(h) + 1
    BY <1>1, <1>2, <1>3, <1>4, <1>5, <2>2 DEF AgentOK
  <2> QED
    BY <1>1, <1>3, <2>1, <2>2
<1>7. AgentOK(a, "completed", 0, longer, la)
  BY <1>1, <1>3, <1>6 DEF AgentOK, AgentStatuses
<1> QED
  BY <1>7 DEF longer, m

\* The entries of a history are of runs of the session.
LEMMA HistoriesKnown ==
  ASSUME NEW a, NEW st, NEW ac, NEW h, NEW la, RunsOK(la), AgentOK(a, st, ac, h, la)
  PROVE  /\ h \in Seq(Entries) /\ Len(h) \in Nat /\ Len(la) \in Nat /\ ac \in 0..Len(la)
         /\ \A i \in 1..Len(h) : h[i].run \in 1..Len(la)
<1>1. /\ h \in Seq(Entries) /\ Len(h) \in Nat /\ Len(la) \in Nat /\ ac \in 0..Len(la)
      /\ \A i \in 1..Len(h) : h[i].run <= Len(la) /\ h[i] \in Entries
  BY DEF AgentOK, RunsOK
<1> QED
  BY <1>1, SubagentBounds DEF Entries

\* A subagent that the manager no longer waits for keeps its history.
LEMMA Stop ==
  ASSUME NEW a \in Agents, NEW st, NEW ac, NEW h, NEW la, RunsOK(la),
         AgentOK(a, st, ac, h, la), NEW st2 \in AgentStatuses \ {"running"}
  PROVE  AgentOK(a, st2, 0, h, la)
BY DEF AgentOK, RunsOK

\* A run more changes nothing of the conversations so far.
LEMMA MoreRuns ==
  ASSUME NEW a \in Agents, NEW st, NEW ac, NEW h, NEW la, RunsOK(la), AgentOK(a, st, ac, h, la),
         NEW run \in AgentRuns
  PROVE  AgentOK(a, st, ac, h, Append(la, run))
<1> DEFINE more == Append(la, run)
<1>1. Len(la) \in Nat /\ Len(more) = Len(la) + 1 /\ \A i \in 1..Len(la) : more[i] = la[i]
  BY AppendProperties DEF RunsOK
<1>2. /\ h \in Seq(Entries) /\ Len(h) \in Nat /\ ac \in 0..Len(la)
      /\ \A i \in 1..Len(h) : h[i].run \in 1..Len(la)
  BY HistoriesKnown
<1> HIDE DEF more
<1>3. AgentOK(a, st, ac, h, more)
  BY <1>1, <1>2 DEF AgentOK
<1> QED
  BY <1>3 DEF more

\* Nor does the end of a run.
LEMMA RunsEnd ==
  ASSUME NEW a \in Agents, NEW st, NEW ac, NEW h, NEW la, RunsOK(la), AgentOK(a, st, ac, h, la),
         NEW r \in 1..Len(la), NEW o \in Outs
  PROVE  AgentOK(a, st, ac, h, [la EXCEPT ![r].out = o]) /\ RunsOK([la EXCEPT ![r].out = o])
<1> DEFINE over == [la[r] EXCEPT !.out = o]
           more == [la EXCEPT ![r] = over]
<1>1. la[r] \in AgentRuns /\ la \in Seq(AgentRuns)
  BY DEF RunsOK
<1>2. over \in AgentRuns /\ over.agent = la[r].agent /\ over.asked = la[r].asked
  BY ONLY <1>1, o \in Outs DEF AgentRuns
<1> HIDE DEF over
<1>3. /\ more \in Seq(AgentRuns) /\ Len(more) = Len(la) /\ Len(la) \in Nat
      /\ \A i \in 1..Len(la) : more[i] = IF i = r THEN over ELSE la[i]
  BY <1>1, <1>2, ExceptSeq
<1> HIDE DEF more
<1>4. \A i \in 1..Len(la) : more[i].agent = la[i].agent /\ more[i].asked = la[i].asked
  BY <1>2, <1>3
<1>5. /\ h \in Seq(Entries) /\ Len(h) \in Nat /\ ac \in 0..Len(la)
      /\ \A i \in 1..Len(h) : h[i].run \in 1..Len(la)
  BY HistoriesKnown
<1>6. AgentOK(a, st, ac, h, more)
  <2>1. ac # 0 => ac \in 1..Len(la) /\ more[ac].agent = a /\ more[ac].asked = h
    BY <1>3, <1>4, <1>5 DEF AgentOK
  <2>2. \A i \in 1..Len(h) : h[i].role = "assistant" =>
          more[h[i].run].agent = a /\ more[h[i].run].asked = SubSeq(h, 1, i - 1)
    BY <1>4, <1>5 DEF AgentOK
  <2>3. \A i \in 1..Len(h) : h[i].run <= Len(more)
    BY <1>3, <1>5
  <2> QED
    BY <1>3, <1>5, <2>1, <2>2, <2>3 DEF AgentOK
<1>7. RunsOK(more)
  BY <1>3 DEF RunsOK
<1> QED
  BY <1>6, <1>7 DEF more, over

\* A run launched with the history so far, or with a fresh one, and its task.
LEMMA LaunchOne ==
  ASSUME NEW a \in Agents, NEW st, NEW ac, NEW h, NEW la, RunsOK(la), AgentOK(a, st, ac, h, la),
         Len(la) < MaxLaunches, NEW h0 \in {<<>>, h}, NEW restricted \in BOOLEAN
  PROVE  LET asked == Append(h0, Message("user", Len(la) + 1))
             run == [agent |-> a, asked |-> asked, restricted |-> restricted, out |-> "going"]
         IN /\ asked \in Seq(Entries) /\ run \in AgentRuns /\ RunsOK(Append(la, run))
            /\ AgentOK(a, "running", Len(la) + 1, asked, Append(la, run))
<1> DEFINE r == Len(la) + 1
           m == Message("user", r)
           asked == Append(h0, m)
           run == [agent |-> a, asked |-> asked, restricted |-> restricted, out |-> "going"]
           more == Append(la, run)
<1>1. la \in Seq(AgentRuns) /\ Len(la) \in Nat /\ MaxLaunches \in Nat /\ r \in 1..MaxLaunches
  BY SubagentBounds DEF RunsOK
<1>2. m \in Entries /\ m.role = "user" /\ m.run = r
  BY <1>1, EntryTypes
<1>3. /\ h0 \in Seq(Entries) /\ Len(h0) \in Nat
      /\ \A i \in 1..Len(h0) : h0[i].run \in 1..Len(la)
      /\ \A i \in 1..Len(h0) : h0[i].role = "assistant" =>
            la[h0[i].run].agent = a /\ la[h0[i].run].asked = SubSeq(h0, 1, i - 1)
  <2>1. CASE h0 = <<>>
    <3>1. h0 \in Seq(Entries) /\ Len(h0) = 0 /\ 1..0 = {}
      BY <2>1
    <3> QED
      BY <3>1
  <2>2. CASE h0 = h
    <3>1. h \in Seq(Entries) /\ Len(h) \in Nat /\ \A i \in 1..Len(h) : h[i].run \in 1..Len(la)
      BY HistoriesKnown
    <3> QED
      BY <2>2, <3>1 DEF AgentOK
  <2> QED
    BY <2>1, <2>2
<1> HIDE DEF m, r
<1>4. /\ asked \in Seq(Entries) /\ Len(asked) = Len(h0) + 1 /\ asked[Len(h0) + 1] = m
      /\ \A i \in 1..Len(h0) : asked[i] = h0[i]
  BY <1>2, <1>3, AppendProperties
<1>5. \A i \in 1..Len(asked) : SubSeq(asked, 1, i - 1) = SubSeq(h0, 1, i - 1)
  BY <1>2, <1>3, SubSeqOfLonger
<1> HIDE DEF asked
<1>6. run \in AgentRuns /\ run.agent = a /\ run.asked = asked
  BY <1>4 DEF AgentRuns, Outs
<1> HIDE DEF run
<1>7. /\ more \in Seq(AgentRuns) /\ Len(more) = Len(la) + 1 /\ more[Len(la) + 1] = run
      /\ \A i \in 1..Len(la) : more[i] = la[i]
  BY <1>1, <1>6, AppendProperties
<1> HIDE DEF more
<1>8. RunsOK(more)
  BY <1>1, <1>7 DEF RunsOK, r
<1>9. ASSUME NEW i \in 1..Len(asked)
      PROVE  /\ asked[i].run <= Len(more)
             /\ asked[i].role = "assistant" =>
                  more[asked[i].run].agent = a /\ more[asked[i].run].asked = SubSeq(asked, 1, i - 1)
  <2>1. CASE i \in 1..Len(h0)
    <3>1. asked[i] = h0[i] /\ h0[i].run \in 1..Len(la) /\ more[h0[i].run] = la[h0[i].run]
          /\ SubSeq(asked, 1, i - 1) = SubSeq(h0, 1, i - 1)
      BY <1>3, <1>4, <1>5, <1>7, <2>1
    <3> QED
      BY <1>1, <1>3, <1>7, <2>1, <3>1
  <2>2. CASE i = Len(h0) + 1
    BY <1>1, <1>2, <1>4, <1>7, <2>2 DEF r
  <2> QED
    BY <1>3, <1>4, <2>1, <2>2
<1>10. AgentOK(a, "running", r, asked, more)
  BY <1>1, <1>4, <1>6, <1>7, <1>9 DEF AgentOK, AgentStatuses, r
<1> QED
  BY <1>4, <1>6, <1>8, <1>10 DEF asked, run, more, m, r

------------------------------------------------------------------------------
\* A state of the manager, s, that a command goes on from.
StateOK(s) ==
  /\ s.status \in [Agents -> AgentStatuses] /\ s.active \in [Agents -> Nat] /\ s.history \in [Agents -> Seq(Entries)]
  /\ \A a \in Agents : AgentOK(a, s.status[a], s.active[a], s.history[a], launched)

\* The answers that are there are taken, of each run the first time it is seen.
LEMMA ReapedOK ==
  ASSUME SubagentsInv
  PROVE  /\ StateOK(Reaped)
         /\ \A a \in Agents : Reaped.active[a] # 0 => Reaped.active[a] = active[a]
<1> DEFINE as == {a \in Agents : Ended(a)}
<1>1. /\ Reaped.status = [a \in Agents |-> IF a \notin as THEN status[a]
                                        ELSE IF Answered(a) THEN "completed" ELSE "failed"]
      /\ Reaped.active = [a \in Agents |-> IF a \in as THEN 0 ELSE active[a]]
      /\ Reaped.history = [a \in Agents |-> IF a \in as /\ Answered(a)
                                           THEN Append(history[a], Message("assistant", active[a]))
                                           ELSE history[a]]
  BY DEF Reaped, Taken
<1>2. ASSUME NEW a \in Agents
      PROVE  /\ AgentOK(a, Reaped.status[a], Reaped.active[a], Reaped.history[a], launched)
             /\ Reaped.active[a] # 0 => Reaped.active[a] = active[a]
             /\ Reaped.status[a] \in AgentStatuses /\ Reaped.active[a] \in Nat /\ Reaped.history[a] \in Seq(Entries)
  <2>1. AgentOK(a, status[a], active[a], history[a], launched) /\ RunsOK(launched)
    BY DEF SubagentsInv, AgentsOK, SubagentsTypes
  <2>2. /\ AgentOK(a, Reaped.status[a], Reaped.active[a], Reaped.history[a], launched)
        /\ Reaped.active[a] # 0 => Reaped.active[a] = active[a]
    <3>1. CASE a \notin as
      BY <1>1, <2>1, <3>1
    <3>2. CASE a \in as /\ Answered(a)
      <4>1. /\ Reaped.status[a] = "completed" /\ Reaped.active[a] = 0
            /\ Reaped.history[a] = Append(history[a], Message("assistant", active[a]))
        BY <1>1, <3>2
      <4>2. active[a] # 0
        BY <3>2 DEF Ended
      <4>3. AgentOK(a, "completed", 0, Append(history[a], Message("assistant", active[a])), launched)
        BY <2>1, <4>2, Answer
      <4> QED
        BY <4>1, <4>3
    <3>3. CASE a \in as /\ ~Answered(a)
      <4>1. Reaped.status[a] = "failed" /\ Reaped.active[a] = 0 /\ Reaped.history[a] = history[a]
        BY <1>1, <3>3
      <4>2. AgentOK(a, "failed", 0, history[a], launched)
        BY <2>1, Stop DEF AgentStatuses
      <4> QED
        BY <4>1, <4>2
    <3> QED
      BY <3>1, <3>2, <3>3
  <2>3. Reaped.active[a] \in 0..Len(launched) /\ Len(launched) \in Nat
    BY <2>1, <2>2, HistoriesKnown
  <2> QED
    BY <2>2, <2>3 DEF AgentOK
<1>3. /\ DOMAIN Reaped.status = Agents /\ DOMAIN Reaped.active = Agents /\ DOMAIN Reaped.history = Agents
      /\ Reaped.status \in [Agents -> AgentStatuses] /\ Reaped.active \in [Agents -> Nat]
      /\ Reaped.history \in [Agents -> Seq(Entries)]
  <2> HIDE DEF as
  <2>1. /\ Reaped.status = [a \in Agents |-> Reaped.status[a]]
        /\ Reaped.active = [a \in Agents |-> Reaped.active[a]]
        /\ Reaped.history = [a \in Agents |-> Reaped.history[a]]
    BY <1>1
  <2> QED
    BY <1>2, <2>1
<1> QED
  BY <1>2, <1>3 DEF StateOK

LEMMA NowOK == ASSUME SubagentsInv PROVE StateOK([status |-> status, active |-> active, history |-> history])
BY DEF SubagentsInv, StateOK, AgentsOK, SubagentsTypes

\* One subagent stops or is stopped.
LEMMA StopOne ==
  ASSUME SubagentsTypes, NEW s, StateOK(s), NEW a \in Agents, NEW st \in AgentStatuses \ {"running"},
         status' = [s.status EXCEPT ![a] = st], active' = [s.active EXCEPT ![a] = 0], history' = s.history
  PROVE  /\ status' \in [Agents -> AgentStatuses] /\ active' \in [Agents -> Nat] /\ history' \in [Agents -> Seq(Entries)]
         /\ \A b \in Agents : AgentOK(b, status'[b], active'[b], history'[b], launched)
<1>1. AgentOK(a, st, 0, s.history[a], launched)
  BY Stop DEF StateOK, SubagentsTypes
<1>2. /\ status' \in [Agents -> AgentStatuses] /\ active' \in [Agents -> Nat] /\ history' \in [Agents -> Seq(Entries)]
      /\ status'[a] = st /\ active'[a] = 0 /\ history'[a] = s.history[a]
      /\ \A b \in Agents : b # a => /\ status'[b] = s.status[b] /\ active'[b] = s.active[b]
                                     /\ history'[b] = s.history[b]
  BY DEF StateOK
<1> QED
  BY <1>1, <1>2 DEF StateOK

\* A launch goes on from a state in which all is well.
LEMMA LaunchKeeps ==
  ASSUME SubagentsTypes, NEW s, StateOK(s), NEW a \in Agents, NEW h0 \in {<<>>, s.history[a]}, NEW restricted \in BOOLEAN,
         Len(launched) < MaxLaunches, Launch(a, s, Asks(h0), restricted),
         profiled' \in [Agents -> BOOLEAN], seq' \in 0..MaxAgents, session' \in BOOLEAN
  PROVE  SubagentsInv'
<1> DEFINE r == Len(launched) + 1
           asked == Append(h0, Message("user", r))
           run == [agent |-> a, asked |-> asked, restricted |-> restricted, out |-> "going"]
<1>1. /\ launched' = Append(launched, run) /\ status' = [s.status EXCEPT ![a] = "running"]
      /\ active' = [s.active EXCEPT ![a] = r] /\ history' = [s.history EXCEPT ![a] = asked]
  BY DEF Launch, Asks
<1>2. RunsOK(launched) /\ AgentOK(a, s.status[a], s.active[a], s.history[a], launched) /\ r \in Nat
  BY DEF SubagentsTypes, StateOK, RunsOK
<1>3. /\ asked \in Seq(Entries) /\ run \in AgentRuns /\ RunsOK(Append(launched, run))
      /\ AgentOK(a, "running", r, asked, Append(launched, run))
  BY <1>2, LaunchOne
<1> HIDE DEF run, asked, r
<1>4. \A b \in Agents : AgentOK(b, s.status[b], s.active[b], s.history[b], launched')
  BY <1>1, <1>2, <1>3, MoreRuns DEF StateOK
<1>5. /\ status' \in [Agents -> AgentStatuses] /\ active' \in [Agents -> Nat] /\ history' \in [Agents -> Seq(Entries)]
      /\ status'[a] = "running" /\ active'[a] = r /\ history'[a] = asked
      /\ \A b \in Agents : b # a => /\ status'[b] = s.status[b] /\ active'[b] = s.active[b]
                                     /\ history'[b] = s.history[b]
  BY <1>1, <1>2, <1>3 DEF StateOK, AgentStatuses
<1>6. AgentsOK'
  BY <1>1, <1>3, <1>4, <1>5 DEF AgentsOK
<1>7. SubagentsTypes'
  BY <1>1, <1>3, <1>5 DEF SubagentsTypes
<1> QED
  BY <1>6, <1>7 DEF SubagentsInv

\* A command that takes the answers and goes on, or fails, from there.
LEMMA BecomesKeeps ==
  ASSUME SubagentsTypes, UNCHANGED <<profiled, seq>>, RunsOK(launched'), session' \in BOOLEAN,
         status' \in [Agents -> AgentStatuses], active' \in [Agents -> Nat], history' \in [Agents -> Seq(Entries)],
         \A a \in Agents : AgentOK(a, status'[a], active'[a], history'[a], launched')
  PROVE  SubagentsInv'
BY DEF SubagentsInv, SubagentsTypes, AgentsOK

LEMMA ReapedKeeps ==
  ASSUME SubagentsInv, Becomes(Reaped), Unlaunched, session' \in BOOLEAN
  PROVE  SubagentsInv'
<1>1. /\ StateOK(Reaped) /\ status' = Reaped.status /\ active' = Reaped.active /\ history' = Reaped.history
      /\ UNCHANGED <<profiled, seq, launched>> /\ SubagentsTypes
  BY ReapedOK DEF Becomes, Unlaunched, SubagentsInv
<1> QED
  BY <1>1, BecomesKeeps DEF StateOK, SubagentsTypes

\* The state after the answers, but for one subagent.
LEMMA ReapedBut ==
  ASSUME NEW a, NEW ac, NEW st
  PROVE  /\ [Reaped EXCEPT !.active[a] = ac].status = Reaped.status
         /\ [Reaped EXCEPT !.active[a] = ac].active = [Reaped.active EXCEPT ![a] = ac]
         /\ [Reaped EXCEPT !.active[a] = ac].history = Reaped.history
         /\ [Reaped EXCEPT !.active[a] = ac, !.status[a] = st].status = [Reaped.status EXCEPT ![a] = st]
         /\ [Reaped EXCEPT !.active[a] = ac, !.status[a] = st].active = [Reaped.active EXCEPT ![a] = ac]
         /\ [Reaped EXCEPT !.active[a] = ac, !.status[a] = st].history = Reaped.history
<1> DEFINE st0 == Reaped.status
           ac0 == Reaped.active
           h0 == Reaped.history
<1>1. Reaped = [status |-> st0, active |-> ac0, history |-> h0]
  BY DEF Reaped, Taken
<1> HIDE DEF st0, ac0, h0
<1>2. Reaped.status = st0 /\ Reaped.active = ac0 /\ Reaped.history = h0
  BY DEF st0, ac0, h0
<1> QED
  BY <1>1, <1>2

\* One that is stopped by hand.
LEMMA StopAgentKeeps ==
  ASSUME SubagentsInv, NEW a \in Agents, NEW st \in {"cancelled", "closed"}, Unlaunched, UNCHANGED session,
         Becomes([Reaped EXCEPT !.active[a] = 0, !.status[a] = st])
  PROVE  SubagentsInv'
<1>1. /\ StateOK(Reaped) /\ SubagentsTypes /\ st \in AgentStatuses \ {"running"}
      /\ UNCHANGED <<profiled, seq, launched, session>>
  BY ReapedOK DEF SubagentsInv, AgentStatuses, Unlaunched
<1>2. /\ status' = [Reaped.status EXCEPT ![a] = st] /\ active' = [Reaped.active EXCEPT ![a] = 0]
      /\ history' = Reaped.history
  BY ReapedBut DEF Becomes
<1>3. /\ status' \in [Agents -> AgentStatuses] /\ active' \in [Agents -> Nat] /\ history' \in [Agents -> Seq(Entries)]
      /\ \A b \in Agents : AgentOK(b, status'[b], active'[b], history'[b], launched)
  BY <1>1, <1>2, StopOne
<1>4. session' \in BOOLEAN /\ RunsOK(launched') /\ launched' = launched
  BY <1>1 DEF SubagentsTypes
<1> QED
  BY <1>1, <1>3, <1>4, BecomesKeeps

------------------------------------------------------------------------------
LEMMA SubagentsBegin == SubagentsInit => SubagentsInv
<1> SUFFICES ASSUME SubagentsInit PROVE SubagentsInv
  OBVIOUS
<1>1. <<>> \in Seq(Entries) /\ <<>> \in Seq(AgentRuns) /\ Len(<<>>) = 0 /\ 1..0 = {} /\ 0 \in 0..0
  BY EmptySeq
<1>2. RunsOK(launched) /\ seq \in 0..MaxAgents
  BY <1>1, SubagentBounds DEF SubagentsInit, RunsOK
<1>3. SubagentsTypes
  BY <1>1, <1>2 DEF SubagentsInit, SubagentsTypes, AgentStatuses
<1>4. ASSUME NEW a \in Agents PROVE AgentOK(a, "none", 0, <<>>, <<>>)
  BY <1>1 DEF AgentOK, AgentStatuses
<1>5. AgentsOK
  BY <1>4 DEF SubagentsInit, AgentsOK
<1> QED
  BY <1>3, <1>5 DEF SubagentsInv

LEMMA RunEndsKeeps == ASSUME SubagentsInv, RunEnds PROVE SubagentsInv'
<1>1. PICK r \in RunIds : launched' \in {[launched EXCEPT ![r].out = o] : o \in {"ok", "error", "panic"}}
  BY DEF RunEnds
<1>2. PICK o \in Outs : launched' = [launched EXCEPT ![r].out = o]
  BY <1>1 DEF Outs
<1>3. r \in 1..Len(launched) /\ RunsOK(launched) /\ AgentsOK /\ SubagentsTypes
  BY DEF RunIds, SubagentsInv, SubagentsTypes
<1>4. \A a \in Agents : AgentOK(a, status[a], active[a], history[a], launched')
  BY <1>2, <1>3, RunsEnd DEF AgentsOK
<1>5. IF Agents = {} THEN TRUE ELSE RunsOK(launched')
  <2>1. ASSUME NEW a \in Agents PROVE RunsOK(launched')
    BY <1>2, <1>3, RunsEnd DEF AgentsOK
  <2> QED
    BY <2>1
<1>6. Agents # {}
  BY <1>3 DEF RunsOK, AgentRuns
<1>7. UNCHANGED <<status, active, history, profiled, seq, session>>
  BY DEF RunEnds
<1> QED
  BY <1>3, <1>4, <1>5, <1>6, <1>7 DEF SubagentsInv, AgentsOK, SubagentsTypes

LEMMA SpawnKeeps == ASSUME SubagentsInv, Spawn PROVE SubagentsInv'
<1> DEFINE now == [status |-> status, active |-> active, history |-> history]
           a == seq'
<1>1. PICK profile \in BOOLEAN :
        /\ profiled' = [profiled EXCEPT ![seq'] = profile]
        /\ Launch(seq', now, Asks(<<>>), profile)
  BY DEF Spawn
<1>2. /\ a \in Agents /\ seq' \in 0..MaxAgents /\ session' \in BOOLEAN /\ Len(launched) < MaxLaunches /\ SubagentsTypes
  BY SubagentBounds DEF Spawn, CanLaunch, SubagentsInv, SubagentsTypes, Agents
<1>3. profiled' \in [Agents -> BOOLEAN]
  BY <1>1, <1>2 DEF SubagentsTypes
<1>4. StateOK(now)
  BY NowOK
<1> HIDE DEF now, a
<1> QED
  BY <1>1, <1>2, <1>3, <1>4, LaunchKeeps DEF a

LEMMA SendKeeps == ASSUME SubagentsInv, Send PROVE SubagentsInv'
<1>1. PICK a \in Agents, interrupt \in BOOLEAN, fresh \in BOOLEAN :
        LET busy == Reaped.active[a] # 0
            free == [Reaped EXCEPT !.active[a] = 0]
        IN \/ busy /\ ~interrupt /\ Fails(Reaped)
           \/ /\ ~busy \/ interrupt
              /\ ~Known(Reaped, a) \/ Reaped.status[a] = "closed"
              /\ Fails(free)
           \/ /\ ~busy \/ interrupt
              /\ Known(Reaped, a) /\ Reaped.status[a] # "closed"
              /\ Launch(a, free, Asks(IF fresh THEN <<>> ELSE Reaped.history[a]), FALSE)
              /\ UNCHANGED <<profiled, seq, session>>
  BY DEF Send
<1> DEFINE free == [Reaped EXCEPT !.active[a] = 0]
<1>2. /\ free.status = Reaped.status /\ free.active = [Reaped.active EXCEPT ![a] = 0]
      /\ free.history = Reaped.history
  BY ReapedBut
<1>3. StateOK(Reaped) /\ SubagentsTypes /\ Len(launched) < MaxLaunches
  BY ReapedOK DEF SubagentsInv, Send, CanLaunch
<1> HIDE DEF free
<1>4. CASE Fails(Reaped)
  BY <1>4, ReapedKeeps DEF Fails
<1>5. CASE (~Known(Reaped, a) \/ Reaped.status[a] = "closed") /\ Fails(free)
  <2>1. Reaped.active[a] = 0
    BY <1>3, <1>5 DEF StateOK, AgentOK, Known
  <2>2. free.active = Reaped.active
    BY <1>2, <1>3, <2>1 DEF StateOK
  <2> QED
    BY <1>2, <1>5, <2>2, ReapedKeeps DEF Fails, Becomes
<1>6. CASE /\ Launch(a, free, Asks(IF fresh THEN <<>> ELSE Reaped.history[a]), FALSE)
           /\ UNCHANGED <<profiled, seq, session>>
  <2> DEFINE h0 == IF fresh THEN <<>> ELSE Reaped.history[a]
  <2>1. \A r : [free.active EXCEPT ![a] = r] = [Reaped.active EXCEPT ![a] = r]
    BY <1>2, <1>3 DEF StateOK
  <2>2. Launch(a, Reaped, Asks(h0), FALSE)
    BY <1>2, <1>6, <2>1 DEF Launch
  <2>3. profiled' \in [Agents -> BOOLEAN] /\ seq' \in 0..MaxAgents /\ session' \in BOOLEAN
    BY <1>3, <1>6 DEF SubagentsTypes
  <2>4. h0 \in {<<>>, Reaped.history[a]} /\ FALSE \in BOOLEAN
    OBVIOUS
  <2> HIDE DEF h0
  <2> QED
    BY <1>3, <2>2, <2>3, <2>4, LaunchKeeps
<1> QED
  BY <1>1, <1>4, <1>5, <1>6 DEF free

LEMMA RetryKeeps == ASSUME SubagentsInv, RetryRun PROVE SubagentsInv'
<1>1. PICK a \in Agents :
        IF Reaped.active[a] # 0 \/ ~Known(Reaped, a) \/ Reaped.status[a] = "closed"
          THEN Fails(Reaped)
          ELSE /\ Launch(a, Reaped, Asks(Reaped.history[a]), FALSE)
               /\ UNCHANGED <<profiled, seq, session>>
  BY DEF RetryRun
<1>2. StateOK(Reaped) /\ SubagentsTypes /\ Len(launched) < MaxLaunches
  BY ReapedOK DEF SubagentsInv, RetryRun, CanLaunch
<1>3. CASE Fails(Reaped)
  BY <1>3, ReapedKeeps DEF Fails
<1>4. CASE Launch(a, Reaped, Asks(Reaped.history[a]), FALSE) /\ UNCHANGED <<profiled, seq, session>>
  <2>1. profiled' \in [Agents -> BOOLEAN] /\ seq' \in 0..MaxAgents /\ session' \in BOOLEAN
    BY <1>2, <1>4 DEF SubagentsTypes
  <2>2. Reaped.history[a] \in {<<>>, Reaped.history[a]} /\ FALSE \in BOOLEAN
    OBVIOUS
  <2> QED
    BY <1>2, <1>4, <2>1, <2>2, LaunchKeeps
<1> QED
  BY <1>1, <1>3, <1>4

LEMMA WaitKeeps == ASSUME SubagentsInv, Wait PROVE SubagentsInv'
<1>1. CASE Becomes(Reaped) /\ UNCHANGED launched /\ session' \in {session, FALSE}
  BY <1>1, ReapedKeeps DEF Wait, Unlaunched, SubagentsInv, SubagentsTypes
<1>2. ASSUME NEW a \in Agents, NEW o \in {"ok", "error", "panic"},
             Reaped.active[a] # 0,
             launched' = [launched EXCEPT ![active[a]].out = o],
             status' = [Reaped.status EXCEPT ![a] = IF o = "ok" THEN "completed" ELSE "failed"],
             active' = [Reaped.active EXCEPT ![a] = 0],
             history' = IF o = "ok" THEN [Reaped.history EXCEPT ![a] = Append(@, Message("assistant", active[a]))]
                                    ELSE Reaped.history,
             UNCHANGED session
      PROVE  SubagentsInv'
  <2>1. StateOK(Reaped) /\ SubagentsTypes /\ RunsOK(launched) /\ Reaped.active[a] = active[a] /\ o \in Outs
    BY <1>2, ReapedOK DEF SubagentsInv, SubagentsTypes, Outs
  <2> DEFINE run == Reaped.active[a]
  <2>2. AgentOK(a, Reaped.status[a], run, Reaped.history[a], launched)
    BY <2>1 DEF StateOK
  <2>3. run \in 1..Len(launched)
    BY <1>2, <2>1, <2>2, HistoriesKnown
  <2>4. /\ RunsOK(launched')
        /\ \A b \in Agents : AgentOK(b, Reaped.status[b], Reaped.active[b], Reaped.history[b], launched')
    BY <1>2, <2>1, <2>3, RunsEnd DEF StateOK
  <2>5. /\ AgentOK(a, "completed", 0, Append(Reaped.history[a], Message("assistant", run)), launched')
        /\ AgentOK(a, "failed", 0, Reaped.history[a], launched')
    BY <1>2, <2>4, Answer, Stop DEF AgentStatuses
  <2>6. Append(Reaped.history[a], Message("assistant", run)) \in Seq(Entries)
    BY <2>5 DEF AgentOK
  <2>7. /\ status' \in [Agents -> AgentStatuses] /\ active' \in [Agents -> Nat] /\ history' \in [Agents -> Seq(Entries)]
        /\ status'[a] = (IF o = "ok" THEN "completed" ELSE "failed") /\ active'[a] = 0
        /\ history'[a] = (IF o = "ok" THEN Append(Reaped.history[a], Message("assistant", run))
                                      ELSE Reaped.history[a])
        /\ \A b \in Agents : b # a => /\ status'[b] = Reaped.status[b] /\ active'[b] = Reaped.active[b]
                                       /\ history'[b] = Reaped.history[b]
    BY <1>2, <2>1, <2>6 DEF StateOK, AgentStatuses
  <2>8. \A b \in Agents : AgentOK(b, status'[b], active'[b], history'[b], launched')
    BY <2>4, <2>5, <2>7
  <2>9. session' \in BOOLEAN /\ UNCHANGED <<profiled, seq>>
    BY <1>2, <2>1 DEF SubagentsTypes, Wait
  <2> QED
    BY <2>1, <2>4, <2>7, <2>8, <2>9, BecomesKeeps
<1> QED
  BY <1>1, <1>2 DEF Wait

LEMMA SubagentsStep == SubagentsInv /\ [SubagentsNext]_subagentVars => SubagentsInv'
<1> SUFFICES ASSUME SubagentsInv, [SubagentsNext]_subagentVars PROVE SubagentsInv'
  OBVIOUS
<1>1. session \in BOOLEAN
  BY DEF SubagentsInv, SubagentsTypes
<1>2. CASE Reap
  BY <1>1, <1>2, ReapedKeeps DEF Reap
<1>3. CASE CancelRun
  <2>1. PICK a \in Agents :
          \/ Fails(Reaped)
          \/ /\ Becomes(IF Reaped.active[a] = 0 THEN Reaped
                         ELSE [Reaped EXCEPT !.active[a] = 0, !.status[a] = "cancelled"])
             /\ Unlaunched /\ UNCHANGED session
    BY <1>3 DEF CancelRun
  <2> QED
    BY <1>1, <2>1, ReapedKeeps, StopAgentKeeps DEF Fails
<1>4. CASE CloseAgent
  <2>1. PICK a \in Agents :
          \/ Fails(Reaped)
          \/ /\ Becomes([Reaped EXCEPT !.active[a] = 0, !.status[a] = "closed"])
             /\ Unlaunched /\ UNCHANGED session
    BY <1>4 DEF CloseAgent
  <2> QED
    BY <2>1, ReapedKeeps, StopAgentKeeps DEF Fails
<1>5. CASE UNCHANGED subagentVars
  BY <1>5 DEF subagentVars, SubagentsInv, SubagentsTypes, AgentsOK
<1> QED
  BY <1>2, <1>3, <1>4, <1>5, RunEndsKeeps, SpawnKeeps, SendKeeps, RetryKeeps, WaitKeeps DEF SubagentsNext

LEMMA SubagentsInvariant == SubagentsSpec => []SubagentsInv
BY SubagentsBegin, SubagentsStep, PTL DEF SubagentsSpec

LEMMA ImpliesConversation == SubagentsInv => Conversation
BY DEF SubagentsInv, AgentsOK, AgentOK, Conversation

LEMMA ImpliesTypeOK == SubagentsInv => SubagentsTypeOK
<1> SUFFICES ASSUME SubagentsInv PROVE SubagentsTypeOK
  OBVIOUS
<1>1. \A a \in Agents : active[a] \in 0..MaxLaunches /\ active[a] <= Len(launched)
  BY SubagentBounds DEF SubagentsInv, AgentsOK, AgentOK, SubagentsTypes, RunsOK
<1> QED
  BY <1>1 DEF SubagentsInv, SubagentsTypes, SubagentsTypeOK, RunsOK, AgentStatuses, AgentRuns

\* The manager keeps its types: what it waits for is a run of the session.
THEOREM SubagentsTypeCorrect == SubagentsSpec => []SubagentsTypeOK
BY SubagentsInvariant, ImpliesTypeOK, PTL

\* What a subagent is said to do and the conversation it goes on with are those of
\* its latest run, however runs were interrupted, cancelled, closed and retried.
THEOREM ConversationKept == SubagentsSpec => []Conversation
BY SubagentsInvariant, ImpliesConversation, PTL

------------------------------------------------------------------------------
(* MCP servers: every record is in the file its scope names. *)

McpSpec == McpInit /\ [][McpNext]_mcpVars

Records == [Servers -> ServerRecord]

\* The records name the scope, if they are known.
OfScope(recs, scope) == recs \in Records /\ \A n \in Servers : recs[n].known => recs[n].scope = scope

StepsOK(s) == pending[s] \in Seq(Mutations) /\ \A i \in 1..Len(pending[s]) : OfScope(pending[s][i].recs, pending[s][i].scope)

LEMMA McpTypes ==
  McpTypeOK <=> /\ DOMAIN files = Places /\ files \in [Places -> Records] /\ \A where \in Places : OfScope(files[where], ScopeOf(where))
                /\ archive \in [ScopeNames -> Records]
                /\ pending \in [Sessions -> Seq(Mutations)] /\ \A s \in Sessions : StepsOK(s)
                /\ hung \subseteq Sessions /\ started \in 0..MaxPids /\ alive \subseteq 1..started
<1>1. ASSUME pending \in [Sessions -> Seq(Mutations)], NEW s \in Sessions, NEW i \in 1..Len(pending[s])
      PROVE  pending[s][i].recs \in Records
  <2>1. pending[s] \in Seq(Mutations)
    BY <1>1
  <2>2. pending[s][i] \in Mutations
    BY <1>1, <2>1, ElementOfSeq
  <2> QED BY <2>2 DEF Mutations, Records
<1> QED BY <1>1 DEF McpTypeOK, Records, OfScope, StepsOK

\* Where a session finds the record of a scope, and that the record is of there.
LEMMA PlaceKnown ==
  ASSUME NEW s \in Sessions, NEW scope \in ScopeNames
  PROVE  Place(s, scope) \in Places /\ ScopeOf(Place(s, scope)) = scope
BY McpBounds DEF Place, Places, ScopeOf, ScopeNames, Shared

LEMMA NoneKnown ==
  /\ NoServer \in ServerRecord /\ ~NoServer.known /\ NoServers \in Records
  /\ \A scope : OfScope(NoServers, scope)
<1>1. 0 \in 0..MaxPids
  BY McpBounds
<1> QED BY <1>1 DEF NoServer, ServerRecord, NoServers, Records, OfScope, ScopeNames

LEMMA SeenIsRecord ==
  ASSUME McpTypeOK, NEW s \in Sessions, NEW n \in Servers
  PROVE  /\ Seen(s, n) \in ServerRecord
         /\ Seen(s, n).known => Seen(s, n) = files[Place(s, Seen(s, n).scope)][n]
<1>1. s \in Places /\ "project" \in Places /\ "global" \in Places /\ s \notin {"project", "global"}
  BY McpBounds DEF Places, Shared
<1>2. files[s][n] \in ServerRecord /\ files["project"][n] \in ServerRecord /\ files["global"][n] \in ServerRecord
  BY <1>1 DEF McpTypeOK
<1>3. /\ files[s][n].known => files[s][n].scope = "session"
      /\ files["project"][n].known => files["project"][n].scope = "project"
      /\ files["global"][n].known => files["global"][n].scope = "global"
  BY <1>1 DEF McpTypeOK, ScopeOf, Shared
<1> QED BY <1>2, <1>3 DEF Seen, Place

\* A file is written whole, stays, or is cut.
LEMMA WrittenKeeps ==
  ASSUME McpTypeOK, NEW where \in Places, NEW recs, OfScope(recs, ScopeOf(where)), files' \in Written(where, recs)
  PROVE  files' \in [Places -> Records] /\ \A p \in Places : OfScope(files'[p], ScopeOf(p))
BY NoneKnown, McpTypes DEF Written, OfScope

LEMMA SavedKeeps ==
  ASSUME McpTypeOK, NEW where \in Places, NEW recs, OfScope(recs, ScopeOf(where)), Saved(where, recs)
  PROVE  files' \in [Places -> Records] /\ \A p \in Places : OfScope(files'[p], ScopeOf(p))
BY McpTypes DEF Saved, OfScope

LEMMA ChangedScope ==
  ASSUME NEW recs, NEW scope \in ScopeNames, OfScope(recs, scope), NEW n \in Servers, NEW r \in ServerRecord, r.known => r.scope = scope
  PROVE  OfScope([recs EXCEPT ![n] = r], scope)
BY DEF OfScope, Records

\* An operation writes one file, and the rest is as it was.
LEMMA OneFile ==
  ASSUME McpTypeOK, NEW where \in Places, NEW recs, OfScope(recs, ScopeOf(where)), files' \in Written(where, recs),
         UNCHANGED <<archive, pending, hung>>, started' \in 0..MaxPids, alive' \subseteq 1..started'
  PROVE  McpTypeOK'
<1>1. files' \in [Places -> Records] /\ \A p \in Places : OfScope(files'[p], ScopeOf(p))
  BY WrittenKeeps
<1> QED BY <1>1, McpTypes DEF McpTypeOK, OfScope, Records

LEMMA BeginMcpKeeps ==
  ASSUME McpTypeOK, NEW s \in Sessions, NEW steps \in Seq(Mutations),
         \A i \in 1..Len(steps) : OfScope(steps[i].recs, steps[i].scope), Begins(s, steps)
  PROVE  McpTypeOK'
<1>1. /\ pending' \in [Sessions -> Seq(Mutations)] /\ pending'[s] = steps
      /\ \A t \in Sessions : t # s => pending'[t] = pending[t]
  BY DEF Begins, McpTypeOK
<1>2. ASSUME NEW t \in Sessions, NEW i \in 1..Len(pending'[t]), NEW n \in Servers, pending'[t][i].recs[n].known
      PROVE  pending'[t][i].recs[n].scope = pending'[t][i].scope
  <2>1. CASE t = s
    <3>1. OfScope(steps[i].recs, steps[i].scope)
      BY <1>1, <1>2, <2>1
    <3> QED BY <1>1, <1>2, <2>1, <3>1 DEF OfScope
  <2>2. CASE t # s
    BY <1>1, <1>2, <2>2 DEF McpTypeOK
  <2> QED BY <2>1, <2>2
<1> QED BY <1>1, <1>2 DEF Begins, McpTypeOK

LEMMA AddKeeps == ASSUME McpTypeOK, NEW s \in Sessions, AddServer(s) PROVE McpTypeOK'
<1>1. PICK n \in Servers, scope \in ScopeNames :
        LET where == Place(s, scope)
        IN files' \in Written(where, [files[where] EXCEPT ![n] = [NoServer EXCEPT !.known = TRUE, !.scope = scope]])
  BY DEF AddServer
<1>2. PICK where : where = Place(s, scope)
  OBVIOUS
<1>3. PICK r : r = [NoServer EXCEPT !.known = TRUE, !.scope = scope]
  OBVIOUS
<1>4. r \in ServerRecord /\ r.scope = scope
  BY <1>3, NoneKnown DEF ServerRecord
<1>5. where \in Places /\ ScopeOf(where) = scope
  BY <1>2, PlaceKnown
<1>6. OfScope([files[where] EXCEPT ![n] = r], scope)
  BY <1>4, <1>5, McpTypes, ChangedScope
<1>7. files' \in Written(where, [files[where] EXCEPT ![n] = r])
  BY <1>1, <1>2, <1>3
<1> QED BY <1>5, <1>6, <1>7, OneFile DEF AddServer, McpTypeOK

LEMMA SetKeeps == ASSUME McpTypeOK, NEW s \in Sessions, SetServer(s) PROVE McpTypeOK'
<1>1. PICK n \in Servers, trust \in BOOLEAN, data \in BOOLEAN :
        LET where == Place(s, Seen(s, n).scope)
        IN files' \in Written(where, [files[where] EXCEPT ![n].trusted = IF data THEN @ ELSE trust])
  BY DEF SetServer
<1>2. PICK where : where = Place(s, Seen(s, n).scope)
  OBVIOUS
<1>3. where \in Places
  BY <1>2, PlaceKnown, SeenIsRecord DEF ServerRecord
<1>4. PICK r : r = [files[where][n] EXCEPT !.trusted = IF data THEN @ ELSE trust]
  OBVIOUS
<1>5. files[where][n] \in ServerRecord /\ OfScope(files[where], ScopeOf(where))
  BY <1>3, McpTypes DEF Records
<1>6. r \in ServerRecord /\ r.scope = files[where][n].scope /\ r.known = files[where][n].known
  BY <1>4, <1>5 DEF ServerRecord
<1>7. files' \in Written(where, [files[where] EXCEPT ![n] = r])
  BY <1>1, <1>2, <1>4
<1>8. ScopeOf(where) \in ScopeNames
  BY DEF ScopeOf, ScopeNames, Shared
<1>9. OfScope([files[where] EXCEPT ![n] = r], ScopeOf(where))
  BY <1>5, <1>6, <1>8, ChangedScope DEF OfScope
<1> QED BY <1>3, <1>7, <1>9, OneFile DEF SetServer, McpTypeOK

LEMMA StartMcpKeeps == ASSUME McpTypeOK, NEW s \in Sessions, StartServer(s) PROVE McpTypeOK'
<1>1. PICK n \in Servers :
        LET v == Seen(s, n)
            where == Place(s, v.scope)
        IN /\ v.known /\ started' = started + 1 /\ alive' = alive \cup {started + 1}
           /\ IF files[where][n].known
                THEN files' \in Written(where, [files[where] EXCEPT ![n] = [v EXCEPT !.pid = started + 1]])
                ELSE UNCHANGED files
  BY DEF StartServer
<1>2. PICK v : v = Seen(s, n)
  OBVIOUS
<1>3. PICK where : where = Place(s, v.scope)
  OBVIOUS
<1>4. v \in ServerRecord /\ v.known /\ v = files[where][n] /\ where \in Places /\ ScopeOf(where) = v.scope /\ v.scope \in ScopeNames
  BY <1>1, <1>2, <1>3, SeenIsRecord, PlaceKnown DEF ServerRecord
<1>5. started' \in 0..MaxPids /\ started + 1 \in 0..MaxPids /\ alive' \subseteq 1..started'
  BY <1>1, McpBounds DEF StartServer, McpTypeOK
<1>6. PICK r : r = [v EXCEPT !.pid = started + 1]
  OBVIOUS
<1>7. r \in ServerRecord /\ r.scope = v.scope
  BY <1>4, <1>5, <1>6 DEF ServerRecord
<1>8. files' \in Written(where, [files[where] EXCEPT ![n] = r])
  BY <1>1, <1>2, <1>3, <1>4, <1>6
<1>9. OfScope([files[where] EXCEPT ![n] = r], ScopeOf(where))
  BY <1>4, <1>7, McpTypes, ChangedScope
<1> QED BY <1>4, <1>5, <1>8, <1>9, OneFile DEF StartServer

LEMMA StopMcpKeeps == ASSUME McpTypeOK, NEW s \in Sessions, StopServer(s) PROVE McpTypeOK'
<1>1. PICK n \in Servers :
        LET where == Place(s, Seen(s, n).scope)
        IN /\ alive' = alive \ {files[where][n].pid}
           /\ files' \in Written(where, [files[where] EXCEPT ![n].pid = 0])
  BY DEF StopServer
<1>2. PICK where : where = Place(s, Seen(s, n).scope)
  OBVIOUS
<1>3. where \in Places
  BY <1>2, PlaceKnown, SeenIsRecord DEF ServerRecord
<1>4. PICK r : r = [files[where][n] EXCEPT !.pid = 0]
  OBVIOUS
<1>5. files[where][n] \in ServerRecord /\ OfScope(files[where], ScopeOf(where))
  BY <1>3, McpTypes DEF Records
<1>6. r \in ServerRecord /\ r.scope = files[where][n].scope /\ r.known = files[where][n].known
  BY <1>4, <1>5, McpBounds DEF ServerRecord
<1>7. files' \in Written(where, [files[where] EXCEPT ![n] = r])
  BY <1>1, <1>2, <1>4
<1>8. ScopeOf(where) \in ScopeNames
  BY DEF ScopeOf, ScopeNames, Shared
<1>9. OfScope([files[where] EXCEPT ![n] = r], ScopeOf(where))
  BY <1>5, <1>6, <1>8, ChangedScope DEF OfScope
<1> QED BY <1>1, <1>3, <1>7, <1>9, OneFile DEF StopServer, McpTypeOK

LEMMA RemoveKeeps == ASSUME McpTypeOK, NEW s \in Sessions, RemoveServer(s) PROVE McpTypeOK'
<1>1. PICK n \in Servers : Begins(s, [i \in 1..3 |-> Mutation(Scopes[i], "drop", n, NoServers)])
  BY DEF RemoveServer
<1> DEFINE steps == [i \in 1..3 |-> Mutation(Scopes[i], "drop", n, NoServers)]
<1>2. \A i \in 1..3 : Scopes[i] \in ScopeNames
  BY DEF Scopes, ScopeNames
<1>3. steps \in Seq(Mutations) /\ Len(steps) = 3 /\ \A i \in 1..3 : steps[i].recs = NoServers
  BY <1>2, NoneKnown DEF Mutation, Mutations, Records
<1> HIDE DEF steps
<1> QED BY <1>1, <1>3, NoneKnown, BeginMcpKeeps DEF steps

LEMMA MoveMcpKeeps == ASSUME McpTypeOK, NEW s \in Sessions, MoveServer(s) PROVE McpTypeOK'
<1>1. PICK n \in Servers, target \in ScopeNames :
        LET v == Seen(s, n)
        IN Begins(s, <<Mutation(v.scope, "drop", n, NoServers),
                       Mutation(target, "put", n, [NoServers EXCEPT ![n] = [v EXCEPT !.scope = target]])>>)
  BY DEF MoveServer
<1>2. PICK v : v = Seen(s, n)
  OBVIOUS
<1>3. PICK recs : recs = [NoServers EXCEPT ![n] = [v EXCEPT !.scope = target]]
  OBVIOUS
<1>4. v \in ServerRecord /\ v.scope \in ScopeNames
  BY <1>2, SeenIsRecord DEF ServerRecord
<1>5. OfScope(recs, target) /\ recs \in Records
  <2>1. [v EXCEPT !.scope = target] \in ServerRecord /\ [v EXCEPT !.scope = target].scope = target
    BY <1>4 DEF ServerRecord
  <2>2. OfScope(NoServers, target)
    BY NoneKnown
  <2>3. OfScope(recs, target)
    BY <1>3, <2>1, <2>2, ChangedScope
  <2> QED BY <2>3 DEF OfScope
<1> DEFINE steps == <<Mutation(v.scope, "drop", n, NoServers), Mutation(target, "put", n, recs)>>
<1>6. steps \in Seq(Mutations) /\ Len(steps) = 2 /\ steps[1].recs = NoServers /\ steps[2].recs = recs /\ steps[2].scope = target
  BY <1>4, <1>5, NoneKnown DEF Mutation, Mutations, Records
<1> HIDE DEF steps
<1>7. \A i \in 1..2 : OfScope(steps[i].recs, steps[i].scope)
  BY <1>5, <1>6, NoneKnown
<1> QED BY <1>1, <1>2, <1>3, <1>6, <1>7, BeginMcpKeeps DEF steps

LEMMA ImportKeeps == ASSUME McpTypeOK, NEW s \in Sessions, ImportServers(s) PROVE McpTypeOK'
<1> DEFINE incoming(scope) == [m \in Servers |-> [archive[scope][m] EXCEPT !.scope = scope]]
<1>1. PICK n \in Servers, what \in {"merge", "replace"} :
        Begins(s, [i \in 1..3 |-> Mutation(Scopes[i], what, n, incoming(Scopes[i]))])
  BY DEF ImportServers
<1> DEFINE steps == [i \in 1..3 |-> Mutation(Scopes[i], what, n, incoming(Scopes[i]))]
<1>2. \A i \in 1..3 : Scopes[i] \in ScopeNames
  BY DEF Scopes, ScopeNames
<1>3. \A scope \in ScopeNames : OfScope(incoming(scope), scope) /\ incoming(scope) \in Records
  <2> SUFFICES ASSUME NEW scope \in ScopeNames PROVE OfScope(incoming(scope), scope) /\ incoming(scope) \in Records
    OBVIOUS
  <2>1. \A m \in Servers : archive[scope][m] \in ServerRecord
    BY DEF McpTypeOK
  <2>2. \A m \in Servers : incoming(scope)[m] \in ServerRecord /\ incoming(scope)[m].scope = scope
    BY <2>1 DEF ServerRecord
  <2>3. DOMAIN incoming(scope) = Servers /\ incoming(scope) = [m \in Servers |-> incoming(scope)[m]]
    OBVIOUS
  <2> HIDE DEF incoming
  <2> QED BY <2>2, <2>3 DEF OfScope, Records
<1> HIDE DEF incoming
<1>4. /\ steps \in Seq(Mutations) /\ Len(steps) = 3
      /\ \A i \in 1..3 : steps[i].recs = incoming(Scopes[i]) /\ steps[i].scope = Scopes[i]
  BY <1>2, <1>3 DEF Mutation, Mutations, Records
<1> HIDE DEF steps
<1>5. \A i \in 1..3 : OfScope(steps[i].recs, steps[i].scope)
  BY <1>2, <1>3, <1>4
<1> QED BY <1>1, <1>4, <1>5, BeginMcpKeeps DEF steps

LEMMA ResultKeeps ==
  ASSUME NEW m \in Mutations, NEW old, OfScope(old, m.scope), OfScope(m.recs, m.scope)
  PROVE  OfScope(Result(old, m), m.scope)
<1>1. m.what \in {"drop", "put", "merge", "replace"} /\ m.server \in Servers /\ m.scope \in ScopeNames
  BY DEF Mutations
<1>2. CASE m.what = "drop"
  BY <1>1, <1>2, NoneKnown, ChangedScope DEF Result
<1>3. CASE m.what = "put"
  <2>1. m.recs[m.server] \in ServerRecord /\ (m.recs[m.server].known => m.recs[m.server].scope = m.scope)
    BY <1>1 DEF OfScope, Records
  <2>2. Result(old, m) = [old EXCEPT ![m.server] = m.recs[m.server]]
    BY <1>3 DEF Result
  <2>3. \A r \in ServerRecord : (r.known => r.scope = m.scope) => OfScope([old EXCEPT ![m.server] = r], m.scope)
    BY <1>1, ChangedScope
  <2> QED BY <2>1, <2>2, <2>3
<1>4. CASE m.what = "merge"
  <2>1. Result(old, m) = [n \in Servers |-> IF m.recs[n].known THEN m.recs[n] ELSE old[n]]
    BY <1>4 DEF Result
  <2> QED BY <2>1 DEF OfScope, Records
<1>5. CASE m.what = "replace"
  BY <1>5 DEF Result
<1> QED BY <1>1, <1>2, <1>3, <1>4, <1>5

LEMMA WriteNextKeeps == ASSUME McpTypeOK, NEW s \in Sessions, WriteNext(s) PROVE McpTypeOK'
<1>1. PICK m : m = Head(pending[s])
  OBVIOUS
<1>2. PICK where : where = Place(s, m.scope)
  OBVIOUS
<1>3. pending[s] \in Seq(Mutations) /\ pending[s] # <<>> /\ StepsOK(s)
  BY McpTypes DEF WriteNext, McpTypeOK
<1>4. m \in Mutations /\ m.scope \in ScopeNames /\ OfScope(m.recs, m.scope)
  <2>1. m = pending[s][1] /\ 1 \in 1..Len(pending[s])
    BY <1>1, <1>3
  <2>2. m \in Mutations
    BY <1>3, <2>1, ElementOfSeq
  <2> QED BY <1>3, <2>1, <2>2 DEF StepsOK, Mutations
<1>5. where \in Places /\ ScopeOf(where) = m.scope
  BY <1>2, <1>4, PlaceKnown
<1>6. OfScope(Result(files[where], m), ScopeOf(where))
  BY <1>4, <1>5, ResultKeeps, McpTypes
<1>7. \/ Saved(where, Result(files[where], m)) /\ pending' = [pending EXCEPT ![s] = Tail(@)]
      \/ files' \in {files, [files EXCEPT ![where] = NoServers]} /\ pending' = [pending EXCEPT ![s] = <<>>]
  BY <1>1, <1>2 DEF WriteNext
<1>8. files' \in [Places -> Records] /\ \A p \in Places : OfScope(files'[p], ScopeOf(p))
  <2>1. CASE Saved(where, Result(files[where], m))
    BY <1>5, <1>6, <2>1, SavedKeeps
  <2>2. CASE files' \in {files, [files EXCEPT ![where] = NoServers]}
    BY <1>5, <2>2, NoneKnown, WrittenKeeps DEF Written
  <2> QED BY <1>7, <2>1, <2>2
<1>9. PICK rest : rest \in Seq(Mutations) /\ pending' = [pending EXCEPT ![s] = rest]
               /\ \A i \in 1..Len(rest) : OfScope(rest[i].recs, rest[i].scope)
  <2>1. /\ Tail(pending[s]) \in Seq(Mutations) /\ Len(Tail(pending[s])) = Len(pending[s]) - 1 /\ Len(pending[s]) \in Nat
        /\ \A i \in 1..Len(Tail(pending[s])) : Tail(pending[s])[i] = pending[s][i + 1]
    BY <1>3, HeadTailProperties
  <2>2. \A i \in 1..Len(Tail(pending[s])) : OfScope(Tail(pending[s])[i].recs, Tail(pending[s])[i].scope)
    BY <1>3, <2>1 DEF StepsOK
  <2>3. <<>> \in Seq(Mutations) /\ \A i \in 1..Len(<<>>) : FALSE
    OBVIOUS
  <2> QED BY <1>7, <2>1, <2>2, <2>3
<1>10. pending' \in [Sessions -> Seq(Mutations)] /\ \A t \in Sessions : StepsOK(t)'
  <2>1. pending' \in [Sessions -> Seq(Mutations)] /\ pending'[s] = rest /\ \A t \in Sessions : t # s => pending'[t] = pending[t]
    BY <1>9 DEF McpTypeOK
  <2>2. \A t \in Sessions : StepsOK(t)
    BY McpTypes
  <2> QED BY <1>9, <2>1, <2>2 DEF StepsOK
<1>11. /\ \A p \in Places, n \in Servers : files'[p][n].known => files'[p][n].scope = ScopeOf(p)
       /\ \A t \in Sessions : \A i \in 1..Len(pending'[t]) : \A n \in Servers :
            pending'[t][i].recs[n].known => pending'[t][i].recs[n].scope = pending'[t][i].scope
  BY <1>8, <1>10 DEF OfScope, StepsOK
<1> QED BY <1>8, <1>10, <1>11 DEF WriteNext, McpTypeOK, Records

\* Every record is in the file that its scope names, whatever the sessions of a machine
\* write over each other, move or import, and the processes known are some that were
\* started.
THEOREM McpTypeCorrect == McpSpec => []McpTypeOK
<1>1. McpInit => McpTypeOK
  <2> SUFFICES ASSUME McpInit PROVE McpTypeOK
    OBVIOUS
  <2>1. <<>> \in Seq(Mutations) /\ Len(<<>>) = 0 /\ 0 \in 0..MaxPids
    BY McpBounds
  <2>2. \A scope : OfScope(NoServers, scope)
    BY NoneKnown
  <2>3. /\ \A where \in Places : files[where] = NoServers
        /\ files \in [Places -> Records]
        /\ archive \in [ScopeNames -> Records]
    BY NoneKnown DEF McpInit
  <2>4. pending \in [Sessions -> Seq(Mutations)] /\ \A s \in Sessions : pending[s] = <<>>
    BY <2>1 DEF McpInit
  <2>5. \A s \in Sessions : StepsOK(s)
    BY <2>1, <2>4 DEF StepsOK
  <2>6. hung \subseteq Sessions /\ started \in 0..MaxPids /\ alive \subseteq 1..started
    BY <2>1 DEF McpInit
  <2>7. \A where \in Places : OfScope(files[where], ScopeOf(where))
    BY <2>2, <2>3
  <2>8. DOMAIN files = Places
    BY <2>3
  <2> QED BY <2>3, <2>4, <2>5, <2>6, <2>7, <2>8, McpTypes, Zenon
<1>2. McpTypeOK /\ [McpNext]_mcpVars => McpTypeOK'
  <2> SUFFICES ASSUME McpTypeOK, [McpNext]_mcpVars PROVE McpTypeOK'
    OBVIOUS
  <2>1. CASE ServerEnds
    BY <2>1 DEF ServerEnds, McpTypeOK
  <2>2. ASSUME NEW s \in Sessions, StartUnknown(s) PROVE McpTypeOK'
    BY <2>2 DEF StartUnknown, McpTypeOK
  <2>3. ASSUME NEW s \in Sessions, ExportServers(s) PROVE McpTypeOK'
    <3>1. \A scope \in ScopeNames : files[Place(s, scope)] \in Records
      BY PlaceKnown, McpTypes
    <3>2. archive' \in [ScopeNames -> Records]
      BY <2>3, <3>1 DEF ExportServers
    <3> QED BY <2>3, <3>2 DEF ExportServers, McpTypeOK, Records
  <2>4. CASE UNCHANGED mcpVars
    BY <2>4 DEF mcpVars, McpTypeOK
  <2> QED BY <2>1, <2>2, <2>3, <2>4, AddKeeps, SetKeeps, StartMcpKeeps, StopMcpKeeps, RemoveKeeps, MoveMcpKeeps, ImportKeeps,
             WriteNextKeeps DEF McpNext
<1> QED BY <1>1, <1>2, PTL DEF McpSpec

------------------------------------------------------------------------------
(* Worktrees: a branch in one of them at most. *)

WorktreeSpec == WorktreeInit /\ [][WorktreeNext]_worktreeVars

LEMMA TreePathsKnown ==
  /\ Main \in Paths
  /\ \A p \in Paths : p \in Seq(Branches) /\ Len(p) \in Nat /\ Len(p) <= MaxNesting
  /\ \A p \in Seq(Branches) : Len(p) <= MaxNesting => p \in Paths
<1>1. <<>> \in [1..0 -> Branches] /\ 0 \in 0..MaxNesting
  BY WorktreeBounds
<1>2. \A n \in 0..MaxNesting : \A p \in [1..n -> Branches] : p \in Seq(Branches) /\ Len(p) = n /\ n <= MaxNesting
  BY WorktreeBounds
<1>3. \A p \in Seq(Branches) : Len(p) <= MaxNesting => Len(p) \in 0..MaxNesting /\ p \in [1..Len(p) -> Branches]
  BY WorktreeBounds
<1> QED BY <1>1, <1>2, <1>3 DEF Main, Paths

LEMMA TreePathKnown ==
  ASSUME NEW p \in Paths, NEW b \in Branches
  PROVE  /\ Len(TreePath(p, b)) = Len(p) + 1 /\ TreePath(p, b) # Main /\ TreePath(p, b)[Len(TreePath(p, b))] = b
         /\ Len(p) < MaxNesting => TreePath(p, b) \in Paths
<1>1. TreePath(p, b) \in Seq(Branches) /\ Len(TreePath(p, b)) = Len(p) + 1 /\ TreePath(p, b)[Len(p) + 1] = b
  BY TreePathsKnown DEF TreePath
<1> QED BY <1>1, TreePathsKnown, WorktreeBounds DEF Main

\* The main tree is under no other.
LEMMA MainStays == ASSUME NEW p \in Paths, Len(p) > 0 PROVE Main \notin Under(p)
<1>1. Len(Main) = 0 /\ Len(p) \in Nat
  BY TreePathsKnown DEF Main
<1> QED BY <1>1 DEF Under

\* What git or somebody removes leaves fewer trees and paths, and the main tree.
LEMMA LessKeeps ==
  ASSUME WorktreeTypeOK, treeops' \in 0..MaxTreeOps, trees' \subseteq trees,
         on_disk' \subseteq on_disk, Main \in on_disk', place' \in Paths,
         inside' \in Seq([root : Paths, branch : Branches]), Len(inside') <= 1
  PROVE  WorktreeTypeOK'
BY DEF WorktreeTypeOK

LEMMA GitRemoveKeeps ==
  ASSUME WorktreeTypeOK, NEW from \in Paths, NEW b, CanRemove(from, b), GitRemove(from, b)
  PROVE  trees' \subseteq trees /\ on_disk' \subseteq on_disk /\ Main \in on_disk'
<1>1. Tree(TreePath(from, b), b) \in trees
  BY DEF CanRemove
<1>2. b \in Branches /\ TreePath(from, b) \in Paths
  BY <1>1 DEF WorktreeTypeOK, Tree
<1>3. Len(TreePath(from, b)) > 0
  BY <1>2, TreePathKnown, TreePathsKnown
<1> QED BY <1>2, <1>3, MainStays DEF GitRemove, WorktreeTypeOK

\* git has a branch in one worktree at most, one that it made is named after its branch,
\* and the session remembers a root with the branch, or neither.
THEOREM WorktreeTypeCorrect == WorktreeSpec => []WorktreeTypeOK
<1>1. WorktreeInit => WorktreeTypeOK
  BY TreePathsKnown, WorktreeBounds DEF WorktreeInit, WorktreeTypeOK
<1>2. WorktreeTypeOK /\ [WorktreeNext]_worktreeVars => WorktreeTypeOK'
  <2> SUFFICES ASSUME WorktreeTypeOK, [WorktreeNext]_worktreeVars PROVE WorktreeTypeOK'
    OBVIOUS
  <2>1. ASSUME Op PROVE treeops' \in 0..MaxTreeOps
    BY <2>1, WorktreeBounds DEF Op, WorktreeTypeOK
  <2>2. CASE CreateTree
    <3>1. PICK b \in Branches :
            /\ Len(place) < MaxNesting /\ \A t \in trees : t.branch # b /\ t.path # TreePath(place, b)
            /\ trees' = trees \cup {Tree(TreePath(place, b), b)} /\ on_disk' = on_disk \cup {TreePath(place, b)}
      BY <2>2 DEF CreateTree
    <3>2. PICK t : t = Tree(TreePath(place, b), b)
      OBVIOUS
    <3>3. /\ t \in [path : Paths, branch : Branches] /\ t.branch = b /\ Len(t.path) > 0
          /\ t.path[Len(t.path)] = t.branch /\ TreePath(place, b) \in Paths
      BY <3>1, <3>2, TreePathKnown, TreePathsKnown DEF Tree, WorktreeTypeOK
    <3> QED BY <2>1, <2>2, <3>1, <3>2, <3>3 DEF CreateTree, WorktreeTypeOK
  <2>3. CASE RemoveTree
    <3>1. PICK b \in Branches : CanRemove(place, b) /\ GitRemove(place, b)
      BY <2>3 DEF RemoveTree
    <3>2. place \in Paths
      BY DEF WorktreeTypeOK
    <3> QED BY <2>1, <2>3, <3>1, <3>2, GitRemoveKeeps, LessKeeps DEF RemoveTree, WorktreeTypeOK
  <2>4. CASE DeleteDirectory
    <3>1. PICK t \in trees : on_disk' = on_disk \ Under(t.path)
      BY <2>4 DEF DeleteDirectory
    <3>2. t.path \in Paths /\ Len(t.path) > 0
      BY <3>1 DEF WorktreeTypeOK
    <3> QED BY <2>1, <2>4, <3>1, <3>2, MainStays, LessKeeps DEF DeleteDirectory, WorktreeTypeOK
  <2>5. CASE EnterTree
    <3>1. PICK t \in trees :
            \/ place' = t.path /\ inside' = <<[root |-> place, branch |-> t.branch]>>
            \/ UNCHANGED <<place, inside>>
      BY <2>5 DEF EnterTree
    <3>2. t.path \in Paths /\ t.branch \in Branches /\ place \in Paths
      BY <3>1 DEF WorktreeTypeOK
    <3>3. PICK r \in [root : Paths, branch : Branches] : r = [root |-> place, branch |-> t.branch]
      BY <3>2
    <3>4. <<r>> \in Seq([root : Paths, branch : Branches]) /\ Len(<<r>>) = 1
      OBVIOUS
    <3>5. place' \in Paths /\ inside' \in Seq([root : Paths, branch : Branches]) /\ Len(inside') <= 1
      <4>1. CASE place' = t.path /\ inside' = <<[root |-> place, branch |-> t.branch]>>
        <5>1. inside' = <<r>>
          BY <3>3, <4>1
        <5> QED BY <3>2, <3>4, <4>1, <5>1
      <4>2. CASE UNCHANGED <<place, inside>>
        BY <4>2 DEF WorktreeTypeOK
      <4> QED BY <3>1, <4>1, <4>2
    <3>6. Op /\ trees' = trees /\ on_disk' = on_disk
      BY <2>5 DEF EnterTree
    <3>7. Main \in on_disk
      BY DEF WorktreeTypeOK
    <3> QED BY <2>1, <3>5, <3>6, <3>7, LessKeeps
  <2>6. ASSUME inside # <<>> PROVE inside[1].root \in Paths /\ inside[1].branch \in Branches
    <3>1. inside \in Seq([root : Paths, branch : Branches]) /\ 1 \in 1..Len(inside)
      BY <2>6 DEF WorktreeTypeOK
    <3>2. inside[1] \in [root : Paths, branch : Branches]
      BY <3>1, ElementOfSeq
    <3> QED BY <3>2
  <2>7. <<>> \in Seq([root : Paths, branch : Branches]) /\ Len(<<>>) <= 1
    OBVIOUS
  <2>8. CASE ExitKeep
    BY <2>1, <2>6, <2>7, <2>8, LessKeeps DEF ExitKeep, WorktreeTypeOK
  <2>9. CASE ExitRemove
    <3>1. PICK root \in Paths, b \in Branches : root = inside[1].root /\ b = inside[1].branch
      BY <2>6, <2>9 DEF ExitRemove
    <3>2. \/ CanRemove(root, b) /\ GitRemove(root, b) /\ place' = root
          \/ UNCHANGED <<trees, on_disk, place>>
      BY <2>9, <3>1 DEF ExitRemove
    <3>3. CASE CanRemove(root, b) /\ GitRemove(root, b) /\ place' = root
      BY <2>1, <2>7, <2>9, <3>3, GitRemoveKeeps, LessKeeps DEF ExitRemove
    <3>4. CASE UNCHANGED <<trees, on_disk, place>>
      BY <2>1, <2>7, <2>9, <3>4, LessKeeps DEF ExitRemove, WorktreeTypeOK
    <3> QED BY <3>2, <3>3, <3>4
  <2>10. CASE ChangeProject
    BY <2>1, <2>10, LessKeeps DEF ChangeProject, WorktreeTypeOK
  <2>11. CASE UNCHANGED worktreeVars
    BY <2>11 DEF worktreeVars, WorktreeTypeOK
  <2> QED BY <2>2, <2>3, <2>4, <2>5, <2>8, <2>9, <2>10, <2>11 DEF WorktreeNext
<1> QED BY <1>1, <1>2, PTL DEF WorktreeSpec
==============================================================================
