------------------------------- MODULE Settings -------------------------------
(***************************************************************************)
(* The settings of an interactive session: the file each project keeps,    *)
(* the configuration in memory and the copies of it in the Runtime         *)
(* (src/src/config.rs, src/src/policy.rs, the commands of src/src/main.rs).*)
(* Every command changes some of the three on its own, so the copies stay  *)
(* in step only if each of them does its part.  flags stands for the       *)
(* fields apply_runtime_flags_from_cfg copies: rules, directories, path    *)
(* restriction, review, killswitches, safe shell.                          *)
(***************************************************************************)
EXTENDS Naturals

CONSTANTS
  Projects,   \* directories a session may work in
  FlagSets,   \* values of the copied flags
  Permissions,\* permission modes
  Unsafe,     \* modes a remote policy may not set
  MaxChanges  \* bound of the model: commands and starts

ASSUME SettingsBounds == MaxChanges \in Nat /\ Unsafe \subseteq Permissions

VARIABLES
  file,     \* the config.json of each project
  cfg,      \* the configuration of the session
  rt,       \* what the Runtime copied
  cwd,      \* the project worked in
  open,     \* a session is running
  synced,   \* a remote policy was applied since the start
  replaced, \* the Runtime changed to the provider's default model by itself
  saved,  \* provider and model of the last session or checkpoint saved
  changes

settingsVars == <<file, cfg, rt, cwd, open, synced, replaced, saved, changes>>

Providers == {"openai", "claude"}
Models == {"gpt", "gpt-old", "sonnet"}
DefaultModel(p) == IF p = "claude" THEN "sonnet" ELSE "gpt"
Fits(p, m) == (p = "claude") = (m = "sonnet")

\* reconcile_model_for_provider
Reconcile(p, m) == IF Fits(p, m) THEN m ELSE DefaultModel(p)

Config == [provider : Providers, model : Models, mode : Permissions, flags : FlagSets, think : BOOLEAN]

SettingsTypeOK ==
  /\ file \in [Projects -> Config] /\ cfg \in Config /\ rt \in Config /\ cwd \in Projects
  /\ open \in BOOLEAN /\ synced \in BOOLEAN /\ replaced \in BOOLEAN
  /\ saved \in [provider : Providers, model : Models]

SettingsInit ==
  /\ \E p \in Providers, mode \in Permissions, flags \in FlagSets :
       LET first == [provider |-> p, model |-> DefaultModel(p), mode |-> mode, flags |-> flags, think |-> FALSE]
       IN /\ file = [q \in Projects |-> first]
          /\ cfg = first /\ rt = first
  /\ saved = [provider |-> "openai", model |-> "gpt"]
  /\ cwd \in Projects /\ open = FALSE /\ synced = FALSE /\ replaced = FALSE /\ changes = 0

Change == changes < MaxChanges /\ changes' = changes + 1
Typed == open /\ Change

\* cfg.save(): to the project worked in now; most commands ignore an error.
Save(c) == file' \in {file, [file EXCEPT ![cwd] = c]}

\* apply_runtime_flags_from_cfg
Applied(c) == [rt EXCEPT !.flags = c.flags]

\* rebind_provider_model and the flags
Bound(c) == [Applied(c) EXCEPT !.provider = c.provider, !.model = c.model]

Stay == UNCHANGED <<cwd, open, synced, saved>>
Keeps == Stay /\ UNCHANGED replaced

------------------------------------------------------------------------------
\* resolve_cfg reads the file where the program starts, --project changes the
\* directory after that, and the wizard saves what was read.
Start ==
  /\ ~open /\ Change
  /\ \E from, to \in Projects, p \in Providers, m \in Models, mode \in Permissions, wizard \in BOOLEAN :
       LET read == file[from]
           c == [read EXCEPT !.provider = p, !.model = Reconcile(p, m), !.mode = mode]
       IN /\ p = read.provider \/ wizard
          /\ m \in {read.model, DefaultModel(p)} /\ mode \in {read.mode, "workspace-write"}
          /\ cwd' = to /\ cfg' = c /\ rt' = c
          /\ file' = IF wizard THEN [file EXCEPT ![to] = c] ELSE file
  /\ open' = TRUE /\ synced' = FALSE /\ replaced' = FALSE
  /\ UNCHANGED saved

\* The end of the session, also by the error of a command: /permissions and
\* /flags with a bad argument, /policy sync with a bad answer.
Leave ==
  /\ open /\ open' = FALSE
  /\ saved' \in {saved, [provider |-> rt.provider, model |-> rt.model]}
  /\ UNCHANGED <<file, cfg, rt, cwd, synced, replaced, changes>>

\* Mutant of SwitchProject: the configuration of the new project is loaded.
SwitchProjectLoading ==
  /\ Typed /\ cwd' \in Projects
  /\ cfg' = file[cwd'] /\ rt' = Applied(cfg')
  /\ UNCHANGED <<file, open, synced, replaced, saved>>

SwitchProject ==
  /\ Typed /\ cwd' \in Projects
  /\ rt' = Applied(cfg)
  /\ UNCHANGED <<file, cfg, open, synced, replaced, saved>>

\* /permissions <mode>, /permissions mode, /runtime-profile
PermissionMode ==
  /\ Typed /\ \E m \in Permissions :
       /\ cfg' = [cfg EXCEPT !.mode = m] /\ rt' = [rt EXCEPT !.mode = m]
  /\ Save(cfg') /\ Keeps

\* the persistent rules, directories, path restriction and review of
\* /permissions, /privacy safe-shell and /flags set
ChangeFlags ==
  /\ Typed /\ \E f \in FlagSets :
       /\ cfg' = [cfg EXCEPT !.flags = f] /\ rt' = Applied(cfg')
  /\ Save(cfg') /\ Keeps

Think ==
  /\ Typed /\ \E on \in BOOLEAN :
       /\ cfg' = [cfg EXCEPT !.think = on] /\ rt' = [rt EXCEPT !.think = on]
  /\ Save(cfg') /\ Keeps

\* sync_remote_policy takes the provider and the model as they come, and the
\* command copies all but extended_thinking (and max_turns) to the Runtime.
PolicySync ==
  /\ Typed /\ \E patch \in Config :
       LET c == [patch EXCEPT !.mode = IF @ \in Unsafe THEN cfg.mode ELSE @]
       IN /\ cfg' = c /\ Save(c)
          /\ rt' = [Bound(c) EXCEPT !.mode = c.mode]
  /\ synced' = TRUE /\ replaced' = FALSE
  /\ UNCHANGED <<cwd, open, saved>>

ModelCommand ==
  /\ Typed /\ \E m \in Models :
       /\ cfg' = [cfg EXCEPT !.model = Reconcile(rt.provider, m)]
       /\ rt' = [Applied(cfg') EXCEPT !.model = cfg'.model]
  /\ replaced' = FALSE /\ Save(cfg') /\ Stay

\* /provider takes a provider, or a model that implies one.
ProviderCommand ==
  /\ Typed /\ \E p \in Providers, m \in Models :
       /\ m = cfg.model \/ Fits(p, m)
       /\ cfg' = [cfg EXCEPT !.provider = p, !.model = Reconcile(p, m)]
       /\ rt' = Bound(cfg')
  /\ replaced' = FALSE /\ Save(cfg') /\ Stay

SetupWizard ==
  /\ Typed /\ \E p \in Providers, m \in Models :
       /\ cfg' = [cfg EXCEPT !.provider = p, !.model = Reconcile(p, m)]
       /\ rt' = Bound(cfg')
  /\ file' = [file EXCEPT ![cwd] = cfg']
  /\ replaced' = FALSE /\ Stay

\* /resume, /checkpoint load and resume: the pair that was saved, not saved anew.
Resume ==
  /\ Typed
  /\ cfg' = [cfg EXCEPT !.provider = saved.provider, !.model = saved.model]
  /\ rt' = Bound(cfg')
  /\ replaced' = FALSE /\ Stay /\ UNCHANGED file

\* The model does not exist: a turn goes on with the provider's default.
ReplaceModel ==
  /\ Typed /\ rt.model # DefaultModel(rt.provider)
  /\ rt' = [rt EXCEPT !.model = DefaultModel(rt.provider)]
  /\ replaced' = TRUE /\ Stay /\ UNCHANGED <<file, cfg>>

SettingsNext ==
  \/ Start \/ Leave \/ SwitchProject \/ PermissionMode \/ ChangeFlags \/ Think
  \/ PolicySync \/ ModelCommand \/ ProviderCommand \/ SetupWizard \/ Resume \/ ReplaceModel

------------------------------------------------------------------------------
\* Calls are judged and requests made by the settings the user sees and
\* changes: after any sequence of commands, projects and sessions the Runtime
\* has the rules, the mode, the provider and, unless it replaced it, the model
\* of the configuration; without a remote policy, which changes only the
\* configuration there, extended thinking too.
RuntimeFollows ==
  open =>
    /\ rt.flags = cfg.flags /\ rt.mode = cfg.mode /\ rt.provider = cfg.provider
    /\ replaced \/ rt.model = cfg.model
    /\ synced \/ rt.think = cfg.think

==============================================================================
