--------------------------------- MODULE Voice ---------------------------------
(***************************************************************************)
(* Voice in the interactive session (/voice of src/src/main.rs, and        *)
(* src/src/voice.rs): settings that live in variables of the session, in   *)
(* the environment of the process, in the configuration and in its file,   *)
(* with a command for each and not the same route for any two; listening   *)
(* and speaking.  mute stands for the settings that take its route, the    *)
(* voice of the engine and the time limit.  What counts listens and what   *)
(* is logged of them is left out.                                          *)
(***************************************************************************)
EXTENDS Naturals

CONSTANTS
  Triggers,    \* words that start listening
  MaxVoiceOps  \* bound of the model: sessions and commands

VARIABLES
  voice_able,  \* the platform has voices
  voice,       \* what the session goes by
  voice_env,   \* the environment: a value or "unset"
  voice_cfg,   \* the configuration in memory
  voice_file,  \* its file
  voice_open,  \* a session runs
  voice_fresh, \* it began without a wish of its own and had no command yet
  voice_last,  \* what held when the last session ended
  voice_result,\* of the last listen or speech
  voice_ops

voiceVars == <<voice_able, voice, voice_env, voice_cfg, voice_file, voice_open, voice_fresh, voice_last, voice_result,
               voice_ops>>

ASSUME VoiceBounds == MaxVoiceOps \in Nat /\ "." \in Triggers

Switch == {"on", "off"}
Engines == {"local", "openai"}
Hotkeys == {"F8", "F9"}
VoiceConfig ==
  [mode : Switch, engine : Engines \cup {"auto"}, mute : Switch, ptt : Switch, trigger : Triggers,
   hotkey : Hotkeys \cup {"?"}, fallback : Switch, soft : Switch]
DefaultVoice ==
  [mode |-> "off", engine |-> "local", mute |-> "off", ptt |-> "off", trigger |-> ".",
   hotkey |-> "F8", fallback |-> "on", soft |-> "on"]
Unset == [f \in DOMAIN DefaultVoice |-> "unset"]

\* What the user's shell may set: nothing, a key that is none, an engine to be chosen.
OuterEnvs == {Unset, [Unset EXCEPT !.hotkey = "?"], [Unset EXCEPT !.engine = "auto", !.ptt = "on", !.soft = "off"]}

NoVoice == [mode |-> "none"]
VoiceTypeOK ==
  /\ voice_cfg \in VoiceConfig /\ voice_file \in VoiceConfig /\ voice \in VoiceConfig
  /\ \A f \in DOMAIN Unset : voice_env[f] \in {"unset"} \cup {c[f] : c \in VoiceConfig}
  /\ voice_able \in BOOLEAN /\ voice_open \in BOOLEAN /\ voice_fresh \in BOOLEAN /\ (voice_last = NoVoice \/ voice_last \in VoiceConfig)
  /\ voice_result \in {"none", "heard", "silence", "waited", "error", "said", "muted"}

VoiceInit ==
  /\ voice_able \in BOOLEAN /\ voice = DefaultVoice /\ voice_cfg = DefaultVoice /\ voice_env = Unset
  /\ voice_file \in {DefaultVoice, [DefaultVoice EXCEPT !.mode = "on", !.hotkey = "F9", !.fallback = "off"]}
  /\ voice_open = FALSE /\ voice_fresh = FALSE /\ voice_last = NoVoice /\ voice_result = "none" /\ voice_ops = 0

\* auto is a choice in the environment; in the file it is no engine.
Chosen(given, read, key) ==
  CASE given = "auto" -> IF key THEN "openai" ELSE "local"
    [] given = "unset" /\ read = "auto" -> "local"
    [] OTHER -> read
Valid(hotkey) == IF hotkey \in Hotkeys THEN hotkey ELSE "F8"

\* The settings as they are felt; voice holds no fallback and no soft of its own.
InEffect == [voice EXCEPT !.fallback = voice_env.fallback, !.soft = voice_env.soft]

\* sync_voice_config_fields
Synced(v, env) ==
  [v EXCEPT !.hotkey = Valid(IF env.hotkey = "unset" THEN voice_cfg.hotkey ELSE env.hotkey),
            !.fallback = env.fallback, !.soft = env.soft]

VoiceOp == voice_ops < MaxVoiceOps /\ voice_ops' = voice_ops + 1

\* A platform without voices is told so, and goes without.
Supported(mode) == IF voice_able THEN mode ELSE "off"

\* AppConfig::load, then the variables of the session, then the environment of what
\* has no place in it yet.
StartVoice ==
  /\ ~voice_open /\ VoiceOp
  /\ \E env \in OuterEnvs, flag, key \in BOOLEAN :
       LET read == [f \in DOMAIN env |-> IF env[f] = "unset" THEN voice_file[f] ELSE env[f]]
           wished == IF flag \/ read.mode = "on" THEN "on" ELSE "off"
           v == [read EXCEPT !.mode = Supported(wished),
                            !.engine = Chosen(env.engine, @, key), !.hotkey = Valid(@)]
           fill(f, x) == IF env[f] = "unset" THEN x ELSE env[f]
       IN /\ voice' = v /\ voice_cfg' = read
          /\ voice_env' = [env EXCEPT !.fallback = fill("fallback", read.fallback), !.soft = fill("soft", read.soft),
                                      !.ptt = fill("ptt", read.ptt), !.trigger = fill("trigger", v.trigger),
                                      !.hotkey = fill("hotkey", v.hotkey)]
          /\ voice_fresh' = (env = Unset /\ ~flag /\ voice_able)
  /\ voice_open' = TRUE /\ voice_result' = "none" /\ UNCHANGED <<voice_able, voice_file, voice_last>>

\* The end of the session saves, and does not mind an error.
ExitVoice ==
  /\ voice_open /\ voice_open' = FALSE /\ voice_fresh' = FALSE
  /\ voice_cfg' = Synced(voice, voice_env)
  /\ \/ voice_file' = voice_cfg' /\ voice_last' = InEffect
     \/ voice_file' = voice_file /\ voice_last' = NoVoice
  /\ UNCHANGED <<voice_able, voice, voice_env, voice_result, voice_ops>>

------------------------------------------------------------------------------
(* Commands. *)

VoiceCommand == voice_open /\ VoiceOp /\ voice_fresh' = FALSE /\ voice_result' = "none" /\ UNCHANGED voice_able
Remembered == voice_cfg' = Synced(voice', voice_env') /\ UNCHANGED <<voice_file, voice_open, voice_last>>

\* save_voice_config: its error is that of the command, and ends the session
\* without the save of a regular end.
Persisted ==
  /\ voice_cfg' = Synced(voice', voice_env')
  /\ \/ voice_file' = voice_cfg' /\ UNCHANGED <<voice_open, voice_last>>
     \/ voice_open' = FALSE /\ voice_last' = NoVoice /\ UNCHANGED voice_file

\* /voice on needs the platform, off does not.
SwitchVoice ==
  /\ VoiceCommand
  /\ \E x \in Switch : (x = "on" => voice_able) /\ voice' = [voice EXCEPT !.mode = x]
  /\ UNCHANGED voice_env /\ Remembered

\* engine (auto is chosen at once), mute, ptt, ptt-trigger: of this session, which the
\* configuration remembers; the hotkey goes to the environment too, whose value the
\* configuration takes.
SetVoice ==
  /\ VoiceCommand
  /\ \/ \E x \in Switch, f \in {"mute", "ptt"} : voice' = [voice EXCEPT ![f] = x]
     \/ \E x \in Triggers : voice' = [voice EXCEPT !.trigger = x]
  /\ UNCHANGED voice_env /\ Remembered
SetEngine ==
  /\ VoiceCommand
  /\ \E x \in Engines : voice' = [voice EXCEPT !.engine = x]
  /\ UNCHANGED voice_env /\ Remembered
\* Mutant of SetHotkey: only the variable of the session is set.
SetHotkeyHere ==
  /\ VoiceCommand
  /\ \E x \in Hotkeys : voice' = [voice EXCEPT !.hotkey = x] /\ UNCHANGED voice_env
  /\ Remembered
SetHotkey ==
  /\ VoiceCommand
  /\ \E x \in Hotkeys : voice' = [voice EXCEPT !.hotkey = x] /\ voice_env' = [voice_env EXCEPT !.hotkey = x]
  /\ Remembered

\* /voice config: the environment and the file as well; fallback-local and
\* local-soft-fail have no variable.
ConfigVoice ==
  /\ VoiceCommand
  /\ \/ \E x \in Switch, f \in {"fallback", "soft"} : voice_env' = [voice_env EXCEPT ![f] = x] /\ UNCHANGED voice
     \/ \E f \in {"ptt", "trigger", "hotkey"} :
          \E x \in (CASE f = "ptt" -> Switch [] f = "trigger" -> Triggers [] OTHER -> Hotkeys) :
            voice' = [voice EXCEPT ![f] = x] /\ voice_env' = [voice_env EXCEPT ![f] = x]
  /\ Persisted

\* /voice config show remembers, /voice config save persists what is.
ShowVoice == VoiceCommand /\ UNCHANGED <<voice, voice_env>> /\ Remembered
SaveVoice == VoiceCommand /\ UNCHANGED <<voice, voice_env>> /\ Persisted

\* Commands of other settings save the whole configuration; most ignore an error.
SaveOther ==
  /\ VoiceCommand
  /\ voice_file' \in {voice_file, voice_cfg}
  /\ UNCHANGED <<voice, voice_env, voice_cfg, voice_open, voice_last>>

------------------------------------------------------------------------------
(* Listening and speaking. *)

Listened(outcomes) ==
  /\ voice_open /\ voice_result' \in IF voice_able THEN outcomes ELSE {"error"}
  /\ UNCHANGED <<voice_able, voice, voice_env, voice_cfg, voice_file, voice_open, voice_fresh, voice_last,
                 voice_ops>>
\* What is heard is the line typed, a command too.
Heard == {"heard", "silence", "error"}

\* /voice listen asks for the platform only, the trigger and a blank line for the mode.
ListenNow == Listened(Heard)
ListenTrigger == voice.mode = "on" /\ voice.ptt = "on" /\ Listened(Heard)
ListenBlank == voice.mode = "on" /\ voice.ptt = "off" /\ Listened(Heard)
\* hotkey-listen waits for the key, then listens; hold-listen while it is held.
ListenHotkey == voice.mode = "on" /\ Listened(Heard \cup {"waited"})

\* speak_text_with_engine: the engine, then, if it is allowed, the local one, whose
\* error for want of a device may count as none.
Spoken(openai, local) ==
  LET here == local = "plays" \/ (local = "no_device" /\ voice_env.soft = "on")
  IN IF voice.engine = "local" THEN here ELSE openai \/ (voice_env.fallback = "on" /\ here)

\* /voice test, and the reply of a turn that is not the result of a tool.
Speeches == {IF Spoken(o, l) THEN "said" ELSE "error" : o \in BOOLEAN, l \in {"plays", "no_device", "breaks"}}
TestVoice == Listened(IF voice.mute = "on" THEN {"muted"} ELSE Speeches)
SpeakReply == voice.mode = "on" /\ voice.mute = "off" /\ Listened(Speeches)

VoiceNext ==
  \/ StartVoice \/ ExitVoice \/ SwitchVoice \/ SetVoice \/ SetEngine \/ SetHotkey \/ ConfigVoice \/ ShowVoice \/ SaveVoice
  \/ SaveOther \/ ListenNow \/ ListenTrigger \/ ListenBlank \/ ListenHotkey \/ TestVoice \/ SpeakReply

------------------------------------------------------------------------------
\* What the user chose holds in the next session: one that starts on a platform with
\* voices, without an option or a variable of the user's shell, goes by what the last
\* one went by when it ended and its file could be written, whatever commands brought
\* it there and whichever of the four places they wrote to.
VoiceSurvives == voice_fresh /\ voice_last # NoVoice => InEffect = voice_last

==============================================================================
