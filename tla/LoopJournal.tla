------------------------------ MODULE LoopJournal ------------------------------
(***************************************************************************)
(* The checkpoint file of a directory (src/src/session.rs) and those who   *)
(* write it without a lock: the auto-loop of the interactive session, the  *)
(* checkpoint of that session after every turn and its commands, and the   *)
(* loops of helpers, which are the subagent threads of the session (they   *)
(* end with its process) and the processes of `asi prompt`.  A loop saves  *)
(* on entry, now and then, and when it ends; a session that starts offers  *)
(* to resume the loop the file says is running.                            *)
(***************************************************************************)
EXTENDS Naturals, FiniteSets

CONSTANTS
  Threads,    \* helpers that are threads of the session
  Prompts,    \* helpers that are processes of their own
  MaxLoops,   \* bound of the model: loops of all writers
  MaxCrashes, \* bound of the model: ends of the session's process
  MaxActs     \* bound of the model: turns and checkpoint commands

ASSUME JournalBounds ==
  /\ {MaxLoops, MaxCrashes, MaxActs} \subseteq Nat
  /\ Threads \cap Prompts = {} /\ "session" \notin Threads \cup Prompts

VARIABLES
  disk,      \* the checkpoint file
  writing,   \* per writer, the content it is writing, or Nothing
  crossed,   \* writers whose file another one wrote meanwhile
  running,   \* per writer, the loop it runs, or 0
  at,        \* what the session does: "down", "asking", "ready", "turn" or "loop"
  found,     \* the checkpoint the session read when it started
  resumes,   \* pending_resume_task: the next turn is the resumed task
  automatic, \* auto_checkpoint_enabled
  kept,      \* loops whose last save that says running succeeded
  ended,     \* loops whose last save succeeded
  broken,    \* the loop the session was in when it went down, or 0
  loops, crashes, acts

journalVars == <<disk, writing, crossed, running, at, found, resumes, automatic,
                 kept, ended, broken, loops, crashes, acts>>

Writers == {"session"} \cup Threads \cup Prompts
LoopIds == 1..MaxLoops

\* A checkpoint with the journal of a loop; one of a session that runs none;
\* no file, or nothing being written; one that does not load, being cut or
\* written by two at once.
Content(kind, l, live) == [kind |-> kind, loop |-> l, live |-> live]
Journal(l, live) == Content("whole", l, live)
Bare == Journal(0, FALSE)
Nothing == Content("none", 0, FALSE)
Torn == Content("torn", 0, FALSE)
Checkpoints == {Journal(l, live) : l \in {0} \cup LoopIds, live \in BOOLEAN}

JournalTypeOK ==
  /\ disk \in Checkpoints \cup {Nothing, Torn}
  /\ writing \in [Writers -> Checkpoints \cup {Nothing}] /\ crossed \subseteq Writers
  /\ running \in [Writers -> {0} \cup LoopIds]
  /\ at \in {"down", "asking", "ready", "turn", "loop"}
  /\ found \in Checkpoints \cup {Nothing, Torn} /\ broken \in {0} \cup LoopIds
  /\ {resumes, automatic} \subseteq BOOLEAN
  /\ kept \subseteq LoopIds /\ ended \subseteq LoopIds

JournalInit ==
  /\ disk = Nothing /\ writing = [w \in Writers |-> Nothing] /\ crossed = {}
  /\ running = [w \in Writers |-> 0] /\ at = "down" /\ found = Nothing
  /\ resumes = FALSE /\ automatic \in BOOLEAN /\ kept = {} /\ ended = {} /\ broken = 0
  /\ loops = 0 /\ crashes = 0 /\ acts = 0

Progress == <<loops, crashes, acts>>
Live == disk.live
Act == acts < MaxActs /\ acts' = acts + 1
Free(w) == writing[w] = Nothing

------------------------------------------------------------------------------
\* write_session_file: the file is emptied, then filled; another writer may
\* come between, and what it leaves longer stays behind.  An error is ignored:
\* before the file is emptied it changes nothing, after that it leaves a part.

Opens(w, c) ==
  \/ disk' = Torn /\ writing' = [writing EXCEPT ![w] = c]
  \/ UNCHANGED <<disk, writing>>

FillFile(w) ==
  /\ ~Free(w)
  /\ disk' \in {writing[w]} \cup IF w \in crossed THEN {Torn} ELSE {}
  /\ crossed' = (crossed \cup {v \in Writers : ~Free(v)}) \ {w}
  /\ writing' = [writing EXCEPT ![w] = Nothing]
  /\ LET l == writing[w].loop
     IN /\ kept' = IF writing[w].live THEN kept \cup {l} ELSE kept \ {l}
        /\ ended' = IF l # 0 /\ ~writing[w].live THEN ended \cup {l} ELSE ended
  /\ UNCHANGED <<running, at, found, resumes, automatic, broken, Progress>>

FillFails(w) ==
  /\ ~Free(w) /\ disk' = Torn
  /\ crossed' = (crossed \cup {v \in Writers : ~Free(v)}) \ {w}
  /\ writing' = [writing EXCEPT ![w] = Nothing]
  /\ UNCHANGED <<running, at, found, resumes, automatic, kept, ended, broken, Progress>>

\* save_in_loop_journal of the loop w runs
SaveJournal(w, live) == Opens(w, Journal(running'[w], live))

EnterLoop(w) ==
  /\ Free(w) /\ running[w] = 0 /\ loops < MaxLoops
  /\ IF w = "session" THEN at = "turn" /\ at' = "loop"
                      ELSE (w \in Threads => at # "down") /\ UNCHANGED at
  /\ loops' = loops + 1 /\ running' = [running EXCEPT ![w] = loops + 1]
  /\ SaveJournal(w, TRUE)
  /\ UNCHANGED <<crossed, found, resumes, automatic, kept, ended, broken, crashes, acts>>

\* An iteration that is due to save.
Iterate(w) ==
  /\ Free(w) /\ running[w] # 0
  /\ Act /\ UNCHANGED running
  /\ SaveJournal(w, TRUE)
  /\ UNCHANGED <<crossed, at, found, resumes, automatic, kept, ended, broken, loops, crashes>>

\* Mutant of LeaveLoop: the last save still says that the loop runs.
LeaveLoopRunning(w) ==
  /\ Free(w) /\ running[w] # 0
  /\ \/ ended' = ended \cup {running[w]} /\ Opens(w, Journal(running[w], TRUE))
     \/ UNCHANGED <<disk, writing, ended>>
  /\ running' = [running EXCEPT ![w] = 0]
  /\ at' = IF w = "session" THEN "turn" ELSE at
  /\ UNCHANGED <<crossed, found, resumes, automatic, kept, broken, Progress>>

\* The loop ends, however it does, with a last save; the turn of the session
\* ends with its checkpoint.
LeaveLoop(w) ==
  /\ Free(w) /\ running[w] # 0
  /\ Opens(w, Journal(running[w], FALSE))
  /\ running' = [running EXCEPT ![w] = 0]
  /\ at' = IF w = "session" THEN "turn" ELSE at
  /\ UNCHANGED <<crossed, found, resumes, automatic, kept, ended, broken, Progress>>

------------------------------------------------------------------------------
\* The session.

\* The start: a running loop in the file is offered.  (Journals are enabled.)
StartSession ==
  /\ at = "down" /\ Free("session")
  /\ found' = disk /\ at' = IF Live THEN "asking" ELSE "ready"
  /\ resumes' = FALSE
  /\ UNCHANGED <<disk, writing, crossed, running, automatic, kept, ended, broken, Progress>>

AnswerResume ==
  /\ at = "asking" /\ at' = "ready" /\ resumes' \in BOOLEAN
  /\ UNCHANGED <<disk, writing, crossed, running, found, automatic, kept, ended, broken, Progress>>

\* A prompt, or the task to resume; whether a loop follows is up to the reply.
StartTurn ==
  /\ at = "ready" /\ Free("session") /\ Act
  /\ at' = "turn" /\ resumes' = FALSE /\ broken' = 0
  /\ UNCHANGED <<disk, writing, crossed, running, found, automatic, kept, ended, loops, crashes>>

EndTurn ==
  /\ at = "turn" /\ Free("session") /\ at' = "ready"
  /\ IF automatic THEN Opens("session", Bare) ELSE UNCHANGED <<disk, writing>>
  /\ UNCHANGED <<crossed, running, found, resumes, automatic, kept, ended, broken, Progress>>

Ready == at = "ready" /\ Free("session") /\ Act /\ broken' = 0

CheckpointSave ==
  /\ Ready /\ Opens("session", Bare)
  /\ UNCHANGED <<crossed, running, at, found, resumes, automatic, kept, ended, loops, crashes>>

CheckpointClear ==
  /\ Ready /\ disk' \in {Nothing, disk}
  /\ UNCHANGED <<writing, crossed, running, at, found, resumes, automatic, kept, ended, loops, crashes>>

\* /checkpoint resume; /checkpoint load restores the messages and no more.
CheckpointResume ==
  /\ Ready /\ resumes' = (resumes \/ Live)
  /\ UNCHANGED <<disk, writing, crossed, running, at, found, automatic, kept, ended, loops, crashes>>

CheckpointSwitch ==
  /\ Ready /\ automatic' \in BOOLEAN
  /\ UNCHANGED <<disk, writing, crossed, running, at, found, resumes, kept, ended, loops, crashes>>

\* The process of the session ends, by /exit or a crash, and its threads too:
\* what they were writing stays as it is.
EndSession ==
  /\ at # "down" /\ crashes < MaxCrashes /\ crashes' = crashes + 1
  /\ broken' = running["session"]
  /\ at' = "down" /\ found' = Nothing /\ resumes' = FALSE
  /\ LET gone == {"session"} \cup Threads
     IN /\ running' = [w \in Writers |-> IF w \in gone THEN 0 ELSE running[w]]
        /\ writing' = [w \in Writers |-> IF w \in gone THEN Nothing ELSE writing[w]]
        /\ crossed' = crossed \ gone
  /\ UNCHANGED <<disk, automatic, kept, ended, loops, acts>>

PromptDies ==
  /\ \E w \in Prompts :
       /\ running[w] # 0 /\ crashes < MaxCrashes
       /\ running' = [running EXCEPT ![w] = 0]
       /\ writing' = [writing EXCEPT ![w] = Nothing] /\ crossed' = crossed \ {w}
  /\ crashes' = crashes + 1
  /\ UNCHANGED <<disk, at, found, resumes, automatic, kept, ended, broken, loops, acts>>

JournalNext ==
  \/ \E w \in Writers : FillFile(w) \/ FillFails(w) \/ EnterLoop(w) \/ Iterate(w) \/ LeaveLoop(w)
  \/ StartSession \/ AnswerResume \/ StartTurn \/ EndTurn
  \/ CheckpointSave \/ CheckpointClear \/ CheckpointResume \/ CheckpointSwitch
  \/ EndSession \/ PromptDies

------------------------------------------------------------------------------
\* "A cleanly-finished loop never triggers the resume prompt on the next launch"
\* (README.md): whoever else wrote the file since, a loop whose last save
\* succeeded before a session starts is not offered by it.
FinishedNotOffered ==
  [][at = "down" /\ at' = "asking" => found'.loop \notin ended]_journalVars

\* "If the prior session crashed mid-loop, REPL startup detects loop_running=true
\* and prompts" (README.md): a session that starts after one that went down in a
\* loop it had saved offers to resume, when the file it finds can be read.
CrashOffersResume ==
  at \in {"asking", "ready"} /\ broken \in kept /\ found # Torn => found.live
==============================================================================
