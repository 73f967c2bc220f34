-------------------------------- MODULE WorkLog --------------------------------
(***************************************************************************)
(* What is remembered of the work of a turn: the files it changed (two     *)
(* lists, changed_files and change_events, filled on several routes), the  *)
(* windows and the synopses told to the model, what is validated and       *)
(* tested.  Of the session, whose lists outlive the turn and come back     *)
(* from the journal, and of `asi prompt`, which has the first list only.   *)
(* Native calls are made inside a turn of the engine, the others are read  *)
(* from its text.  When the loop ends and what it asks for is in AutoLoop. *)
(***************************************************************************)
EXTENDS Naturals, Sequences, FiniteSets, Functions, Lists

CONSTANTS
  FileKinds,        \* the files: a function to "rust", "python", "node" or "text"
  PyChecks,     \* Python files validated at most
  SynopsisMax,  \* FILE_SYNOPSIS_CACHE_MAX_ENTRIES
  FailureMax,   \* FAILURE_MEMORY_WINDOW
  ObservedMax,  \* TOOL_OBSERVATION_WINDOW
  MaxWork       \* bound of the model: turns of the engine, calls and commands

ASSUME WorkBounds ==
  /\ {PyChecks, SynopsisMax, FailureMax, ObservedMax, MaxWork} \subseteq Nat /\ FailureMax > 0 /\ ObservedMax > 0
  /\ \A f \in DOMAIN FileKinds : FileKinds[f] \in {"rust", "python", "node", "text"}

VARIABLES
  work_of,       \* "session" or "prompt"
  work_at,       \* "idle", "turn" (the first reply is there), "loop", "down", "over"
  markers,       \* kinds whose project file or test configuration is there
  auto_test,     \* ASI_AUTO_TEST
  run_only,      \* block_mutating_tools
  changed_files, change_events,
  events_before, \* change_events_before_turn
  last_reply,         \* files changed by native calls of `result`
  tested_len,    \* changed_files_len_at_last_test
  synopses,      \* file_synopsis_cache.order
  failures, observed,
  work_saved,    \* the lists in the journal, or none
  checked,       \* what the last validation and the tests looked at
  owed,          \* files that calls read from text changed since the turn began
  disk_changes,  \* files changed since the lists were empty
  work_done

workVars == <<work_of, work_at, markers, auto_test, run_only, changed_files, change_events, events_before, last_reply, tested_len,
              synopses, failures, observed, work_saved, checked, owed, disk_changes, work_done>>

WorkFiles == DOMAIN FileKinds
Event(source, f) == [source |-> source, file |-> f]
Listing(files, events, live) == [files |-> files, events |-> events, live |-> live]
NoListing == Listing(<<>>, <<>>, FALSE)
NoChecks == [cargo |-> FALSE, python |-> {}, tests |-> {}]
FilesOf(events) == {e.file : e \in Range(events)}
\* The places where the files of a list stand first, and those of a kind among them.
Firsts(fs) == {i \in DOMAIN fs : \A j \in 1..(i - 1) : fs[j] # fs[i]}
OfKind(fs, kind) == {i \in Firsts(fs) : FileKinds[fs[i]] = kind}
Rank(places, i) == Cardinality({j \in places : j <= i})

WorkTypeOK ==
  /\ work_of \in {"session", "prompt"} /\ work_at \in {"idle", "turn", "loop", "down", "over"} /\ run_only \in BOOLEAN
  /\ \A fs \in {changed_files, last_reply, synopses} : IsInjective(fs) /\ Range(fs) \subseteq WorkFiles
  /\ FilesOf(change_events) \subseteq WorkFiles /\ events_before <= Len(change_events) /\ tested_len <= Len(changed_files)
  /\ Len(synopses) <= SynopsisMax /\ Len(failures) <= FailureMax /\ Len(observed) <= ObservedMax

WorkInit ==
  /\ work_of \in {"session", "prompt"} /\ work_at = "idle"
  /\ markers \in {{}, {"rust", "python"}} /\ auto_test = (markers # {} /\ work_of = "session") /\ run_only = FALSE
  /\ changed_files = <<>> /\ change_events = <<>> /\ events_before = 0 /\ last_reply = <<>> /\ tested_len = 0
  /\ synopses = <<>> /\ failures = <<>> /\ observed = <<>>
  /\ work_saved = NoListing /\ checked = NoChecks /\ owed = {} /\ disk_changes = {} /\ work_done = 0

------------------------------------------------------------------------------
(* The lists. *)

\* push_unique_changed_file, of several
Pushed(fs, more) ==
  LET new == {i \in Firsts(more) : more[i] \notin Range(fs)}
  IN fs \o [n \in 1..Cardinality(new) |-> more[CHOOSE i \in new : Rank(new, i) = n]]
Events(source, fs) == [i \in DOMAIN fs |-> Event(source, fs[i])]

\* Mutant of RecordChanges: an event only of a file that is new in the list.
RecordChangesNew(source, fs) ==
  /\ changed_files' = Pushed(changed_files, fs)
  /\ change_events' = IF work_of = "session" /\ ~(Range(fs) \subseteq Range(changed_files))
                      THEN change_events \o Events(source, fs) ELSE change_events
\* Both lists; asi prompt keeps no events.
RecordChanges(source, fs) ==
  /\ changed_files' = Pushed(changed_files, fs)
  /\ change_events' = IF work_of = "session" THEN change_events \o Events(source, fs) ELSE change_events
\* collect_native_changed_files
RecordFiles(fs) == changed_files' = Pushed(changed_files, fs) /\ UNCHANGED change_events
RecordNone == UNCHANGED <<changed_files, change_events>>

\* collect_changed_paths_since_events
ChangedSince(events, from) == Pushed(<<>>, [i \in 1..(Len(events) - from) |-> events[from + i].file])
LastOf(s, n) == SubSeq(s, (IF Len(s) > n THEN Len(s) - n ELSE 0) + 1, Len(s))

\* run_auto_validation_guards and run_auto_test_guards of a list of files, the tests
\* only if they are switched on.
TestsOf(fs) == {k \in markers : OfKind(fs, k) # {}}
ChecksOf(fs, on) ==
  [cargo |-> "rust" \in markers /\ OfKind(fs, "rust") # {},
   python |-> {fs[i] : i \in {j \in OfKind(fs, "python") : Rank(OfKind(fs, "python"), j) <= PyChecks}},
   tests |-> IF on THEN TestsOf(fs) ELSE {}]

\* Files that native calls of a turn changed; one stands for several.
Natives == {<<>>} \cup {<<f>> : f \in WorkFiles}
Made(fs) == disk_changes' = disk_changes \cup Range(fs)

Work == work_done < MaxWork /\ work_done' = work_done + 1 /\ UNCHANGED <<work_of, markers, auto_test>>

------------------------------------------------------------------------------
(* A turn. *)

\* What the end of a turn does with the lists as they are then: the session looks at
\* the events since the turn began, asi prompt at its whole list and never tests.
EndOf ==
  /\ checked' = IF work_of = "session" THEN ChecksOf(ChangedSince(change_events', events_before'), auto_test)
                ELSE ChecksOf(changed_files', FALSE)
  /\ work_at' = IF work_of = "session" THEN "idle" ELSE "over"

\* A call the user types is a turn of its own, without a loop.
TypedCall ==
  /\ work_at = "idle" /\ Work
  /\ events_before' = Len(change_events)
  /\ \E fs \in {<<>>} \cup {<<f>> : f \in WorkFiles} : RecordChanges("manual", fs) /\ Made(fs) /\ owed' = Range(fs)
  /\ last_reply' = <<>> /\ run_only' = FALSE /\ EndOf
  /\ work_saved' \in {work_saved, NoListing}
  /\ UNCHANGED <<tested_len, synopses, failures, observed>>

\* user_requests_run_only: whether the words of the prompt ask for a run only.
RunOnlyAsked == run_only' \in BOOLEAN

\* The first reply; the native calls in it are listed at once by asi prompt only.
Ask ==
  /\ work_at = "idle" /\ Work /\ work_at' = "turn"
  /\ events_before' = Len(change_events) /\ RunOnlyAsked
  /\ last_reply' \in Natives /\ Made(last_reply')
  /\ IF work_of = "prompt" THEN RecordFiles(last_reply') /\ owed' = Range(last_reply') ELSE RecordNone /\ owed' = {}
  /\ UNCHANGED <<tested_len, synopses, failures, observed, work_saved, checked>>

WorkOn ==
  /\ work_at = "turn" /\ Work /\ work_at' = "loop"
  /\ tested_len' = Len(changed_files) /\ failures' = <<>> /\ observed' = <<>>
  /\ work_saved' \in {work_saved, Listing(changed_files, change_events, TRUE)}
  /\ UNCHANGED <<run_only, changed_files, change_events, events_before, last_reply, synopses, checked, owed, disk_changes>>

\* upsert and try_get: the file at the young end, the oldest out.
Touched(f) == Append(Picked(synopses, {i \in DOMAIN synopses : synopses[i] # f}), f)
\* push_canonical_tool_observation and push_failure_memory
Slid(window, x, n) == LastOf(Append(window, x), n)

\* canonical_tool_result_line: a shell command that writes a file is an ok result that
\* is remembered as a failure, and one the shell did not find is no failure.
Observe(status, remembered) ==
  /\ observed' = Slid(observed, status, ObservedMax)
  /\ failures' = IF remembered = "none" THEN failures ELSE Slid(failures, remembered, FailureMax)

\* A call read from the text: run_sequential_tool_call_with_observation, and the record.
CallInLoop ==
  /\ work_at = "loop" /\ Work
  /\ \/ \E f \in WorkFiles :
          IF run_only
          THEN RecordNone /\ Observe("error", "blocked") /\ UNCHANGED <<owed, disk_changes>>
          ELSE \/ RecordChanges("auto", <<f>>) /\ Made(<<f>>) /\ owed' = owed \cup {f} /\ Observe("ok", "none")
               \/ RecordNone /\ Observe("error", "failed") /\ UNCHANGED <<owed, disk_changes>>
     \/ \E o \in {<<"ok", "none">>, <<"ok", "unknown">>, <<"error", "failed">>} :
          Observe(o[1], o[2]) /\ RecordNone /\ UNCHANGED <<owed, disk_changes>>
  /\ UNCHANGED <<work_at, run_only, events_before, last_reply, tested_len, synopses, work_saved, checked>>

\* read_file: a known synopsis is young again, one that was read is new.
ReadInLoop ==
  /\ work_at = "loop" /\ Work
  /\ \E f \in WorkFiles :
       \/ synopses' = LastOf(Touched(f), SynopsisMax) /\ Observe("ok", "none")
       \/ synopses' = (IF f \in Range(synopses) THEN Touched(f) ELSE synopses) /\ Observe("error", "failed")
  /\ RecordNone
  /\ UNCHANGED <<work_at, run_only, events_before, last_reply, tested_len, work_saved, checked, owed, disk_changes>>

\* Another turn of the engine, whose native calls go to both lists (a follow-up, a nudge,
\* a repair), to the files (reports, forced execution) or nowhere (the confidence gate).
TurnInLoop(recorded) ==
  /\ work_at = "loop" /\ Work /\ last_reply' \in Natives /\ Made(last_reply') /\ recorded
  /\ UNCHANGED <<work_at, run_only, events_before, synopses, failures, observed, owed>>
\* The follow-up after the calls, with the journal and the tests of what is new.
FollowUp ==
  /\ TurnInLoop(RecordChanges("auto_native", last_reply'))
  /\ work_saved' \in {work_saved, Listing(changed_files', change_events', TRUE)}
  /\ \/ auto_test /\ Len(changed_files') > tested_len /\ tested_len' = Len(changed_files')
        /\ checked' = [NoChecks EXCEPT !.tests = TestsOf(SubSeq(changed_files', tested_len + 1, Len(changed_files')))]
     \/ UNCHANGED <<tested_len, checked>>
Nudge == TurnInLoop(RecordChanges("auto_native", last_reply')) /\ UNCHANGED <<tested_len, checked, work_saved>>
Press == TurnInLoop(RecordFiles(last_reply')) /\ UNCHANGED <<tested_len, checked, work_saved>>
PassGate == TurnInLoop(RecordNone) /\ UNCHANGED <<tested_len, checked, work_saved>>

\* The end of the turn, of the loop too if it is in one: the native calls of the result,
\* which is the last turn, are listed (again), and all is validated.
FinishWork ==
  /\ work_at \in {"turn", "loop"} /\ UNCHANGED <<work_of, markers, auto_test, work_done>>
  /\ IF work_of = "session" THEN RecordChanges("native", last_reply) ELSE RecordNone
  /\ work_saved' \in {work_saved, NoListing} \cup (IF work_at = "loop" THEN {Listing(changed_files, change_events, FALSE)} ELSE {})
  /\ UNCHANGED events_before /\ EndOf
  /\ run_only' = FALSE /\ last_reply' = <<>> /\ tested_len' = 0 /\ failures' = <<>> /\ observed' = <<>>
  /\ UNCHANGED <<synopses, owed, disk_changes>>

------------------------------------------------------------------------------
(* Between turns. *)

\* /changes clear; the others only show, and an export that cannot be written ends the
\* session.
ClearChanges ==
  /\ work_of = "session" /\ work_at = "idle" /\ Work
  /\ changed_files' = <<>> /\ change_events' = <<>> /\ disk_changes' = {} /\ owed' = {}
  /\ tested_len' = 0 /\ events_before' = 0
  /\ UNCHANGED <<work_at, run_only, last_reply, synopses, failures, observed, work_saved, checked>>

\* The process ends, in a turn or by such an error, and the lists are gone.
GoDown ==
  /\ work_of = "session" /\ work_at # "down" /\ Work /\ work_at' = "down"
  /\ changed_files' = <<>> /\ change_events' = <<>> /\ events_before' = 0 /\ tested_len' = 0
  /\ synopses' = <<>> /\ failures' = <<>> /\ observed' = <<>> /\ last_reply' = <<>> /\ owed' = {} /\ disk_changes' = {}
  /\ run_only' = FALSE /\ checked' = NoChecks /\ UNCHANGED work_saved

\* The next session, with the lists of a loop that was interrupted if it is resumed.
Return ==
  /\ work_at = "down" /\ Work /\ work_at' = "idle"
  /\ \/ work_saved.live /\ changed_files' = work_saved.files /\ change_events' = work_saved.events
     \/ RecordNone
  /\ disk_changes' = Range(changed_files')
  /\ UNCHANGED <<run_only, events_before, last_reply, tested_len, synopses, failures, observed, work_saved, checked, owed>>

\* /checkpoint resume in a session that may have lists already.
ResumeChanges ==
  /\ work_of = "session" /\ work_at = "idle" /\ Work /\ work_saved.live
  /\ changed_files' = Pushed(changed_files, work_saved.files) /\ change_events' = change_events \o work_saved.events
  /\ disk_changes' = disk_changes \cup Range(work_saved.files)
  /\ UNCHANGED <<work_at, run_only, events_before, last_reply, tested_len, synopses, failures, observed, work_saved, checked, owed>>

WorkNext ==
  \/ TypedCall \/ Ask \/ WorkOn \/ CallInLoop \/ ReadInLoop \/ FollowUp \/ Nudge \/ Press \/ PassGate \/ FinishWork
  \/ ClearChanges \/ GoDown \/ Return \/ ResumeChanges

------------------------------------------------------------------------------
Validated(f) ==
  CASE FileKinds[f] = "rust" -> checked.cargo \/ "rust" \notin markers
    [] FileKinds[f] = "python" -> f \in checked.python \/ Cardinality(OfKind(changed_files, "python")) > PyChecks
    [] OTHER -> TRUE
Tested(f) == auto_test /\ FileKinds[f] \in markers => FileKinds[f] \in checked.tests

\* The two lists and the validation tell one story: a file with an event is listed, no
\* file is listed that was not changed, on whatever route it came, through a crash and
\* a resume too, and when the turn is over each file that a call from the text changed
\* (asi prompt: and one of the first reply) was validated, up to the limit, and tested
\* if tests are on.
ChangesAgree ==
  /\ FilesOf(change_events) \subseteq Range(changed_files)
  /\ Range(changed_files) \subseteq disk_changes
  /\ work_at \in {"idle", "over"} => \A f \in owed : Validated(f) /\ Tested(f)

==============================================================================
