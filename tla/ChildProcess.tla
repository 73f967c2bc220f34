----------------------------- MODULE ChildProcess -----------------------------
(***************************************************************************)
(* The three ways the program runs a command of the shell and collects     *)
(* what it says: bash (src/src/tools.rs) with two readers that send lines  *)
(* over a channel to the thread that waits, the benchmark commands         *)
(* (src/src/tokenizer.rs) with two readers that collect bytes, and hooks   *)
(* (src/src/runtime.rs), whose pipes are read only after their end.  The   *)
(* shell may leave a process behind that holds its pipes.                  *)
(***************************************************************************)
EXTENDS Naturals, Sequences, FiniteSets

CONSTANTS
  PipeSize,     \* lines a pipe holds
  MaxCapture,   \* ASI_BASH_CAPTURE_MAX_LINES
  MaxWritten    \* bound of the model: lines written to both pipes

ASSUME ChildBounds == PipeSize \in Nat \ {0} /\ {MaxCapture, MaxWritten} \subseteq Nat

VARIABLES
  runner,    \* "bash", "bench" or "hook"
  shell,     \* the shell: "running", "ok", "failed" or "killed"
  helper,    \* the process it left behind: "none", "running" or "gone"
  written,   \* per pipe, what was written to it: lines that are text or not
  pipe,      \* per pipe, how many of the last lines of written are not read
  reader,    \* per pipe, its reader: "none", "reading" or "ended"
  channel,   \* lines sent to the thread that waits: [from, line]
  lines,     \* lines collected: [from, line]
  dropped,   \* lines beyond MaxCapture, per pipe
  late,      \* the time limit is over
  waiter,    \* the thread that waits: "watching", "joining" or "done"
  verdict    \* what it reports: "none", "ok", "failed" or "timeout"

childVars == <<runner, shell, helper, written, pipe, reader, channel, lines, dropped,
               late, waiter, verdict>>

Pipes == {"stdout", "stderr"}
Kinds == {"text", "binary"}

ChildTypeOK ==
  /\ runner \in {"bash", "bench", "hook"}
  /\ shell \in {"running", "ok", "failed", "killed"} /\ helper \in {"none", "running", "gone"}
  /\ \A p \in Pipes : written[p] \in Seq(Kinds) /\ pipe[p] \in 0..PipeSize /\ pipe[p] <= Len(written[p])
  /\ reader \in [Pipes -> {"none", "reading", "ended"}]
  /\ channel \in Seq([from : Pipes, line : Nat]) /\ lines \in Seq([from : Pipes, line : Nat])
  /\ dropped \in [Pipes -> Nat] /\ late \in BOOLEAN
  /\ waiter \in {"watching", "joining", "done"}
  /\ verdict \in {"none", "ok", "failed", "timeout"}

\* The spawn: hooks start no readers.
ChildInit ==
  /\ runner \in {"bash", "bench", "hook"}
  /\ shell = "running" /\ helper = "none"
  /\ written = [p \in Pipes |-> <<>>] /\ pipe = [p \in Pipes |-> 0]
  /\ reader = [p \in Pipes |-> IF runner = "hook" THEN "none" ELSE "reading"]
  /\ channel = <<>> /\ lines = <<>> /\ dropped = [p \in Pipes |-> 0]
  /\ late = FALSE /\ waiter = "watching" /\ verdict = "none"

------------------------------------------------------------------------------
\* The processes.

Alive == shell = "running" \/ helper = "running"
Collected == <<reader, channel, lines, dropped, waiter, verdict>>

\* A write waits while the pipe is full.
WriteLine ==
  /\ Alive /\ Len(written["stdout"]) + Len(written["stderr"]) < MaxWritten
  /\ \E p \in Pipes, kind \in Kinds :
       /\ reader[p] # "ended" /\ pipe[p] < PipeSize
       /\ written' = [written EXCEPT ![p] = Append(@, kind)]
       /\ pipe' = [pipe EXCEPT ![p] = @ + 1]
  /\ UNCHANGED <<runner, shell, helper, late, Collected>>

StartHelper ==
  /\ shell = "running" /\ helper = "none" /\ helper' = "running"
  /\ UNCHANGED <<runner, shell, written, pipe, late, Collected>>

\* A process ends by itself, or because nobody reads what it writes.
ShellEnds ==
  /\ shell = "running" /\ shell' \in {"ok", "failed"}
  /\ UNCHANGED <<runner, helper, written, pipe, late, Collected>>

HelperEnds ==
  /\ helper = "running" /\ helper' = "gone"
  /\ UNCHANGED <<runner, shell, written, pipe, late, Collected>>

TimePasses ==
  /\ ~late /\ late' = TRUE
  /\ UNCHANGED <<runner, shell, helper, written, pipe, Collected>>

------------------------------------------------------------------------------
\* A reader takes the next line.  The one of bash reads text: at a line that is
\* not UTF-8 it ends, and the pipe with it.

Process == <<runner, shell, helper, written, late>>
Position(p) == Len(written[p]) - pipe[p] + 1
Stops(p) == runner = "bash" /\ written[p][Position(p)] = "binary"
Piece(p) == [from |-> p, line |-> Position(p)]

ReadLine(p) ==
  /\ reader[p] = "reading" /\ pipe[p] > 0 /\ ~Stops(p)
  /\ pipe' = [pipe EXCEPT ![p] = @ - 1]
  /\ IF runner = "bash" THEN channel' = Append(channel, Piece(p)) /\ UNCHANGED lines
                        ELSE lines' = Append(lines, Piece(p)) /\ UNCHANGED channel
  /\ UNCHANGED <<Process, reader, dropped, waiter, verdict>>

EndReader(p) ==
  /\ reader[p] = "reading"
  /\ IF pipe[p] > 0 THEN Stops(p) ELSE ~Alive
  /\ reader' = [reader EXCEPT ![p] = "ended"]
  /\ UNCHANGED <<Process, pipe, channel, lines, dropped, waiter, verdict>>

------------------------------------------------------------------------------
\* The thread that waits.

\* How many of the first n pieces are of a pipe.
PiecesOf(s, n, p) == Cardinality({i \in 1..n : s[i].from = p})

\* What drain does to the lines collected: those beyond MaxCapture are counted.
Room == IF Len(lines) < MaxCapture THEN MaxCapture - Len(lines) ELSE 0
Captured == IF Len(channel) < Room THEN Len(channel) ELSE Room
Drain ==
  /\ lines' = lines \o SubSeq(channel, 1, Captured)
  /\ dropped' = [p \in Pipes |-> dropped[p] + (PiecesOf(channel, Len(channel), p) - PiecesOf(channel, Captured, p))]
  /\ channel' = <<>>

\* A round of the loop that finds the shell running; lines may come after it
\* looked for them.
DrainRound ==
  /\ waiter = "watching" /\ runner = "bash" /\ channel # <<>> /\ Drain
  /\ UNCHANGED <<Process, pipe, reader, waiter, verdict>>

\* try_wait reports the end of the shell: the output of a hook is read now.
FindEnd ==
  /\ waiter = "watching" /\ shell # "running"
  /\ waiter' = "joining" /\ verdict' = IF shell = "ok" THEN "ok" ELSE "failed"
  /\ reader' = [p \in Pipes |-> IF runner = "hook" THEN "reading" ELSE reader[p]]
  /\ UNCHANGED <<Process, pipe, channel, lines, dropped>>

\* The limit is over: the shell is killed, and nothing it started.  A hook is
\* left at once.
Timeout ==
  /\ waiter = "watching" /\ late /\ shell = "running"
  /\ shell' = "killed" /\ verdict' = "timeout"
  /\ waiter' = IF runner = "hook" THEN "done" ELSE "joining"
  /\ UNCHANGED <<runner, helper, written, late, pipe, reader, channel, lines, dropped>>

\* Mutant of JoinReaders: what the readers sent since the last round is left.
JoinReadersOnly ==
  /\ waiter = "joining" /\ \A p \in Pipes : reader[p] = "ended"
  /\ waiter' = "done"
  /\ UNCHANGED <<Process, pipe, reader, channel, lines, dropped, verdict>>

\* The readers have ended; what they sent meanwhile is drained.
JoinReaders ==
  /\ waiter = "joining" /\ \A p \in Pipes : reader[p] = "ended"
  /\ waiter' = "done" /\ Drain
  /\ UNCHANGED <<Process, pipe, reader, verdict>>

Runner ==
  \/ \E p \in Pipes : ReadLine(p) \/ EndReader(p)
  \/ DrainRound \/ FindEnd \/ Timeout \/ JoinReaders

ChildNext ==
  \/ WriteLine \/ StartHelper \/ ShellEnds \/ HelperEnds \/ TimePasses
  \/ Runner

------------------------------------------------------------------------------
\* The lines of a pipe that can be read: bash stops at one that is not text.
Readable(p) ==
  LET bad == {i \in 1..Len(written[p]) : written[p][i] = "binary"}
  IN IF runner # "bash" \/ bad = {} THEN Len(written[p])
     ELSE (CHOOSE i \in bad : \A j \in bad : i <= j) - 1

\* What is reported is what was said: however the readers, the channel and the
\* end of the processes interleave, a command that was waited for yields of each
\* pipe its first lines in order, and all that could be read of it are there or
\* counted as dropped; and only a command that ran beyond the limit is reported
\* to have done so.
OutputFaithful ==
  waiter = "done" =>
    /\ verdict = "timeout" => late
    /\ runner # "hook" \/ verdict # "timeout" =>
         \A p \in Pipes :
           /\ \A i \in 1..Len(lines) : lines[i].from = p => lines[i].line = PiecesOf(lines, i, p)
           /\ PiecesOf(lines, Len(lines), p) + dropped[p] = Readable(p)
==============================================================================
