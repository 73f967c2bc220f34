--------------------------------- MODULE Bench ---------------------------------
(***************************************************************************)
(* The benchmark runs of src/src/bench.rs: asi bench goes through the      *)
(* cases of a suite a number of times, each round with a runtime of its    *)
(* own that all the cases of the round share, judges every case by what    *)
(* the last turn said, and writes a report of two files at the end.  One   *)
(* of the cases needs a phrase in README.md: the file is changed before    *)
(* the case and put back as it was read after it.  Several runs may be     *)
(* under way in one project, its README is written by users and by the     *)
(* agents of the cases, files may be locked, and a run may be killed.  A   *)
(* write empties its file first: one that fails or is cut short leaves a   *)
(* part of it, and a run that reads README.md meanwhile sees a part.       *)
(*                                                                         *)
(* A README is a sequence of parts: what was its own, with the phrase or   *)
(* without, edits, and what the fixture writes.                            *)
(***************************************************************************)
EXTENDS Naturals, Sequences, FiniteSets, Functions, SequencesExt

CONSTANTS
  Benches,       \* processes that run asi bench
  Suite,         \* the cases in their order
  Repeats,       \* --repeat of every run
  MaxRepeat,     \* its upper limit
  StepLimit,     \* --agent-max-steps
  BenchTurns,    \* max_turns of a runtime
  BenchEdits,    \* bound of the model: the edits of README.md, in their order
  MaxBenchFaults,\* bound of the model: locks of it, kills, files written or read in part
  MaxBenchClock  \* bound of the model: seconds

Dimensions == {case.dimension : case \in Range(Suite)}

ASSUME BenchBounds ==
  /\ {MaxRepeat, StepLimit, BenchTurns, MaxBenchFaults, MaxBenchClock} \subseteq Nat
  /\ MaxRepeat > 0 /\ Repeats \in [Benches -> Nat] /\ Suite \in Seq(Range(Suite)) /\ Suite # <<>>
  /\ Range(BenchEdits) \cap {"missing", "fixture"} = {}
  /\ \A case \in Range(Suite) :
       /\ case.agent \in BOOLEAN /\ case.fixture \in BOOLEAN /\ case.fallback \in Nat
       /\ case.expects \in {"contains", "progress", "both"}

VARIABLES
  bench,        \* of every run: where it is, its case, its fixture, its runtime, its results
  readme,       \* README.md, or NoReadme
  locked,       \* whether another program keeps it from being read and written
  reports,      \* of every second: the two files of the name
  bench_second, \* the last second a report was named after
  bench_edits,  \* the edits made, those made while no run had the file, and those of them
                \* that went with a part of the file that was torn off
  excused,      \* a run was killed with the file, wrote it in part or could not put it back,
                \* or two had it at once
  bench_faults

benchVars == <<bench, readme, locked, reports, bench_second, bench_edits, excused, bench_faults>>

NoReadme == <<"missing">>
NoFixture == [held |-> FALSE, original |-> NoReadme]
NoResult == [stop |-> "none", token |-> FALSE, steps |-> 0, refused |-> FALSE]
NewBench ==
  [phase |-> "idle", repeat |-> 0, cases |-> <<>>, fixture |-> NoFixture, turns |-> 0, result |-> NoResult,
   named |-> 0]
NoReport == [by |-> "nobody", cases |-> <<>>, rounds |-> <<>>, dimensions |-> {}]
Phases ==
  {"idle", "prepare", "fixing", "turn", "loop", "fallback", "restore", "report", "markdown", "done", "failed", "killed"}

BenchTypeOK ==
  /\ \A b \in Benches :
       /\ bench[b].phase \in Phases /\ bench[b].repeat \in 0..MaxRepeat
       /\ bench[b].turns \in 0..BenchTurns /\ bench[b].result.steps \in Nat
  /\ readme \in Seq({"missing", "own", "phrase", "title", "fixture"} \cup Range(BenchEdits))
  /\ locked \in BOOLEAN /\ excused \in BOOLEAN /\ bench_faults \in 0..MaxBenchFaults

BenchInit ==
  /\ bench = [b \in Benches |-> NewBench]
  /\ readme \in {NoReadme, <<"own">>, <<"own", "phrase">>}
  /\ locked = FALSE
  /\ reports = [s \in 1..MaxBenchClock |-> [json |-> NoReport, markdown |-> NoReport]]
  /\ bench_second = 1 /\ bench_edits = [made |-> 0, safe |-> {}, torn |-> {}] /\ excused = FALSE /\ bench_faults = 0

Goes(b, was) == bench[b].phase = was
\* Of a process that has ended only the name of its report is left.
Gone(b, phase) == [bench EXCEPT ![b] = [NewBench EXCEPT !.phase = phase, !.named = bench[b].named]]
Fault == bench_faults < MaxBenchFaults /\ bench_faults' = bench_faults + 1
OnlyBench == UNCHANGED <<readme, locked, reports, bench_second, bench_edits, excused, bench_faults>>

\* The case a run is at, and whether it is the first one of a round.
Judgements(b) == Len(bench[b].cases)
CaseOf(b) == Suite[1 + (Judgements(b) % Len(Suite))]
AtMost(limit, n) == IF n < limit THEN n ELSE limit
RoundOf(i) == 1 + (i - 1) \div Len(Suite)
HasMarker(text) == Range(text) \cap {"phrase", "fixture"} # {}
\* The edits when only a part of README.md is written or read.
Tearing(part) == [bench_edits EXCEPT !.torn = @ \cup (bench_edits.safe \ Range(part))]

------------------------------------------------------------------------------
(* A run, and the fixture of a case. *)

StartBench(b) ==
  /\ Goes(b, "idle")
  /\ bench' = [bench EXCEPT ![b].phase = "prepare",
                  ![b].repeat = IF Repeats[b] = 0 THEN 1 ELSE AtMost(MaxRepeat, Repeats[b])]
  /\ OnlyBench

\* The runs that have read README.md and have not put it back.
Holding == {b \in Benches : bench[b].fixture.held}

\* What a run writes over README.md next, or <<>>.
FixtureText(original) ==
  IF original \in {NoReadme, <<>>} THEN <<"title", "fixture">> ELSE Append(original, "fixture")
Writes(b) ==
  LET f == bench[b].fixture
  IN CASE Goes(b, "fixing") -> FixtureText(f.original)
       [] Goes(b, "restore") /\ f.held /\ f.original # NoReadme -> f.original
       [] OTHER -> <<>>

\* Runtime::new at the start of a round; a case without fixture begins with its turn.
\* A file that cannot be read leaves the case without one.
ReadThe(b, text) ==
  LET fresh == IF Judgements(b) % Len(Suite) = 0 THEN 0 ELSE bench[b].turns
      reads == CaseOf(b).fixture /\ (readme = NoReadme \/ ~locked)
  IN /\ Goes(b, "prepare")
     /\ bench' = [bench EXCEPT ![b].turns = fresh,
                    ![b].phase = IF reads /\ ~HasMarker(text) THEN "fixing" ELSE "turn",
                    ![b].fixture = IF reads THEN [held |-> TRUE, original |-> text] ELSE NoFixture]
     /\ excused' = (excused \/ (reads /\ Holding # {}))
     /\ UNCHANGED <<readme, locked, reports, bench_second>>
PrepareRead(b) == ReadThe(b, readme) /\ UNCHANGED <<bench_edits, bench_faults>>
\* Another run is writing it.
PrepareReadPart(b) ==
  /\ CaseOf(b).fixture /\ ~locked /\ Fault
  /\ \E c \in Benches \ {b} : \E part \in Prefixes(Writes(c)) :
       /\ Writes(c) # <<>> /\ ReadThe(b, part) /\ bench_edits' = Tearing(part)

\* A write that fails leaves the case without a fixture too.
PrepareWrite(b) ==
  /\ Goes(b, "fixing")
  /\ readme' = IF locked THEN readme ELSE FixtureText(bench[b].fixture.original)
  /\ bench' = [bench EXCEPT ![b].phase = "turn", ![b].fixture = IF locked THEN NoFixture ELSE @]
  /\ UNCHANGED <<locked, reports, bench_second, bench_edits, excused, bench_faults>>

\* The write before the case or after it fails, or the process ends in it, and a part of
\* the text is there: the case has no fixture to put back, or the run is over.
CutReadme(b) ==
  /\ Writes(b) # <<>> /\ ~locked /\ Fault
  /\ \E part \in Prefixes(Writes(b)) : readme' = part /\ bench_edits' = Tearing(part)
  /\ \/ bench' = Gone(b, "killed")
     \/ bench' = IF Goes(b, "fixing") THEN [bench EXCEPT ![b].phase = "turn", ![b].fixture = NoFixture] ELSE Gone(b, "failed")
  /\ excused' = TRUE
  /\ UNCHANGED <<locked, reports, bench_second>>

\* Mutant of Restore: the fixture is put back only after a case that passed.
RestorePassed(b) ==
  LET f == bench[b].fixture
      kept == ~bench[b].cases[Judgements(b)].pass
      fails == f.held /\ ~kept /\ locked /\ (f.original # NoReadme \/ readme # NoReadme)
  IN /\ Goes(b, "restore")
     /\ readme' = IF f.held /\ ~fails /\ ~kept THEN f.original ELSE readme
     /\ bench' = IF fails THEN Gone(b, "failed")
                 ELSE [bench EXCEPT ![b].fixture = NoFixture,
                         ![b].phase = IF Judgements(b) = bench[b].repeat * Len(Suite) THEN "report" ELSE "prepare"]
     /\ excused' = (excused \/ fails)
     /\ UNCHANGED <<locked, reports, bench_second, bench_edits, bench_faults>>

\* restore: what was read is written over whatever is there now, or the file is removed.
\* An error ends the run without a report, whatever the cases before have come to.
Restore(b) ==
  LET f == bench[b].fixture
      fails == f.held /\ locked /\ (f.original # NoReadme \/ readme # NoReadme)
  IN /\ Goes(b, "restore")
     /\ readme' = IF f.held /\ ~fails THEN f.original ELSE readme
     /\ bench' = IF fails THEN Gone(b, "failed")
                 ELSE [bench EXCEPT ![b].fixture = NoFixture,
                         ![b].phase = IF Judgements(b) = bench[b].repeat * Len(Suite) THEN "report" ELSE "prepare"]
     /\ excused' = (excused \/ fails)
     /\ UNCHANGED <<locked, reports, bench_second, bench_edits, bench_faults>>

------------------------------------------------------------------------------
(* The turns of a case. *)

\* A turn is refused once the runtime has had max_turns of them; nothing compacts it.
Refused(b) == bench[b].turns >= BenchTurns
Answers(b) ==
  IF Refused(b) THEN {[NoResult EXCEPT !.stop = "max_turns_reached"]}
  ELSE {[NoResult EXCEPT !.stop = "provider_error"]}
       \cup {[NoResult EXCEPT !.stop = "completed", !.token = t] : t \in BOOLEAN}

\* evaluate_case
EndedWell(r) == r.stop \in {"completed", "tool_result"}
CasePassed(expects, r) ==
  CASE expects = "contains" -> r.token
    [] expects = "progress" -> EndedWell(r) /\ r.steps > 0
    [] expects = "both" -> EndedWell(r) /\ r.steps > 0 /\ r.token
FallsBack(case, r) == case.expects = "both" /\ ~r.token /\ case.fallback > 0

Recorded(b, r, turns) ==
  LET case == CaseOf(b)
  IN [bench EXCEPT ![b].phase = "restore", ![b].turns = turns, ![b].result = NoResult,
        ![b].cases = Append(@, [round |-> RoundOf(Judgements(b) + 1), id |-> case.id, dimension |-> case.dimension,
                                pass |-> CasePassed(case.expects, r), refused |-> r.refused])]
Step(b, phase, r, turns) ==
  [bench EXCEPT ![b].phase = phase, ![b].turns = turns, ![b].result = r]
Judged(b, r, turns) == IF FallsBack(CaseOf(b), r) THEN Step(b, "fallback", r, turns) ELSE Recorded(b, r, turns)

FirstTurn(b) ==
  LET turns == AtMost(BenchTurns, bench[b].turns + 1)
  IN /\ Goes(b, "turn")
     /\ \E a \in Answers(b) :
          LET r == [a EXCEPT !.refused = Refused(b)]
          IN bench' = IF CaseOf(b).agent /\ r.stop = "completed" THEN Step(b, "loop", r, turns) ELSE Judged(b, r, turns)
     /\ OnlyBench

\* run_prompt_auto_tool_loop: up to the limit of steps, each of them a turn.
Loop(b) ==
  /\ Goes(b, "loop")
  /\ \E steps \in 0..StepLimit : \E a \in Answers(b) :
       LET had == AtMost(BenchTurns - bench[b].turns, steps)
           last == IF steps = 0 THEN bench[b].result
                   ELSE IF had < steps THEN [NoResult EXCEPT !.stop = "max_turns_reached"] ELSE a
           r == [last EXCEPT !.steps = steps, !.refused = bench[b].result.refused]
       IN bench' = Judged(b, r, bench[b].turns + had)
  /\ OnlyBench

\* run_case_postcheck_fallback: the commands of the case are run as turns, and the last
\* of them is judged instead.  Only with the phrase in README.md does it say so.
Fallback(b) ==
  LET commands == CaseOf(b).fallback
      had == AtMost(BenchTurns - bench[b].turns, commands)
      r == [bench[b].result EXCEPT !.stop = IF had < commands THEN "max_turns_reached" ELSE "tool_result",
                                   !.steps = @ + commands]
      said == IF had < commands \/ (CaseOf(b).fixture /\ ~HasMarker(readme)) THEN {FALSE} ELSE BOOLEAN
  IN /\ Goes(b, "fallback")
     /\ \E t \in said : bench' = Recorded(b, [r EXCEPT !.token = t], bench[b].turns + had)
     /\ OnlyBench

------------------------------------------------------------------------------
(* The report. *)

\* The passes among some of the cases, by their places.
PassesOf(cases, its) == Cardinality({i \in its : cases[i].pass})
\* compute_dimension_scores
Scores(cases, its) ==
  LET of(d) == {i \in its : cases[i].dimension = d}
  IN {[dimension |-> d, count |-> Cardinality(of(d)), passed |-> PassesOf(cases, of(d))] :
       d \in {cases[i].dimension : i \in its}}
RoundReport(cases, round) ==
  LET its == {i \in DOMAIN cases : cases[i].round = round}
  IN [round |-> round, count |-> Cardinality(its), passed |-> PassesOf(cases, its), dimensions |-> Scores(cases, its)]
ReportOf(b) ==
  LET cases == bench[b].cases
  IN [by |-> b, cases |-> cases, dimensions |-> Scores(cases, DOMAIN cases),
      rounds |-> [r \in 1..bench[b].repeat |-> RoundReport(cases, r)]]
\* render_markdown: a row for every round, without its dimensions, for every dimension of
\* all the rounds, and for every case.
Rendered(report) ==
  [report EXCEPT !.rounds = [r \in DOMAIN @ |-> [round |-> @[r].round, count |-> @[r].count, passed |-> @[r].passed]]]

\* Both files are named after the second it is then, which nothing before has looked at.
WriteJson(b) ==
  /\ Goes(b, "report")
  /\ bench_second' \in bench_second..MaxBenchClock
  /\ bench' = [bench EXCEPT ![b].phase = "markdown", ![b].named = bench_second']
  /\ reports' = [reports EXCEPT ![bench_second'].json = ReportOf(b)]
  /\ UNCHANGED <<readme, locked, bench_edits, excused, bench_faults>>

WriteMarkdown(b) ==
  /\ Goes(b, "markdown")
  /\ bench' = Gone(b, "done")
  /\ reports' = [reports EXCEPT ![bench[b].named].markdown = Rendered(ReportOf(b))]
  /\ UNCHANGED <<readme, locked, bench_second, bench_edits, excused, bench_faults>>

\* The directory cannot be made, or a file of the report not be written, or the process
\* ends in the write; what the name has then may be no report.
ReportFails(b) ==
  /\ Fault
  /\ \E end \in {"failed", "killed"} : bench' = Gone(b, end)
  /\ \/ Goes(b, "report") /\ bench_second' \in bench_second..MaxBenchClock
        /\ reports' \in {reports, [reports EXCEPT ![bench_second'].json = NoReport]}
     \/ Goes(b, "markdown") /\ UNCHANGED bench_second
        /\ reports' \in {reports, [reports EXCEPT ![bench[b].named].markdown = NoReport]}
  /\ UNCHANGED <<readme, locked, bench_edits, excused>>

------------------------------------------------------------------------------
(* What happens beside it. *)

\* The end of the process, but for one in the middle of a write.
Kill(b) ==
  /\ bench[b].phase \notin {"idle", "done", "failed", "killed"} /\ Fault
  /\ bench' = Gone(b, "killed")
  /\ excused' = (excused \/ bench[b].fixture.held)
  /\ UNCHANGED <<readme, locked, reports, bench_second, bench_edits>>

\* A user, or the agent of a case, adds to README.md.
EditReadme ==
  LET n == bench_edits.made + 1
  IN /\ n \in DOMAIN BenchEdits /\ ~locked
     /\ readme' = IF readme = NoReadme THEN <<BenchEdits[n]>> ELSE Append(readme, BenchEdits[n])
     /\ bench_edits' = [bench_edits EXCEPT !.made = n, !.safe = @ \cup IF Holding = {} THEN {BenchEdits[n]} ELSE {}]
     /\ UNCHANGED <<bench, locked, reports, bench_second, excused, bench_faults>>

Lock ==
  /\ ~locked /\ Fault /\ locked' = TRUE
  /\ UNCHANGED <<bench, readme, reports, bench_second, bench_edits, excused>>
Unlock ==
  /\ locked /\ locked' = FALSE
  /\ UNCHANGED <<bench, readme, reports, bench_second, bench_edits, excused, bench_faults>>

BenchNext ==
  \/ \E b \in Benches :
       \/ StartBench(b) \/ PrepareRead(b) \/ PrepareWrite(b) \/ FirstTurn(b) \/ Loop(b) \/ Fallback(b) \/ Restore(b)
       \/ WriteJson(b) \/ WriteMarkdown(b) \/ ReportFails(b) \/ Kill(b) \/ PrepareReadPart(b) \/ CutReadme(b)
  \/ EditReadme \/ Lock \/ Unlock

------------------------------------------------------------------------------
(* What a run of the benchmarks leaves behind.                             *)

\* README.md is without the phrase of the fixture when no run has it, although a case may
\* fail in every way, unless a run was killed with it, wrote it in part, could not put it
\* back, or two runs had it at once; and an edit made while no run had the file is lost only
\* with a part of the file that was torn off.
FixtureGone == Holding = {} /\ ~excused => "fixture" \notin Range(readme)
EditsKept == bench_edits.safe \subseteq Range(readme) \cup bench_edits.torn

\* The sum of a function's numbers: as many as there are pairs below its graph.
Sum(f) == Cardinality(UNION {{x} \X (1..f[x]) : x \in DOMAIN f})

\* The two files of a name are of one run unless two ended in one second, a report counts
\* every case of every round once, and the first case of a round always has its turn,
\* whatever the rounds before used up.
ReportsWhole ==
  \A s \in DOMAIN reports :
    LET json == reports[s].json
        both == json # NoReport /\ reports[s].markdown # NoReport
        alone == \A b, c \in Benches : bench[b].named = s /\ bench[c].named = s => b = c
    IN /\ both /\ alone => reports[s].markdown = Rendered(json)
       /\ json # NoReport =>
            /\ Len(json.cases) = Len(json.rounds) * Len(Suite)
            /\ \A i \in DOMAIN json.cases : json.cases[i].id = Suite[1 + ((i - 1) % Len(Suite))].id
            /\ PassesOf(json.cases, DOMAIN json.cases) = Sum([r \in DOMAIN json.rounds |-> json.rounds[r].passed])
            /\ PassesOf(json.cases, DOMAIN json.cases) = Sum([d \in json.dimensions |-> d.passed])
RoundsFresh ==
  \A b \in Benches : \A i \in DOMAIN bench[b].cases :
    (i - 1) % Len(Suite) = 0 => ~bench[b].cases[i].refused

BenchAccounts == FixtureGone /\ EditsKept /\ ReportsWhole /\ RoundsFresh
=============================================================================
