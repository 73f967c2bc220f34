--------------------------------- MODULE Wiki ---------------------------------
(***************************************************************************)
(* The wiki of `asi wiki` (src/src/wiki.rs): pages below wiki/, an index   *)
(* of them and a log, all plain files of a directory that several runs of  *)
(* the program, and the user, work in at once without a lock.  A run takes *)
(* a name for its page, writes the page, reads and writes the index, reads *)
(* and writes the log, and may end anywhere.  A write empties its file     *)
(* first, so that one that fails or is cut short leaves a part of the      *)
(* file, and one who reads it meanwhile sees a part.                       *)
(*                                                                         *)
(* A page is its folder and its name; what it says is the pages it links   *)
(* to.                                                                     *)
(***************************************************************************)
EXTENDS Naturals, Sequences, FiniteSets, Functions, SequencesExt

CONSTANTS
  WikiRuns,   \* runs of the program that go on at the same time
  MaxRuns,    \* bound of the model: runs
  MaxSeconds, \* bound of the model: seconds
  MaxTears    \* bound of the model: files written or read in part

ASSUME WikiBounds == {MaxRuns, MaxSeconds, MaxTears} \subseteq Nat

VARIABLES
  layout,     \* how far init came: 0, 1 (folders), 2 (index), 3 (index and log), 4 (all)
  wiki_pages, \* a function: the pages that a page links to
  index,      \* the pages with an entry in the index
  wiki_log,   \* the runs with an entry in the log, in order
  second,     \* the clock
  writer,     \* per run of the program, where it is
  runs,       \* runs begun
  ingested, logged_runs, \* runs that wrote a source page; that ended
  torn_index, torn_log, \* the entries that went with a part of the index or the log: it
                        \* was written in part, or read in part and written so
  tears,      \* files written or read in part
  cuts,       \* runs that did not come to their end
  overlaps    \* runs that began while another went on

tornVars == <<torn_index, torn_log, tears>>
wikiVars == <<layout, wiki_pages, index, wiki_log, second, writer, runs, ingested, logged_runs, tornVars, cuts, overlaps>>

Page(folder, n) == <<folder, n>>
Overview == Page("overview", 0)
Folders == {"sources", "analyses", "reports", "overview"}
Put(p, links) == wiki_pages' = [q \in DOMAIN wiki_pages \cup {p} |-> IF q = p THEN links ELSE wiki_pages[q]]
NoPages == [p \in {} |-> {}]

NotRunning ==
  [at |-> "idle", op |-> "none", run |-> 0, page |-> Overview, index |-> {}, missed |-> {}, log |-> <<>>, unread |-> {}]
WriterPlaces == {"idle", "page", "read_index", "write_index", "read_log", "write_log", "dirs", "files", "overview"}

WikiTypeOK ==
  /\ layout \in 0..4 /\ second \in 0..MaxSeconds
  /\ \A p \in DOMAIN wiki_pages : p[1] \in Folders
  /\ \A p \in index : p[1] \in Folders
  /\ Range(wiki_log) \subseteq 1..MaxRuns
  /\ \A w \in WikiRuns : writer[w].at \in WriterPlaces

WikiInit ==
  /\ layout = 0 /\ wiki_pages = NoPages /\ index = {} /\ wiki_log = <<>> /\ second = 0
  /\ writer = [w \in WikiRuns |-> NotRunning] /\ runs = 0
  /\ ingested = {} /\ logged_runs = {} /\ torn_index = {} /\ torn_log = {} /\ tears = 0 /\ cuts = 0 /\ overlaps = 0

------------------------------------------------------------------------------
Busy == {w \in WikiRuns : writer[w].at # "idle"}
Begin(w, r) ==
  /\ w \notin Busy /\ runs < MaxRuns /\ runs' = runs + 1
  /\ overlaps' = overlaps + Cardinality(Busy)
  /\ writer' = [writer EXCEPT ![w] = [r EXCEPT !.run = runs + 1]]
At(w, place) == writer[w].at = place
Go(w, place) == writer' = [writer EXCEPT ![w].at = place]
SameRuns == UNCHANGED <<runs, overlaps>>

\* An error of a read or a write ends the run.
CutShort(w) == writer' = [writer EXCEPT ![w] = NotRunning] /\ cuts' = cuts + 1
Tear == tears < MaxTears /\ tears' = tears + 1

\* ensure_layout: the folders of the sources, the index and the log; whether the overview
\* was written does not matter.
Usable == layout >= 3

------------------------------------------------------------------------------
(* init, which makes what is not there yet. *)

Initialise(w) ==
  /\ Begin(w, [NotRunning EXCEPT !.at = "dirs", !.op = "init"])
  /\ UNCHANGED <<layout, wiki_pages, index, wiki_log, second, ingested, logged_runs, tornVars, cuts>>
MakeFolders(w) ==
  /\ At(w, "dirs") /\ layout' = (IF layout < 1 THEN 1 ELSE layout) /\ Go(w, "files") /\ SameRuns
  /\ UNCHANGED <<wiki_pages, index, wiki_log, second, ingested, logged_runs, tornVars, cuts>>
\* ensure_file_if_missing; the index of the template has the overview.
Template == IF layout < 2 THEN {Overview} ELSE index
MakeFiles(w) ==
  /\ At(w, "files") /\ layout' = (IF layout < 3 THEN 3 ELSE layout) /\ Go(w, "overview") /\ SameRuns
  /\ index' = Template
  /\ UNCHANGED <<wiki_pages, wiki_log, second, ingested, logged_runs, tornVars, cuts>>
MakeOverview(w) ==
  /\ At(w, "overview") /\ layout' = 4 /\ Go(w, "read_log") /\ SameRuns
  /\ IF Overview \in DOMAIN wiki_pages THEN UNCHANGED wiki_pages ELSE Put(Overview, {})
  /\ UNCHANGED <<index, wiki_log, second, ingested, logged_runs, tornVars, cuts>>

\* A file made in part is there for the next init, which leaves it alone.
CutFiles(w) ==
  /\ At(w, "files") /\ Tear /\ CutShort(w) /\ SameRuns
  /\ \/ layout < 2 /\ layout' = 2 /\ \E made \in SUBSET Template : index' = made
     \/ layout < 3 /\ layout' = 3 /\ index' = Template
  /\ UNCHANGED <<wiki_pages, wiki_log, second, ingested, logged_runs, torn_index, torn_log>>
CutOverview(w) ==
  /\ At(w, "overview") /\ Overview \notin DOMAIN wiki_pages /\ layout' = 4 /\ Tear /\ CutShort(w) /\ SameRuns
  /\ Put(Overview, {})
  /\ UNCHANGED <<index, wiki_log, second, ingested, logged_runs, torn_index, torn_log>>

------------------------------------------------------------------------------
(* ingest, query with --save and lint with --write-report. *)

\* unique_page_slug and unique_path_with_suffix: the first name that no page has; all
\* sources have one title here.
FreeSlug ==
  CHOOSE n \in 1..(MaxRuns + 1) :
    Page("sources", n) \notin DOMAIN wiki_pages /\ \A m \in 1..(n - 1) : Page("sources", m) \in DOMAIN wiki_pages

\* Mutant of PageOf: ingest takes the name of the title.
PageOfTitle(op) == IF op = "ingest" THEN Page("sources", 1) ELSE Page(IF op = "query" THEN "analyses" ELSE "reports", second)
\* The name of a page; one of an answer or a report is the second, so that the next one
\* in the same second replaces it.
PageOf(op) ==
  CASE op = "ingest" -> Page("sources", FreeSlug) [] op = "query" -> Page("analyses", second) [] op = "lint" -> Page("reports", second)

\* A query links the pages it found, whatever is in the index.
FoundPages == {p \in DOMAIN wiki_pages : p[1] # "reports"}

StartRun(w) ==
  /\ Usable
  /\ \E op \in {"ingest", "query", "lint"} : Begin(w, [NotRunning EXCEPT !.at = "page", !.op = op, !.page = PageOf(op)])
  /\ UNCHANGED <<layout, wiki_pages, index, wiki_log, second, ingested, logged_runs, tornVars, cuts>>

\* A report is not indexed.
LinksOf(r) == CASE r.op = "ingest" -> {Overview} [] r.op = "query" -> FoundPages [] r.op = "lint" -> {}
Ingested(r) == IF r.op = "ingest" THEN ingested \cup {r.run} ELSE ingested
WritePage(w) ==
  LET r == writer[w]
  IN /\ At(w, "page") /\ SameRuns
     /\ Put(r.page, LinksOf(r))
     /\ Go(w, IF r.op = "lint" THEN "read_log" ELSE "read_index")
     /\ ingested' = Ingested(r)
     /\ UNCHANGED <<layout, index, wiki_log, second, logged_runs, tornVars, cuts>>
CutPage(w) ==
  LET r == writer[w]
  IN /\ At(w, "page") /\ Tear /\ CutShort(w) /\ SameRuns
     /\ \E links \in SUBSET LinksOf(r) : Put(r.page, links)
     /\ ingested' = Ingested(r)
     /\ UNCHANGED <<layout, index, wiki_log, second, logged_runs, torn_index, torn_log>>

\* The runs that are about to write: who reads now may see a part of what they write.
Writing(place, w) == {u \in WikiRuns \ {w} : At(u, place)}

\* insert_line_under_section: an entry that is there already is left alone; what others
\* have written between the read and the write is lost.
ReadIndex(w) ==
  /\ At(w, "read_index") /\ SameRuns
  /\ \E seen \in {index} \cup UNION {SUBSET writer[u].index : u \in Writing("write_index", w)} :
       /\ IF seen = index THEN UNCHANGED tears ELSE Tear
       /\ writer' = [writer EXCEPT ![w].at = "write_index", ![w].index = seen \cup {writer[w].page}, ![w].missed = index \ seen]
  /\ UNCHANGED <<layout, wiki_pages, index, wiki_log, second, ingested, logged_runs, torn_index, torn_log, cuts>>
WriteIndex(w) ==
  /\ At(w, "write_index") /\ SameRuns
  /\ writer' = [writer EXCEPT ![w].at = "read_log", ![w].index = {}, ![w].missed = {}]
  /\ index' = writer[w].index /\ torn_index' = torn_index \cup writer[w].missed
  /\ UNCHANGED <<layout, wiki_pages, wiki_log, second, ingested, logged_runs, torn_log, tears, cuts>>
CutIndex(w) ==
  LET r == writer[w]
  IN /\ At(w, "write_index") /\ Tear /\ CutShort(w) /\ SameRuns
     /\ \E kept \in SUBSET r.index : index' = kept /\ torn_index' = torn_index \cup r.missed \cup (r.index \ kept)
     /\ UNCHANGED <<layout, wiki_pages, wiki_log, second, ingested, logged_runs, torn_log>>

\* append_log_entry reads all and writes all; a log that cannot be read counts as empty.
ReadLog(w) ==
  /\ At(w, "read_log") /\ SameRuns
  /\ \E seen \in {wiki_log, <<>>} \cup UNION {Prefixes(writer[u].log) : u \in Writing("write_log", w)} :
       /\ IF seen = wiki_log THEN UNCHANGED tears ELSE Tear
       /\ writer' = [writer EXCEPT ![w].at = "write_log", ![w].log = Append(seen, writer[w].run),
                                   ![w].unread = Range(wiki_log) \ Range(seen)]
  /\ UNCHANGED <<layout, wiki_pages, index, wiki_log, second, ingested, logged_runs, torn_index, torn_log, cuts>>
WriteLog(w) ==
  /\ At(w, "write_log") /\ SameRuns
  /\ wiki_log' = writer[w].log /\ logged_runs' = logged_runs \cup {writer[w].run}
  /\ torn_log' = torn_log \cup writer[w].unread
  /\ writer' = [writer EXCEPT ![w] = NotRunning]
  /\ UNCHANGED <<layout, wiki_pages, index, second, ingested, torn_index, tears, cuts>>
CutLog(w) ==
  LET r == writer[w]
  IN /\ At(w, "write_log") /\ Tear /\ CutShort(w) /\ SameRuns
     /\ \E kept \in Prefixes(r.log) :
          wiki_log' = kept /\ torn_log' = torn_log \cup r.unread \cup (Range(r.log) \ Range(kept))
     /\ UNCHANGED <<layout, wiki_pages, index, second, ingested, logged_runs, torn_index>>

\* An error that leaves the files alone, or the end of the process between two writes.
EndEarly(w) ==
  /\ w \in Busy /\ CutShort(w) /\ SameRuns
  /\ UNCHANGED <<layout, wiki_pages, index, wiki_log, second, ingested, logged_runs, tornVars>>

NextSecond ==
  /\ second < MaxSeconds /\ second' = second + 1
  /\ UNCHANGED <<layout, wiki_pages, index, wiki_log, writer, runs, ingested, logged_runs, tornVars, cuts, overlaps>>

WikiNext ==
  \/ NextSecond
  \/ \E w \in WikiRuns :
       \/ Initialise(w) \/ MakeFolders(w) \/ MakeFiles(w) \/ MakeOverview(w) \/ StartRun(w) \/ WritePage(w)
       \/ ReadIndex(w) \/ WriteIndex(w) \/ ReadLog(w) \/ WriteLog(w) \/ EndEarly(w)
       \/ CutFiles(w) \/ CutOverview(w) \/ CutPage(w) \/ CutIndex(w) \/ CutLog(w)

------------------------------------------------------------------------------
\* What lint finds.
BrokenLinks == UNION {{<<p, q>> : q \in wiki_pages[p] \ DOMAIN wiki_pages} : p \in DOMAIN wiki_pages}
MissingInIndex == DOMAIN wiki_pages \ index

PagesIn(folder) == {p \in DOMAIN wiki_pages : p[1] = folder}
PagesInWork == {writer[w].page : w \in {v \in Busy : writer[v].op \in {"ingest", "query"}}}

Unwritten == IF layout < 4 THEN {Overview} ELSE {}

\* The damage is bounded by its causes: every entry of the index and every link names a
\* page, but for an overview that init has yet to write, whatever is torn; and but for the
\* entries that were in a part of the index or the log that was torn off (by a write cut
\* short, by a read that fails or that meets a write), a page is missing in the index only
\* if a run did not come to its end or went on beside another, and as many at most, a run
\* is missing in the log, and a source has lost its page to another, only if runs
\* went on beside each other.
WikiAccounts ==
  /\ index \subseteq DOMAIN wiki_pages \cup Unwritten
  /\ \A link \in BrokenLinks : link[2] \in Unwritten
  /\ Cardinality({p \in MissingInIndex \ (PagesInWork \cup torn_index) : p[1] \in {"sources", "analyses"}}) <= cuts + overlaps
  /\ Cardinality(logged_runs \ (Range(wiki_log) \cup torn_log)) <= overlaps
  /\ Cardinality(ingested) <= Cardinality(PagesIn("sources")) + overlaps

==============================================================================
