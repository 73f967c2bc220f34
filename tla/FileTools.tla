------------------------------- MODULE FileTools -------------------------------
(***************************************************************************)
(* The file tools of src/src/tools.rs on one file: read_file in pages,     *)
(* write_file, edit_file with its fallback over line ends, and the search. *)
(* A call comes as JSON, with named arguments in quotes or without, or in  *)
(* the heredoc form, which is also what native calls are turned into, and  *)
(* its texts are decoded by the form.  A user, or another agent, writes    *)
(* the same file at any time, between the read and the write of an edit    *)
(* too.                                                                    *)
(*                                                                         *)
(* A text is a sequence of pieces: words, line ends, and what the forms    *)
(* take for something else.  known is what a reader of the results alone   *)
(* would think the file holds.                                             *)
(***************************************************************************)
EXTENDS Naturals, Sequences, FiniteSets, SequencesExt

CONSTANTS
  Texts,        \* what the file may hold first, what a user or a call writes to it
  Edits,        \* [old, new] of edits
  DefaultLines, \* DEFAULT_READ_FILE_LINES
  MediumLines,  \* MEDIUM_FILE_FULL_READ_MAX_LINES
  MaxLines,     \* MAX_READ_FILE_LINES
  Trees,        \* what a search walks: sequences of [kind, hits] of files
  MaxHits,      \* GREP_MAX_MATCHES
  MaxVisited,   \* GREP_MAX_FILES_VISITED
  MaxFileOps    \* bound of the model: calls and writes

\* Words, a line feed and a carriage return, a backslash with an n, a line that is the
\* end marker of a heredoc, and "path=".
Pieces == {"a", "b", "nl", "cr", "esc", "mark", "named"}
Forms == {"json", "quoted", "bare", "heredoc"}

ASSUME FileBounds ==
  /\ {DefaultLines, MediumLines, MaxLines, MaxHits, MaxVisited, MaxFileOps} \subseteq Nat
  /\ 0 < DefaultLines /\ DefaultLines <= MediumLines /\ MediumLines <= MaxLines
  /\ Texts \subseteq Seq(Pieces)
  /\ \A e \in Edits : e.old \in Seq(Pieces) /\ e.new \in Seq(Pieces)
  /\ Trees \subseteq Seq([kind : {"text", "skipped", "pruned"}, hits : Nat])

VARIABLES
  file_text, \* the file
  editing,  \* the text an edit has read and what it will write, or none
  page,     \* a read in pages: the lines so far, the next one, and if the file stayed
  known,    \* what the file may hold, to a reader of the results; {}: not read
  diffed,   \* of the last edit: the line its diff gives, and the line it was at
  search,   \* the last search: what it walked, the hits it gave, its note
  file_ops

fileVars == <<file_text, editing, page, known, diffed, search, file_ops>>

NoEdit == [text |-> <<>>, updated |-> <<>>, old |-> <<>>, new |-> <<>>, live |-> FALSE]
NoPage == [lines |-> <<>>, next |-> 0, same |-> TRUE]
NoDiff == [told |-> 0, at |-> 0]
NoSearch == [tree |-> <<>>, hits |-> <<>>, note |-> FALSE]

FileTypeOK ==
  /\ file_text \in Seq(Pieces) /\ known \subseteq Seq(Pieces)
  /\ editing \in [text : Seq(Pieces), updated : Seq(Pieces), old : Seq(Pieces), new : Seq(Pieces), live : BOOLEAN]
  /\ page \in [lines : Seq(Seq(Pieces)), next : Nat, same : BOOLEAN]
  /\ search.hits \in Seq(Nat \X Nat) /\ Len(search.hits) <= MaxHits

FilesInit ==
  /\ file_text \in Texts /\ editing = NoEdit /\ page = NoPage /\ known = {} /\ diffed = NoDiff
  /\ search = NoSearch /\ file_ops = 0

------------------------------------------------------------------------------
(* Texts. *)

\* CRLF replaced by LF, and LF by CRLF.
Fed(acc, c) == IF c = "nl" /\ acc # <<>> /\ Last(acc) = "cr" THEN Append(Front(acc), c) ELSE Append(acc, c)
Lf(t) ==
  LET upto[n \in 0..Len(t)] == IF n = 0 THEN <<>> ELSE Fed(upto[n - 1], t[n])
  IN upto[Len(t)]
Crlf(t) == FlattenSeq([i \in DOMAIN t |-> IF t[i] = "nl" THEN <<"cr", "nl">> ELSE <<t[i]>>])
HasCrlf(t) == Lf(t) # t
Mixed(t) == HasCrlf(t) /\ Crlf(Lf(t)) # t

\* str::lines: without the line ends, and no line after the last of them.
Broken(acc, c) == IF c = "nl" THEN Append(acc, <<>>) ELSE Append(Front(acc), Append(Last(acc), c))
LinesOf(t) ==
  LET u == Lf(t)
      upto[n \in 0..Len(u)] == IF n = 0 THEN <<<<>>>> ELSE Broken(upto[n - 1], u[n])
      s == upto[Len(u)]
  IN IF Last(s) = <<>> THEN Front(s) ELSE s
Joined(lines) == FlattenSeq([i \in DOMAIN lines |-> (IF i = 1 THEN <<>> ELSE <<"nl">>) \o lines[i]])

\* Where old is in t, how often str::matches finds it, and t with a place replaced.
PlacesOf(t, old) == {i \in 1..(Len(t) + 1 - Len(old)) : SubSeq(t, i, i + Len(old) - 1) = old}
CountOf(t, old) ==
  LET from[i \in 1..(Len(t) + Len(old) + 1)] ==
        IF i > Len(t) THEN 0
        ELSE IF i \in PlacesOf(t, old) THEN 1 + from[i + Len(old)] ELSE from[i + 1]
  IN from[1]
ReplacedAt(t, i, old, new) == SubSeq(t, 1, i - 1) \o new \o SubSeq(t, i + Len(old), Len(t))
ReplacedFirst(t, old, new) == ReplacedAt(t, Min(PlacesOf(t, old)), old, new)

------------------------------------------------------------------------------
(* What a form makes of the texts of a call. *)

\* \n and other escapes of a text.
Decoded(t) == [i \in DOMAIN t |-> IF t[i] = "esc" THEN "nl" ELSE t[i]]
\* parse_key_value_args: a value in quotes keeps its escapes, which are decoded then.
InQuotes(t) == Decoded(t)
\* A value of several words does not parse: it is all up to the next name, trimmed.
Unquoted(t) ==
  LET words == {i \in DOMAIN t : t[i] \notin {"nl", "cr"}}
  IN IF words = {} THEN <<>> ELSE Decoded(SubSeq(t, Min(words), Max(words)))
\* The heredoc of a write ends at the first line that is a marker, the texts of an edit
\* lose the line ends at their end.
BodyOf(t) ==
  LET ls == LinesOf(t \o <<"nl">>)
      ends == {i \in DOMAIN ls : ls[i] = <<"mark">>}
  IN Joined(IF ends = {} THEN ls ELSE SubSeq(ls, 1, Min(ends) - 1))
Trimmed(t) == SubSeq(t, 1, Max({0} \cup {i \in DOMAIN t : t[i] # "nl"}))

\* tool_call_to_legacy_args
FormsOf(route) == IF route = "native" THEN {"heredoc"} ELSE Forms
\* looks_like_named_args: a heredoc with a name and "=" in a text is taken for a call with
\* named arguments, and refused, since it has not all of them.
Understood(form, texts) == form = "heredoc" => \A t \in texts : "named" \notin ToSet(t)
TextWritten(form, t) ==
  CASE form = "json" -> t [] form = "quoted" -> InQuotes(t) [] form = "bare" -> Unquoted(t) [] form = "heredoc" -> BodyOf(t)
EditText(form, t) == IF form = "heredoc" THEN Trimmed(t) ELSE TextWritten(form, t)

FileOp == file_ops < MaxFileOps /\ file_ops' = file_ops + 1
PageStale == page' = [page EXCEPT !.same = FALSE]

\* A write empties the file first: one that fails leaves a part of the text or, if it did
\* not get so far, what there was.  The error is told, and who knew the file reads it again.
CutWrite(t) ==
  \/ UNCHANGED <<file_text, page, known>>
  \/ file_text' \in Prefixes(t) /\ PageStale /\ known' = {}

------------------------------------------------------------------------------
(* Reading. *)

\* read_file_range_with_policy: the lines from start on, and the start_line that the
\* next call should use, if there are more.
PageFrom(start, count) ==
  LET lines == LinesOf(file_text)
      last == Min({start + count - 1, Len(lines)})
  IN [lines |-> IF start > Len(lines) THEN <<>> ELSE SubSeq(lines, start, last),
      next |-> IF start <= Len(lines) /\ last < Len(lines) THEN last + 1 ELSE 0]

\* A page goes to what was read so far; the last one tells what the file holds, but for
\* a line end at its end, if it stayed the same.
Show(start, count) ==
  LET p == PageFrom(start, count)
      lines == (IF start = 1 THEN <<>> ELSE page.lines) \o p.lines
      same == start = 1 \/ page.same
  IN /\ page' = IF p.next = 0 THEN NoPage ELSE [lines |-> lines, next |-> p.next, same |-> same]
     /\ known' = IF p.next = 0 /\ same THEN {Joined(lines), Joined(lines) \o <<"nl">>} ELSE known
     /\ UNCHANGED <<file_text, editing, diffed, search>>

\* Without a range, or with half of one: a file of medium length is shown at once, and
\* of a longer one the first page, whatever start_line says.
ReadFile == FileOp /\ ~editing.live /\ Show(1, IF Len(LinesOf(file_text)) <= MediumLines THEN MediumLines ELSE DefaultLines)
ReadRange ==
  /\ FileOp /\ ~editing.live
  /\ \E start \in {1, page.next} \ {0}, count \in {0, 1, MaxLines + 1} :
       Show(start, Max({1, Min({count, MaxLines})}))

------------------------------------------------------------------------------
(* Writing. *)

\* What a call means by a text, which a form cuts at a marker or trims; what is left of
\* it then is to be read again, the preview shows it.
Intended(form, t) == Lf(IF form \in {"quoted", "bare"} THEN Decoded(t) ELSE t)
Cut(form, t) ==
  \/ form = "heredoc" /\ "mark" \in ToSet(t)
  \/ form = "bare" /\ t # <<>> /\ {Head(t), Last(t)} \cap {"nl", "cr"} # {}
WriteFile ==
  /\ FileOp /\ ~editing.live
  /\ \E t \in Texts, route \in {"native", "text"} : \E form \in FormsOf(route) :
       IF ~Understood(form, {t}) THEN UNCHANGED <<file_text, page, known>>
       ELSE \/ /\ file_text' = TextWritten(form, t) /\ PageStale
               /\ known' = IF Cut(form, t) THEN {} ELSE {Intended(form, t)}
            \/ CutWrite(TextWritten(form, t))
  /\ UNCHANGED <<editing, diffed, search>>

\* Mutant of Updated: the fallback takes the new text as it is.
UpdatedRaw(t, old, new) ==
  IF CountOf(t, old) = 1 THEN ReplacedFirst(t, old, new)
  ELSE LET u == ReplacedFirst(Lf(t), Lf(old), new) IN IF HasCrlf(t) THEN Crlf(u) ELSE u
\* edit_file: the one place, or the one place but for line ends; a file with a CRLF then
\* gets CRLF for all its line ends.
Updated(t, old, new) ==
  IF CountOf(t, old) = 1 THEN ReplacedFirst(t, old, new)
  ELSE LET u == ReplacedFirst(Lf(t), Lf(old), Lf(new)) IN IF HasCrlf(t) THEN Crlf(u) ELSE u
OnePlace(t, old) ==
  /\ old # <<>>
  /\ \/ CountOf(t, old) = 1
     \/ CountOf(t, old) = 0 /\ CountOf(Lf(t), Lf(old)) = 1

\* It reads the file,
EditFile ==
  /\ FileOp /\ ~editing.live
  /\ \E e \in Edits, route \in {"native", "text"} : \E form \in FormsOf(route) :
       LET old == EditText(form, e.old)
           new == EditText(form, e.new)
       IN /\ Understood(form, {e.old, e.new}) /\ OnePlace(file_text, old)
          /\ editing' = [text |-> file_text, updated |-> Updated(file_text, old, new), old |-> old, new |-> new, live |-> TRUE]
  /\ UNCHANGED <<file_text, page, known, diffed, search>>

\* generate_unified_diff: one more than the lines before the old text, which it looks for
\* as it has changed it; 0 if it is not there.
DiffLine(t, old) ==
  LET shown == IF CountOf(t, old) = 1 THEN old ELSE IF HasCrlf(t) THEN Crlf(Lf(old)) ELSE Lf(old)
      before == SubSeq(t, 1, Min(PlacesOf(t, shown)) - 1)
  IN IF PlacesOf(t, shown) = {} THEN 0 ELSE Len(LinesOf(before)) + 1
LineAt(t, old) ==
  LET u == IF CountOf(t, old) = 1 THEN t ELSE Lf(t)
      o == IF CountOf(t, old) = 1 THEN old ELSE Lf(old)
  IN 1 + Cardinality({i \in 1..(Min(PlacesOf(u, o)) - 1) : u[i] = "nl"})
BeginsLine(t, old) ==
  LET i == Min(PlacesOf(Lf(t), Lf(old))) IN i = 1 \/ Lf(t)[i - 1] = "nl"

\* and writes it, over what another has written since; the reader takes the places where
\* the old text is in what it knows.
WriteEdit ==
  /\ editing.live /\ editing' = NoEdit /\ UNCHANGED <<search, file_ops>>
  /\ \/ /\ file_text' = editing.updated /\ PageStale
        /\ known' = UNION {{ReplacedAt(k, i, Lf(editing.old), Lf(editing.new)) : i \in PlacesOf(k, Lf(editing.old))} : k \in known}
        /\ diffed' = IF BeginsLine(editing.text, editing.old) /\ ~Mixed(editing.text)
                     THEN [told |-> DiffLine(editing.text, editing.old), at |-> LineAt(editing.text, editing.old)]
                     ELSE NoDiff
     \/ CutWrite(editing.updated) /\ UNCHANGED diffed

OtherWrite ==
  /\ FileOp /\ file_text' \in Texts \ {file_text} /\ PageStale /\ known' = {}
  /\ UNCHANGED <<editing, diffed, search>>

------------------------------------------------------------------------------
(* Searching. *)

\* search_file over the files of a walk: a skipped file (too large, binary) is visited, a
\* pruned one is not, and the walk ends at either limit.
Visit(acc, i, file) ==
  IF Len(acc.hits) >= MaxHits \/ acc.visited >= MaxVisited \/ file.kind = "pruned" THEN acc
  ELSE [visited |-> acc.visited + 1,
        hits |-> IF file.kind = "skipped" THEN acc.hits
                 ELSE acc.hits \o [n \in 1..Min({file.hits, MaxHits - Len(acc.hits)}) |-> <<i, n>>]]
Walk(tree) ==
  LET upto[i \in 0..Len(tree)] == IF i = 0 THEN [visited |-> 0, hits |-> <<>>] ELSE Visit(upto[i - 1], i, tree[i])
  IN upto[Len(tree)]

\* grep_search: a note if the limit of files was met; 300 hits are given without a word.
\* It changes nothing, so that a behaviour with one is looked at for it alone.
GrepSearch ==
  /\ file_ops = 0 /\ file_ops' = MaxFileOps
  /\ \E tree \in Trees :
       LET w == Walk(tree)
       IN search' = [tree |-> tree, hits |-> w.hits, note |-> w.visited >= MaxVisited /\ Len(w.hits) < MaxHits]
  /\ UNCHANGED <<file_text, editing, page, known, diffed>>

FilesNext == ReadFile \/ ReadRange \/ WriteFile \/ EditFile \/ WriteEdit \/ OtherWrite \/ GrepSearch

------------------------------------------------------------------------------
\* The results tell the truth.  Somebody who reads a file page by page with the line each
\* page names for the next, and follows the calls of the agent from there, knows what is
\* in the file, line ends aside, as long as nobody else writes it, and has its first lines
\* on the way; the diff of an edit gives the line it is at, if the text begins a line and
\* the line ends are alike; and a search that gives fewer hits than its limit and no note
\* has found all there are.
KnownTold == known # {} => Lf(file_text) \in known
PagesTold == page.next # 0 /\ page.same => page.lines = SubSeq(LinesOf(file_text), 1, page.next - 1)
DiffTold == diffed.told = diffed.at
SearchTold ==
  Len(search.hits) < MaxHits /\ ~search.note =>
    ToSet(search.hits) = {hit \in (DOMAIN search.tree) \X (1..MaxHits) :
                            search.tree[hit[1]].kind = "text" /\ hit[2] <= search.tree[hit[1]].hits}
FilesTold == KnownTold /\ PagesTold /\ DiffTold /\ SearchTold

==============================================================================
