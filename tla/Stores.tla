-------------------------------- MODULE Stores --------------------------------
(***************************************************************************)
(* The small stores: todos (src/src/todo.rs), scheduled prompts            *)
(* (src/src/cron.rs) and notes (src/src/memory.rs), a file each, which     *)
(* every command reads, changes and writes back.  Several sessions do so   *)
(* without a lock, and a session may end in a write.  A file that cannot   *)
(* be read counts as empty and is written over all the same, and so does a *)
(* list that does not parse; notes are lines, of which a cut file has the  *)
(* first.  How a field of a schedule is read is in ParseField.             *)
(***************************************************************************)
EXTENDS Integers, Sequences, FiniteSets

CONSTANTS
  Keepers,        \* sessions
  CronFields,     \* first fields of schedules: sequences of [range, a, b, step]
  MaxKeeps,       \* bound of the model: commands
  MaxKeepFaults   \* bound of the model: reads and writes that fail, sessions killed in one

ASSUME StoresBounds ==
  /\ {MaxKeeps, MaxKeepFaults} \subseteq Nat
  /\ \A f \in CronFields : f # <<>> /\ \A i \in DOMAIN f :
       /\ f[i].range \in {"star", "pair", "one", "none"}
       /\ {f[i].a, f[i].b, f[i].step} \subseteq 0..255

VARIABLES
  kept_files,  \* per path, [whole, items, next_id]: one that is not whole does not parse
  claw,        \* CLAW.md is there
  keeping,     \* per session, the command it is in, with what it read
  given,       \* the ids of jobs that were told, in their order
  expected,    \* per path, the items by what was told since it was last disturbed
  disturbed,   \* paths that were torn, or written by one who did not know what they said
  keeps,
  keep_faults

storeVars == <<kept_files, claw, keeping, given, expected, disturbed, keeps, keep_faults>>

Stored == {"todo", "cron", "CLAW.md", "ASI_CODE.md"}
EntryNumbers == 0..MaxKeeps
NoItems == [whole |-> TRUE, items |-> <<>>, next_id |-> 0]
NotKeeping == [path |-> "none", what |-> "none", id |-> 0, entry |-> 0, read |-> NoItems, stale |-> FALSE]

StoresTypeOK ==
  /\ \A p \in Stored : kept_files[p].whole \in BOOLEAN /\ kept_files[p].next_id \in Nat
  /\ \A p \in Stored : \A i \in DOMAIN kept_files[p].items :
       LET item == kept_files[p].items[i] IN item.id \in Nat /\ item.entry \in EntryNumbers /\ item.done \in BOOLEAN
  /\ \A k \in Keepers : keeping[k].path \in Stored \cup {"none"}
  /\ claw \in BOOLEAN /\ disturbed \subseteq Stored

StoresInit ==
  /\ kept_files = [p \in Stored |-> NoItems] /\ claw = FALSE /\ keeping = [k \in Keepers |-> NotKeeping]
  /\ given = <<>> /\ expected = [p \in Stored |-> <<>>] /\ disturbed = {} /\ keeps = 0 /\ keep_faults = 0

------------------------------------------------------------------------------
(* Schedules. *)

NoField == {-1}

\* The values of one token, counted in bytes: the next one is not when it overflows.
Steps(v, end, step) ==
  LET from[x \in 0..256] == IF x > end THEN {} ELSE {x} \cup from[IF x + step > 255 THEN 256 ELSE x + step]
  IN from[v]

\* One token: a star, a range or a value, with a step or with 1.
TokenValues(token, lo, hi) ==
  LET from == IF token.range = "star" THEN lo ELSE token.a
      to == CASE token.range = "star" -> hi [] token.range = "pair" -> token.b [] OTHER -> token.a
  IN IF token.range = "none" \/ token.step = 0 \/ from < lo \/ to > hi \/ to < from THEN NoField
     ELSE Steps(from, to, token.step)

\* The first token that is none refuses the field.
ParseField(field, lo, hi) ==
  IF \E i \in DOMAIN field : TokenValues(field[i], lo, hi) = NoField THEN NoField
  ELSE UNION {TokenValues(field[i], lo, hi) : i \in DOMAIN field}

\* What a field is meant to be: every value of the range of a token that is a number of
\* steps from its first.
Meets(v, token, lo, hi) ==
  LET from == IF token.range = "star" THEN lo ELSE token.a
      to == CASE token.range = "star" -> hi [] token.range = "pair" -> token.b [] OTHER -> token.a
  IN v \in from..to /\ \E n \in 0..(to - from) : v = from + n * token.step

------------------------------------------------------------------------------
(* Commands: what is read, ... *)

MemoryPath == IF claw THEN "CLAW.md" ELSE "ASI_CODE.md"
LoadStore(path) == IF kept_files[path].whole THEN kept_files[path] ELSE NoItems

Reading(k, path, what, id, read, stale) ==
  /\ keeping[k] = NotKeeping /\ keeps < MaxKeeps /\ keeps' = keeps + 1
  /\ keeping' = [keeping EXCEPT ![k] =
       [path |-> path, what |-> what, id |-> id, entry |-> keeps', read |-> read, stale |-> stale]]
  /\ UNCHANGED <<kept_files, claw, given, expected, disturbed>>

\* An error of the read is not told: the file counts as empty.
Keep(k, path, what, id) ==
  \/ Reading(k, path, what, id, LoadStore(path), FALSE) /\ UNCHANGED keep_faults
  \/ /\ Reading(k, path, what, id, NoItems, TRUE)
     /\ keep_faults < MaxKeepFaults /\ keep_faults' = keep_faults + 1

AddTodo(k) == Keep(k, "todo", "add", 0)
MarkDone(k) == \E id \in 1..MaxKeeps : Keep(k, "todo", "done", id)
RemoveTodo(k) == \E id \in 1..MaxKeeps : Keep(k, "todo", "remove", id)
\* The schedule comes first: with one that is none nothing is saved.
CreateJob(k) == (\E f \in CronFields : ParseField(f, 0, 59) # NoField) /\ Keep(k, "cron", "add", 0)
DeleteJob(k) == \E id \in 1..MaxKeeps : Keep(k, "cron", "remove", id)
AddNote(k) == Keep(k, MemoryPath, "add", 0)

------------------------------------------------------------------------------
(* ... what is made of it, ... *)

IdsOf(items) == {items[i].id : i \in DOMAIN items}
TopId(items) == CHOOSE n \in {0} \cup IdsOf(items) : \A id \in IdsOf(items) : id <= n

\* Mutant of NextId: jobs are numbered like todos.
NextIdListed(path, read) == IF path \in {"todo", "cron"} THEN TopId(read.items) + 1 ELSE 0
\* The number of a todo follows the ones there are, that of a job the ones there were;
\* a note has none.
NextId(path, read) ==
  CASE path = "todo" -> TopId(read.items) + 1
    [] path = "cron" -> read.next_id + 1
    [] OTHER -> 0

\* retain: all the others, in their order.
Without(items, id) ==
  LET others == {i \in DOMAIN items : items[i].id # id}
      place(n) == CHOOSE i \in others : Cardinality({j \in others : j <= i}) = n
  IN [n \in 1..Cardinality(others) |-> items[place(n)]]

ChangedItems(items, what, new, id) ==
  CASE what = "add" -> Append(items, new)
    [] what = "done" -> [i \in DOMAIN items |-> IF items[i].id = id THEN [items[i] EXCEPT !.done = TRUE] ELSE items[i]]
    [] what = "remove" -> Without(items, id)
NewItem(op) == [id |-> NextId(op.path, op.read), entry |-> op.entry, done |-> FALSE]

\* A job that is not there is told, and nothing is saved; a todo that is not there is told too,
\* and the list saved all the same.
Unknown(op) == op.path = "cron" /\ op.what = "remove" /\ op.id \notin IdsOf(op.read.items)

------------------------------------------------------------------------------
(* ... and the write. *)

\* Somebody else on the same path, who read before, will write over it.
Overwriting(k, path) ==
  [g \in Keepers |-> IF g # k /\ keeping[g].path = path THEN [keeping[g] EXCEPT !.stale = TRUE] ELSE keeping[g]]

SaveStore(k) ==
  LET op == keeping[k]
      item == NewItem(op)
      jobs == op.path = "cron" /\ op.what = "add"
      made == ChangedItems(op.read.items, op.what, item, op.id)
  IN /\ op # NotKeeping /\ ~Unknown(op)
     /\ kept_files' = [kept_files EXCEPT ![op.path] =
          [whole |-> TRUE, items |-> made, next_id |-> IF jobs THEN item.id ELSE op.read.next_id]]
     /\ keeping' = [Overwriting(k, op.path) EXCEPT ![k] = NotKeeping]
     /\ given' = IF jobs THEN Append(given, item.id) ELSE given
     /\ expected' = [expected EXCEPT ![op.path] = IF op.stale THEN made ELSE ChangedItems(@, op.what, item, op.id)]
     /\ disturbed' = IF op.stale THEN disturbed \cup {op.path} ELSE disturbed
     /\ UNCHANGED <<claw, keeps, keep_faults>>

RefuseJob(k) ==
  /\ Unknown(keeping[k]) /\ keeping' = [keeping EXCEPT ![k] = NotKeeping]
  /\ UNCHANGED <<kept_files, claw, given, expected, disturbed, keeps, keep_faults>>

\* What a write that is cut leaves: a list that does not parse, or the first notes.
LeftByCut(op) ==
  IF op.path \in {"todo", "cron"} THEN {[NoItems EXCEPT !.whole = FALSE]}
  ELSE {[NoItems EXCEPT !.items = SubSeq(op.read.items, 1, n)] : n \in 0..Len(op.read.items)}

\* A write that ends with an error, told, or with the session: the file is as it was, or
\* cut.
SaveFails(k) ==
  LET path == keeping[k].path
  IN /\ keeping[k] # NotKeeping /\ ~Unknown(keeping[k])
     /\ keep_faults < MaxKeepFaults /\ keep_faults' = keep_faults + 1
     /\ \/ UNCHANGED <<kept_files, expected, disturbed>> /\ keeping' = [keeping EXCEPT ![k] = NotKeeping]
        \/ /\ \E left \in LeftByCut(keeping[k]) :
                 /\ kept_files' = [kept_files EXCEPT ![path] = left]
                 /\ expected' = [expected EXCEPT ![path] = left.items]
           /\ disturbed' = disturbed \cup {path}
           /\ keeping' = [Overwriting(k, path) EXCEPT ![k] = NotKeeping]
     /\ UNCHANGED <<claw, given, keeps>>

\* A user makes a CLAW.md, and notes go there from then on.
MakeClaw ==
  /\ ~claw /\ claw' = TRUE
  /\ UNCHANGED <<kept_files, keeping, given, expected, disturbed, keeps, keep_faults>>

StoresNext ==
  \/ MakeClaw
  \/ \E k \in Keepers :
       \/ AddTodo(k) \/ MarkDone(k) \/ RemoveTodo(k) \/ CreateJob(k) \/ DeleteJob(k) \/ AddNote(k)
       \/ SaveStore(k) \/ RefuseJob(k) \/ SaveFails(k)

------------------------------------------------------------------------------
\* A number stands for one todo, or one job, however commands overlapped and failed; and
\* "ids never get reused after a job is deleted" (cron.rs), as long as the file was not
\* torn, and not written by one who could not read it or had read it before another's write.
OneOfEach ==
  /\ \A p \in {"todo", "cron"} : LET items == kept_files[p].items
                                IN \A i, j \in DOMAIN items : items[i].id = items[j].id => i = j
  /\ "cron" \notin disturbed => \A i, j \in DOMAIN given : given[i] = given[j] => i = j

\* What was told is in the file, in its order.  Only a write that was cut, and that of one
\* who could not read the file or had read it before another's write, may lose any of it;
\* from what such a write leaves the file follows what is told again.
EntriesKept == \A p \in Stored : kept_files[p].items = expected[p]

\* A schedule that is taken fires at the values its field means, and one is refused for a
\* token that means none.
FieldsRight ==
  \A f \in CronFields : \A range \in {<<0, 59>>, <<1, 31>>} :
    LET values == ParseField(f, range[1], range[2])
    IN values # NoField =>
         values = {v \in range[1]..range[2] : \E i \in DOMAIN f : Meets(v, f[i], range[1], range[2])}

StoresAccounted == OneOfEach /\ EntriesKept /\ FieldsRight
=============================================================================
