------------------------------ MODULE McpServers ------------------------------
(***************************************************************************)
(* The records of MCP servers (src/src/mcp.rs) and the /mcp command of     *)
(* src/src/main.rs.  A record is in the file of the session, of the        *)
(* project or of the user; the last two are shared with other sessions.    *)
(* An operation reads all of them, and writes one file after the other; a  *)
(* lock of the process keeps its own operations apart.  One load and save  *)
(* of one file is one step here; Plugins has the steps of it apart.        *)
(***************************************************************************)
EXTENDS Naturals, Sequences

CONSTANTS
  Servers,    \* names of servers
  Sessions,   \* processes
  MaxMcpOps,  \* bound of the model: operations
  MaxPids     \* bound of the model: processes started

ASSUME McpBounds ==
  {MaxMcpOps, MaxPids} \subseteq Nat /\ Sessions \cap {"session", "project", "global"} = {}

VARIABLES
  files,     \* per place, its records
  archive,   \* an exported file: the records of each scope
  pending,   \* per session, the files its operation still has to write
  hung,      \* sessions that wait for a lock they hold
  started,   \* processes started so far
  alive,     \* those that run
  mcpops

mcpVars == <<files, archive, pending, hung, started, alive, mcpops>>

Scopes == <<"session", "project", "global">>
ScopeNames == {"session", "project", "global"}
Shared == {"project", "global"}
Places == Sessions \cup Shared

NoServer == [known |-> FALSE, scope |-> "session", trusted |-> FALSE, pid |-> 0]
ServerRecord == [known : BOOLEAN, scope : ScopeNames, trusted : BOOLEAN, pid : 0..MaxPids]
NoServers == [n \in Servers |-> NoServer]

\* state_path_for_scope
Place(s, scope) == IF scope = "session" THEN s ELSE scope
ScopeOf(place) == IF place \in Shared THEN place ELSE "session"

\* A file still to be written: mutate_scope_state with what it does to the file,
\* "drop" of a server, "put" of a record, "merge" or "replace" by records.
Mutation(scope, what, n, recs) == [scope |-> scope, what |-> what, server |-> n, recs |-> recs]
Mutations == [scope : ScopeNames, what : {"drop", "put", "merge", "replace"}, server : Servers,
              recs : [Servers -> ServerRecord]]

\* The records of a place belong there: every command finds the file of a record
\* by the scope the record names.
McpTypeOK ==
  /\ files \in [Places -> [Servers -> ServerRecord]]
  /\ \A place \in Places, n \in Servers :
       files[place][n].known => files[place][n].scope = ScopeOf(place)
  /\ archive \in [ScopeNames -> [Servers -> ServerRecord]]
  /\ pending \in [Sessions -> Seq(Mutations)]
  /\ \A s \in Sessions : \A i \in 1..Len(pending[s]) : \A n \in Servers :
       pending[s][i].recs[n].known => pending[s][i].recs[n].scope = pending[s][i].scope
  /\ hung \subseteq Sessions /\ started \in 0..MaxPids /\ alive \subseteq 1..started

McpInit ==
  /\ files = [place \in Places |-> NoServers]
  /\ archive = [scope \in ScopeNames |-> NoServers]
  /\ pending = [s \in Sessions |-> <<>>] /\ hung = {} /\ started = 0 /\ alive = {} /\ mcpops = 0

\* merge_prefer_newer: of one name, the session's record hides the project's, and
\* that one the user's.
Seen(s, n) ==
  IF files[s][n].known THEN files[s][n]
  ELSE IF files["project"][n].known THEN files["project"][n] ELSE files["global"][n]

Operation(s) == s \notin hung /\ pending[s] = <<>> /\ mcpops < MaxMcpOps /\ mcpops' = mcpops + 1

\* save_state_file: an error leaves the file as it was, or cut, which counts as
\* no records.
Written(place, recs) == {files, [files EXCEPT ![place] = recs], [files EXCEPT ![place] = NoServers]}
Saved(place, recs) == files' = [files EXCEPT ![place] = recs]

------------------------------------------------------------------------------
\* Operations that write one file.

\* add_server_with_scope
AddServer(s) ==
  /\ Operation(s)
  /\ \E n \in Servers, scope \in ScopeNames :
       /\ ~Seen(s, n).known
       /\ LET place == Place(s, scope)
          IN files' \in Written(place, [files[place] EXCEPT ![n] = [NoServer EXCEPT !.known = TRUE, !.scope = scope]])
  /\ UNCHANGED <<archive, pending, hung, started, alive>>

\* mutate_visible_server, for trust; for auth and configuration the same file is
\* written with fields that are left out here.
SetServer(s) ==
  /\ Operation(s)
  /\ \E n \in Servers, trust \in BOOLEAN, data \in BOOLEAN :
       LET place == Place(s, Seen(s, n).scope)
       IN /\ Seen(s, n).known /\ files[place][n].known
          /\ files' \in Written(place, [files[place] EXCEPT ![n].trusted = IF data THEN @ ELSE trust])
  /\ UNCHANGED <<archive, pending, hung, started, alive>>

\* start_server of a known server: the process runs, whether its record can be
\* saved or not.
StartServer(s) ==
  /\ Operation(s) /\ started < MaxPids
  /\ \E n \in Servers, untrusted_allowed \in BOOLEAN :
       LET v == Seen(s, n)
           place == Place(s, v.scope)
       IN /\ v.known /\ v.pid = 0 /\ (v.trusted \/ untrusted_allowed)
          /\ started' = started + 1 /\ alive' = alive \cup {started + 1}
          /\ IF files[place][n].known
               THEN files' \in Written(place, [files[place] EXCEPT ![n] = [v EXCEPT !.pid = started + 1]])
               ELSE UNCHANGED files
  /\ UNCHANGED <<archive, pending, hung>>

\* start_server of an unknown server with a command: it adds the server while it
\* holds the lock, and adding takes the lock.
StartUnknown(s) ==
  /\ Operation(s) /\ \E n \in Servers : ~Seen(s, n).known
  /\ hung' = hung \cup {s}
  /\ UNCHANGED <<files, archive, pending, started, alive>>

\* stop_server: the process is killed before the record is saved.
StopServer(s) ==
  /\ Operation(s)
  /\ \E n \in Servers :
       LET v == Seen(s, n)
           place == Place(s, v.scope)
       IN /\ v.known /\ files[place][n].known
          /\ alive' = alive \ {files[place][n].pid}
          /\ files' \in Written(place, [files[place] EXCEPT ![n].pid = 0])
  /\ UNCHANGED <<archive, pending, hung, started>>

ServerEnds ==
  /\ \E p \in alive : alive' = alive \ {p}
  /\ UNCHANGED <<files, archive, pending, hung, started, mcpops>>

ExportServers(s) ==
  /\ Operation(s)
  /\ archive' = [scope \in ScopeNames |-> files[Place(s, scope)]]
  /\ UNCHANGED <<files, pending, hung, started, alive>>

------------------------------------------------------------------------------
\* Operations that write several files, one after the other.

Begins(s, steps) ==
  /\ pending' = [pending EXCEPT ![s] = steps]
  /\ UNCHANGED <<files, archive, hung, started, alive>>

\* remove_server, from every file, and without a look at its process
RemoveServer(s) ==
  /\ Operation(s)
  /\ \E n \in Servers : Begins(s, [i \in 1..3 |-> Mutation(Scopes[i], "drop", n, NoServers)])

\* Mutant of MoveServer: the record moves with the scope it had.
MoveServerUnnamed(s) ==
  /\ Operation(s)
  /\ \E n \in Servers, target \in ScopeNames :
       LET v == Seen(s, n)
       IN /\ v.known /\ v.scope # target
          /\ Begins(s, <<Mutation(v.scope, "drop", n, NoServers),
                         Mutation(target, "put", n, [NoServers EXCEPT ![n] = v])>>)

\* set_server_scope: dropped from one file, then put into the other
MoveServer(s) ==
  /\ Operation(s)
  /\ \E n \in Servers, target \in ScopeNames :
       LET v == Seen(s, n)
       IN /\ v.known /\ v.scope # target
          /\ Begins(s, <<Mutation(v.scope, "drop", n, NoServers),
                         Mutation(target, "put", n, [NoServers EXCEPT ![n] = [v EXCEPT !.scope = target]])>>)

\* import_state, of an exported file; records are renamed to the scope they go to
ImportServers(s) ==
  /\ Operation(s)
  /\ \E n \in Servers, what \in {"merge", "replace"} :
       LET incoming(scope) == [m \in Servers |-> [archive[scope][m] EXCEPT !.scope = scope]]
       IN Begins(s, [i \in 1..3 |-> Mutation(Scopes[i], what, n, incoming(Scopes[i]))])

Result(old, m) ==
  CASE m.what = "drop" -> [old EXCEPT ![m.server] = NoServer]
    [] m.what = "put" -> [old EXCEPT ![m.server] = m.recs[m.server]]
    [] m.what = "merge" -> [n \in Servers |-> IF m.recs[n].known THEN m.recs[n] ELSE old[n]]
    [] m.what = "replace" -> m.recs

\* The next file is written; an error ends the operation there.
WriteNext(s) ==
  /\ pending[s] # <<>>
  /\ LET m == Head(pending[s])
         place == Place(s, m.scope)
     IN \/ /\ Saved(place, Result(files[place], m))
           /\ pending' = [pending EXCEPT ![s] = Tail(@)]
        \/ /\ files' \in {files, [files EXCEPT ![place] = NoServers]}
           /\ pending' = [pending EXCEPT ![s] = <<>>]
  /\ UNCHANGED <<archive, hung, started, alive, mcpops>>

McpNext ==
  \/ ServerEnds
  \/ \E s \in Sessions :
       \/ AddServer(s) \/ SetServer(s) \/ StartServer(s) \/ StartUnknown(s) \/ StopServer(s)
       \/ ExportServers(s) \/ RemoveServer(s) \/ MoveServer(s) \/ ImportServers(s) \/ WriteNext(s)
==============================================================================
