-------------------------------- MODULE Gateway --------------------------------
(***************************************************************************)
(* The HTTP gateway (src/src/gateway.rs) and the session files it keeps    *)
(* (src/src/session.rs).  Handlers run on several threads, and one lock is *)
(* held from the load of a session to the save of its turn; a panic in a   *)
(* turn poisons it.  A session is named after the millisecond it is        *)
(* created in.  fs::write truncates the file first: a write that fails, or *)
(* that the end of the process cuts short, may leave one that is not read. *)
(***************************************************************************)
EXTENDS Naturals, Sequences

CONSTANTS
  Clients,     \* requests that may be under way at a time
  MaxHttpRequests, \* bound of the model: requests
  MaxMillis,   \* bound of the model: names of sessions, 1 to MaxMillis
  MaxHttpFaults \* bound of the model: files cut, and ends of the process

ASSUME GatewayBounds == {MaxHttpRequests, MaxMillis, MaxHttpFaults} \subseteq Nat

VARIABLES
  sessions,  \* per name, the session file: a sequence of turns, or Missing: none
             \* that loads
  names,     \* names of the sessions created so far
  holder,    \* the request that has the lock, or nobody: {} or {client}
  poisoned,  \* a panic ended a handler that had it
  request,   \* per client: [at, what, name, turn, loaded]
  turns,     \* requests so far
  kept_turns, \* history: the turns saved, per name, in their order: those answered, and
             \* any whose answer the end of the process cut off
  cut_files, \* history: the names whose file a write left cut,
  http_faults \* and how many such writes and ends of the process there were

storeFiles == <<sessions, names, kept_turns, cut_files>>
lockVars == <<holder, poisoned>>
gatewayVars == <<sessions, names, holder, poisoned, request, turns, kept_turns, cut_files, http_faults>>

Names == 1..MaxMillis
\* A session without turns is <<0>>: its system prompt.
Missing == <<>>
NoRequest == [at |-> "none", what |-> "none", name |-> 1, turn |-> 0, loaded |-> Missing]

GatewayTypeOK ==
  /\ sessions \in [Names -> Seq(0..MaxHttpRequests)] /\ kept_turns \in [Names -> Seq(1..MaxHttpRequests)]
  /\ {names, cut_files} \subseteq SUBSET Names /\ holder \subseteq Clients /\ poisoned \in BOOLEAN
  /\ turns \in 0..MaxHttpRequests /\ http_faults \in 0..MaxHttpFaults
  /\ \A c \in Clients :
       /\ request[c].at \in {"none", "waiting", "locked", "loaded", "replied"}
       /\ request[c].what \in {"none", "create", "turn", "read"}
       /\ request[c].at \in {"locked", "loaded", "replied"} <=> c \in holder
       /\ request[c].loaded \in Seq(0..MaxHttpRequests)

GatewayInit ==
  /\ sessions = [n \in Names |-> Missing] /\ kept_turns = [n \in Names |-> <<>>]
  /\ names = {} /\ cut_files = {} /\ http_faults = 0 /\ holder = {} /\ poisoned = FALSE
  /\ request = [c \in Clients |-> NoRequest] /\ turns = 0

Done(c) == request' = [request EXCEPT ![c] = NoRequest]
Release(c) == Done(c) /\ holder' = {}
Moves(c, at) == request' = [request EXCEPT ![c].at = at]

HttpFault == http_faults < MaxHttpFaults /\ http_faults' = http_faults + 1

\* The name is new, unless two sessions are created within a millisecond: no turn
\* of the first one is over by then.
NewName(n) == n \notin names \/ sessions[n] = <<0>>
NewFile(n) ==
  /\ NewName(n)
  /\ sessions' = [sessions EXCEPT ![n] = <<0>>]
  /\ names' = names \cup {n} /\ cut_files' = cut_files \ {n} /\ UNCHANGED kept_turns

TurnFile(c) ==
  LET r == request[c]
  IN /\ sessions' = [sessions EXCEPT ![r.name] = r.loaded]
     /\ kept_turns' = [kept_turns EXCEPT ![r.name] = Append(@, r.turn)]
     /\ UNCHANGED <<names, cut_files>>

\* The write ends between the truncation and the last byte.
CutFile(n) ==
  /\ sessions' = [sessions EXCEPT ![n] = Missing]
  /\ cut_files' = cut_files \cup {n} /\ UNCHANGED <<names, kept_turns>>

\* A request comes in; an input that is empty is answered at once.
Receive(c) ==
  /\ request[c].at = "none" /\ turns < MaxHttpRequests /\ turns' = turns + 1
  /\ \E what \in {"create", "turn", "read"}, n \in Names :
       /\ what = "create" => n = 1  \* it brings no name
       /\ request' = [request EXCEPT ![c] =
                        [NoRequest EXCEPT !.at = "waiting", !.what = what, !.name = n, !.turn = turns + 1]]
  /\ UNCHANGED <<storeFiles, lockVars, http_faults>>

\* Mutant of TakeLock: it is not exclusive.
TakeLockShared(c) ==
  /\ request[c].at = "waiting" /\ ~poisoned
  /\ holder' = holder \cup {c} /\ Moves(c, "locked")
  /\ UNCHANGED <<storeFiles, poisoned, turns, http_faults>>

TakeLock(c) ==
  /\ request[c].at = "waiting" /\ holder = {} /\ ~poisoned
  /\ holder' = {c} /\ Moves(c, "locked")
  /\ UNCHANGED <<storeFiles, poisoned, turns, http_faults>>

\* A poisoned lock answers every request with an error.
RefusePoisoned(c) ==
  /\ request[c].at = "waiting" /\ holder = {} /\ poisoned
  /\ Done(c) /\ UNCHANGED <<storeFiles, lockVars, turns, http_faults>>

\* create_session: an error of the save changes nothing, or leaves a cut file.
Create(c) ==
  /\ request[c].at = "locked" /\ request[c].what = "create" /\ Release(c)
  /\ \/ (\E n \in Names : NewFile(n)) /\ UNCHANGED http_faults
     \/ UNCHANGED <<storeFiles, http_faults>>
     \/ HttpFault /\ \E n \in Names : NewName(n) /\ CutFile(n)
  /\ UNCHANGED <<poisoned, turns>>

\* list_sessions and get_session
Read(c) ==
  /\ request[c].at = "locked" /\ request[c].what = "read" /\ Release(c)
  /\ UNCHANGED <<storeFiles, poisoned, turns, http_faults>>

\* run_turn: the session is loaded, or there is none of that name that loads.
Load(c) ==
  /\ request[c].at = "locked" /\ request[c].what = "turn"
  /\ LET stored == sessions[request[c].name]
     IN IF stored = Missing
          THEN Release(c)
          ELSE request' = [request EXCEPT ![c].at = "loaded", ![c].loaded = stored] /\ UNCHANGED holder
  /\ UNCHANGED <<storeFiles, poisoned, turns, http_faults>>

\* The turn itself adds to the messages loaded, or to nothing when it is turned
\* away; a panic in it takes the lock along.
RunTurn(c) ==
  /\ request[c].at = "loaded"
  /\ request' = [request EXCEPT ![c].at = "replied", ![c].loaded = Append(@, request[c].turn)]
  /\ UNCHANGED <<storeFiles, lockVars, turns, http_faults>>

PanicInTurn(c) ==
  /\ request[c].at = "loaded" /\ poisoned' = TRUE /\ Release(c)
  /\ UNCHANGED <<storeFiles, turns, http_faults>>

\* On an error the answer is 500, and the file as it was, or cut.
SaveTurn(c) ==
  /\ request[c].at = "replied" /\ Release(c)
  /\ \/ TurnFile(c) /\ UNCHANGED http_faults
     \/ UNCHANGED <<storeFiles, http_faults>>
     \/ HttpFault /\ CutFile(request[c].name)
  /\ UNCHANGED <<poisoned, turns>>

\* The write that the one who has the lock is about to make, in part or whole.
LastWrite(c) ==
  \/ request[c].at = "replied" /\ (TurnFile(c) \/ CutFile(request[c].name))
  \/ /\ request[c].at = "locked" /\ request[c].what = "create"
     /\ \E n \in Names : NewFile(n) \/ (NewName(n) /\ CutFile(n))

\* The process ends and is started again: no request under way is answered.
KillGateway ==
  /\ HttpFault
  /\ request' = [c \in Clients |-> NoRequest] /\ holder' = {} /\ poisoned' = FALSE
  /\ UNCHANGED storeFiles \/ \E c \in holder : LastWrite(c)
  /\ UNCHANGED turns

GatewayNext ==
  \/ \E c \in Clients :
       \/ Receive(c) \/ TakeLock(c) \/ RefusePoisoned(c) \/ Create(c) \/ Read(c)
       \/ Load(c) \/ RunTurn(c) \/ PanicInTurn(c) \/ SaveTurn(c)
  \/ KillGateway

------------------------------------------------------------------------------
\* No turn that was answered is lost or doubled: the file of a session has the
\* turns saved to it, in their order, whatever requests for the same session come
\* in at once, fail or panic, or however the gateway ends; but for a session whose
\* own file a failed or interrupted write cut, which is lost with all its turns.
TurnsKept ==
  \A n \in names :
    \/ sessions[n] = <<0>> \o kept_turns[n]
    \/ n \in cut_files /\ sessions[n] = Missing
==============================================================================
