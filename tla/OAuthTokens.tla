------------------------------ MODULE OAuthTokens ------------------------------
(***************************************************************************)
(* The stored tokens of src/src/oauth.rs: one list of [provider, token] in *)
(* the file of a session, named by its process id, of a project and of the *)
(* user.  The token of a provider of models (/oauth) goes to the first of  *)
(* the user's and the project's file that can be written, and comes from   *)
(* the first that can be read; the token of an MCP server (/mcp oauth) has *)
(* a scope.  Every operation reads a list, changes it and writes it back,  *)
(* file by file, and several processes do so without a lock.  A file that  *)
(* does not parse reads as an empty list.                                  *)
(***************************************************************************)
EXTENDS Naturals, Sequences, FiniteSets

CONSTANTS
  Holders,         \* processes
  ProcessIds,      \* their ids, which come again
  ProjectDirs,     \* the directories they work in
  Secrets,         \* tokens
  MaxTokenOps,     \* bound of the model: operations
  MaxTokenFaults   \* bound of the model: reads and writes that fail, and processes that are killed

ASSUME TokenBounds ==
  /\ {MaxTokenOps, MaxTokenFaults} \subseteq Nat
  /\ \E pid \in [Holders -> ProcessIds] : \A h, g \in Holders : h # g => pid[h] # pid[g]
  /\ "none" \notin Secrets /\ Secrets # {}

VARIABLES
  single,      \* ASI_OAUTH_PATH: one file for everything
  token_files, \* per path, whether it is there and its list
  owner,      \* per process, its id, its directory and the operation it is in
  auth_value,  \* of the record of the server: what --link-auth put there
  logged_out,  \* [id, directory] of sessions that cleared the server's token for good
  claude,      \* the last token saved for the models, or none; "?" after a fault or a race
  token_ops,
  token_faults

tokenVars == <<single, token_files, owner, auth_value, logged_out, claude, token_ops, token_faults>>

Keys == {"claude", "mcp"}
TokenScopes == <<"session", "project", "global">>
ScopeKinds == {"session", "project", "global"}
TokenPaths == ProcessIds \cup ProjectDirs \cup {"global", "single"}
NoTokens == [k \in Keys |-> "none"]
NoTokenFile == [there |-> FALSE, items |-> NoTokens]
NoTokenOp == [kind |-> "none", todo |-> <<>>, key |-> "mcp", token |-> "none", link |-> FALSE,
         read |-> FALSE, items |-> NoTokens, copied |-> FALSE, raced |-> FALSE]

TokenTypeOK ==
  /\ token_files \in [TokenPaths -> [there : BOOLEAN, items : [Keys -> Secrets \cup {"none"}]]]
  /\ \A h \in Holders :
       /\ owner[h].pid \in ProcessIds /\ owner[h].dir \in ProjectDirs
       /\ owner[h].op.todo \in Seq(TokenPaths)
  /\ \A h, g \in Holders : h # g => owner[h].pid # owner[g].pid
  /\ logged_out \subseteq [pid : ProcessIds, dir : ProjectDirs]

\* Ids and directories are alike: the processes begin with any ids of their own, the one
\* in the directory of the other or not; no file is there, or the server has a token in
\* each of them.
TokensInit ==
  /\ single \in BOOLEAN
  /\ \E items \in {NoTokens, [NoTokens EXCEPT !["mcp"] = CHOOSE t \in Secrets : TRUE]} :
       token_files = [p \in TokenPaths |-> [there |-> items # NoTokens, items |-> items]]
  /\ LET ids == CHOOSE f \in [Holders -> ProcessIds] : \A h, g \in Holders : h # g => f[h] # f[g]
         dir == CHOOSE d \in ProjectDirs : TRUE
         first == CHOOSE h \in Holders : TRUE
     IN \E dirs \in [Holders -> ProjectDirs] :
          /\ dirs[first] = dir
          /\ owner = [h \in Holders |-> [pid |-> ids[h], dir |-> dirs[h], op |-> NoTokenOp]]
  /\ auth_value = "none" /\ logged_out = {} /\ claude = "none" /\ token_ops = 0 /\ token_faults = 0

------------------------------------------------------------------------------
(* Where a list is, and what it gives. *)

\* path_for_scope
PathFor(pid, dir, scope) ==
  CASE single -> "single"
    [] ~single /\ scope = "session" -> pid
    [] ~single /\ scope = "project" -> dir
    [] ~single /\ scope = "global" -> "global"
TokenPath(h, scope) == PathFor(owner[h].pid, owner[h].dir, scope)
\* oauth_candidates
Candidates(dir) == IF single THEN <<"single">> ELSE <<"global", dir>>

\* load_all_flat: the first file that can be read, whatever it holds.
Earliest(S) == CHOOSE i \in S : \A j \in S : i <= j
FlatPath(dir) ==
  LET there == {i \in DOMAIN Candidates(dir) : token_files[Candidates(dir)[i]].there}
  IN Candidates(dir)[IF there = {} THEN 1 ELSE Earliest(there)]
FlatItems(dir) == token_files[FlatPath(dir)].items

\* load_mcp_token_with_scope: the places in TokenScopes of those that have a token.
ScopesWith(pid, dir) ==
  {i \in DOMAIN TokenScopes : token_files[PathFor(pid, dir, TokenScopes[i])].items["mcp"] # "none"}
\* list_mcp_token_providers: all files together.
TokenProviders(pid, dir) == {k \in {"mcp"} : ScopesWith(pid, dir) # {}}
\* /mcp oauth status
TokenStatus(pid, dir) ==
  LET scopes == ScopesWith(pid, dir)
  IN [present |-> scopes # {}, providers |-> TokenProviders(pid, dir),
      scope |-> CASE scopes = {} -> "none" [] scopes # {} /\ single -> "legacy"
                  [] OTHER -> TokenScopes[Earliest(scopes)]]

------------------------------------------------------------------------------
(* Operations. *)

BeginTokenOp(h, op) ==
  /\ owner[h].op.kind = "none" /\ token_ops < MaxTokenOps /\ token_ops' = token_ops + 1
  /\ owner' = [owner EXCEPT ![h].op = op]
  /\ UNCHANGED <<single, token_files, auth_value, logged_out, claude, token_faults>>

\* /oauth login and logout, and asi oauth.
Flat(h, key, token) ==
  [NoTokenOp EXCEPT !.kind = "flat", !.todo = Candidates(owner[h].dir), !.key = key, !.token = token]
ModelLogin(h) == \E t \in Secrets : BeginTokenOp(h, Flat(h, "claude", t))
ModelLogout(h) == BeginTokenOp(h, Flat(h, "claude", "none"))

\* /mcp oauth login: the scope that was given, or that of the record, or the project's.
Scoped(h, kind, scope) ==
  IF single THEN Flat(h, "mcp", "none") ELSE [NoTokenOp EXCEPT !.kind = kind, !.todo = <<TokenPath(h, scope)>>]
McpLogin(h) ==
  \E t \in Secrets, scope \in ScopeKinds, link \in BOOLEAN :
    BeginTokenOp(h, [Scoped(h, "login", scope) EXCEPT !.token = t, !.link = link])

\* /mcp oauth logout: of one scope, or of all of them one after the other.
McpLogout(h) ==
  \/ \E scope \in ScopeKinds : BeginTokenOp(h, Scoped(h, "one", scope))
  \/ LET paths == IF single THEN <<"single">> ELSE [i \in DOMAIN TokenScopes |-> TokenPath(h, TokenScopes[i])]
     IN BeginTokenOp(h, [NoTokenOp EXCEPT !.kind = "all", !.todo = paths])

\* The list an operation changes: of the file it goes to, or the first readable one.
ReadTokens(h) ==
  LET op == owner[h].op
      from == IF op.kind = "flat" THEN FlatPath(owner[h].dir) ELSE op.todo[1]
  IN /\ op.kind # "none" /\ op.todo # <<>> /\ ~op.read
     /\ owner' = [owner EXCEPT ![h].op.read = TRUE, ![h].op.items = token_files[from].items,
                     ![h].op.copied = op.kind = "flat" /\ from # op.todo[1]]
     /\ UNCHANGED <<single, token_files, auth_value, logged_out, claude, token_ops, token_faults>>

TokenFault == token_faults < MaxTokenFaults /\ token_faults' = token_faults + 1

\* A file that cannot be read counts as empty; load_all_flat goes on to the next.
ReadFails(h) ==
  LET op == owner[h].op
      next == owner[h].dir
  IN /\ op.kind # "none" /\ op.todo # <<>> /\ ~op.read /\ TokenFault
     /\ \E passed \in BOOLEAN :
          /\ passed => op.kind = "flat" /\ ~single /\ token_files[next].there
          /\ owner' = [owner EXCEPT ![h].op.read = TRUE, ![h].op.copied = passed,
                          ![h].op.items = IF passed THEN token_files[next].items ELSE NoTokens]
     /\ claude' = "?"
     /\ UNCHANGED <<single, token_files, auth_value, logged_out, token_ops>>

\* Mutant of AfterWrite: a logout ends at the first scope that had the token.
AfterWriteShort(op) ==
  IF op.kind = "all" /\ Len(op.todo) > 1 /\ op.items["mcp"] = "none"
  THEN [op EXCEPT !.todo = Tail(@), !.read = FALSE, !.items = NoTokens]
  ELSE IF op.link THEN [NoTokenOp EXCEPT !.kind = "link", !.token = op.token, !.link = TRUE] ELSE NoTokenOp
\* After the write of a file: the next scope, the record of the server, or the end.
AfterWrite(op) ==
  IF op.kind = "all" /\ Len(op.todo) > 1
  THEN [op EXCEPT !.todo = Tail(@), !.read = FALSE, !.items = NoTokens]
  ELSE IF op.link THEN [NoTokenOp EXCEPT !.kind = "link", !.token = op.token, !.link = TRUE] ELSE NoTokenOp

\* Who sees the file at a path.
Sees(claim, path) == path \in {claim.pid, claim.dir, "global", "single"}
Racing(h) ==
  [g \in Holders |-> IF g = h \/ owner[g].op.kind = "none" THEN owner[g] ELSE [owner[g] EXCEPT !.op.raced = TRUE]]
Overlapped(h) == owner[h].op.raced \/ \E g \in Holders \ {h} : owner[g].op.kind # "none"
FileWith(op) == [there |-> TRUE, items |-> [op.items EXCEPT ![op.key] = op.token]]

WriteTokens(h) ==
  LET op == owner[h].op
      path == op.todo[1]
      rest == AfterWrite(op)
      me == [pid |-> owner[h].pid, dir |-> owner[h].dir]
      seen == {c \in logged_out : Sees(c, path)}
  IN /\ op.read
     /\ token_files' = [token_files EXCEPT ![path] = FileWith(op)]
     /\ owner' = [Racing(h) EXCEPT ![h].op = rest]
     /\ logged_out' =
          IF op.kind = "all" /\ rest = NoTokenOp /\ ~Overlapped(h) THEN logged_out \cup {me}
          ELSE IF (op.key = "mcp" /\ op.token # "none") \/ op.copied \/ Overlapped(h) THEN logged_out \ seen
          ELSE logged_out
     /\ claude' = CASE Overlapped(h) -> "?"
                  [] ~Overlapped(h) /\ op.key = "claude" /\ claude # "?" -> op.token
                  [] OTHER -> claude
     /\ UNCHANGED <<single, auth_value, token_ops, token_faults>>

TornTokens(path) == [token_files EXCEPT ![path] = [there |-> TRUE, items |-> NoTokens]]

\* A file that cannot be written, or in part only, and then does not parse: save_all_flat
\* goes on to the next, which may get the list of another file; the others end with the
\* error, and a logout of all scopes with it.
WriteFails(h) ==
  LET op == owner[h].op
      rest == IF op.kind = "flat" /\ Len(op.todo) > 1 THEN [op EXCEPT !.todo = Tail(@), !.copied = TRUE] ELSE NoTokenOp
  IN /\ op.read /\ TokenFault
     /\ \/ token_files' = token_files /\ owner' = [owner EXCEPT ![h].op = rest]
        \/ token_files' = TornTokens(op.todo[1]) /\ owner' = [Racing(h) EXCEPT ![h].op = rest]
     /\ claude' = "?"
     /\ UNCHANGED <<single, auth_value, logged_out, token_ops>>

\* --link-auth: the record of the server, if there is one, keeps the token itself; no
\* logout takes it from there.
LinkAuth(h) ==
  LET op == owner[h].op
  IN /\ op.kind = "link"
     /\ \E known \in BOOLEAN : auth_value' = IF known THEN op.token ELSE auth_value
     /\ owner' = [owner EXCEPT ![h].op = NoTokenOp]
     /\ UNCHANGED <<single, token_files, logged_out, claude, token_ops, token_faults>>

------------------------------------------------------------------------------
(* Processes. *)

FreeIds(h) == ProcessIds \ {owner[g].pid : g \in Holders \ {h}}

\* A session ends and another begins, under an id that may have been used: the file of
\* its session stays.
NewProcess(h) ==
  /\ owner[h].op.kind = "none"
  /\ \E pid \in FreeIds(h) : owner' = [owner EXCEPT ![h].pid = pid]
  /\ UNCHANGED <<single, token_files, auth_value, logged_out, claude, token_ops, token_faults>>

\* /project
ChangeDir(h) ==
  /\ owner[h].op.kind = "none"
  /\ \E dir \in ProjectDirs : owner' = [owner EXCEPT ![h].dir = dir]
  /\ UNCHANGED <<single, token_files, auth_value, logged_out, claude, token_ops, token_faults>>

\* Killed in a write: the file is there, and does not parse.
KilledWriting(h) ==
  /\ owner[h].op.read /\ TokenFault
  /\ token_files' = TornTokens(owner[h].op.todo[1])
  /\ \E pid \in FreeIds(h) : owner' = [Racing(h) EXCEPT ![h].pid = pid, ![h].op = NoTokenOp]
  /\ claude' = "?"
  /\ UNCHANGED <<single, auth_value, logged_out, token_ops>>

TokensNext ==
  \E h \in Holders :
    \/ ModelLogin(h) \/ ModelLogout(h) \/ McpLogin(h) \/ McpLogout(h)
    \/ ReadTokens(h) \/ ReadFails(h) \/ WriteTokens(h) \/ WriteFails(h) \/ LinkAuth(h)
    \/ NewProcess(h) \/ ChangeDir(h) \/ KilledWriting(h)

------------------------------------------------------------------------------
(* What the user was told of the tokens stays so. *)

\* A session that cleared the token of a server in all scopes does not find it again, in
\* no file it reads, until somebody saves one where it can see it, copies a list from
\* another file, or wrote a list that was read before.
LoggedOut == \A c \in logged_out : ~TokenStatus(c.pid, c.dir).present /\ TokenStatus(c.pid, c.dir).providers = {}

\* The token for the models shares its file with those of the servers: whatever is done
\* for servers in between, every project finds what was saved last.
ClaudeKept == claude # "?" => \A dir \in ProjectDirs : FlatItems(dir)["claude"] = claude

TokensAccounted == LoggedOut /\ ClaudeKept
=============================================================================
