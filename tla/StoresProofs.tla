----------------------------- MODULE StoresProofs -----------------------------
(***************************************************************************)
(* What is kept of several turns, operations and processes.  The files of  *)
(* several processes without a lock: a session that cleared a token does   *)
(* not find it again and the token for the models is the one that was      *)
(* saved last, unless an operation ran into another; and a number is of    *)
(* one todo or job, and what was told is in the list, unless a file was    *)
(* cut or written over.  The changed files of a turn: its lists and its    *)
(* validation tell one story.  The wiki, with several runs of the program  *)
(* that write over each other: what is lost is bounded by what caused it.  *)
(* And the benchmark runs with README.md and their reports.                *)
(***************************************************************************)
EXTENDS OAuthTokens, Stores, WorkLog, Wiki, Bench, ListProofs, FiniteSetTheorems

TokensSpec == TokensInit /\ [][TokensNext]_tokenVars

-----------------------------------------------------------------------------
(* The tokens *)

Tokens == Secrets \cup {"none"}
Items == [Keys -> Tokens]
TokenFile == [there : BOOLEAN, items : Items]
TokenKinds == {"none", "flat", "login", "one", "all", "link"}
TokenPathLists == Seq(TokenPaths)
TokenOps ==
  [kind : TokenKinds, todo : TokenPathLists, key : Keys, token : Tokens, link : BOOLEAN,
   read : BOOLEAN, items : Items, copied : BOOLEAN, raced : BOOLEAN]
Owner == [pid : ProcessIds, dir : ProjectDirs, op : TokenOps]

TokenTypes ==
  /\ single \in BOOLEAN /\ token_files \in [TokenPaths -> TokenFile]
  /\ owner \in [Holders -> Owner]
  /\ logged_out \subseteq [pid : ProcessIds, dir : ProjectDirs]

OwnIds == \A h, g \in Holders : h # g => owner[h].pid # owner[g].pid

\* The files an operation of a process still goes to, and what it does there.
Shaped(o) ==
  LET op == o.op
  IN /\ op.kind = "none" => op = NoTokenOp
     /\ op.kind = "link" => ~op.read /\ op.todo = <<>>
     /\ op.kind = "flat" =>
          \/ single /\ op.todo = <<"single">> /\ ~op.copied
          \/ ~single /\ op.key = "claude" /\ op.todo = <<"global", o.dir>>
          \/ ~single /\ op.key = "claude" /\ op.todo = <<o.dir>> /\ op.read /\ claude = "?"
     /\ op.kind \in {"login", "one"} =>
          ~single /\ op.key = "mcp" /\ ~op.copied /\ \E path \in TokenPaths : op.todo = <<path>>
     /\ op.kind = "one" => op.token = "none"
     /\ op.kind = "all" =>
          /\ op.key = "mcp" /\ op.token = "none" /\ ~op.link /\ ~op.copied
          /\ \/ single /\ op.todo = <<"single">>
             \/ ~single /\ op.todo \in {<<o.pid, o.dir, "global">>, <<o.dir, "global">>, <<"global">>}

NoMcp(path) == token_files[path].items["mcp"] = "none"

\* What an operation has read is what the file still says, or nothing if it could not read
\* it, and the files it is done with are cleared, unless another process wrote since it began.
FreshOp(o) ==
  LET op == o.op
  IN ~op.raced =>
       /\ op.read /\ ~op.copied =>
            op.items = token_files[op.todo[1]].items \/ (op.items = NoTokens /\ claude = "?")
       /\ op.kind = "all" /\ ~single /\ op.todo # <<o.pid, o.dir, "global">> => NoMcp(o.pid)
       /\ op.kind = "all" /\ ~single /\ op.todo = <<"global">> => NoMcp(o.dir)

OpsFit == \A h \in Holders : Shaped(owner[h]) /\ FreshOp(owner[h])

\* No file of a session that cleared the token has it.
PathsOf(c) == IF single THEN {"single"} ELSE {c.pid, c.dir, "global"}
Cleared == \A c \in logged_out : \A path \in PathsOf(c) : NoMcp(path)

\* The first file for the models has the token; without it no file has one.
Claude(path) == token_files[path].items["claude"]
SavedLast ==
  claude # "?" =>
    /\ single => Claude("single") = claude
    /\ ~single /\ token_files["global"].there => Claude("global") = claude
    /\ ~single /\ ~token_files["global"].there =>
         claude = "none" /\ Claude("global") = "none" /\ \A dir \in ProjectDirs : Claude(dir) = "none"

TokensInv == TokenTypes /\ OwnIds /\ OpsFit /\ Cleared /\ SavedLast

\* The invariant is what the user was told, and the types.
LEMMA TokenPathsKnown ==
  /\ "single" \in TokenPaths /\ "global" \in TokenPaths
  /\ \A pid \in ProcessIds : pid \in TokenPaths
  /\ \A dir \in ProjectDirs : dir \in TokenPaths
BY DEF TokenPaths

LEMMA FirstReadable ==
  ASSUME single \in BOOLEAN, NEW dir
  PROVE  /\ single => FlatPath(dir) = "single"
         /\ ~single => FlatPath(dir) = IF token_files["global"].there \/ ~token_files[dir].there THEN "global" ELSE dir
<1> DEFINE there == {i \in DOMAIN Candidates(dir) : token_files[Candidates(dir)[i]].there}
<1>1. FlatPath(dir) = Candidates(dir)[IF there = {} THEN 1 ELSE Earliest(there)]
  BY DEF FlatPath
<1>2. CASE single
  <2>1. Candidates(dir) = <<"single">> /\ there \subseteq {1}
    BY <1>2 DEF Candidates
  <2>2. there # {} => Earliest(there) = 1
    BY <2>1 DEF Earliest
  <2> QED
    BY <1>1, <1>2, <2>1, <2>2
<1>3. CASE ~single
  <2>1. /\ Candidates(dir) = <<"global", dir>> /\ there \subseteq {1, 2}
        /\ (1 \in there <=> token_files["global"].there) /\ (2 \in there <=> token_files[dir].there)
    BY <1>3 DEF Candidates
  <2>2. 1 \in there => Earliest(there) = 1
    BY <2>1 DEF Earliest
  <2>3. 1 \notin there /\ 2 \in there => Earliest(there) = 2
    BY <2>1 DEF Earliest
  <2> QED
    BY <1>1, <1>3, <2>1, <2>2, <2>3
<1> QED
  BY <1>2, <1>3

LEMMA TokensTold == TokensInv => TokensAccounted
<1> SUFFICES ASSUME TokensInv PROVE TokensAccounted
  OBVIOUS
<1> USE DEF TokensInv
<1>1. LoggedOut
  <2> SUFFICES ASSUME NEW c \in logged_out PROVE ScopesWith(c.pid, c.dir) = {}
    BY DEF LoggedOut, TokenStatus, TokenProviders
  <2>1. \A i \in DOMAIN TokenScopes : PathFor(c.pid, c.dir, TokenScopes[i]) \in PathsOf(c)
    BY DEF TokenScopes, PathFor, PathsOf, TokenTypes
  <2> QED
    BY <2>1 DEF ScopesWith, Cleared, NoMcp
<1>2. ClaudeKept
  BY FirstReadable DEF ClaudeKept, FlatItems, SavedLast, Claude, TokenTypes
<1> QED
  BY <1>1, <1>2 DEF TokensAccounted

LEMMA TokensTyped == TokensInv => TokenTypeOK
BY DEF TokensInv, TokenTypes, OwnIds, TokenTypeOK, TokenFile, Items, Tokens, Owner, TokenOps, TokenPathLists

LEMMA OpKnown ==
  /\ NoTokens \in Items /\ NoTokenOp \in TokenOps
  /\ \A op \in TokenOps : op.kind \in TokenKinds /\ op.todo \in TokenPathLists /\ op.key \in Keys /\ op.token \in Tokens
       /\ op.link \in BOOLEAN /\ op.read \in BOOLEAN /\ op.items \in Items /\ op.copied \in BOOLEAN /\ op.raced \in BOOLEAN
<1>1. NoTokens \in Items
  BY DEF NoTokens, Items, Tokens
<1>2. <<>> \in TokenPathLists
  BY DEF TokenPathLists
<1> QED
  BY <1>1, <1>2 DEF TokenOps, NoTokenOp, TokenKinds, Keys, Tokens

LEMMA Idle == NoTokenOp.kind = "none" /\ ~NoTokenOp.read
BY DEF NoTokenOp

LEMMA FilesKnown == \A file \in TokenFile : file.there \in BOOLEAN /\ file.items \in Items
BY DEF TokenFile

LEMMA OwnerKnown ==
  \A o \in Owner : o.pid \in ProcessIds /\ o.dir \in ProjectDirs /\ o.op \in TokenOps
BY DEF Owner

LEMMA InitTokens == TokensInit => TokensInv
<1> SUFFICES ASSUME TokensInit PROVE TokensInv
  OBVIOUS
<1> DEFINE ids == CHOOSE f \in [Holders -> ProcessIds] : \A h, g \in Holders : h # g => f[h] # f[g]
<1>1. ids \in [Holders -> ProcessIds] /\ \A h, g \in Holders : h # g => ids[h] # ids[g]
  BY TokenBounds
<1>2. PICK dirs \in [Holders -> ProjectDirs] :
        owner = [h \in Holders |-> [pid |-> ids[h], dir |-> dirs[h], op |-> NoTokenOp]]
  BY DEF TokensInit
<1>3. PICK items \in {NoTokens, [NoTokens EXCEPT !["mcp"] = CHOOSE t \in Secrets : TRUE]} :
        token_files = [p \in TokenPaths |-> [there |-> items # NoTokens, items |-> items]]
  BY DEF TokensInit
<1> HIDE DEF ids
<1>4. items \in Items /\ items["claude"] = "none"
  <2>1. (CHOOSE t \in Secrets : TRUE) \in Secrets
    BY TokenBounds
  <2> QED
    BY <2>1 DEF NoTokens, Items, Keys, Tokens
<1>5. TokenTypes
  BY <1>1, <1>2, <1>3, <1>4, OpKnown DEF TokensInit, TokenTypes, TokenFile, Owner
<1>6. OwnIds
  BY <1>1, <1>2 DEF OwnIds
<1>7. OpsFit
  BY <1>2 DEF OpsFit, Shaped, FreshOp, NoTokenOp
<1>8. Cleared
  BY DEF TokensInit, Cleared
<1>9. SavedLast
  BY <1>3, <1>4, TokenPathsKnown DEF TokensInit, SavedLast, Claude
<1> QED
  BY <1>5, <1>6, <1>7, <1>8, <1>9 DEF TokensInv

\* A process goes on with another operation, and the others with theirs.
LEMMA OtherOp ==
  ASSUME TokenTypes, NEW h \in Holders, NEW op \in TokenOps, owner' = [owner EXCEPT ![h].op = op]
  PROVE  /\ owner' \in [Holders -> Owner]
         /\ owner'[h].op = op /\ owner'[h].pid = owner[h].pid /\ owner'[h].dir = owner[h].dir
         /\ \A g \in Holders : g # h => owner'[g] = owner[g]
         /\ \A g \in Holders : owner'[g].pid = owner[g].pid
<1>1. owner[h] \in Owner /\ owner' = [owner EXCEPT ![h] = [owner[h] EXCEPT !.op = op]]
  BY DEF TokenTypes
<1>2. [owner[h] EXCEPT !.op = op] \in Owner
  BY <1>1 DEF Owner
<1> QED
  BY <1>1, <1>2 DEF TokenTypes, Owner

\* What a step needs that leaves the files, and what was told of them.
LEMMA FilesStay ==
  ASSUME TokensInv, NEW h \in Holders, NEW op \in TokenOps, owner' = [owner EXCEPT ![h].op = op],
         UNCHANGED <<single, token_files, logged_out>>, claude' \in {claude, "?"},
         Shaped(owner[h])', FreshOp(owner[h])'
  PROVE  TokensInv'
<1> USE DEF TokensInv
<1>1. /\ owner' \in [Holders -> Owner] /\ \A g \in Holders : g # h => owner'[g] = owner[g]
      /\ \A g \in Holders : owner'[g].pid = owner[g].pid
  BY OtherOp
<1>2. TokenTypes' /\ OwnIds'
  BY <1>1 DEF TokenTypes, OwnIds
<1>3. OpsFit'
  <2> SUFFICES ASSUME NEW g \in Holders PROVE (Shaped(owner[g]) /\ FreshOp(owner[g]))'
    BY DEF OpsFit
  <2>1. CASE g = h
    BY <2>1
  <2>2. CASE g # h
    BY <1>1, <2>2 DEF OpsFit, Shaped, FreshOp, NoMcp
  <2> QED
    BY <2>1, <2>2
<1>4. Cleared' /\ SavedLast'
  BY DEF Cleared, PathsOf, NoMcp, SavedLast, Claude
<1> QED
  BY <1>2, <1>3, <1>4

\* An operation begins with nothing read, and one of all scopes with all of them.
LEMMA BeginTokensKeeps ==
  ASSUME TokensInv, NEW h \in Holders, NEW op \in TokenOps, BeginTokenOp(h, op), ~op.read, Shaped(owner[h])',
         op.kind = "all" /\ ~single => op.todo = <<owner[h].pid, owner[h].dir, "global">>
  PROVE  TokensInv'
<1>1. /\ owner' = [owner EXCEPT ![h].op = op] /\ claude' \in {claude, "?"}
      /\ UNCHANGED <<single, token_files, logged_out>>
  BY DEF BeginTokenOp
<1>2. owner'[h].op = op /\ owner'[h].pid = owner[h].pid /\ owner'[h].dir = owner[h].dir
  BY <1>1, OtherOp DEF TokensInv
<1>3. FreshOp(owner[h])'
  BY <1>1, <1>2 DEF FreshOp
<1> QED
  BY <1>1, <1>3, FilesStay

\* The operations a user may begin, as records.
LEMMA Begun ==
  ASSUME TokensInv, NEW h \in Holders
  PROVE  /\ owner[h].pid \in TokenPaths /\ owner[h].dir \in TokenPaths
         /\ <<"single">> \in TokenPathLists /\ <<"global", owner[h].dir>> \in TokenPathLists
         /\ <<owner[h].pid, owner[h].dir, "global">> \in TokenPathLists
         /\ \A path \in TokenPaths : <<path>> \in TokenPathLists
<1>1. owner[h].pid \in TokenPaths /\ owner[h].dir \in TokenPaths
  BY OwnerKnown, TokenPathsKnown DEF TokensInv, TokenTypes
<1> QED
  BY <1>1, TokenPathsKnown DEF TokenPathLists

LEMMA TokenCommandsKeep ==
  ASSUME TokensInv, NEW h \in Holders, ModelLogin(h) \/ ModelLogout(h) \/ McpLogin(h) \/ McpLogout(h)
  PROVE  TokensInv'
<1> DEFINE done(op) == owner' = [owner EXCEPT ![h].op = op] /\ UNCHANGED single
<1>1. ASSUME NEW op \in TokenOps, done(op)
      PROVE  owner'[h].op = op /\ owner'[h].pid = owner[h].pid /\ owner'[h].dir = owner[h].dir /\ single' = single
  BY <1>1, OtherOp DEF TokensInv
<1>2. ASSUME NEW key \in Keys, NEW token \in Tokens, NEW op, BeginTokenOp(h, op), single \/ key = "claude",
             op \in {Flat(h, key, token)} \cup {[Flat(h, key, token) EXCEPT !.link = link] : link \in BOOLEAN}
      PROVE  TokensInv'
  <2>1. Candidates(owner[h].dir) = IF single THEN <<"single">> ELSE <<"global", owner[h].dir>>
    BY DEF Candidates
  <2>2. /\ op \in TokenOps /\ op.kind = "flat" /\ op.key = key /\ ~op.read /\ ~op.copied
        /\ op.todo = IF single THEN <<"single">> ELSE <<"global", owner[h].dir>>
    <3>1. CASE op = Flat(h, key, token)
      BY <2>1, <3>1, Begun, OpKnown DEF Flat, NoTokenOp, TokenOps, TokenKinds
    <3>2. ASSUME NEW link \in BOOLEAN, op = [Flat(h, key, token) EXCEPT !.link = link]
          PROVE  /\ op \in TokenOps /\ op.kind = "flat" /\ op.key = key /\ ~op.read /\ ~op.copied
                 /\ op.todo = IF single THEN <<"single">> ELSE <<"global", owner[h].dir>>
      BY <2>1, <3>2, Begun, OpKnown DEF Flat, NoTokenOp, TokenOps, TokenKinds
    <3> QED
      BY <1>2, <3>1, <3>2
  <2>3. Shaped(owner[h])'
    BY <1>1, <1>2, <2>2 DEF Shaped, BeginTokenOp
  <2> QED
    BY <1>2, <2>2, <2>3, BeginTokensKeeps
<1>3. ASSUME NEW kind \in {"login", "one"}, NEW scope \in ScopeKinds, NEW token \in Tokens, NEW link \in BOOLEAN,
             NEW op, BeginTokenOp(h, op), ~single, kind = "one" => token = "none",
             op \in {Scoped(h, kind, scope), [Scoped(h, kind, scope) EXCEPT !.token = token, !.link = link]}
      PROVE  TokensInv'
  <2>1. PICK path \in TokenPaths : path = TokenPath(h, scope)
    BY <1>3, Begun, TokenPathsKnown DEF TokenPath, PathFor, ScopeKinds
  <2>2. /\ op \in TokenOps /\ op.kind = kind /\ op.key = "mcp" /\ ~op.read /\ ~op.copied /\ op.token \in {"none", token}
        /\ op.todo = <<path>>
    <3>1. CASE op = Scoped(h, kind, scope)
      BY <1>3, <2>1, <3>1, Begun, OpKnown DEF Scoped, NoTokenOp, TokenOps, TokenKinds, Keys, Tokens
    <3>2. CASE op = [Scoped(h, kind, scope) EXCEPT !.token = token, !.link = link]
      <4>1. op = [NoTokenOp EXCEPT !.kind = kind, !.todo = <<path>>, !.token = token, !.link = link]
        BY <1>3, <2>1, <3>2 DEF Scoped, NoTokenOp
      <4> QED
        BY <4>1, Begun, OpKnown DEF NoTokenOp, TokenOps, TokenKinds, Keys
    <3> QED
      BY <1>3, <3>1, <3>2
  <2>3. Shaped(owner[h])'
    BY <1>1, <1>3, <2>2 DEF Shaped, BeginTokenOp
  <2> QED
    BY <1>3, <2>2, <2>3, BeginTokensKeeps
<1>4. ASSUME NEW paths \in TokenPathLists,
             paths = IF single THEN <<"single">> ELSE <<owner[h].pid, owner[h].dir, "global">>,
             BeginTokenOp(h, [NoTokenOp EXCEPT !.kind = "all", !.todo = paths])
      PROVE  TokensInv'
  <2> DEFINE op == [NoTokenOp EXCEPT !.kind = "all", !.todo = paths]
  <2>1. /\ op \in TokenOps /\ op.kind = "all" /\ op.key = "mcp" /\ op.token = "none" /\ ~op.link /\ ~op.copied
        /\ ~op.read /\ op.todo = paths
    BY OpKnown DEF NoTokenOp, TokenOps, TokenKinds
  <2> HIDE DEF op
  <2>2. Shaped(owner[h])'
    BY <1>1, <1>4, <2>1 DEF Shaped, BeginTokenOp, op
  <2> QED
    BY <1>4, <2>1, <2>2, BeginTokensKeeps DEF op
<1>5. CASE ModelLogin(h) \/ ModelLogout(h)
  BY <1>2, <1>5 DEF ModelLogin, ModelLogout, Keys, Tokens
<1>6. CASE McpLogin(h)
  <2>1. PICK t \in Secrets, scope \in ScopeKinds, link \in BOOLEAN :
          BeginTokenOp(h, [Scoped(h, "login", scope) EXCEPT !.token = t, !.link = link])
    BY <1>6 DEF McpLogin
  <2>2. CASE single
    <3>1. [Scoped(h, "login", scope) EXCEPT !.token = t, !.link = link] = [Flat(h, "mcp", t) EXCEPT !.link = link]
      BY <2>2 DEF Scoped, Flat, NoTokenOp
    <3> QED
      BY <1>2, <2>1, <2>2, <3>1 DEF Keys, Tokens
  <2>3. CASE ~single
    BY <1>3, <2>1, <2>3 DEF Tokens
  <2> QED
    BY <2>2, <2>3
<1>7. ASSUME NEW scope \in ScopeKinds, BeginTokenOp(h, Scoped(h, "one", scope)) PROVE TokensInv'
  <2>1. CASE single
    BY <1>2, <1>7, <2>1 DEF Scoped, Keys, Tokens
  <2>2. CASE ~single
    BY <1>3, <1>7, <2>2 DEF Tokens
  <2> QED
    BY <2>1, <2>2
<1>8. ASSUME NEW paths, paths = IF single THEN <<"single">> ELSE [i \in DOMAIN TokenScopes |-> TokenPath(h, TokenScopes[i])],
             BeginTokenOp(h, [NoTokenOp EXCEPT !.kind = "all", !.todo = paths])
      PROVE  TokensInv'
  <2>1. ~single => [i \in DOMAIN TokenScopes |-> TokenPath(h, TokenScopes[i])] = <<owner[h].pid, owner[h].dir, "global">>
    BY DEF TokenScopes, TokenPath, PathFor
  <2> QED
    BY <1>4, <1>8, <2>1, Begun
<1> QED
  BY <1>5, <1>6, <1>7, <1>8 DEF McpLogout

LEMMA ReadTokensKeeps == ASSUME TokensInv, NEW h \in Holders, ReadTokens(h) PROVE TokensInv'
<1> DEFINE op == owner[h].op
           from == IF op.kind = "flat" THEN FlatPath(owner[h].dir) ELSE op.todo[1]
           new == [op EXCEPT !.read = TRUE, !.items = token_files[from].items,
                             !.copied = op.kind = "flat" /\ from # op.todo[1]]
<1>1. /\ op \in TokenOps /\ Shaped(owner[h]) /\ FreshOp(owner[h]) /\ single \in BOOLEAN
      /\ owner[h].dir \in TokenPaths /\ owner[h].pid \in TokenPaths
  BY OwnerKnown, TokenPathsKnown DEF TokensInv, TokenTypes, OpsFit
<1>2. /\ op.kind # "none" /\ op.todo # <<>> /\ ~op.read /\ owner' = [owner EXCEPT ![h].op = new]
      /\ UNCHANGED <<single, token_files, logged_out>> /\ claude' = claude
  BY DEF ReadTokens, TokensInv, TokenTypes, Owner
<1>3. from \in TokenPaths
  <2>1. op.kind = "flat" => from \in TokenPaths
    BY <1>1, FirstReadable, TokenPathsKnown
  <2>2. op.kind # "flat" => op.todo[1] \in TokenPaths
    BY <1>1, <1>2, OpKnown, TokenPathsKnown DEF Shaped, TokenKinds
  <2> QED
    BY <2>1, <2>2
<1>4. token_files[from].items \in Items
  BY <1>3, FilesKnown DEF TokensInv, TokenTypes
<1>5. /\ new \in TokenOps /\ new.kind = op.kind /\ new.todo = op.todo /\ new.key = op.key /\ new.token = op.token
      /\ new.link = op.link /\ new.read /\ new.items = token_files[from].items /\ new.raced = op.raced
      /\ (new.copied <=> op.kind = "flat" /\ from # op.todo[1])
  BY <1>1, <1>4 DEF TokenOps
<1> HIDE DEF new
<1>6. owner'[h].op = new /\ owner'[h].pid = owner[h].pid /\ owner'[h].dir = owner[h].dir
  BY <1>2, <1>5, OtherOp DEF TokensInv
<1>7. Shaped(owner[h])'
  <2>1. single /\ op.kind = "flat" => op.todo[1] = "single" /\ from = "single"
    BY <1>1, FirstReadable DEF Shaped
  <2> QED
    BY <1>1, <1>2, <1>5, <1>6, <2>1 DEF Shaped
<1>8. FreshOp(owner[h])'
  BY <1>1, <1>2, <1>5, <1>6 DEF FreshOp, NoMcp
<1> QED
  BY <1>2, <1>5, <1>7, <1>8, FilesStay

\* An operation that is over.
LEMMA EndKeeps ==
  ASSUME TokensInv, NEW h \in Holders, owner' = [owner EXCEPT ![h].op = NoTokenOp],
         UNCHANGED <<single, token_files, logged_out>>, claude' \in {claude, "?"}
  PROVE  TokensInv'
<1>1. owner'[h].op = NoTokenOp
  BY OtherOp, OpKnown DEF TokensInv
<1>2. Shaped(owner[h])' /\ FreshOp(owner[h])'
  BY <1>1 DEF Shaped, FreshOp, NoTokenOp
<1> QED
  BY <1>2, OpKnown, FilesStay

\* A list that could not be read counts as empty, or is that of the next file.
LEMMA ReadFailsKeeps == ASSUME TokensInv, NEW h \in Holders, ReadFails(h) PROVE TokensInv'
<1> DEFINE op == owner[h].op
           next == owner[h].dir
<1>1. /\ op \in TokenOps /\ Shaped(owner[h]) /\ FreshOp(owner[h]) /\ single \in BOOLEAN /\ next \in TokenPaths
  BY OwnerKnown, TokenPathsKnown DEF TokensInv, TokenTypes, OpsFit
<1>2. /\ op.kind # "none" /\ op.todo # <<>> /\ ~op.read
      /\ UNCHANGED <<single, token_files, logged_out>> /\ claude' = "?"
  BY DEF ReadFails
<1>3. PICK passed \in BOOLEAN :
        /\ passed => op.kind = "flat" /\ ~single
        /\ owner' = [owner EXCEPT ![h].op.read = TRUE, ![h].op.copied = passed,
                        ![h].op.items = IF passed THEN token_files[next].items ELSE NoTokens]
  BY DEF ReadFails
<1> DEFINE items == IF passed THEN token_files[next].items ELSE NoTokens
           new == [op EXCEPT !.read = TRUE, !.copied = passed, !.items = items]
<1>4. items \in Items /\ (~passed => items = NoTokens)
  BY <1>1, FilesKnown, OpKnown DEF TokensInv, TokenTypes
<1>5. owner' = [owner EXCEPT ![h].op = new]
  BY <1>3 DEF TokensInv, TokenTypes, Owner
<1> HIDE DEF items
<1>6. /\ new \in TokenOps /\ new.kind = op.kind /\ new.todo = op.todo /\ new.key = op.key /\ new.token = op.token
      /\ new.link = op.link /\ new.read /\ new.items = items /\ new.raced = op.raced /\ new.copied = passed
  BY <1>1, <1>4 DEF TokenOps
<1> HIDE DEF new
<1>7. owner'[h].op = new /\ owner'[h].pid = owner[h].pid /\ owner'[h].dir = owner[h].dir
  BY <1>5, <1>6, OtherOp DEF TokensInv
<1>8. Shaped(owner[h])'
  BY <1>1, <1>2, <1>3, <1>6, <1>7 DEF Shaped
<1>9. FreshOp(owner[h])'
  BY <1>1, <1>2, <1>4, <1>6, <1>7 DEF FreshOp, NoMcp
<1> QED
  BY <1>2, <1>5, <1>6, <1>8, <1>9, FilesStay

\* What an operation does after a write that failed.
RestFailed(op) ==
  IF op.kind = "flat" /\ Len(op.todo) > 1 THEN [op EXCEPT !.todo = Tail(@), !.copied = TRUE] ELSE NoTokenOp

LEMMA RestFailedTyped ==
  ASSUME TokensInv, NEW h \in Holders, owner[h].op.read
  PROVE  LET op == owner[h].op
             rest == RestFailed(op)
         IN /\ rest \in TokenOps
            /\ \/ rest = NoTokenOp
               \/ /\ ~single /\ rest.kind = "flat" /\ rest.todo = <<owner[h].dir>> /\ rest.key = "claude"
                  /\ rest.copied /\ rest.read
<1> DEFINE op == owner[h].op
           new == [op EXCEPT !.todo = Tail(@), !.copied = TRUE]
<1>1. op \in TokenOps /\ Shaped(owner[h]) /\ owner[h].dir \in TokenPaths
  BY OwnerKnown, TokenPathsKnown DEF TokensInv, TokenTypes, OpsFit
<1>2. CASE op.kind = "flat" /\ Len(op.todo) > 1
  <2>1. RestFailed(op) = new
    BY <1>2 DEF RestFailed
  <2>2. ~single /\ op.key = "claude" /\ op.todo = <<"global", owner[h].dir>>
    <3>1. Len(<<"single">>) = 1 /\ Len(<<owner[h].dir>>) = 1
      OBVIOUS
    <3>2. \/ single /\ op.todo = <<"single">> /\ ~op.copied
          \/ ~single /\ op.key = "claude" /\ op.todo = <<"global", owner[h].dir>>
          \/ ~single /\ op.key = "claude" /\ op.todo = <<owner[h].dir>> /\ op.read /\ claude = "?"
      BY <1>1, <1>2, Zenon DEF Shaped
    <3>3. ~(1 > 1)
      OBVIOUS
    <3> QED
      BY <1>2, <3>1, <3>2, <3>3, Zenon
  <2>3. Tail(op.todo) = <<owner[h].dir>> /\ <<owner[h].dir>> \in TokenPathLists
    BY <1>1, <2>2 DEF TokenPathLists
  <2>4. /\ new \in TokenOps /\ new.kind = "flat" /\ new.todo = <<owner[h].dir>> /\ new.key = "claude"
        /\ new.copied /\ new.read
    BY <1>1, <1>2, <2>2, <2>3 DEF TokenOps
  <2> HIDE DEF new
  <2> QED
    BY <2>1, <2>2, <2>4
<1>3. CASE ~(op.kind = "flat" /\ Len(op.todo) > 1)
  BY <1>3, OpKnown DEF RestFailed
<1> QED
  BY <1>2, <1>3

LEMMA FailKeeps ==
  ASSUME TokensInv, NEW h \in Holders, WriteFails(h), token_files' = token_files,
         owner' = [owner EXCEPT ![h].op = RestFailed(owner[h].op)]
  PROVE  TokensInv'
<1> DEFINE rest == RestFailed(owner[h].op)
<1>1. owner[h].op.read /\ UNCHANGED <<single, token_files, logged_out>> /\ claude' = "?"
  BY DEF WriteFails
<1>2. rest \in TokenOps /\ (\/ rest = NoTokenOp
                            \/ /\ ~single /\ rest.kind = "flat" /\ rest.todo = <<owner[h].dir>> /\ rest.key = "claude"
                               /\ rest.copied /\ rest.read)
  BY <1>1, RestFailedTyped
<1> HIDE DEF rest
<1>3. owner' = [owner EXCEPT ![h].op = rest]
  BY DEF rest
<1>4. CASE rest = NoTokenOp
  BY <1>1, <1>3, <1>4, EndKeeps
<1>5. CASE rest # NoTokenOp
  <2>1. owner'[h].op = rest /\ owner'[h].dir = owner[h].dir
    BY <1>2, <1>3, OtherOp DEF TokensInv
  <2>2. Shaped(owner[h])' /\ FreshOp(owner[h])'
    BY <1>1, <1>2, <1>5, <2>1, Idle DEF Shaped, FreshOp
  <2> QED
    BY <1>1, <1>2, <1>3, <2>2, FilesStay
<1> QED
  BY <1>4, <1>5

\* A process that is in no operation, begun anew or in another directory.
LEMMA MoveTokensKeeps ==
  ASSUME TokensInv, NEW h \in Holders, owner[h].op.kind = "none", NEW pid \in ProcessIds, NEW dir \in ProjectDirs,
         \A g \in Holders \ {h} : owner[g].pid # pid,
         owner' = [owner EXCEPT ![h].pid = pid, ![h].dir = dir],
         UNCHANGED <<single, token_files, logged_out, claude>>
  PROVE  TokensInv'
<1> USE DEF TokensInv
<1>1. owner[h] \in Owner /\ owner[h].op = NoTokenOp
  BY DEF TokenTypes, OpsFit, Shaped
<1>2. /\ owner' \in [Holders -> Owner] /\ \A g \in Holders : g # h => owner'[g] = owner[g]
      /\ owner'[h].pid = pid /\ owner'[h].dir = dir /\ owner'[h].op = NoTokenOp
  BY <1>1 DEF TokenTypes, Owner
<1>3. TokenTypes' /\ OwnIds'
  BY <1>2 DEF TokenTypes, OwnIds
<1>4. OpsFit'
  <2> SUFFICES ASSUME NEW g \in Holders PROVE (Shaped(owner[g]) /\ FreshOp(owner[g]))'
    BY DEF OpsFit
  <2>1. CASE g = h
    BY <1>2, <2>1 DEF Shaped, FreshOp, NoTokenOp
  <2>2. CASE g # h
    BY <1>2, <2>2 DEF OpsFit, Shaped, FreshOp, NoMcp
  <2> QED
    BY <2>1, <2>2
<1>5. Cleared' /\ SavedLast'
  BY DEF Cleared, PathsOf, NoMcp, SavedLast, Claude
<1> QED
  BY <1>3, <1>4, <1>5

\* A write tells the other processes that are in an operation, whatever becomes of the file.
LEMMA OthersRaced ==
  ASSUME TokensInv, NEW h \in Holders, NEW op \in TokenOps, NEW pid \in ProcessIds,
         \A g \in Holders \ {h} : owner[g].pid # pid, single' = single, claude' = claude \/ claude # "?" \/ claude' = "?",
         owner' = [Racing(h) EXCEPT ![h].pid = pid, ![h].op = op]
  PROVE  /\ owner' \in [Holders -> Owner] /\ OwnIds'
         /\ owner'[h].op = op /\ owner'[h].pid = pid /\ owner'[h].dir = owner[h].dir
         /\ \A g \in Holders : g # h => (Shaped(owner[g]) /\ FreshOp(owner[g]))'
<1> USE DEF TokensInv
<1> DEFINE raced(g) == [owner[g] EXCEPT !.op = [@ EXCEPT !.raced = TRUE]]
<1>1. /\ \A g \in Holders : owner[g] \in Owner /\ raced(g) \in Owner
      /\ \A g \in Holders : /\ raced(g).pid = owner[g].pid /\ raced(g).dir = owner[g].dir
                            /\ raced(g).op = [owner[g].op EXCEPT !.raced = TRUE]
  BY DEF TokenTypes, Owner, TokenOps
<1>2. Racing(h) = [g \in Holders |-> IF g = h \/ owner[g].op.kind = "none" THEN owner[g] ELSE raced(g)]
  BY DEF Racing
<1> HIDE DEF raced
<1>3. /\ owner' \in [Holders -> Owner]
      /\ owner'[h].op = op /\ owner'[h].pid = pid /\ owner'[h].dir = owner[h].dir
      /\ \A g \in Holders : g # h => owner'[g] = IF owner[g].op.kind = "none" THEN owner[g] ELSE raced(g)
  <2>1. Racing(h) \in [Holders -> Owner] /\ Racing(h)[h] = owner[h]
    BY <1>1, <1>2
  <2>2. [owner[h] EXCEPT !.pid = pid, !.op = op] \in Owner
    BY <1>1 DEF Owner
  <2>3. owner' = [Racing(h) EXCEPT ![h] = [owner[h] EXCEPT !.pid = pid, !.op = op]]
    BY <2>1
  <2>4. owner'[h] = [owner[h] EXCEPT !.pid = pid, !.op = op] /\ owner' \in [Holders -> Owner]
    BY <2>1, <2>2, <2>3
  <2>5. \A g \in Holders : g # h => owner'[g] = Racing(h)[g]
    BY <2>1, <2>3
  <2>6. owner'[h].op = op /\ owner'[h].pid = pid /\ owner'[h].dir = owner[h].dir
    BY <1>1, <2>4 DEF Owner
  <2> QED
    BY <1>2, <2>4, <2>5, <2>6
<1>4. OwnIds'
  <2>1. \A g \in Holders : g # h => owner'[g].pid = owner[g].pid
    BY <1>1, <1>3
  <2> QED
    BY <1>3, <2>1 DEF OwnIds
<1>5. ASSUME NEW g \in Holders, g # h PROVE (Shaped(owner[g]) /\ FreshOp(owner[g]))'
  <2>1. CASE owner[g].op.kind = "none"
    <3>1. owner'[g].op = NoTokenOp
      BY <1>3, <1>5, <2>1 DEF OpsFit, Shaped
    <3> QED
      BY <3>1, Idle DEF Shaped, FreshOp
  <2>2. CASE owner[g].op.kind # "none"
    <3>1. owner'[g].pid = owner[g].pid /\ owner'[g].dir = owner[g].dir /\ Shaped(owner[g])
      BY <1>1, <1>3, <1>5, <2>2 DEF OpsFit
    <3>2. owner[g].op \in TokenOps /\ owner'[g].op = [owner[g].op EXCEPT !.raced = TRUE]
      BY <1>1, <1>3, <1>5, <2>2, OwnerKnown
    <3>3. /\ owner'[g].op.raced /\ owner'[g].op.kind = owner[g].op.kind /\ owner'[g].op.todo = owner[g].op.todo
          /\ owner'[g].op.key = owner[g].op.key /\ owner'[g].op.token = owner[g].op.token
          /\ owner'[g].op.link = owner[g].op.link /\ owner'[g].op.read = owner[g].op.read
          /\ owner'[g].op.copied = owner[g].op.copied
      BY <3>2 DEF TokenOps
    <3> QED
      BY <2>2, <3>1, <3>3 DEF Shaped, FreshOp
  <2> QED
    BY <2>1, <2>2
<1> QED
  BY <1>3, <1>4, <1>5

\* Where an operation writes next, and the file that is there afterwards.
LEMMA Target ==
  ASSUME TokensInv, NEW h \in Holders, owner[h].op.read
  PROVE  /\ owner[h].op \in TokenOps /\ owner[h].op.todo[1] \in TokenPaths
         /\ owner[h].op.kind \in {"flat", "login", "one", "all"} /\ Shaped(owner[h]) /\ FreshOp(owner[h])
<1>1. /\ owner[h].op \in TokenOps /\ Shaped(owner[h]) /\ FreshOp(owner[h])
      /\ owner[h].pid \in TokenPaths /\ owner[h].dir \in TokenPaths
  BY OwnerKnown, TokenPathsKnown DEF TokensInv, TokenTypes, OpsFit
<1>2. owner[h].op.kind \in {"flat", "login", "one", "all"}
  BY <1>1, OpKnown DEF Shaped, NoTokenOp, TokenKinds
<1> QED
  BY <1>1, <1>2, TokenPathsKnown DEF Shaped

\* A file that was written in part does not parse, and what the operation does then.
LEMMA TornKeeps ==
  ASSUME TokensInv, NEW h \in Holders, owner[h].op.read, NEW pid \in FreeIds(h), NEW rest \in TokenOps,
         token_files' = TornTokens(owner[h].op.todo[1]),
         owner' = [Racing(h) EXCEPT ![h].pid = pid, ![h].op = rest],
         single' = single, logged_out' = logged_out, claude' = "?",
         \/ rest = NoTokenOp
         \/ /\ ~single /\ rest.kind = "flat" /\ rest.todo = <<owner[h].dir>> /\ rest.key = "claude"
            /\ rest.copied /\ rest.read
  PROVE  TokensInv'
<1> DEFINE path == owner[h].op.todo[1]
<1>1. path \in TokenPaths /\ token_files' = [token_files EXCEPT ![path] = [there |-> TRUE, items |-> NoTokens]]
  BY Target DEF TornTokens
<1>2. /\ owner' \in [Holders -> Owner] /\ OwnIds' /\ owner'[h].op = rest /\ owner'[h].dir = owner[h].dir
      /\ \A g \in Holders : g # h => (Shaped(owner[g]) /\ FreshOp(owner[g]))'
  <2>1. pid \in ProcessIds /\ \A g \in Holders \ {h} : owner[g].pid # pid
    BY DEF FreeIds
  <2> QED
    BY ONLY TokensInv, h \in Holders, rest \in TokenOps, <2>1, single' = single, claude' = "?",
            owner' = [Racing(h) EXCEPT ![h].pid = pid, ![h].op = rest], OthersRaced
<1>3. TokenTypes'
  BY <1>1, <1>2, OpKnown DEF TokensInv, TokenTypes, TokenFile
<1>4. OpsFit'
  BY <1>2, Idle DEF OpsFit, Shaped, FreshOp
<1>5. Cleared'
  BY <1>1, TokenPathsKnown DEF TokensInv, TokenTypes, Cleared, PathsOf, NoMcp, NoTokens, Keys
<1>6. SavedLast'
  BY DEF SavedLast
<1> QED
  BY <1>2, <1>3, <1>4, <1>5, <1>6 DEF TokensInv

LEMMA KilledKeeps == ASSUME TokensInv, NEW h \in Holders, KilledWriting(h) PROVE TokensInv'
<1>1. PICK pid \in FreeIds(h) : owner' = [Racing(h) EXCEPT ![h].pid = pid, ![h].op = NoTokenOp]
  BY DEF KilledWriting
<1>2. /\ owner[h].op.read /\ token_files' = TornTokens(owner[h].op.todo[1])
      /\ single' = single /\ logged_out' = logged_out /\ claude' = "?"
  BY DEF KilledWriting
<1> QED
  BY <1>1, <1>2, OpKnown, TornKeeps

LEMMA WriteFailsKeeps == ASSUME TokensInv, NEW h \in Holders, WriteFails(h) PROVE TokensInv'
<1> DEFINE rest == RestFailed(owner[h].op)
<1>1. /\ owner[h].op.read /\ single' = single /\ logged_out' = logged_out /\ claude' = "?"
      /\ \/ token_files' = token_files /\ owner' = [owner EXCEPT ![h].op = rest]
         \/ token_files' = TornTokens(owner[h].op.todo[1]) /\ owner' = [Racing(h) EXCEPT ![h].op = rest]
  BY DEF WriteFails, RestFailed
<1>2. CASE token_files' = token_files /\ owner' = [owner EXCEPT ![h].op = rest]
  BY <1>2, FailKeeps
<1>3. CASE token_files' = TornTokens(owner[h].op.todo[1]) /\ owner' = [Racing(h) EXCEPT ![h].op = rest]
  <2>1. owner[h] \in Owner /\ owner[h].pid \in FreeIds(h)
    BY DEF TokensInv, TokenTypes, OwnIds, Owner, FreeIds
  <2>2. PICK pid \in FreeIds(h) : pid = owner[h].pid
    BY <2>1
  <2>3. rest \in TokenOps /\ (\/ rest = NoTokenOp
                              \/ /\ ~single /\ rest.kind = "flat" /\ rest.todo = <<owner[h].dir>> /\ rest.key = "claude"
                                 /\ rest.copied /\ rest.read)
    BY <1>1, RestFailedTyped
  <2> HIDE DEF rest
  <2>4. owner' = [Racing(h) EXCEPT ![h].pid = pid, ![h].op = rest]
    BY <1>3, <2>1, <2>2 DEF Owner, Racing, TokensInv, TokenTypes
  <2> QED
    BY <1>1, <1>3, <2>3, <2>4, TornKeeps
<1> QED
  BY <1>1, <1>2, <1>3

\* What is in the file an operation wrote.
LEMMA WrittenTokens ==
  ASSUME TokensInv, NEW op \in TokenOps
  PROVE  /\ FileWith(op) \in TokenFile /\ FileWith(op).there
         /\ FileWith(op).items["mcp"] = IF op.key = "mcp" THEN op.token ELSE op.items["mcp"]
         /\ FileWith(op).items["claude"] = IF op.key = "claude" THEN op.token ELSE op.items["claude"]
<1>1. op.items \in Items /\ op.key \in Keys /\ op.token \in Tokens
  BY OpKnown
<1>2. /\ [op.items EXCEPT ![op.key] = op.token] \in Items
      /\ [op.items EXCEPT ![op.key] = op.token]["mcp"] = IF op.key = "mcp" THEN op.token ELSE op.items["mcp"]
      /\ [op.items EXCEPT ![op.key] = op.token]["claude"] = IF op.key = "claude" THEN op.token ELSE op.items["claude"]
  BY <1>1 DEF Items, Keys
<1> QED
  BY <1>2 DEF FileWith, TokenFile

\* What follows the write of a file: the next scope of a logout of all of them, or no other file.
LEMMA RestTyped ==
  ASSUME TokensInv, NEW h \in Holders, owner[h].op.read
  PROVE  LET op == owner[h].op
             rest == AfterWrite(op)
         IN /\ rest \in TokenOps
            /\ \/ /\ op.kind = "all" /\ rest.kind = "all" /\ ~single /\ ~rest.read /\ rest.key = "mcp"
                  /\ rest.token = "none" /\ ~rest.link /\ ~rest.copied /\ rest.raced = op.raced
                  /\ \/ op.todo = <<owner[h].pid, owner[h].dir, "global">> /\ rest.todo = <<owner[h].dir, "global">>
                     \/ op.todo = <<owner[h].dir, "global">> /\ rest.todo = <<"global">>
               \/ /\ rest = NoTokenOp \/ (rest.kind = "link" /\ ~rest.read /\ rest.todo = <<>>)
                  /\ op.kind = "all" /\ ~single => op.todo = <<"global">>
<1> DEFINE op == owner[h].op
           rest == AfterWrite(op)
           next == [op EXCEPT !.todo = Tail(@), !.read = FALSE, !.items = NoTokens]
<1>1. op \in TokenOps /\ Shaped(owner[h]) /\ owner[h].pid \in TokenPaths /\ owner[h].dir \in TokenPaths
  BY Target, OwnerKnown, TokenPathsKnown DEF TokensInv, TokenTypes
<1>2. CASE op.kind = "all" /\ Len(op.todo) > 1
  <2>1. rest = next
    BY <1>2 DEF AfterWrite
  <2>2. op.key = "mcp" /\ op.token = "none" /\ ~op.link /\ ~op.copied
    BY <1>1, <1>2 DEF Shaped
  <2>3. ~single /\ op.todo \in {<<owner[h].pid, owner[h].dir, "global">>, <<owner[h].dir, "global">>}
    <3>1. Len(<<"single">>) = 1 /\ Len(<<"global">>) = 1 /\ ~(1 > 1)
      OBVIOUS
    <3>2. \/ single /\ op.todo = <<"single">>
          \/ ~single /\ op.todo \in {<<owner[h].pid, owner[h].dir, "global">>, <<owner[h].dir, "global">>, <<"global">>}
      BY <1>1, <1>2, Zenon DEF Shaped
    <3> QED
      BY <1>2, <3>1, <3>2, Zenon
  <2>4. /\ Tail(<<owner[h].pid, owner[h].dir, "global">>) = <<owner[h].dir, "global">>
        /\ Tail(<<owner[h].dir, "global">>) = <<"global">>
    OBVIOUS
  <2>5. <<owner[h].dir, "global">> \in TokenPathLists /\ <<"global">> \in TokenPathLists
    BY <1>1, TokenPathsKnown DEF TokenPathLists
  <2>6. Tail(op.todo) \in TokenPathLists
    BY <2>3, <2>4, <2>5
  <2>7. /\ next \in TokenOps /\ next.kind = op.kind /\ next.todo = Tail(op.todo) /\ ~next.read /\ next.key = op.key
        /\ next.token = op.token /\ next.link = op.link /\ next.copied = op.copied /\ next.raced = op.raced
    BY <1>1, <2>6, OpKnown DEF TokenOps
  <2> HIDE DEF next
  <2> QED
    BY <1>2, <2>1, <2>2, <2>3, <2>4, <2>7
<1>3. CASE ~(op.kind = "all" /\ Len(op.todo) > 1)
  <2>1. rest = IF op.link THEN [NoTokenOp EXCEPT !.kind = "link", !.token = op.token, !.link = TRUE] ELSE NoTokenOp
    BY <1>3 DEF AfterWrite
  <2>2. rest \in TokenOps /\ (rest = NoTokenOp \/ (rest.kind = "link" /\ ~rest.read /\ rest.todo = <<>>))
    <3>1. [NoTokenOp EXCEPT !.kind = "link", !.token = op.token, !.link = TRUE] \in TokenOps
      <4>1. op.token \in Tokens /\ "link" \in TokenKinds /\ NoTokenOp \in TokenOps
        BY <1>1, OpKnown DEF TokenKinds
      <4> QED
        BY <4>1 DEF TokenOps
    <3>2. LET link == [NoTokenOp EXCEPT !.kind = "link", !.token = op.token, !.link = TRUE]
          IN link.kind = "link" /\ ~link.read /\ link.todo = <<>>
      BY DEF NoTokenOp
    <3> QED
      BY <2>1, <3>1, <3>2, OpKnown
  <2>3. op.kind = "all" /\ ~single => op.todo = <<"global">>
    <3>1. /\ Len(<<owner[h].pid, owner[h].dir, "global">>) > 1
          /\ Len(<<owner[h].dir, "global">>) > 1
      OBVIOUS
    <3>2. op.kind = "all" /\ ~single =>
            op.todo \in {<<owner[h].pid, owner[h].dir, "global">>, <<owner[h].dir, "global">>, <<"global">>}
      BY <1>1, Zenon DEF Shaped
    <3> QED
      BY <1>3, <3>1, <3>2, Zenon
  <2> QED
    BY <2>2, <2>3
<1> QED
  BY <1>2, <1>3

LEMMA WriteTokensKeeps == ASSUME TokensInv, NEW h \in Holders, WriteTokens(h) PROVE TokensInv'
<1> DEFINE op == owner[h].op
           rest == AfterWrite(op)
           me == [pid |-> owner[h].pid, dir |-> owner[h].dir]
<1>1. PICK path, file, pid, dir :
      path = op.todo[1] /\ file = FileWith(op) /\ pid = owner[h].pid /\ dir = owner[h].dir
  OBVIOUS
<1> USE <1>1
<1>2. op.read /\ single' = single /\ token_files' = [token_files EXCEPT ![path] = file]
  BY DEF WriteTokens
<1>3. /\ op \in TokenOps /\ path \in TokenPaths /\ op.kind \in {"flat", "login", "one", "all"}
      /\ Shaped(owner[h]) /\ FreshOp(owner[h]) /\ owner[h] \in Owner /\ single \in BOOLEAN
      /\ pid \in ProcessIds /\ dir \in ProjectDirs
  BY <1>2, Target, OwnerKnown DEF TokensInv, TokenTypes
<1>4. file \in TokenFile /\ \A q \in TokenPaths : token_files'[q] = IF q = path THEN file ELSE token_files[q]
  BY <1>2, <1>3, WrittenTokens DEF TokensInv, TokenTypes
<1>5. /\ file.there /\ file.items["mcp"] = (IF op.key = "mcp" THEN op.token ELSE op.items["mcp"])
      /\ file.items["claude"] = IF op.key = "claude" THEN op.token ELSE op.items["claude"]
  BY <1>3, WrittenTokens
<1>6. /\ owner' \in [Holders -> Owner] /\ OwnIds'
      /\ owner'[h].op = rest /\ owner'[h].pid = pid /\ owner'[h].dir = dir
      /\ \A g \in Holders : g # h => (Shaped(owner[g]) /\ FreshOp(owner[g]))'
  <2>1. pid \in ProcessIds /\ \A g \in Holders \ {h} : owner[g].pid # pid
    BY <1>3 DEF TokensInv, OwnIds
  <2>2. rest \in TokenOps
    BY <1>2, RestTyped
  <2>3. Racing(h)[h] = owner[h] /\ owner' = [Racing(h) EXCEPT ![h].op = rest]
    BY DEF WriteTokens, Racing
  <2>4. owner' = [Racing(h) EXCEPT ![h].pid = pid, ![h].op = rest]
    BY <1>3, <2>3 DEF Owner, Racing
  <2>5. claude' = claude \/ claude # "?" \/ claude' = "?"
    BY DEF WriteTokens
  <2> HIDE DEF rest
  <2>6. single' = single
    BY <1>2
  <2>7. /\ owner' \in [Holders -> Owner] /\ OwnIds'
        /\ owner'[h].op = rest /\ owner'[h].pid = pid /\ owner'[h].dir = owner[h].dir
        /\ \A g \in Holders : g # h => (Shaped(owner[g]) /\ FreshOp(owner[g]))'
    BY ONLY TokensInv, <2>1, <2>2, <2>4, <2>5, <2>6, OthersRaced
  <2> QED
    BY <2>7
<1>7. file.items["mcp"] = "none" => NoMcp(path)' /\ \A q \in TokenPaths : NoMcp(q) => NoMcp(q)'
  BY <1>3, <1>4 DEF NoMcp
<1>8. ~op.raced /\ ~op.copied =>
        op.items = token_files[path].items \/ (op.items = NoTokens /\ op.items["mcp"] = "none" /\ claude = "?")
  BY <1>2, <1>3 DEF FreshOp, NoTokens, Keys
<1>9. ~Overlapped(h) => ~op.raced
  BY DEF Overlapped
<1>10. op.kind = "all" => file.items["mcp"] = "none" /\ op.key = "mcp"
  BY <1>3, <1>5 DEF Shaped
<1>11. pid \in TokenPaths /\ dir \in TokenPaths
  BY <1>3, TokenPathsKnown
<1>12. TokenTypes'
  <2>1. token_files' \in [TokenPaths -> TokenFile]
    BY <1>2, <1>4 DEF TokensInv, TokenTypes
  <2>2. logged_out' \subseteq logged_out \cup {me}
    BY DEF WriteTokens
  <2> QED
    BY <1>2, <1>3, <1>6, <2>1, <2>2 DEF TokensInv, TokenTypes
<1>13. OpsFit'
  <2>1. Shaped(owner[h])' /\ FreshOp(owner[h])'
    <3>1. CASE op.kind = "all" /\ rest.kind = "all"
      <4>1. /\ ~single /\ ~rest.read /\ rest.key = "mcp"
            /\ rest.token = "none" /\ ~rest.link /\ ~rest.copied /\ rest.raced = op.raced
            /\ \/ op.todo = <<pid, dir, "global">> /\ rest.todo = <<dir, "global">>
               \/ op.todo = <<dir, "global">> /\ rest.todo = <<"global">>
        BY <1>2, <3>1, RestTyped, Idle
      <4>2. Shaped(owner[h])'
        BY <1>2, <1>6, <3>1, <4>1 DEF Shaped
      <4>3. ~op.raced => /\ NoMcp(pid)'
                         /\ rest.todo = <<"global">> => NoMcp(dir)'
        <5>1. CASE op.todo = <<pid, dir, "global">> /\ rest.todo = <<dir, "global">>
          <6>1. path = pid /\ rest.todo # <<"global">>
            BY <5>1
          <6> QED
            BY <1>6, <1>7, <1>10, <3>1, <6>1
        <5>2. CASE op.todo = <<dir, "global">> /\ rest.todo = <<"global">>
          <6>1. path = dir /\ op.todo # <<pid, dir, "global">>
            BY <5>2
          <6>2. ~op.raced => NoMcp(pid)
            BY <1>3, <3>1, <4>1, <6>1 DEF FreshOp
          <6> QED
            BY <1>6, <1>7, <1>10, <1>11, <3>1, <6>1, <6>2
        <5> QED
          BY <4>1, <5>1, <5>2
      <4> QED
        BY <1>6, <4>1, <4>2, <4>3 DEF FreshOp, NoMcp
    <3>2. CASE rest = NoTokenOp \/ (rest.kind = "link" /\ ~rest.read /\ rest.todo = <<>>)
      BY <1>6, <3>2, Idle DEF Shaped, FreshOp
    <3> QED
      BY <1>2, <3>1, <3>2, RestTyped
  <2> QED
    BY <1>6, <2>1 DEF OpsFit
<1>14. Cleared'
  <2>1. op.kind = "all" /\ ~single => path = pid \/ path = dir \/ op.todo = <<"global">>
    BY <1>2, RestTyped
  <2>2. ASSUME NEW c \in logged_out', NEW q \in PathsOf(c) PROVE NoMcp(q)'
    <3>1. c \in logged_out => NoMcp(q) /\ q \in TokenPaths
      BY <2>2, TokenPathsKnown DEF TokensInv, TokenTypes, Cleared, PathsOf
    <3>2. CASE op.kind = "all" /\ rest = NoTokenOp /\ ~Overlapped(h)
      <4>1. c \in logged_out \/ c = me
        BY <2>2, <3>2 DEF WriteTokens
      <4>2. CASE c = me
        <5>1. q \in (IF single THEN {"single"} ELSE {pid, dir, "global"})
          BY <2>2, <4>2 DEF PathsOf
        <5>2. CASE single
          BY <1>3, <1>7, <1>10, <3>2, <5>1, <5>2 DEF Shaped
        <5>3. CASE ~single
          <6>1. op.todo = <<"global">>
            BY <1>2, <3>2, <5>3, RestTyped, Idle
          <6>2. NoMcp(pid) /\ NoMcp(dir)
            BY <1>3, <1>9, <3>2, <5>3, <6>1 DEF FreshOp
          <6> QED
            BY <1>7, <1>10, <1>11, <3>2, <5>1, <5>3, <6>1, <6>2
        <5> QED
          BY <5>2, <5>3
      <4> QED
        BY <1>7, <1>10, <3>1, <3>2, <4>1, <4>2
    <3>3. CASE ~(op.kind = "all" /\ rest = NoTokenOp /\ ~Overlapped(h))
               /\ ((op.key = "mcp" /\ op.token # "none") \/ op.copied \/ Overlapped(h))
      <4>1. c \in logged_out /\ ~Sees(c, path)
        BY <2>2, <3>3 DEF WriteTokens
      <4>2. q # path
        BY <2>2, <4>1, <1>3 DEF PathsOf, Sees
      <4> QED
        BY <1>4, <3>1, <4>1, <4>2 DEF NoMcp
    <3>4. CASE ~(op.kind = "all" /\ rest = NoTokenOp /\ ~Overlapped(h))
               /\ ~((op.key = "mcp" /\ op.token # "none") \/ op.copied \/ Overlapped(h))
      <4>1. c \in logged_out
        BY <2>2, <3>4 DEF WriteTokens
      <4>2. CASE op.key = "mcp"
        BY <1>5, <1>7, <3>1, <3>4, <4>1, <4>2
      <4>3. CASE op.key # "mcp"
        BY <1>4, <1>5, <1>8, <1>9, <3>1, <3>4, <4>1, <4>3 DEF NoMcp
      <4> QED
        BY <4>2, <4>3
    <3> QED
      BY <3>2, <3>3, <3>4
  <2>3. \A c : PathsOf(c)' = PathsOf(c)
    BY <1>2 DEF PathsOf
  <2> QED
    BY <2>2, <2>3 DEF Cleared
<1>15. SavedLast'
  <2> SUFFICES ASSUME claude' # "?"
               PROVE  /\ single => Claude("single")' = claude'
                      /\ ~single /\ token_files'["global"].there => Claude("global")' = claude'
                      /\ ~single /\ ~token_files'["global"].there =>
                            /\ claude' = "none" /\ Claude("global")' = "none"
                            /\ \A q \in ProjectDirs : Claude(q)' = "none"
    BY <1>2 DEF SavedLast
  <2>1. ~Overlapped(h) /\ ~op.raced
    BY <1>9 DEF WriteTokens
  <2>2. CASE op.key = "claude"
    <3>1. claude # "?" /\ claude' = op.token
      BY <2>1, <2>2 DEF WriteTokens
    <3>2. op.kind = "flat"
      BY <1>3, <2>2 DEF Shaped
    <3>3. path = IF single THEN "single" ELSE "global"
      BY <1>3, <3>1, <3>2 DEF Shaped
    <3> QED
      BY <1>4, <1>5, <2>2, <3>1, <3>3, TokenPathsKnown DEF Claude
  <2>3. CASE op.key = "mcp"
    <3>1. claude' = claude
      BY <2>1, <2>3 DEF WriteTokens
    <3>2. ~op.copied
      BY <1>3, <2>3 DEF Shaped
    <3>3. \A q \in TokenPaths : Claude(q)' = Claude(q)
      BY <1>4, <1>5, <1>8, <2>1, <2>3, <3>1, <3>2 DEF Claude
    <3>4. token_files["global"].there => token_files'["global"].there
      BY <1>4, <1>5, TokenPathsKnown
    <3> QED
      BY <1>3, <3>1, <3>3, <3>4, TokenPathsKnown DEF TokensInv, SavedLast
  <2> QED
    BY <1>3, <2>2, <2>3, OpKnown DEF Keys
<1> QED
  BY <1>6, <1>12, <1>13, <1>14, <1>15 DEF TokensInv

LEMMA NextTokens == TokensInv /\ [TokensNext]_tokenVars => TokensInv'
<1>1. ASSUME TokensInv, NEW h \in Holders, LinkAuth(h) PROVE TokensInv'
  BY <1>1, EndKeeps DEF LinkAuth
<1>2. ASSUME TokensInv, NEW h \in Holders, NewProcess(h) \/ ChangeDir(h) PROVE TokensInv'
  <2>1. owner \in [Holders -> Owner] /\ owner[h] \in Owner /\ owner[h].op.kind = "none"
    BY <1>2 DEF TokensInv, TokenTypes, NewProcess, ChangeDir
  <2> DEFINE moved(pid, dir) == owner' = [owner EXCEPT ![h].pid = pid, ![h].dir = dir]
  <2>2. PICK pid \in ProcessIds, dir \in ProjectDirs :
          (\A g \in Holders \ {h} : owner[g].pid # pid) /\ moved(pid, dir)
    <3>1. CASE NewProcess(h)
      <4>1. PICK pid \in FreeIds(h) : owner' = [owner EXCEPT ![h].pid = pid]
        BY <3>1 DEF NewProcess
      <4>2. moved(pid, owner[h].dir)
        BY <2>1, <4>1 DEF Owner
      <4>3. pid \in ProcessIds /\ \A g \in Holders \ {h} : owner[g].pid # pid
        BY DEF FreeIds
      <4> HIDE DEF moved
      <4> QED
        BY <2>1, <4>2, <4>3, OwnerKnown
    <3>2. CASE ChangeDir(h)
      <4>1. PICK dir \in ProjectDirs : owner' = [owner EXCEPT ![h].dir = dir]
        BY <3>2 DEF ChangeDir
      <4>2. moved(owner[h].pid, dir)
        BY <2>1, <4>1 DEF Owner
      <4>3. \A g \in Holders \ {h} : owner[g].pid # owner[h].pid
        BY <1>2 DEF TokensInv, OwnIds
      <4> HIDE DEF moved
      <4> QED
        BY <2>1, <4>2, <4>3, OwnerKnown
    <3> QED
      BY <1>2, <3>1, <3>2
  <2>3. UNCHANGED <<single, token_files, logged_out, claude>>
    BY <1>2 DEF NewProcess, ChangeDir
  <2> QED
    BY ONLY <1>2, <2>1, <2>2, <2>3, MoveTokensKeeps
<1>3. ASSUME TokensInv, UNCHANGED tokenVars PROVE TokensInv'
  BY <1>3 DEF tokenVars, TokensInv, TokenTypes, OwnIds, OpsFit, Shaped, FreshOp, Cleared, PathsOf, NoMcp, SavedLast, Claude
<1> QED
  BY <1>1, <1>2, <1>3, TokenCommandsKeep, ReadTokensKeeps, ReadFailsKeeps, WriteTokensKeeps, WriteFailsKeeps, KilledKeeps DEF TokensNext

\* Whatever any number of processes do with the stored tokens, one token of a server or of
\* the models after the other: each has an id of its own, and goes to files that are known.
THEOREM TokensTypeCorrect == TokensSpec => []TokenTypeOK
<1>1. TokensSpec => []TokensInv
  BY InitTokens, NextTokens, PTL DEF TokensSpec
<1> QED
  BY <1>1, TokensTyped, PTL

\* A session that cleared the token of a server in all scopes does not find it again in a
\* file it reads until somebody saves or copies one there, and the token for the models is
\* the one that was saved last, for every project, whatever is done for servers in between;
\* unless a write failed or ran into the operation of another process.
THEOREM TokensHold == TokensSpec => []TokensAccounted
<1>1. TokensSpec => []TokensInv
  BY InitTokens, NextTokens, PTL DEF TokensSpec
<1> QED
  BY <1>1, TokensTold, PTL

-----------------------------------------------------------------------------
(* Numbers *)

\* The values of a token are the numbers from the first up to the last that are a number
\* of steps from the first.
LEMMA StepsTaken ==
  ASSUME NEW v \in 0..255, NEW last \in 0..255, NEW step \in 1..255, v <= last
  PROVE  Steps(v, last, step) = {w \in v..last : \E n \in 0..(last - v) : w = v + n * step}
<1> DEFINE After(x) == IF x + step > 255 THEN 256 ELSE x + step
           Values(x) == {w \in x..last : \E n \in Nat : w = x + n * step}
           Rec(f) == [x \in 0..256 |-> IF x > last THEN {} ELSE {x} \cup f[After(x)]]
           g == [x \in 0..256 |-> Values(x)]
           from == CHOOSE f : f = Rec(f)
<1>1. \A x \in 0..256 : x <= last => Values(x) = {x} \cup Values(After(x))
  <2> SUFFICES ASSUME NEW x \in 0..256, x <= last PROVE Values(x) = {x} \cup Values(After(x))
    OBVIOUS
  <2>1. Values(x) \subseteq {x} \cup Values(After(x))
    <3> SUFFICES ASSUME NEW w \in x..last, NEW n \in Nat, w = x + n * step, w # x PROVE w \in Values(After(x))
      OBVIOUS
    <3>1. n # 0
      BY SMT
    <3>2. PICK m \in Nat : n = m + 1
      BY <3>1
    <3>3. n * step = m * step + step /\ m * step \in Nat
      BY <3>2
    <3>4. w = (x + step) + m * step /\ x + step <= w
      BY <3>3
    <3> QED
      BY <3>4
  <2>2. x \in Values(x)
    <3>1. x = x + 0 * step
      OBVIOUS
    <3> QED
      BY <3>1
  <2>3. Values(After(x)) \subseteq Values(x)
    <3> SUFFICES ASSUME NEW w \in After(x)..last, NEW m \in Nat, w = After(x) + m * step PROVE w \in Values(x)
      OBVIOUS
    <3>1. m * step \in Nat /\ (m + 1) * step = m * step + step
      OBVIOUS
    <3>2. After(x) = x + step
      BY <3>1
    <3>3. m + 1 \in Nat /\ w = x + (m + 1) * step
      BY <3>1, <3>2
    <3>4. w \in x..last
      BY <3>1, <3>2
    <3> QED
      BY <3>3, <3>4
  <2> QED
    BY <2>1, <2>2, <2>3
<1>2. \A x \in 0..256 : x > last => Values(x) = {}
  OBVIOUS
<1>3. \A x \in 0..256 : After(x) \in 0..256 /\ (x # 256 => After(x) > x)
  OBVIOUS
<1>4. g = Rec(g)
  <2>1. \A x \in 0..256 : x <= last => After(x) \in 0..256
    BY <1>3
  <2>2. \A x \in 0..256 : g[x] = Values(x)
    OBVIOUS
  <2> HIDE DEF Values, After
  <2>3. \A x \in 0..256 : Values(x) = IF x > last THEN {} ELSE {x} \cup g[After(x)]
    <3> SUFFICES ASSUME NEW x \in 0..256 PROVE Values(x) = IF x > last THEN {} ELSE {x} \cup g[After(x)]
      OBVIOUS
    <3>1. x > last => Values(x) = {}
      BY <1>2
    <3>2. ~(x > last) => x <= last
      OBVIOUS
    <3>3. x <= last => Values(x) = {x} \cup Values(After(x)) /\ g[After(x)] = Values(After(x))
      BY <1>1, <2>1, <2>2
    <3> HIDE DEF g
    <3> QED
      BY <3>1, <3>2, <3>3, Zenon
  <2> QED
    BY <2>3
<1>5. from = Rec(from)
  <2> HIDE DEF g
  <2> QED
    BY <1>4
<1> HIDE DEF Values, After, from
<1>6. \A x \in 0..256 : from[x] = Values(x)
  <2> DEFINE Wrong == {n \in 0..256 : from[256 - n] # Values(256 - n)}
  <2> SUFFICES ASSUME Wrong # {} PROVE FALSE
    <3>1. ASSUME NEW x \in 0..256, Wrong = {} PROVE from[x] = Values(x)
      <4>1. 256 - x \in 0..256 /\ 256 - (256 - x) = x
        OBVIOUS
      <4> QED
        BY <3>1, <4>1
    <3> QED
      BY <3>1
  <2>1. PICK n \in Wrong : \A m \in Wrong : n <= m
    <3>1. Wrong \in SUBSET Nat
      OBVIOUS
    <3> HIDE DEF Wrong
    <3> QED
      BY <3>1, LeastOf
  <2>2. PICK x \in 0..256 : n \in 0..256 /\ x = 256 - n /\ from[x] # Values(x)
    BY <2>1
  <2>3. from[x] = IF x > last THEN {} ELSE {x} \cup from[After(x)]
    BY <1>5, <2>2
  <2>4. x <= last
    <3>1. x > last => from[x] = {} /\ Values(x) = {}
      BY <1>2, <2>3
    <3>2. ~(x > last) => x <= last
      OBVIOUS
    <3> QED
      BY <2>2, <3>1, <3>2, Zenon
  <2>5. After(x) \in 0..256 /\ After(x) > x
    <3>1. x # 256
      BY <2>4
    <3> QED
      BY <1>3, <3>1
  <2>6. from[After(x)] = Values(After(x))
    <3>1. PICK a \in 0..256 : a = After(x)
      BY <2>5
    <3>2. 256 - a \in 0..256 /\ 256 - a < n /\ 256 - (256 - a) = a
      BY <2>1, <2>2, <2>5, <3>1
    <3>3. 256 - a \notin Wrong
      <4> HIDE DEF Wrong
      <4> QED
        BY <2>1, <2>2, <3>2
    <3> QED
      BY <3>1, <3>2, <3>3
  <2>7. from[x] = {x} \cup from[After(x)] /\ Values(x) = {x} \cup Values(After(x))
    <3>1. ~(x > last)
      BY <2>4
    <3>2. from[x] = {x} \cup from[After(x)]
      BY <2>3, <3>1, Zenon
    <3> QED
      BY <1>1, <2>4, <3>2
  <2> QED
    BY <2>2, <2>6, <2>7
<1>7. Steps(v, last, step) = from[v]
  BY DEF Steps, from, After
<1>8. ASSUME NEW w \in v..last, NEW n \in Nat, w = v + n * step PROVE n \in 0..(last - v)
  <2>1. n <= n * step
    OBVIOUS
  <2> QED
    BY <1>8, <2>1
<1>9. Values(v) = {w \in v..last : \E n \in 0..(last - v) : w = v + n * step}
  <2> DEFINE Told == {w \in v..last : \E n \in 0..(last - v) : w = v + n * step}
  <2>1. Values(v) \subseteq Told
    BY <1>8, Zenon DEF Values
  <2>2. 0..(last - v) \subseteq Nat
    OBVIOUS
  <2>3. Told \subseteq Values(v)
    BY <2>2, Zenon DEF Values
  <2> QED
    BY <2>1, <2>3
<1>10. v \in 0..256
  OBVIOUS
<1> QED
  BY <1>6, <1>7, <1>9, <1>10, Zenon

LEMMA Fields == FieldsRight
<1> SUFFICES ASSUME NEW f \in CronFields, NEW range \in {<<0, 59>>, <<1, 31>>},
                    ParseField(f, range[1], range[2]) # NoField
             PROVE  ParseField(f, range[1], range[2]) =
                      {v \in range[1]..range[2] : \E i \in DOMAIN f : Meets(v, f[i], range[1], range[2])}
  BY Zenon DEF FieldsRight
<1> PICK lo \in 0..59, hi \in 0..59 : lo = range[1] /\ hi = range[2]
  OBVIOUS
<1>1. /\ \A i \in DOMAIN f : TokenValues(f[i], lo, hi) # NoField
      /\ ParseField(f, lo, hi) = UNION {TokenValues(f[i], lo, hi) : i \in DOMAIN f}
  <2>1. ParseField(f, lo, hi) # NoField
    OBVIOUS
  <2> QED
    BY <2>1, Zenon DEF ParseField
<1>2. ASSUME NEW i \in DOMAIN f PROVE TokenValues(f[i], lo, hi) = {v \in lo..hi : Meets(v, f[i], lo, hi)}
  <2> DEFINE token == f[i]
             first == IF token.range = "star" THEN lo ELSE token.a
             last == CASE token.range = "star" -> hi [] token.range = "pair" -> token.b [] OTHER -> token.a
  <2>1. token.range \in {"star", "pair", "one", "none"} /\ {token.a, token.b, token.step} \subseteq 0..255
    BY StoresBounds
  <2>2. first \in 0..255 /\ last \in 0..255
    BY <2>1
  <2>3. /\ token.step # 0 /\ lo <= first /\ last <= hi /\ first <= last
        /\ TokenValues(token, lo, hi) = Steps(first, last, token.step)
    <3>1. TokenValues(token, lo, hi) =
            IF token.range = "none" \/ token.step = 0 \/ first < lo \/ last > hi \/ last < first THEN NoField
            ELSE Steps(first, last, token.step)
      BY DEF TokenValues
    <3> HIDE DEF first, last
    <3>2. TokenValues(token, lo, hi) # NoField
      BY <1>1
    <3>3. ~(token.range = "none" \/ token.step = 0 \/ first < lo \/ last > hi \/ last < first)
      BY <3>1, <3>2, Zenon
    <3>4. TokenValues(token, lo, hi) = Steps(first, last, token.step)
      BY <3>1, <3>3, Zenon
    <3> QED
      BY <2>2, <3>3, <3>4
  <2>4. \A v : Meets(v, token, lo, hi) <=> v \in first..last /\ \E n \in 0..(last - first) : v = first + n * token.step
    BY DEF Meets
  <2> HIDE DEF first, last, token
  <2>5. Steps(first, last, token.step) = {v \in first..last : \E n \in 0..(last - first) : v = first + n * token.step}
    <3>1. token.step \in 1..255
      BY <2>1, <2>3
    <3> QED
      BY <2>2, <2>3, <3>1, StepsTaken
  <2>6. first..last \subseteq lo..hi
    BY <2>2, <2>3
  <2>7. TokenValues(token, lo, hi) = {v \in lo..hi : Meets(v, token, lo, hi)}
    BY <2>3, <2>4, <2>5, <2>6, Zenon
  <2> QED
    BY <2>7 DEF token
<1>3. ParseField(f, lo, hi) = {v \in lo..hi : \E i \in DOMAIN f : Meets(v, f[i], lo, hi)}
  <2>1. \A v : v \in ParseField(f, lo, hi) <=> \E i \in DOMAIN f : v \in TokenValues(f[i], lo, hi)
    BY <1>1
  <2>2. \A v : v \in ParseField(f, lo, hi) <=> v \in lo..hi /\ \E i \in DOMAIN f : Meets(v, f[i], lo, hi)
    BY <1>2, <2>1
  <2> QED
    BY <2>2
<1> QED
  BY <1>3

-----------------------------------------------------------------------------
(* The local stores *)

Entry == [id : Nat, entry : EntryNumbers, done : BOOLEAN]
EntryLists == Seq(Entry)

LEMMA EntryListsKnown ==
  /\ <<>> \in EntryLists
  /\ \A items \in EntryLists : /\ Len(items) \in Nat /\ DOMAIN items = 1..Len(items)
                                /\ \A i \in DOMAIN items : items[i] \in Entry /\ items[i].id \in Nat
<1>1. \A entry \in Entry : entry.id \in Nat
  BY DEF Entry
<1>2. \A items \in Seq(Entry) : /\ Len(items) \in Nat /\ DOMAIN items = 1..Len(items)
                                /\ \A i \in DOMAIN items : items[i] \in Entry
  OBVIOUS
<1> QED
  BY <1>1, <1>2 DEF EntryLists

\* The number of the entries up to one is a number of its own.
LEMMA Ranks ==
  ASSUME NEW N \in Nat, NEW S \in SUBSET (1..N)
  PROVE  /\ Cardinality(S) \in Nat
         /\ \A n \in 1..Cardinality(S) : \E i \in S : Cardinality({j \in S : j <= i}) = n
<1> DEFINE upto(i) == {j \in S : j <= i}
<1>1. \A i \in Nat : IsFiniteSet(upto(i)) /\ Cardinality(upto(i)) \in Nat
  <2>1. \A i \in Nat : upto(i) \in SUBSET (1..N)
    OBVIOUS
  <2>2. IsFiniteSet(1..N)
    BY FS_Interval
  <2>3. \A T \in SUBSET (1..N) : IsFiniteSet(T) /\ Cardinality(T) \in Nat
    BY <2>2, FS_Subset, FS_CardinalityType
  <2> HIDE DEF upto
  <2> QED
    BY <2>1, <2>3
<1>2. upto(N) = S /\ upto(0) = {}
  <2>1. \A j \in S : j \in Nat /\ j <= N /\ ~(j <= 0)
    OBVIOUS
  <2> QED
    BY <2>1
<1>3. Cardinality(upto(0)) = 0
  BY <1>2, FS_EmptySet
<1>4. \A i \in Nat : upto(i + 1) = IF i + 1 \in S THEN upto(i) \cup {i + 1} ELSE upto(i)
  <2> SUFFICES ASSUME NEW i \in Nat
               PROVE  upto(i + 1) = IF i + 1 \in S THEN upto(i) \cup {i + 1} ELSE upto(i)
    OBVIOUS
  <2>1. \A j \in S : j <= i + 1 <=> j <= i \/ j = i + 1
    OBVIOUS
  <2> QED
    BY <2>1
<1>5. \A i \in Nat : i + 1 \notin upto(i)
  OBVIOUS
<1> HIDE DEF upto
<1>6. ASSUME NEW n \in 1..Cardinality(S) PROVE \E i \in S : Cardinality(upto(i)) = n
  <2> DEFINE enough == {i \in 0..N : n <= Cardinality(upto(i))}
  <2>1. N \in enough /\ enough \in SUBSET Nat
    BY <1>1, <1>2
  <2>2. PICK i \in enough : \A m \in enough : i <= m
    <3> HIDE DEF enough
    <3> QED
      BY <2>1, LeastOf
  <2>3. i # 0
    BY <1>3, <1>6, <2>2
  <2>4. PICK m \in Nat : i = m + 1
    BY <2>2, <2>3
  <2>5. m \in 0..N /\ m \notin enough
    BY <2>2, <2>4
  <2>6. Cardinality(upto(m)) < n /\ n <= Cardinality(upto(i))
    BY <1>1, <1>6, <2>2, <2>4, <2>5
  <2>7. Cardinality(upto(i)) = IF m + 1 \in S THEN Cardinality(upto(m)) + 1 ELSE Cardinality(upto(m))
    <3>1. CASE m + 1 \in S
      BY <1>1, <1>4, <1>5, <2>4, <3>1, FS_AddElement
    <3>2. CASE m + 1 \notin S
      BY <1>4, <2>4, <3>2
    <3> QED
      BY <3>1, <3>2
  <2>8. i \in S /\ Cardinality(upto(i)) = Cardinality(upto(m)) + 1
    BY <1>1, <1>6, <2>4, <2>6, <2>7
  <2> QED
    BY <1>1, <1>6, <2>6, <2>8
<1>7. Cardinality(S) \in Nat
  BY <1>1, <1>2
<1> QED
  BY <1>6, <1>7 DEF upto

\* Without an id the others are there, each in one place.
LEMMA OthersStay ==
  ASSUME NEW items \in EntryLists, NEW id
  PROVE  /\ Without(items, id) \in EntryLists
         /\ \A n \in DOMAIN Without(items, id) : \E i \in DOMAIN items :
              /\ Without(items, id)[n] = items[i]
              /\ Cardinality({j \in DOMAIN items : items[j].id # id /\ j <= i}) = n
<1> DEFINE others == {i \in DOMAIN items : items[i].id # id}
           place(n) == CHOOSE i \in others : Cardinality({j \in others : j <= i}) = n
<1>1. DOMAIN items = 1..Len(items) /\ Len(items) \in Nat /\ others \in SUBSET (1..Len(items))
  BY EntryListsKnown
<1>2. /\ Cardinality(others) \in Nat
      /\ \A n \in 1..Cardinality(others) : \E i \in others : Cardinality({j \in others : j <= i}) = n
  <2> HIDE DEF others
  <2> QED
    BY <1>1, Ranks
<1>3. \A n \in 1..Cardinality(others) : place(n) \in others /\ Cardinality({j \in others : j <= place(n)}) = n
  <2> HIDE DEF others
  <2> QED
    BY <1>2
<1>4. Without(items, id) = [n \in 1..Cardinality(others) |-> items[place(n)]]
  BY DEF Without
<1>5. \A i : {j \in others : j <= i} = {j \in DOMAIN items : items[j].id # id /\ j <= i}
  OBVIOUS
<1>6. \A i \in others : i \in DOMAIN items /\ items[i] \in Entry
  BY EntryListsKnown
<1> HIDE DEF others, place
<1>7. Without(items, id) \in EntryLists
  <2>1. \A n \in 1..Cardinality(others) : items[place(n)] \in Entry
    BY <1>3, <1>6
  <2> QED
    BY <1>2, <1>4, <2>1 DEF EntryLists
<1> QED
  BY <1>3, <1>4, <1>5, <1>6, <1>7

\* The number of a new entry is greater than those there are.
LEMMA Top ==
  ASSUME NEW items \in EntryLists
  PROVE  TopId(items) \in Nat /\ \A i \in DOMAIN items : items[i].id <= TopId(items)
<1> DEFINE bounds(n) == {b \in Nat : \A i \in 1..n : items[i].id <= b}
<1>1. DOMAIN items = 1..Len(items) /\ Len(items) \in Nat /\ \A i \in 1..Len(items) : items[i].id \in Nat
  BY EntryListsKnown
<1>2. bounds(Len(items)) # {}
  <2> DEFINE unbounded == {n \in 0..Len(items) : bounds(n) = {}}
  <2> SUFFICES ASSUME Len(items) \in unbounded PROVE FALSE
    BY <1>1
  <2>1. PICK n \in unbounded : \A m \in unbounded : n <= m
    <3>1. unbounded \in SUBSET Nat /\ unbounded # {}
      BY <1>1
    <3> HIDE DEF unbounded
    <3> QED
      BY <3>1, LeastOf
  <2>2. 0 \in bounds(0)
    OBVIOUS
  <2>3. n \in 0..Len(items) /\ bounds(n) = {}
    BY <2>1
  <2>4. n # 0
    BY <2>2, <2>3
  <2>5. PICK m \in Nat : n = m + 1
    BY <1>1, <2>3, <2>4
  <2>6. m \in 0..Len(items) /\ m \notin unbounded
    <3>1. m \in 0..Len(items) /\ ~(n <= m)
      BY <1>1, <2>3, <2>5
    <3> HIDE DEF unbounded
    <3> QED
      BY <2>1, <3>1
  <2>7. PICK b \in bounds(m) : TRUE
    BY <2>6
  <2>8. PICK id \in Nat : id = items[n].id
    BY <1>1, <2>3, <2>4
  <2>9. PICK top \in Nat : b <= top /\ id <= top
    <3>1. b \in Nat
      BY <2>7
    <3> HIDE DEF bounds
    <3>2. CASE b <= id
      BY ONLY <3>1, <3>2, id \in Nat
    <3>3. CASE ~(b <= id)
      BY ONLY <3>1, <3>3, id \in Nat
    <3> QED
      BY <3>2, <3>3
  <2>10. \A i \in 1..n : i = n \/ i \in 1..m
    BY <1>1, <2>3, <2>5
  <2>11. 1..n \subseteq 1..Len(items)
    BY <1>1, <2>3
  <2>12. top \in bounds(n)
    <3>1. ASSUME NEW i \in 1..n PROVE items[i].id <= top
      <4>1. CASE i = n
        BY <2>8, <2>9, <4>1
      <4>2. CASE i \in 1..m
        <5>1. items[i].id \in Nat /\ b \in Nat /\ items[i].id <= b
          BY <1>1, <2>7, <2>11, <4>2
        <5> QED
          BY <2>9, <5>1
      <4> QED
        BY <2>10, <4>1, <4>2
    <3> QED
      BY <3>1
  <2> QED
    BY <2>3, <2>12
<1>3. PICK top \in bounds(Len(items)) : \A b \in bounds(Len(items)) : top <= b
  <2>1. bounds(Len(items)) \in SUBSET Nat
    OBVIOUS
  <2> HIDE DEF bounds
  <2> QED
    BY <1>2, <2>1, LeastOf
<1>4. top \in {0} \cup IdsOf(items)
  <2> SUFFICES ASSUME top # 0 PROVE \E i \in 1..Len(items) : items[i].id = top
    BY <1>1 DEF IdsOf
  <2>1. PICK b \in Nat : top = b + 1
    BY <1>3
  <2>2. b \notin bounds(Len(items))
    BY <1>3, <2>1
  <2>3. PICK i \in 1..Len(items) : ~(items[i].id <= b)
    BY <2>1, <2>2
  <2> QED
    BY <1>1, <1>3, <2>1, <2>3
<1>5. \A id \in IdsOf(items) : id \in Nat /\ id <= top
  BY <1>1, <1>3 DEF IdsOf
<1>6. TopId(items) \in {0} \cup IdsOf(items) /\ \A id \in IdsOf(items) : id <= TopId(items)
  BY <1>4, <1>5 DEF TopId
<1> QED
  BY <1>1, <1>5, <1>6 DEF IdsOf

Store == [whole : BOOLEAN, items : EntryLists, next_id : Nat]
Whats == {"add", "done", "remove"}
Keeping ==
  [path : Stored \cup {"none"}, what : Whats \cup {"none"}, id : Nat, entry : EntryNumbers, read : Store, stale : BOOLEAN]

StoreTypes ==
  /\ kept_files \in [Stored -> Store] /\ keeping \in [Keepers -> Keeping] /\ claw \in BOOLEAN
  /\ disturbed \subseteq Stored /\ expected \in [Stored -> EntryLists] /\ given \in Seq(Nat)
  /\ keeps \in 0..MaxKeeps

\* A number is of one todo or job, and the file of the jobs has the greatest.
OfOne(items) == \A i, j \in DOMAIN items : items[i].id = items[j].id => i = j
Numbered(path, store) ==
  /\ path \in {"todo", "cron"} => OfOne(store.items)
  /\ path = "cron" => \A i \in DOMAIN store.items : store.items[i].id <= store.next_id

\* What a command has read is what the file still says, unless somebody wrote since.
ReadIsFile(op) ==
  op # NotKeeping =>
    /\ op.path \in Stored /\ op.what \in Whats /\ Numbered(op.path, op.read)
    /\ ~op.stale => op.read = LoadStore(op.path)

AsTold ==
  \A p \in Stored :
    /\ kept_files[p].items = expected[p]
    /\ ~kept_files[p].whole => kept_files[p].items = <<>>
    /\ p \notin disturbed => kept_files[p].whole
NewIds ==
  "cron" \notin disturbed =>
    /\ \A i \in DOMAIN given : given[i] <= kept_files["cron"].next_id
    /\ \A i, j \in DOMAIN given : given[i] = given[j] => i = j

StoresInv ==
  /\ StoreTypes /\ (\A p \in Stored : Numbered(p, kept_files[p])) /\ (\A k \in Keepers : ReadIsFile(keeping[k]))
  /\ AsTold /\ NewIds

LEMMA StoresTold == StoresInv => StoresAccounted
<1>1. StoresInv => OneOfEach
  BY DEF StoresInv, OneOfEach, Numbered, OfOne, NewIds, Stored
<1>2. StoresInv => EntriesKept
  BY DEF StoresInv, AsTold, EntriesKept
<1> QED
  BY <1>1, <1>2, Fields DEF StoresAccounted

LEMMA StoreKnown ==
  /\ NoItems \in Store /\ NotKeeping \in Keeping /\ [NoItems EXCEPT !.whole = FALSE] \in Store
  /\ NoItems.whole /\ NoItems.items = <<>> /\ NoItems.next_id = 0 /\ NotKeeping.path = "none"
  /\ [NoItems EXCEPT !.whole = FALSE].items = <<>>
  /\ \A store \in Store : store.whole \in BOOLEAN /\ store.items \in EntryLists /\ store.next_id \in Nat
  /\ \A op \in Keeping : /\ op.path \in Stored \cup {"none"} /\ op.what \in Whats \cup {"none"} /\ op.id \in Nat
                          /\ op.entry \in EntryNumbers /\ op.read \in Store /\ op.stale \in BOOLEAN
<1>1. <<>> \in EntryLists /\ 0 \in EntryNumbers
  BY EntryListsKnown, StoresBounds DEF EntryNumbers
<1>2. NoItems \in Store /\ [NoItems EXCEPT !.whole = FALSE] \in Store
  BY <1>1 DEF NoItems, Store
<1>3. NotKeeping \in Keeping
  BY <1>1, <1>2 DEF NotKeeping, Keeping
<1>4. /\ NoItems.whole /\ NoItems.items = <<>> /\ NoItems.next_id = 0 /\ NotKeeping.path = "none"
      /\ [NoItems EXCEPT !.whole = FALSE].items = <<>>
  BY DEF NoItems, NotKeeping
<1> QED
  BY <1>2, <1>3, <1>4 DEF Store, Keeping

LEMMA InitStores == StoresInit => StoresInv
<1> SUFFICES ASSUME StoresInit PROVE StoresInv
  OBVIOUS
<1> USE DEF StoresInit
<1>1. StoreTypes
  <2>1. keeps \in 0..MaxKeeps /\ given \in Seq(Nat) /\ claw \in BOOLEAN /\ disturbed \subseteq Stored
    <3>1. 0 \in 0..MaxKeeps /\ <<>> \in Seq(Nat)
      BY StoresBounds
    <3> QED
      BY <3>1
  <2>2. kept_files \in [Stored -> Store] /\ keeping \in [Keepers -> Keeping] /\ expected \in [Stored -> EntryLists]
    BY StoreKnown, EntryListsKnown
  <2> QED
    BY <2>1, <2>2 DEF StoreTypes
<1>2. \A p \in Stored : kept_files[p] = NoItems /\ expected[p] = <<>>
  OBVIOUS
<1>3. \A p \in Stored : Numbered(p, kept_files[p])
  BY <1>2, StoreKnown DEF Numbered, OfOne
<1>4. (\A k \in Keepers : ReadIsFile(keeping[k])) /\ AsTold /\ NewIds
  BY <1>2, StoreKnown DEF ReadIsFile, AsTold, NewIds
<1> QED
  BY <1>1, <1>3, <1>4 DEF StoresInv

\* What is saved has the numbers of what was read, and one that is new.
LEMMA ChangedKnown ==
  ASSUME NEW items \in EntryLists, NEW what \in Whats, NEW new \in Entry, NEW id
  PROVE  /\ ChangedItems(items, what, new, id) \in EntryLists
         /\ (what = "add" => \A i \in DOMAIN items : items[i].id # new.id) /\ OfOne(items) =>
               OfOne(ChangedItems(items, what, new, id))
         /\ \A i \in DOMAIN ChangedItems(items, what, new, id) :
               \/ what = "add" /\ ChangedItems(items, what, new, id)[i].id = new.id
               \/ \E j \in DOMAIN items : ChangedItems(items, what, new, id)[i].id = items[j].id
<1>1. /\ DOMAIN items = 1..Len(items) /\ Len(items) \in Nat /\ \A i \in DOMAIN items : items[i] \in Entry
      /\ items \in Seq(Entry)
  BY EntryListsKnown DEF EntryLists
<1>2. CASE what = "add"
  <2>1. ChangedItems(items, what, new, id) = Append(items, new)
    BY <1>2 DEF ChangedItems
  <2>2. Append(items, new) \in EntryLists /\ DOMAIN Append(items, new) = 1..(Len(items) + 1)
    BY <1>1 DEF EntryLists
  <2>3. \A i \in 1..(Len(items) + 1) : Append(items, new)[i] = IF i = Len(items) + 1 THEN new ELSE items[i]
    BY <1>1
  <2>4. \A i \in 1..(Len(items) + 1) : i = Len(items) + 1 \/ i \in DOMAIN items
    BY <1>1
  <2>5. Len(items) + 1 \notin DOMAIN items
    BY <1>1
  <2> DEFINE all == Append(items, new)
  <2> HIDE DEF all
  <2>6. \A i \in DOMAIN all : (all[i] = new /\ i = Len(items) + 1) \/ (i \in DOMAIN items /\ all[i] = items[i])
    <3> SUFFICES ASSUME NEW i \in 1..(Len(items) + 1)
                 PROVE  (all[i] = new /\ i = Len(items) + 1) \/ (i \in DOMAIN items /\ all[i] = items[i])
      BY <2>2 DEF all
    <3>1. all[i] = IF i = Len(items) + 1 THEN new ELSE items[i]
      BY <2>3 DEF all
    <3> QED
      BY <2>4, <2>5, <3>1
  <2>7. (\A i \in DOMAIN items : items[i].id # new.id) /\ OfOne(items) => OfOne(all)
    BY <2>6, Zenon DEF OfOne
  <2>8. ChangedItems(items, what, new, id) = all /\ all \in EntryLists
    BY <2>1, <2>2 DEF all
  <2> QED
    BY <1>2, <2>6, <2>7, <2>8
<1>3. CASE what = "done"
  <2> DEFINE all == [i \in DOMAIN items |-> IF items[i].id = id THEN [items[i] EXCEPT !.done = TRUE] ELSE items[i]]
  <2>1. ChangedItems(items, what, new, id) = all
    BY <1>3 DEF ChangedItems
  <2>2. \A i \in DOMAIN items : all[i] \in Entry /\ all[i].id = items[i].id
    BY <1>1 DEF Entry
  <2>3. DOMAIN all = DOMAIN items
    OBVIOUS
  <2>4. all \in EntryLists
    BY <1>1, <2>2 DEF EntryLists
  <2> HIDE DEF all
  <2> QED
    BY <1>3, <2>1, <2>2, <2>3, <2>4 DEF OfOne
<1>4. CASE what = "remove"
  <2>1. ChangedItems(items, what, new, id) = Without(items, id)
    BY <1>4 DEF ChangedItems
  <2>2. /\ Without(items, id) \in EntryLists
        /\ \A n \in DOMAIN Without(items, id) : \E i \in DOMAIN items :
              /\ Without(items, id)[n] = items[i]
              /\ Cardinality({j \in DOMAIN items : items[j].id # id /\ j <= i}) = n
    BY OthersStay
  <2>3. OfOne(items) => OfOne(Without(items, id))
    <3> SUFFICES ASSUME OfOne(items), NEW n \in DOMAIN Without(items, id), NEW m \in DOMAIN Without(items, id),
                        Without(items, id)[n].id = Without(items, id)[m].id
                 PROVE  n = m
      BY DEF OfOne
    <3>1. PICK i \in DOMAIN items : /\ Without(items, id)[n] = items[i]
                                   /\ Cardinality({j \in DOMAIN items : items[j].id # id /\ j <= i}) = n
      BY <2>2
    <3>2. PICK l \in DOMAIN items : /\ Without(items, id)[m] = items[l]
                                   /\ Cardinality({j \in DOMAIN items : items[j].id # id /\ j <= l}) = m
      BY <2>2
    <3>3. i = l
      BY <3>1, <3>2 DEF OfOne
    <3> QED
      BY <3>1, <3>2, <3>3
  <2> QED
    BY <1>4, <2>1, <2>2, <2>3
<1> QED
  BY <1>2, <1>3, <1>4 DEF Whats

\* The file a command writes.
SavedIsRead(op) ==
  [whole |-> TRUE, items |-> ChangedItems(op.read.items, op.what, NewItem(op), op.id),
   next_id |-> IF op.path = "cron" /\ op.what = "add" THEN NewItem(op).id ELSE op.read.next_id]

LEMMA SavedNumbered ==
  ASSUME NEW op \in Keeping, op.what \in Whats, Numbered(op.path, op.read)
  PROVE  /\ NewItem(op) \in Entry /\ SavedIsRead(op) \in Store /\ Numbered(op.path, SavedIsRead(op))
         /\ op.path = "cron" => NewItem(op).id = op.read.next_id + 1
<1>1. /\ op.read.items \in EntryLists /\ op.read.next_id \in Nat /\ op.entry \in EntryNumbers
      /\ \A i \in DOMAIN op.read.items : op.read.items[i].id \in Nat
  BY StoreKnown, EntryListsKnown
<1>2. /\ NextId(op.path, op.read) \in Nat
      /\ op.path = "todo" => \A i \in DOMAIN op.read.items : op.read.items[i].id < NextId(op.path, op.read)
      /\ op.path = "cron" => NextId(op.path, op.read) = op.read.next_id + 1
  BY <1>1, Top DEF NextId
<1>3. NewItem(op) \in Entry /\ NewItem(op).id = NextId(op.path, op.read)
  BY <1>1, <1>2 DEF NewItem, Entry
<1> DEFINE items == ChangedItems(op.read.items, op.what, NewItem(op), op.id)
           next == IF op.path = "cron" /\ op.what = "add" THEN NewItem(op).id ELSE op.read.next_id
<1>4. items \in EntryLists
  BY <1>1, <1>3, ChangedKnown
<1>5. SavedIsRead(op).items = items /\ SavedIsRead(op).next_id = next /\ SavedIsRead(op) \in Store
  <2>1. next \in Nat
    BY <1>1, <1>2, <1>3
  <2> HIDE DEF items, next
  <2>2. SavedIsRead(op) = [whole |-> TRUE, items |-> items, next_id |-> next]
    BY DEF SavedIsRead, items, next
  <2> QED
    BY <1>4, <2>1, <2>2 DEF Store
<1>6. op.path \in {"todo", "cron"} => OfOne(items)
  <2> SUFFICES ASSUME op.path \in {"todo", "cron"} PROVE OfOne(items)
    OBVIOUS
  <2>1. \A i \in DOMAIN op.read.items : op.read.items[i].id < NextId(op.path, op.read)
    BY <1>1, <1>2 DEF Numbered
  <2>2. \A i \in DOMAIN op.read.items : op.read.items[i].id # NewItem(op).id
    BY <1>1, <1>2, <1>3, <2>1
  <2> QED
    BY <1>1, <1>3, <2>2, ChangedKnown DEF Numbered
<1>7. op.path = "cron" => \A i \in DOMAIN items : items[i].id <= next
  <2> SUFFICES ASSUME op.path = "cron", NEW i \in DOMAIN items PROVE items[i].id <= next
    OBVIOUS
  <2>1. \/ op.what = "add" /\ items[i].id = NewItem(op).id
        \/ \E j \in DOMAIN op.read.items : items[i].id = op.read.items[j].id
    BY <1>1, <1>3, ChangedKnown
  <2>2. CASE op.what = "add" /\ items[i].id = NewItem(op).id
    BY <1>2, <1>3, <2>2
  <2>3. ASSUME NEW j \in DOMAIN op.read.items, items[i].id = op.read.items[j].id PROVE items[i].id <= next
    <3>1. op.read.items[j].id <= op.read.next_id
      BY DEF Numbered
    <3> HIDE DEF items
    <3> QED
      BY <1>1, <1>2, <1>3, <2>3, <3>1
  <2> QED
    BY <2>1, <2>2, <2>3
<1> QED
  BY <1>2, <1>3, <1>5, <1>6, <1>7 DEF Numbered

\* A command begins with what the file says, or with nothing and knows that it may be wrong.
LEMMA ReadingKeeps ==
  ASSUME StoresInv, NEW k \in Keepers, NEW path \in Stored, NEW what \in Whats, NEW id \in Nat,
         NEW read, NEW stale \in BOOLEAN, read = NoItems \/ read = LoadStore(path), ~stale => read = LoadStore(path),
         Reading(k, path, what, id, read, stale)
  PROVE  StoresInv'
<1> DEFINE op == [path |-> path, what |-> what, id |-> id, entry |-> keeps + 1, read |-> read, stale |-> stale]
<1>1. /\ keeping' = [keeping EXCEPT ![k] = op] /\ keeps' = keeps + 1 /\ keeps < MaxKeeps
      /\ UNCHANGED <<kept_files, claw, given, expected, disturbed>>
  BY DEF Reading
<1>2. keeps + 1 \in 0..MaxKeeps
  BY <1>1, StoresBounds DEF StoresInv, StoreTypes
<1>3. read \in Store /\ Numbered(path, read)
  BY StoreKnown DEF LoadStore, StoresInv, StoreTypes, Numbered, OfOne
<1>4. op \in Keeping
  BY <1>2, <1>3 DEF Keeping, EntryNumbers
<1>5. StoreTypes'
  BY <1>1, <1>2, <1>4 DEF StoresInv, StoreTypes
<1>6. op.path = path /\ op.what = what /\ op.read = read /\ op.stale = stale
  OBVIOUS
<1> HIDE DEF op
<1>7. \A g \in Keepers : keeping'[g] = IF g = k THEN op ELSE keeping[g]
  BY <1>1 DEF StoresInv, StoreTypes
<1>8. ASSUME NEW g \in Keepers PROVE ReadIsFile(keeping[g])'
  BY <1>1, <1>3, <1>6, <1>7 DEF StoresInv, ReadIsFile, Numbered, OfOne, LoadStore
<1>9. (\A p \in Stored : Numbered(p, kept_files[p]))' /\ AsTold' /\ NewIds'
  BY <1>1 DEF StoresInv, Numbered, AsTold, NewIds
<1> QED
  BY <1>5, <1>8, <1>9 DEF StoresInv

LEMMA KeepKeeps ==
  ASSUME StoresInv, NEW k \in Keepers, NEW path \in Stored, NEW what \in Whats, NEW id \in Nat, Keep(k, path, what, id)
  PROVE  StoresInv'
<1>1. CASE Reading(k, path, what, id, LoadStore(path), FALSE)
  BY <1>1, ReadingKeeps
<1>2. CASE Reading(k, path, what, id, NoItems, TRUE)
  BY <1>2, ReadingKeeps
<1> QED
  BY <1>1, <1>2 DEF Keep

\* A command that is over, with nothing written.
LEMMA OverKeeps ==
  ASSUME StoresInv, NEW k \in Keepers, keeping' = [keeping EXCEPT ![k] = NotKeeping],
         UNCHANGED <<kept_files, claw, given, expected, disturbed, keeps>>
  PROVE  StoresInv'
<1>1. StoreTypes'
  BY StoreKnown DEF StoresInv, StoreTypes
<1>2. \A g \in Keepers : keeping'[g] = IF g = k THEN NotKeeping ELSE keeping[g]
  BY DEF StoresInv, StoreTypes
<1>3. ASSUME NEW g \in Keepers PROVE ReadIsFile(keeping[g])'
  BY <1>2 DEF StoresInv, ReadIsFile, Numbered, LoadStore
<1>4. (\A p \in Stored : Numbered(p, kept_files[p]))' /\ AsTold' /\ NewIds'
  BY DEF StoresInv, Numbered, AsTold, NewIds
<1> QED
  BY <1>1, <1>3, <1>4 DEF StoresInv

\* A write tells the commands on the same file.
LEMMA Overwritten ==
  ASSUME StoresInv, NEW k \in Keepers, NEW path \in Stored, NEW file \in Store,
         kept_files' = [kept_files EXCEPT ![path] = file],
         keeping' = [Overwriting(k, path) EXCEPT ![k] = NotKeeping]
  PROVE  /\ keeping' \in [Keepers -> Keeping] /\ kept_files' \in [Stored -> Store]
         /\ \A g \in Keepers : ReadIsFile(keeping[g])'
         /\ \A p \in Stored : kept_files'[p] = IF p = path THEN file ELSE kept_files[p]
<1> DEFINE raced(g) == [keeping[g] EXCEPT !.stale = TRUE]
<1>1. \A g \in Keepers : keeping[g] \in Keeping /\ raced(g) \in Keeping
  BY DEF StoresInv, StoreTypes, Keeping
<1>2. \A g \in Keepers : /\ raced(g).path = keeping[g].path /\ raced(g).what = keeping[g].what
                         /\ raced(g).read = keeping[g].read /\ raced(g).stale
  BY <1>1 DEF Keeping
<1>3. Overwriting(k, path) = [g \in Keepers |-> IF g # k /\ keeping[g].path = path THEN raced(g) ELSE keeping[g]]
  BY DEF Overwriting
<1> HIDE DEF raced
<1>4. \A g \in Keepers : keeping'[g] = IF g = k THEN NotKeeping ELSE IF keeping[g].path = path THEN raced(g) ELSE keeping[g]
  BY <1>3
<1>5. keeping' \in [Keepers -> Keeping]
  BY <1>1, <1>3, StoreKnown
<1>6. /\ kept_files' \in [Stored -> Store]
      /\ \A p \in Stored : kept_files'[p] = IF p = path THEN file ELSE kept_files[p]
  BY DEF StoresInv, StoreTypes
<1>7. ASSUME NEW g \in Keepers PROVE ReadIsFile(keeping[g])'
  <2>1. CASE g = k
    BY <1>4, <2>1 DEF ReadIsFile
  <2>2. CASE g # k /\ keeping[g].path = path
    <3>1. keeping[g] # NotKeeping
      BY <2>2, StoreKnown DEF Stored
    <3>2. keeping'[g] = raced(g)
      BY <1>4, <2>2
    <3> QED
      BY <1>2, <2>2, <3>1, <3>2 DEF StoresInv, ReadIsFile, Numbered
  <2>3. CASE g # k /\ keeping[g].path # path
    <3>1. keeping'[g] = keeping[g]
      BY <1>4, <2>3
    <3>2. keeping[g] # NotKeeping => LoadStore(keeping[g].path)' = LoadStore(keeping[g].path)
      BY <1>6, <2>3, <3>1 DEF StoresInv, ReadIsFile, LoadStore
    <3> QED
      BY <3>1, <3>2 DEF StoresInv, ReadIsFile, Numbered
  <2> QED
    BY <2>1, <2>2, <2>3
<1> QED
  BY <1>5, <1>6, <1>7

LEMMA SaveStoreKeeps == ASSUME StoresInv, NEW k \in Keepers, SaveStore(k) PROVE StoresInv'
<1>1. PICK op \in Keeping, path \in Stored :
        /\ op = keeping[k] /\ path = op.path /\ op.what \in Whats /\ Numbered(path, op.read)
        /\ ~op.stale => op.read = LoadStore(path)
  BY DEF SaveStore, StoresInv, StoreTypes, ReadIsFile
<1>2. PICK new \in Entry, file \in Store :
        /\ new = NewItem(op) /\ file = SavedIsRead(op) /\ Numbered(path, file)
        /\ path = "cron" => new.id = op.read.next_id + 1
  BY <1>1, SavedNumbered
<1>3. /\ file.whole /\ file.items = ChangedItems(op.read.items, op.what, new, op.id)
      /\ file.next_id = IF path = "cron" /\ op.what = "add" THEN new.id ELSE op.read.next_id
  BY <1>1, <1>2 DEF SavedIsRead
<1>4. /\ kept_files' = [kept_files EXCEPT ![path] = file] /\ keeping' = [Overwriting(k, path) EXCEPT ![k] = NotKeeping]
      /\ given' = IF path = "cron" /\ op.what = "add" THEN Append(given, new.id) ELSE given
      /\ expected' = [expected EXCEPT ![path] = IF op.stale THEN file.items ELSE ChangedItems(@, op.what, new, op.id)]
      /\ disturbed' = IF op.stale THEN disturbed \cup {path} ELSE disturbed
      /\ UNCHANGED <<claw, keeps>>
  BY <1>1, <1>2, <1>3 DEF SaveStore, SavedIsRead
<1>5. /\ keeping' \in [Keepers -> Keeping] /\ kept_files' \in [Stored -> Store]
      /\ \A g \in Keepers : ReadIsFile(keeping[g])'
      /\ \A p \in Stored : kept_files'[p] = IF p = path THEN file ELSE kept_files[p]
  BY <1>4, Overwritten
<1>6. /\ expected \in [Stored -> EntryLists]
      /\ \A p \in Stored : expected'[p] = IF p # path THEN expected[p]
                                        ELSE IF op.stale THEN file.items
                                        ELSE ChangedItems(expected[p], op.what, new, op.id)
  BY <1>4 DEF StoresInv, StoreTypes
<1>7. given \in Seq(Nat) /\ new.id \in Nat
  BY DEF StoresInv, StoreTypes, Entry
<1>8. StoreTypes'
  <2>1. expected' \in [Stored -> EntryLists]
    <3>1. ChangedItems(expected[path], op.what, new, op.id) \in EntryLists /\ file.items \in EntryLists
      BY <1>1, <1>6, ChangedKnown, StoreKnown
    <3> QED
      BY <1>4, <1>6, <3>1
  <2>2. given' \in Seq(Nat)
    BY <1>4, <1>7
  <2> QED
    BY <1>4, <1>5, <2>1, <2>2 DEF StoresInv, StoreTypes
<1>9. (\A p \in Stored : Numbered(p, kept_files[p]))'
  BY <1>2, <1>5 DEF StoresInv, Numbered
<1>10. /\ path \notin disturbed' => op.read = kept_files[path] /\ path \notin disturbed
       /\ ~op.stale => op.read.items = expected[path]
  BY <1>1, <1>4, StoreKnown DEF LoadStore, StoresInv, AsTold
<1>11. AsTold'
  <2> SUFFICES ASSUME NEW p \in Stored
               PROVE  /\ kept_files'[p].items = expected'[p]
                      /\ ~kept_files'[p].whole => kept_files'[p].items = <<>>
                      /\ p \notin disturbed' => kept_files'[p].whole
    BY DEF AsTold
  <2>1. CASE p = path
    BY <1>3, <1>5, <1>6, <1>10, <2>1
  <2>2. CASE p # path
    <3>1. kept_files'[p] = kept_files[p] /\ expected'[p] = expected[p] /\ disturbed \subseteq disturbed'
      BY <1>4, <1>5, <1>6, <2>2
    <3> QED
      BY <3>1 DEF StoresInv, AsTold
  <2> QED
    BY <2>1, <2>2
<1>12. NewIds'
  <2> SUFFICES ASSUME "cron" \notin disturbed'
               PROVE  /\ \A i \in DOMAIN given' : given'[i] <= kept_files'["cron"].next_id
                      /\ \A i, j \in DOMAIN given' : given'[i] = given'[j] => i = j
    BY DEF NewIds
  <2>1. /\ "cron" \notin disturbed /\ "cron" \in Stored
        /\ \A i \in DOMAIN given : given[i] <= kept_files["cron"].next_id
        /\ \A i, j \in DOMAIN given : given[i] = given[j] => i = j
    BY <1>4 DEF StoresInv, NewIds, Stored
  <2>2. CASE path = "cron" /\ op.what = "add"
    <3>1. PICK next \in Nat : next = kept_files["cron"].next_id
      BY <2>1, StoreKnown DEF StoresInv, StoreTypes
    <3>2. new.id = next + 1 /\ kept_files'["cron"].next_id = new.id
      BY <1>2, <1>3, <1>5, <1>10, <2>1, <2>2, <3>1
    <3>3. given' = Append(given, new.id) /\ DOMAIN given = 1..Len(given) /\ Len(given) \in Nat
      BY <1>4, <1>7, <2>2
    <3>4. /\ DOMAIN given' = 1..(Len(given) + 1)
          /\ \A i \in 1..Len(given) : given'[i] = given[i] /\ given[i] \in Nat /\ given[i] <= next
          /\ given'[Len(given) + 1] = next + 1
      BY <1>7, <2>1, <3>1, <3>2, <3>3
    <3>5. \A i \in DOMAIN given' : i \in 1..Len(given) \/ i = Len(given) + 1
      BY <3>3, <3>4
    <3>6. \A i \in DOMAIN given' : given'[i] <= next + 1
      BY <3>1, <3>4, <3>5
    <3>7. ASSUME NEW i \in DOMAIN given', NEW j \in DOMAIN given', given'[i] = given'[j] PROVE i = j
      BY <2>1, <3>1, <3>3, <3>4, <3>5, <3>7
    <3> QED
      BY <3>2, <3>6, <3>7
  <2>3. CASE ~(path = "cron" /\ op.what = "add")
    <3>1. given' = given
      BY <1>4, <2>3
    <3>2. kept_files'["cron"].next_id = kept_files["cron"].next_id
      BY <1>3, <1>5, <1>10, <2>1, <2>3
    <3> QED
      BY <2>1, <3>1, <3>2
  <2> QED
    BY <2>2, <2>3
<1> QED
  BY <1>5, <1>8, <1>9, <1>11, <1>12 DEF StoresInv

LEMMA CutKeeps == ASSUME StoresInv, NEW k \in Keepers, SaveFails(k) PROVE StoresInv'
<1>1. CASE UNCHANGED <<kept_files, expected, disturbed>> /\ keeping' = [keeping EXCEPT ![k] = NotKeeping]
  BY <1>1, OverKeeps DEF SaveFails
<1>2. ASSUME NEW left \in LeftByCut(keeping[k]),
             kept_files' = [kept_files EXCEPT ![keeping[k].path] = left],
             expected' = [expected EXCEPT ![keeping[k].path] = left.items],
             disturbed' = disturbed \cup {keeping[k].path},
             keeping' = [Overwriting(k, keeping[k].path) EXCEPT ![k] = NotKeeping]
      PROVE  StoresInv'
  <2>1. PICK path \in Stored : path = keeping[k].path
    BY DEF SaveFails, StoresInv, ReadIsFile
  <2>2. UNCHANGED <<claw, given, keeps>>
    BY DEF SaveFails
  <2>3. left \in Store /\ Numbered(path, left) /\ (~left.whole => left.items = <<>>)
    <3>1. CASE path \in {"todo", "cron"}
      <4>1. left = [NoItems EXCEPT !.whole = FALSE]
        BY <1>2, <2>1, <3>1 DEF LeftByCut
      <4>2. left \in Store /\ left.items = <<>>
        BY <4>1, StoreKnown
      <4> QED
        BY <4>2 DEF Numbered, OfOne
    <3>2. CASE path \notin {"todo", "cron"}
      <4>1. PICK n \in 0..Len(keeping[k].read.items) :
              left = [NoItems EXCEPT !.items = SubSeq(keeping[k].read.items, 1, n)]
        BY <1>2, <2>1, <3>2 DEF LeftByCut
      <4>2. PICK items \in EntryLists : items = keeping[k].read.items
        BY StoreKnown DEF StoresInv, StoreTypes
      <4>3. SubSeq(items, 1, n) \in EntryLists
        <5>1. n \in 0..Len(items) /\ items \in Seq(Entry)
          BY <4>2 DEF EntryLists
        <5> QED
          BY <5>1 DEF EntryLists
      <4>4. left \in Store
        BY <4>1, <4>2, <4>3, StoreKnown DEF Store
      <4>5. left.whole
        BY <4>1 DEF NoItems
      <4> QED
        BY <3>2, <4>4, <4>5 DEF Numbered
    <3> QED
      BY <3>1, <3>2
  <2>4. /\ keeping' \in [Keepers -> Keeping] /\ kept_files' \in [Stored -> Store]
        /\ \A g \in Keepers : ReadIsFile(keeping[g])'
        /\ \A p \in Stored : kept_files'[p] = IF p = path THEN left ELSE kept_files[p]
    BY <1>2, <2>1, <2>3, Overwritten
  <2>5. StoreTypes'
    <3>1. left.items \in EntryLists
      BY <2>3, StoreKnown
    <3> QED
      BY <1>2, <2>1, <2>2, <2>4, <3>1 DEF StoresInv, StoreTypes
  <2>6. (\A p \in Stored : Numbered(p, kept_files[p]))'
    BY <2>3, <2>4 DEF StoresInv, Numbered
  <2>7. \A p \in Stored : expected'[p] = IF p = path THEN left.items ELSE expected[p]
    BY <1>2, <2>1 DEF StoresInv, StoreTypes
  <2>8. AsTold'
    BY <1>2, <2>1, <2>3, <2>4, <2>7 DEF StoresInv, AsTold
  <2>9. NewIds'
    BY <1>2, <2>1, <2>2, <2>4 DEF StoresInv, NewIds, Stored
  <2> QED
    BY <2>4, <2>5, <2>6, <2>8, <2>9 DEF StoresInv
<1> QED
  BY <1>1, <1>2, Zenon DEF SaveFails

StoresSpec == StoresInit /\ [][StoresNext]_storeVars

LEMMA NextStores == StoresInv /\ [StoresNext]_storeVars => StoresInv'
<1>1. ASSUME StoresInv, NEW k \in Keepers,
             AddTodo(k) \/ MarkDone(k) \/ RemoveTodo(k) \/ CreateJob(k) \/ DeleteJob(k) \/ AddNote(k)
      PROVE  StoresInv'
  <2>1. 0 \in Nat /\ 1..MaxKeeps \subseteq Nat /\ {"todo", "cron", MemoryPath} \subseteq Stored /\ {"add", "done", "remove"} \subseteq Whats
    BY DEF MemoryPath, Stored, Whats
  <2>2. PICK path \in Stored, what \in Whats, id \in Nat : Keep(k, path, what, id)
    BY <1>1, <2>1, Zenon DEF AddTodo, MarkDone, RemoveTodo, CreateJob, DeleteJob, AddNote
  <2> QED
    BY <1>1, <2>2, KeepKeeps
<1>2. ASSUME StoresInv, NEW k \in Keepers, RefuseJob(k) PROVE StoresInv'
  BY <1>2, OverKeeps DEF RefuseJob
<1>3. ASSUME StoresInv, MakeClaw PROVE StoresInv'
  BY <1>3 DEF MakeClaw, StoresInv, StoreTypes, Numbered, ReadIsFile, LoadStore, AsTold, NewIds
<1>4. ASSUME StoresInv, UNCHANGED storeVars PROVE StoresInv'
  BY <1>4 DEF storeVars, StoresInv, StoreTypes, Numbered, ReadIsFile, LoadStore, AsTold, NewIds
<1> QED
  BY <1>1, <1>2, <1>3, <1>4, SaveStoreKeeps, CutKeeps DEF StoresNext

\* The files of todos, jobs and notes are lists whatever is written over and cut.
THEOREM StoresTypeCorrect == StoresSpec => []StoresTypeOK
<1>1. StoresInv => StoresTypeOK
  <2> SUFFICES ASSUME StoresInv PROVE StoresTypeOK
    OBVIOUS
  <2>1. \A p \in Stored : kept_files[p] \in Store
    BY DEF StoresInv, StoreTypes
  <2>2. \A p \in Stored : \A i \in DOMAIN kept_files[p].items : kept_files[p].items[i] \in Entry
    BY <2>1, StoreKnown, EntryListsKnown
  <2>3. \A item \in Entry : item.id \in Nat /\ item.entry \in EntryNumbers /\ item.done \in BOOLEAN
    BY DEF Entry
  <2> QED
    BY <2>1, <2>2, <2>3, StoreKnown DEF StoresInv, StoreTypes, StoresTypeOK
<1>2. StoresSpec => []StoresInv
  BY InitStores, NextStores, PTL DEF StoresSpec
<1> QED
  BY <1>1, <1>2, PTL

\* A number is of one todo or job, and no job gets one that was another's, unless its file was
\* cut or written by one who did not know what it said; what was told is in the file, and only
\* such a write may lose any of it; a schedule fires when its field says.
THEOREM StoresHold == StoresSpec => []StoresAccounted
<1>1. StoresSpec => []StoresInv
  BY InitStores, NextStores, PTL DEF StoresSpec
<1> QED
  BY <1>1, StoresTold, PTL

------------------------------------------------------------------------------
(* The work of a turn *)

WorkSpec == WorkInit /\ [][WorkNext]_workVars

FileLists == Seq(WorkFiles)
Sources == {"manual", "auto", "native", "auto_native"}
EventLists == Seq([source : Sources, file : WorkFiles])

LEMMA ListsKnown ==
  /\ <<>> \in FileLists /\ Len(<<>>) = 0 /\ Range(<<>>) = {}
  /\ \A f \in WorkFiles : <<f>> \in FileLists /\ Range(<<f>>) = {f}
  /\ \A s \in FileLists : /\ Len(s) \in Nat /\ DOMAIN s = 1..Len(s) /\ Range(s) \subseteq WorkFiles
                          /\ \A i \in 1..Len(s) : s[i] \in WorkFiles /\ s[i] \in Range(s)
<1>1. <<>> \in FileLists /\ Len(<<>>) = 0 /\ Range(<<>>) = {}
  BY DEF FileLists, Range
<1>2. ASSUME NEW f \in WorkFiles PROVE <<f>> \in FileLists /\ Range(<<f>>) = {f}
  <2>1. <<f>> \in Seq(WorkFiles) /\ DOMAIN <<f>> = 1..1 /\ <<f>>[1] = f
    OBVIOUS
  <2> QED
    BY <2>1 DEF FileLists, Range
<1>3. ASSUME NEW s \in FileLists
      PROVE  /\ Len(s) \in Nat /\ DOMAIN s = 1..Len(s) /\ Range(s) \subseteq WorkFiles
             /\ \A i \in 1..Len(s) : s[i] \in WorkFiles /\ s[i] \in Range(s)
  BY DEF FileLists, Range
<1> QED
  BY <1>1, <1>2, <1>3

LEMMA EventsKnown ==
  /\ <<>> \in EventLists /\ Len(<<>>) = 0 /\ FilesOf(<<>>) = {}
  /\ \A s \in EventLists : /\ Len(s) \in Nat /\ DOMAIN s = 1..Len(s)
                           /\ \A i \in 1..Len(s) : s[i].file \in WorkFiles
                           /\ FilesOf(s) = {s[i].file : i \in 1..Len(s)}
<1>1. <<>> \in EventLists /\ Len(<<>>) = 0 /\ FilesOf(<<>>) = {}
  BY DEF EventLists, FilesOf, Range
<1>2. ASSUME NEW s \in EventLists
      PROVE  /\ Len(s) \in Nat /\ DOMAIN s = 1..Len(s)
             /\ \A i \in 1..Len(s) : s[i].file \in WorkFiles
             /\ FilesOf(s) = {s[i].file : i \in 1..Len(s)}
  <2> DEFINE E == [source : Sources, file : WorkFiles]
  <2>1. s \in Seq(E)
    BY DEF EventLists
  <2>2. Len(s) \in Nat /\ DOMAIN s = 1..Len(s) /\ \A i \in 1..Len(s) : s[i] \in E
    <3> HIDE DEF E
    <3> QED
      BY <2>1
  <2>3. FilesOf(s) = {s[i].file : i \in 1..Len(s)}
    BY <2>2 DEF FilesOf, Range
  <2> QED
    BY <2>2, <2>3
<1> QED
  BY <1>1, <1>2

\* A file of a list stands first somewhere, and nowhere else.
LEMMA FirstPlace ==
  ASSUME NEW s \in FileLists
  PROVE  /\ \A x \in Range(s) : \E i \in Firsts(s) : s[i] = x
         /\ \A i, j \in Firsts(s) : s[i] = s[j] => i = j
         /\ Firsts(s) \subseteq 1..Len(s)
<1>1. Len(s) \in Nat /\ DOMAIN s = 1..Len(s)
  BY ListsKnown
<1>2. ASSUME NEW x \in Range(s) PROVE \E i \in Firsts(s) : s[i] = x
  <2> DEFINE places == {i \in 1..Len(s) : s[i] = x}
  <2>1. places # {} /\ places \in SUBSET Nat
    BY <1>1 DEF Range
  <2>2. PICK i \in places : \A m \in places : i <= m
    <3> HIDE DEF places
    <3> QED
      BY <2>1, LeastOf
  <2>3. \A j \in 1..(i - 1) : j \in 1..Len(s) /\ ~(i <= j)
    BY <1>1, <2>2
  <2>4. i \in Firsts(s) /\ s[i] = x
    BY <1>1, <2>2, <2>3 DEF Firsts
  <2> QED
    BY <2>4
<1>3. ASSUME NEW i \in Firsts(s), NEW j \in Firsts(s), s[i] = s[j] PROVE i = j
  <2>1. i \in Nat /\ j \in Nat /\ i > 0 /\ j > 0
    BY <1>1 DEF Firsts
  <2>2. ~(i < j) /\ ~(j < i)
    BY <1>3, <2>1 DEF Firsts
  <2> QED
    BY <2>1, <2>2
<1> QED
  BY <1>1, <1>2, <1>3 DEF Firsts

\* What push_unique_changed_file does to a list: it goes on with what was not there.
LEMMA PushedHas ==
  ASSUME NEW fs \in FileLists, NEW more \in FileLists
  PROVE  /\ Pushed(fs, more) \in FileLists /\ Len(fs) <= Len(Pushed(fs, more))
         /\ \A i \in 1..Len(fs) : Pushed(fs, more)[i] = fs[i]
         /\ Range(Pushed(fs, more)) = Range(fs) \cup Range(more)
         /\ IsInjective(fs) => IsInjective(Pushed(fs, more))
<1> DEFINE new == {i \in Firsts(more) : more[i] \notin Range(fs)}
           place(n) == CHOOSE i \in new : Rank(new, i) = n
           rest == [n \in 1..Cardinality(new) |-> more[place(n)]]
<1>1. Len(more) \in Nat /\ Len(fs) \in Nat /\ DOMAIN fs = 1..Len(fs) /\ DOMAIN more = 1..Len(more)
  BY ListsKnown
<1>2. new \in SUBSET (1..Len(more)) /\ \A i \in new : more[i] \in Range(more)
  BY <1>1, FirstPlace, ListsKnown
<1>3. /\ Cardinality(new) \in Nat
      /\ \A n \in 1..Cardinality(new) : \E i \in new : Rank(new, i) = n
  <2> HIDE DEF new
  <2>1. \A i \in new : Rank(new, i) = Cardinality({j \in new : j <= i})
    BY DEF Rank
  <2>2. /\ Cardinality(new) \in Nat
        /\ \A n \in 1..Cardinality(new) : \E i \in new : Cardinality({j \in new : j <= i}) = n
    BY ONLY <1>1, <1>2, Ranks
  <2> QED
    BY <2>1, <2>2
<1>4. \A n \in 1..Cardinality(new) : place(n) \in new
  <2> HIDE DEF new
  <2> QED
    BY <1>3
<1>5. \A i \in new : Rank(new, i) \in 1..Cardinality(new) /\ place(Rank(new, i)) = i
  <2> HIDE DEF new
  <2> SUFFICES ASSUME NEW i \in new PROVE Rank(new, i) \in 1..Cardinality(new) /\ place(Rank(new, i)) = i
    OBVIOUS
  <2>1. IsFiniteSet(new)
    <3>1. IsFiniteSet(1..Len(more)) /\ new \subseteq 1..Len(more)
      BY <1>1, <1>2, FS_Interval
    <3> QED
      BY <3>1, FS_Subset
  <2>2. i \in Nat /\ {j \in new : j <= i} \subseteq new /\ i \in {j \in new : j <= i}
    BY <1>2
  <2>3. Rank(new, i) \in 1..Cardinality(new)
    <3>1. IsFiniteSet({j \in new : j <= i}) /\ Cardinality({j \in new : j <= i}) <= Cardinality(new)
      BY <2>1, <2>2, FS_Subset
    <3>2. Cardinality({j \in new : j <= i}) \in Nat /\ Cardinality({j \in new : j <= i}) # 0
      BY <2>2, <3>1, FS_CardinalityType, FS_EmptySet
    <3> QED
      BY <1>3, <3>1, <3>2 DEF Rank
  <2>4. ASSUME NEW k \in new, Rank(new, k) = Rank(new, i) PROVE k = i
    <3>1. k \in Nat /\ i \in Nat
      BY <1>2
    <3>2. ASSUME NEW a \in new, NEW b \in new, a < b PROVE Rank(new, a) # Rank(new, b)
      <4>1. {j \in new : j <= a} \subseteq {j \in new : j <= b} /\ b \in {j \in new : j <= b} /\ b \notin {j \in new : j <= a}
        <5>1. a \in Nat /\ b \in Nat /\ \A j \in new : j \in Nat
          BY <1>2
        <5>2. ~(b <= a) /\ b <= b /\ \A j \in new : j <= a => j <= b
          BY <3>2, <5>1
        <5> QED
          BY <5>2
      <4>2. IsFiniteSet({j \in new : j <= b})
        BY <2>1, FS_Subset
      <4>3. {j \in new : j <= a} # {j \in new : j <= b}
        BY <4>1
      <4>4. Cardinality({j \in new : j <= a}) # Cardinality({j \in new : j <= b})
        BY <4>1, <4>2, <4>3, FS_Subset
      <4> QED
        BY <4>4 DEF Rank
    <3>3. ~(k < i) /\ ~(i < k)
      BY <2>4, <3>2
    <3> QED
      BY <3>1, <3>3
  <2> QED
    BY <2>3, <2>4
<1>0. \A m, n \in 1..Cardinality(new) :
        /\ more[place(m)] = more[place(n)] => m = n
        /\ more[place(n)] \notin Range(fs)
  <2>1. \A n \in 1..Cardinality(new) : place(n) \in new /\ Rank(new, place(n)) = n
    <3> HIDE DEF new
    <3> QED
      BY <1>3
  <2>2. \A i, j \in new : more[i] = more[j] => i = j
    BY FirstPlace
  <2>3. \A i \in new : more[i] \notin Range(fs)
    OBVIOUS
  <2> HIDE DEF new, place
  <2> QED
    BY <2>1, <2>2, <2>3
<1>6. rest \in FileLists /\ Len(rest) = Cardinality(new) /\ \A n \in 1..Cardinality(new) : rest[n] = more[place(n)]
  <2> HIDE DEF new, place
  <2>1. \A n \in 1..Cardinality(new) : more[place(n)] \in WorkFiles
    BY <1>2, <1>4, ListsKnown
  <2> QED
    BY <1>3, <2>1 DEF FileLists
<1>7. Pushed(fs, more) = fs \o rest
  BY DEF Pushed
<1> HIDE DEF new, place, rest
<1>8. /\ fs \o rest \in FileLists /\ Len(fs \o rest) = Len(fs) + Len(rest)
      /\ \A i \in 1..Len(fs) : (fs \o rest)[i] = fs[i]
      /\ \A i \in 1..Len(rest) : (fs \o rest)[Len(fs) + i] = rest[i]
  <2>1. fs \in Seq(WorkFiles) /\ rest \in Seq(WorkFiles)
    BY <1>6 DEF FileLists
  <2>2. /\ fs \o rest \in Seq(WorkFiles) /\ Len(fs \o rest) = Len(fs) + Len(rest)
        /\ \A i \in 1..Len(fs) : (fs \o rest)[i] = fs[i]
        /\ \A i \in 1..Len(rest) : (fs \o rest)[Len(fs) + i] = rest[i]
    BY ONLY <2>1
  <2> QED
    BY <2>2 DEF FileLists
<1>9. Range(fs \o rest) = Range(fs) \cup Range(more)
  <2> DEFINE all == fs \o rest
  <2>1. \A x : x \in Range(all) <=> \E i \in 1..Len(all) : all[i] = x
    BY <1>8, ListsKnown DEF Range
  <2>2. \A x : x \in Range(fs) <=> \E i \in 1..Len(fs) : fs[i] = x
    BY <1>1 DEF Range
  <2> HIDE DEF all
  <2>3. ASSUME NEW x \in Range(all) PROVE x \in Range(fs) \cup Range(more)
    <3>1. PICK i \in 1..Len(all) : all[i] = x
      BY <2>1
    <3>2. CASE i \in 1..Len(fs)
      BY <1>8, <2>2, <3>1, <3>2 DEF all
    <3>3. CASE i \notin 1..Len(fs)
      <4>1. i - Len(fs) \in 1..Len(rest) /\ i = Len(fs) + (i - Len(fs))
        BY <1>1, <1>3, <1>6, <1>8, <3>1, <3>3 DEF all
      <4>2. x = rest[i - Len(fs)]
        BY <1>8, <3>1, <4>1 DEF all
      <4> QED
        BY <1>2, <1>4, <1>6, <4>1, <4>2
    <3> QED
      BY <3>2, <3>3
  <2>4. ASSUME NEW x \in Range(fs) PROVE x \in Range(all)
    <3>1. PICK i \in 1..Len(fs) : fs[i] = x
      BY <2>2
    <3>2. i \in 1..Len(all) /\ all[i] = x
      BY <1>1, <1>3, <1>6, <1>8, <3>1 DEF all
    <3> QED
      BY <2>1, <3>2
  <2>5. ASSUME NEW x \in Range(more), x \notin Range(fs) PROVE x \in Range(all)
    <3>1. PICK i \in new : more[i] = x
      BY <2>5, FirstPlace DEF new
    <3>2. PICK n \in 1..Len(rest) : rest[n] = x
      BY <1>5, <1>6, <3>1
    <3>3. Len(fs) + n \in 1..Len(all) /\ all[Len(fs) + n] = x
      BY <1>1, <1>3, <1>6, <1>8, <3>2 DEF all
    <3> QED
      BY <2>1, <3>3
  <2> QED
    BY <2>3, <2>4, <2>5 DEF all
<1>10. ASSUME IsInjective(fs) PROVE IsInjective(fs \o rest)
  <2> DEFINE all == fs \o rest
  <2>1. DOMAIN all = 1..(Len(fs) + Len(rest)) /\ Len(rest) \in Nat
    BY <1>1, <1>6, <1>8, ListsKnown
  <2>2. /\ \A i \in 1..Len(fs) : all[i] = fs[i] /\ fs[i] \in Range(fs)
        /\ \A n \in 1..Len(rest) : all[Len(fs) + n] = rest[n] /\ rest[n] \notin Range(fs)
    BY <1>0, <1>1, <1>6, <1>8 DEF Range
  <2>3. \A i, j \in 1..Len(fs) : fs[i] = fs[j] => i = j
    BY <1>1, <1>10 DEF IsInjective
  <2>4. \A m, n \in 1..Len(rest) : rest[m] = rest[n] => m = n
    BY <1>0, <1>6
  <2> HIDE DEF all
  <2>5. \A i \in DOMAIN all : i \in 1..Len(fs) \/ \E n \in 1..Len(rest) : i = Len(fs) + n
    <3> SUFFICES ASSUME NEW i \in DOMAIN all, i \notin 1..Len(fs) PROVE \E n \in 1..Len(rest) : i = Len(fs) + n
      OBVIOUS
    <3>1. i - Len(fs) \in 1..Len(rest) /\ i = Len(fs) + (i - Len(fs))
      BY <1>1, <2>1
    <3> QED
      BY <3>1
  <2>6. ASSUME NEW i \in DOMAIN all, NEW j \in DOMAIN all, all[i] = all[j] PROVE i = j
    <3>1. CASE i \in 1..Len(fs) /\ j \in 1..Len(fs)
      BY <2>2, <2>3, <2>6, <3>1
    <3>2. CASE i \notin 1..Len(fs) /\ j \notin 1..Len(fs)
      <4>1. PICK m \in 1..Len(rest) : i = Len(fs) + m
        BY <2>5, <3>2
      <4>2. PICK n \in 1..Len(rest) : j = Len(fs) + n
        BY <2>5, <3>2
      <4>3. all[i] = rest[m] /\ all[j] = rest[n]
        BY <2>2, <4>1, <4>2
      <4>4. m = n
        BY <2>4, <2>6, <4>3
      <4> QED
        BY <4>1, <4>2, <4>4
    <3>3. CASE i \in 1..Len(fs) /\ j \notin 1..Len(fs)
      BY <2>2, <2>5, <2>6, <3>3
    <3>4. CASE i \notin 1..Len(fs) /\ j \in 1..Len(fs)
      BY <2>2, <2>5, <2>6, <3>4
    <3> QED
      BY <3>1, <3>2, <3>3, <3>4
  <2> QED
    BY <2>6 DEF IsInjective, all
<1> QED
  BY <1>1, <1>3, <1>6, <1>7, <1>8, <1>9, <1>10

\* More files of a list are more files of a kind.
LEMMA KindsGrow ==
  ASSUME NEW fs \in FileLists, NEW gs \in FileLists, Len(fs) <= Len(gs), \A i \in 1..Len(fs) : gs[i] = fs[i], NEW kind
  PROVE  /\ Cardinality(OfKind(fs, kind)) \in Nat /\ Cardinality(OfKind(gs, kind)) \in Nat
         /\ Cardinality(OfKind(fs, kind)) <= Cardinality(OfKind(gs, kind))
<1>1. Len(fs) \in Nat /\ Len(gs) \in Nat /\ DOMAIN fs = 1..Len(fs) /\ DOMAIN gs = 1..Len(gs)
  BY ListsKnown
<1>2. OfKind(fs, kind) \subseteq OfKind(gs, kind)
  BY <1>1 DEF OfKind, Firsts
<1>3. IsFiniteSet(OfKind(gs, kind))
  <2>1. OfKind(gs, kind) \subseteq 1..Len(gs) /\ IsFiniteSet(1..Len(gs))
    BY <1>1, FS_Interval DEF OfKind, Firsts
  <2> QED
    BY <2>1, FS_Subset
<1> QED
  BY <1>2, <1>3, FS_Subset, FS_CardinalityType

\* A file of some kind that is not among the first ones of a list: there are as many in
\* every list that has the files of this one.
LEMMA Enough ==
  ASSUME NEW fs \in FileLists, NEW gs \in FileLists, Range(fs) \subseteq Range(gs), NEW kind,
         NEW f \in Range(fs), FileKinds[f] = kind, NEW limit \in Nat,
         f \notin {fs[i] : i \in {j \in OfKind(fs, kind) : Rank(OfKind(fs, kind), j) <= limit}}
  PROVE  Cardinality(OfKind(gs, kind)) > limit
<1> DEFINE P == OfKind(fs, kind)
           Q == OfKind(gs, kind)
<1>1. PICK i \in P : fs[i] = f
  BY FirstPlace DEF OfKind
<1> DEFINE T == {j \in P : j <= i}
           to == [j \in T |-> CHOOSE q \in Q : gs[q] = fs[j]]
<1>2. P \subseteq 1..Len(fs) /\ Q \subseteq 1..Len(gs) /\ Len(fs) \in Nat /\ Len(gs) \in Nat
  BY FirstPlace, ListsKnown DEF OfKind
<1>3. /\ IsFiniteSet(T) /\ IsFiniteSet(Q) /\ Cardinality(T) \in Nat /\ Cardinality(Q) \in Nat
  <2>1. T \subseteq 1..Len(fs) /\ IsFiniteSet(1..Len(fs)) /\ IsFiniteSet(1..Len(gs))
    BY <1>2, FS_Interval
  <2> HIDE DEF T, Q
  <2> QED
    BY <1>2, <2>1, FS_Subset, FS_CardinalityType
<1>4. Cardinality(T) > limit
  <2>1. ~(Rank(P, i) <= limit)
    BY <1>1
  <2> QED
    BY <1>3, <2>1 DEF Rank
<1>5. \A j \in T : \E q \in Q : gs[q] = fs[j]
  <2> SUFFICES ASSUME NEW j \in T PROVE \E q \in Q : gs[q] = fs[j]
    OBVIOUS
  <2>1. j \in DOMAIN fs /\ FileKinds[fs[j]] = kind
    BY DEF OfKind, Firsts
  <2>2. fs[j] \in Range(gs)
    BY <2>1 DEF Range
  <2>3. PICK q \in Firsts(gs) : gs[q] = fs[j]
    BY <2>2, FirstPlace
  <2> QED
    BY <2>1, <2>3 DEF OfKind
<1>6. to \in Injection(T, Q)
  <2>1. \A j \in T : to[j] \in Q /\ gs[to[j]] = fs[j]
    BY <1>5
  <2>2. \A j, k \in T : to[j] = to[k] => j = k
    <3> SUFFICES ASSUME NEW j \in T, NEW k \in T, to[j] = to[k] PROVE j = k
      OBVIOUS
    <3>1. fs[j] = fs[k]
      BY <2>1
    <3>2. j \in Firsts(fs) /\ k \in Firsts(fs)
      BY DEF OfKind
    <3> QED
      BY <3>1, <3>2, FirstPlace
  <2>3. to \in [T -> Q]
    BY <2>1
  <2> QED
    BY <2>2, <2>3 DEF Injection, IsInjective
<1>7. Cardinality(T) <= Cardinality(Q)
  <2> HIDE DEF T, Q, to
  <2> QED
    BY <1>3, <1>6, FS_Injection
<1> HIDE DEF T, Q
<1>8. Cardinality(Q) > limit
  BY <1>3, <1>4, <1>7
<1> QED
  BY <1>8 DEF Q

------------------------------------------------------------------------------
Told(files, events) == files \in FileLists /\ events \in EventLists /\ FilesOf(events) \subseteq Range(files)

\* The lists, those of the journal, and what the last reply did to the disk.
OneStory ==
  /\ work_of \in {"session", "prompt"} /\ events_before \in Nat /\ events_before <= Len(change_events)
  /\ Told(changed_files, change_events) /\ Told(work_saved.files, work_saved.events)
  /\ last_reply \in FileLists /\ Range(changed_files) \cup Range(last_reply) \subseteq disk_changes

\* Between turns no reply is at hand; a process that is down has nothing to look at, and
\* asi prompt neither comes back nor tests.
BetweenTurns ==
  /\ work_at \in {"idle", "down", "over"} => last_reply = <<>>
  /\ work_at = "down" => owed = {} /\ events_before = 0
  /\ auto_test \in BOOLEAN /\ (auto_test => work_of = "session")

\* What the end of the turn looks at has all that is owed.
Looked == IF work_of = "session" THEN Range(ChangedSince(change_events, events_before)) ELSE Range(changed_files)
InSight == work_at \in {"turn", "loop"} => owed \subseteq Looked
SeenTo == work_at \in {"idle", "over"} => \A f \in owed : Validated(f) /\ Tested(f)

WorkInv == OneStory /\ BetweenTurns /\ InSight /\ SeenTo

LEMMA InitWork == WorkInit => WorkInv
<1> SUFFICES ASSUME WorkInit PROVE WorkInv
  OBVIOUS
<1>1. /\ changed_files = <<>> /\ change_events = <<>> /\ last_reply = <<>> /\ owed = {} /\ work_at = "idle"
      /\ work_of \in {"session", "prompt"} /\ events_before = 0 /\ auto_test = (markers # {} /\ work_of = "session")
      /\ work_saved.files = <<>> /\ work_saved.events = <<>>
  BY DEF WorkInit, NoListing, Listing
<1>2. OneStory
  BY <1>1, ListsKnown, EventsKnown DEF OneStory, Told
<1>3. BetweenTurns /\ InSight /\ SeenTo
  BY <1>1 DEF BetweenTurns, InSight, SeenTo
<1> QED
  BY <1>2, <1>3 DEF WorkInv

\* Which files events from some place on are of.
LEMMA SinceHas ==
  ASSUME NEW events \in EventLists, NEW from \in 0..Len(events)
  PROVE  /\ ChangedSince(events, from) \in FileLists
         /\ \A x : x \in Range(ChangedSince(events, from)) <=> \E i \in (from + 1)..Len(events) : events[i].file = x
<1> DEFINE since == [i \in 1..(Len(events) - from) |-> events[from + i].file]
<1>1. /\ Len(events) \in Nat /\ from \in Nat /\ Len(events) - from \in Nat
      /\ \A i \in 1..Len(events) : events[i].file \in WorkFiles
  BY EventsKnown
<1>2. \A i \in 1..(Len(events) - from) : from + i \in (from + 1)..Len(events) /\ from + i \in 1..Len(events)
  BY <1>1
<1>3. \A i \in (from + 1)..Len(events) : i - from \in 1..(Len(events) - from) /\ from + (i - from) = i
  BY <1>1
<1>4. since \in FileLists
  BY <1>1, <1>2 DEF FileLists
<1>5. \A x : x \in Range(since) <=> \E i \in 1..(Len(events) - from) : events[from + i].file = x
  BY <1>1 DEF Range
<1>6. ChangedSince(events, from) = Pushed(<<>>, since)
  BY DEF ChangedSince
<1> HIDE DEF since
<1>7. Pushed(<<>>, since) \in FileLists /\ Range(Pushed(<<>>, since)) = Range(since)
  <2>1. <<>> \in FileLists /\ Range(<<>>) = {}
    BY ListsKnown
  <2>2. Pushed(<<>>, since) \in FileLists /\ Range(Pushed(<<>>, since)) = Range(<<>>) \cup Range(since)
    BY ONLY <1>4, <2>1, PushedHas
  <2> QED
    BY <2>1, <2>2
<1> QED
  BY <1>2, <1>3, <1>5, <1>6, <1>7

\* Events that are added to others.
LEMMA EventsAdded ==
  ASSUME NEW s \in EventLists, NEW fs \in FileLists, NEW source \in Sources
  PROVE  /\ s \o Events(source, fs) \in EventLists
         /\ Len(s) <= Len(s \o Events(source, fs))
         /\ FilesOf(s \o Events(source, fs)) = FilesOf(s) \cup Range(fs)
         /\ \A from \in 0..Len(s) :
              Range(ChangedSince(s \o Events(source, fs), from)) = Range(ChangedSince(s, from)) \cup Range(fs)
<1> DEFINE e == Events(source, fs)
           t == s \o e
<1>1. Len(fs) \in Nat /\ DOMAIN fs = 1..Len(fs) /\ Len(s) \in Nat /\ DOMAIN s = 1..Len(s)
  BY ListsKnown, EventsKnown
<1>2. e \in EventLists /\ Len(e) = Len(fs) /\ \A i \in 1..Len(fs) : e[i].file = fs[i]
  <2>1. \A i \in 1..Len(fs) : Event(source, fs[i]) \in [source : Sources, file : WorkFiles] /\ Event(source, fs[i]).file = fs[i]
    BY ListsKnown DEF Event
  <2>2. e = [i \in 1..Len(fs) |-> Event(source, fs[i])]
    BY <1>1 DEF Events
  <2> HIDE DEF e
  <2> QED
    BY <1>1, <2>1, <2>2 DEF EventLists
<1> HIDE DEF e
<1>3. /\ t \in EventLists /\ Len(t) = Len(s) + Len(fs)
      /\ \A i \in 1..Len(s) : t[i] = s[i]
      /\ \A i \in 1..Len(fs) : t[Len(s) + i] = e[i]
  BY <1>1, <1>2 DEF EventLists
<1> HIDE DEF t
<1>4. ASSUME NEW from \in 0..Len(s), NEW x
      PROVE  (\E i \in (from + 1)..Len(t) : t[i].file = x)
               <=> (\E i \in (from + 1)..Len(s) : s[i].file = x) \/ (\E i \in 1..Len(fs) : fs[i] = x)
  <2>1. ASSUME NEW i \in (from + 1)..Len(t), t[i].file = x
        PROVE  (\E j \in (from + 1)..Len(s) : s[j].file = x) \/ (\E j \in 1..Len(fs) : fs[j] = x)
    <3>1. CASE i <= Len(s)
      BY <1>1, <1>3, <2>1, <3>1
    <3>2. CASE ~(i <= Len(s))
      <4>1. i - Len(s) \in 1..Len(fs) /\ i = Len(s) + (i - Len(s))
        BY <1>1, <1>3, <3>2
      <4> QED
        BY <1>2, <1>3, <2>1, <4>1
    <3> QED
      BY <3>1, <3>2
  <2>2. ASSUME NEW i \in (from + 1)..Len(s), s[i].file = x PROVE \E j \in (from + 1)..Len(t) : t[j].file = x
    <3>1. i \in 1..Len(s) /\ i \in (from + 1)..Len(t)
      BY <1>1, <1>3
    <3> QED
      BY <1>3, <2>2, <3>1
  <2>3. ASSUME NEW i \in 1..Len(fs), fs[i] = x PROVE \E j \in (from + 1)..Len(t) : t[j].file = x
    <3>1. Len(s) + i \in (from + 1)..Len(t) /\ t[Len(s) + i].file = x
      BY <1>1, <1>2, <1>3, <2>3
    <3> QED
      BY <3>1
  <2> QED
    BY <2>1, <2>2, <2>3
<1>5. ASSUME NEW u \in EventLists, NEW from \in 0..Len(u)
      PROVE  \A x : x \in Range(ChangedSince(u, from)) <=> \E i \in (from + 1)..Len(u) : u[i].file = x
  BY SinceHas
<1>6. \A x : x \in Range(fs) <=> \E i \in 1..Len(fs) : fs[i] = x
  BY <1>1 DEF Range
<1>7. ASSUME NEW from \in 0..Len(s) PROVE Range(ChangedSince(t, from)) = Range(ChangedSince(s, from)) \cup Range(fs)
  <2>1. from \in 0..Len(t)
    BY <1>1, <1>3
  <2>2. \A x : x \in Range(ChangedSince(t, from)) <=> \E i \in (from + 1)..Len(t) : t[i].file = x
    BY <1>3, <1>5, <2>1
  <2>3. \A x : x \in Range(ChangedSince(s, from)) <=> \E i \in (from + 1)..Len(s) : s[i].file = x
    BY <1>5
  <2>4. \A x : x \in Range(ChangedSince(t, from)) <=> x \in Range(ChangedSince(s, from)) \/ x \in Range(fs)
    BY <1>4, <1>6, <2>2, <2>3, Zenon
  <2> QED
    BY <2>4, Zenon
<1>8. FilesOf(t) = FilesOf(s) \cup Range(fs)
  <2>1. 0 \in 0..Len(s) /\ 0 + 1 = 1
    BY <1>1
  <2>2. \A x : (\E i \in 1..Len(t) : t[i].file = x)
                 <=> (\E i \in 1..Len(s) : s[i].file = x) \/ (\E i \in 1..Len(fs) : fs[i] = x)
    BY <1>4, <2>1
  <2>3. FilesOf(t) = {t[i].file : i \in 1..Len(t)} /\ FilesOf(s) = {s[i].file : i \in 1..Len(s)}
    BY <1>3, EventsKnown
  <2> QED
    BY <1>6, <2>2, <2>3
<1>9. Len(s) <= Len(t)
  BY <1>1, <1>3
<1> QED
  BY <1>3, <1>7, <1>8, <1>9 DEF t, e

LEMMA EventsJoined ==
  ASSUME NEW s \in EventLists, NEW t \in EventLists
  PROVE  s \o t \in EventLists /\ Len(s) <= Len(s \o t) /\ FilesOf(s \o t) \subseteq FilesOf(s) \cup FilesOf(t)
<1> DEFINE E == [source : Sources, file : WorkFiles]
           u == s \o t
<1>1. s \in Seq(E) /\ t \in Seq(E)
  BY DEF EventLists
<1>2. /\ u \in Seq(E) /\ Len(s) \in Nat /\ Len(t) \in Nat /\ Len(u) = Len(s) + Len(t)
      /\ \A i \in 1..Len(s) : u[i] = s[i]
      /\ \A i \in 1..Len(t) : u[Len(s) + i] = t[i]
  <2> HIDE DEF E
  <2> QED
    BY ONLY <1>1
<1>3. u \in EventLists
  BY <1>2 DEF EventLists
<1>4. /\ FilesOf(s) = {s[i].file : i \in 1..Len(s)} /\ FilesOf(t) = {t[i].file : i \in 1..Len(t)}
      /\ FilesOf(u) = {u[i].file : i \in 1..Len(u)}
  BY <1>3, EventsKnown
<1> HIDE DEF u
<1>5. ASSUME NEW i \in 1..Len(u) PROVE u[i].file \in FilesOf(s) \cup FilesOf(t)
  <2>1. CASE i <= Len(s)
    <3>1. i \in 1..Len(s)
      BY <1>2, <2>1
    <3> QED
      BY <1>2, <1>4, <3>1
  <2>2. CASE ~(i <= Len(s))
    <3>1. i - Len(s) \in 1..Len(t) /\ i = Len(s) + (i - Len(s))
      BY <1>2, <2>2
    <3>2. u[i] = t[i - Len(s)]
      BY <1>2, <3>1
    <3> QED
      BY <1>4, <3>1, <3>2
  <2> QED
    BY <2>1, <2>2
<1>6. Len(s) <= Len(u)
  BY <1>2
<1> QED
  BY <1>3, <1>4, <1>5, <1>6 DEF u

\* What the routes do to the lists: all of them that record something record it in the
\* list of files, and in the session those with events in both.
Routed(fs) ==
  /\ changed_files' \in FileLists /\ change_events' \in EventLists
  /\ Len(change_events) <= Len(change_events') /\ Len(changed_files) <= Len(changed_files')
  /\ \A i \in 1..Len(changed_files) : changed_files'[i] = changed_files[i]
  /\ Range(changed_files') = Range(changed_files) \cup Range(fs)
  /\ FilesOf(change_events') \subseteq Range(changed_files')
  /\ Range(ChangedSince(change_events, events_before)) \subseteq Range(ChangedSince(change_events', events_before))

LEMMA FilesRouted == ASSUME WorkInv, NEW fs \in FileLists, RecordFiles(fs) PROVE Routed(fs)
<1>1. changed_files \in FileLists /\ change_events \in EventLists /\ FilesOf(change_events) \subseteq Range(changed_files)
  BY DEF WorkInv, OneStory, Told
<1>2. changed_files' = Pushed(changed_files, fs) /\ change_events' = change_events
  BY DEF RecordFiles
<1>3. Len(change_events) <= Len(change_events')
  BY <1>1, <1>2, EventsKnown
<1> QED
  BY <1>1, <1>2, <1>3, PushedHas DEF Routed

LEMMA ChangesRouted ==
  ASSUME WorkInv, NEW fs \in FileLists, NEW source \in Sources, RecordChanges(source, fs)
  PROVE  /\ Routed(fs)
         /\ work_of = "session" => \A from \in 0..Len(change_events) : Range(fs) \subseteq Range(ChangedSince(change_events', from))
<1>1. /\ changed_files \in FileLists /\ change_events \in EventLists /\ FilesOf(change_events) \subseteq Range(changed_files)
      /\ events_before \in 0..Len(change_events)
  BY EventsKnown DEF WorkInv, OneStory, Told
<1>2. CASE work_of = "session"
  <2>1. changed_files' = Pushed(changed_files, fs) /\ change_events' = change_events \o Events(source, fs)
    BY <1>2 DEF RecordChanges
  <2>2. /\ change_events' \in EventLists /\ Len(change_events) <= Len(change_events')
        /\ FilesOf(change_events') = FilesOf(change_events) \cup Range(fs)
        /\ \A from \in 0..Len(change_events) :
             Range(ChangedSince(change_events', from)) = Range(ChangedSince(change_events, from)) \cup Range(fs)
    BY <1>1, <2>1, EventsAdded
  <2> QED
    BY <1>1, <2>1, <2>2, PushedHas DEF Routed
<1>3. CASE work_of # "session"
  <2>1. RecordFiles(fs)
    BY <1>3 DEF RecordChanges, RecordFiles
  <2> QED
    BY <1>3, <2>1, FilesRouted
<1> QED
  BY <1>2, <1>3

LEMMA NoneRouted == ASSUME WorkInv, RecordNone PROVE Routed(<<>>)
<1>1. /\ changed_files \in FileLists /\ change_events \in EventLists /\ FilesOf(change_events) \subseteq Range(changed_files)
      /\ changed_files' = changed_files /\ change_events' = change_events
      /\ Len(changed_files) <= Len(changed_files) /\ Len(change_events) <= Len(change_events)
  BY ListsKnown, EventsKnown DEF WorkInv, OneStory, Told, RecordNone
<1> QED
  BY <1>1, ListsKnown DEF Routed

\* Whatever is looked at: a file in sight is validated, or the limit was reached, and
\* tested if tests are on.
LEMMA LookedAt ==
  ASSUME NEW cf \in FileLists, NEW fs \in FileLists, Range(fs) \subseteq Range(cf), NEW on \in BOOLEAN,
         NEW f \in Range(fs), checked' = ChecksOf(fs, on), changed_files' = cf, markers' = markers, auto_test' => on
  PROVE  Validated(f)' /\ Tested(f)'
<1>1. PICK ch : ch = checked'
  BY Zenon
<1>2. /\ ch.cargo = ("rust" \in markers /\ OfKind(fs, "rust") # {})
      /\ ch.python = {fs[i] : i \in {j \in OfKind(fs, "python") : Rank(OfKind(fs, "python"), j) <= PyChecks}}
      /\ ch.tests = IF on THEN TestsOf(fs) ELSE {}
  BY <1>1 DEF ChecksOf
<1>3. PICK i \in Firsts(fs) : fs[i] = f
  BY FirstPlace
<1>4. i \in OfKind(fs, FileKinds[f])
  BY <1>3 DEF OfKind
<1>5. Validated(f)'
  <2>1. CASE FileKinds[f] = "rust"
    <3>1. checked'.cargo \/ "rust" \notin markers'
      BY <1>1, <1>2, <1>4, <2>1
    <3> QED
      BY <2>1, <3>1 DEF Validated
  <2>2. CASE FileKinds[f] = "python"
    <3>1. f \in ch.python \/ Cardinality(OfKind(cf, "python")) > PyChecks
      BY <1>2, <2>2, Enough, WorkBounds
    <3>2. f \in checked'.python \/ Cardinality(OfKind(changed_files', "python")) > PyChecks
      BY <1>1, <3>1
    <3> QED
      BY <2>2, <3>2 DEF Validated
  <2>3. CASE FileKinds[f] \notin {"rust", "python"}
    BY <2>3 DEF Validated
  <2> QED
    BY <2>1, <2>2, <2>3
<1>6. Tested(f)'
  <2>1. auto_test' /\ FileKinds[f] \in markers' => FileKinds[f] \in checked'.tests
    BY <1>1, <1>2, <1>4 DEF TestsOf
  <2> QED
    BY <2>1 DEF Tested
<1> QED
  BY <1>5, <1>6

------------------------------------------------------------------------------
\* A part of the events: a list of files, all of them listed.
LEMMA SinceIsList ==
  ASSUME NEW files, NEW events, Told(files, events), NEW from \in Nat, from <= Len(events)
  PROVE  ChangedSince(events, from) \in FileLists /\ Range(ChangedSince(events, from)) \subseteq Range(files)
<1>1. /\ events \in EventLists /\ Len(events) \in Nat
      /\ FilesOf(events) = {events[i].file : i \in 1..Len(events)} /\ FilesOf(events) \subseteq Range(files)
  BY EventsKnown DEF Told
<1>2. from \in 0..Len(events) /\ \A i \in (from + 1)..Len(events) : i \in 1..Len(events)
  BY <1>1
<1>3. \A x \in Range(ChangedSince(events, from)) : x \in Range(files)
  BY <1>1, <1>2, SinceHas
<1> QED
  BY <1>1, <1>2, <1>3, SinceHas

\* A step that records on one of the routes, or nowhere, and forgets nothing.
LEMMA StoryGoesOn ==
  ASSUME WorkInv, NEW fs \in FileLists, Routed(fs), work_of' = work_of,
         events_before' \in {events_before, Len(change_events)}, last_reply' \in FileLists,
         disk_changes \cup Range(fs) \cup Range(last_reply') \subseteq disk_changes',
         Told(work_saved'.files, work_saved'.events)
  PROVE  OneStory'
<1>1. /\ work_of \in {"session", "prompt"} /\ events_before \in Nat /\ events_before <= Len(change_events)
      /\ Range(changed_files) \subseteq disk_changes /\ change_events \in EventLists
  BY DEF WorkInv, OneStory, Told
<1>2. Told(changed_files', change_events') /\ Range(changed_files') = Range(changed_files) \cup Range(fs)
  BY DEF Routed, Told
<1>3. events_before' \in Nat /\ events_before' <= Len(change_events')
  <2>1. PICK b : b = events_before'
    BY Zenon
  <2>2. PICK n : n = Len(change_events')
    BY Zenon
  <2>3. Len(change_events) \in Nat /\ n \in Nat /\ Len(change_events) <= n
    BY <1>1, <2>2, EventsKnown DEF Routed
  <2>4. b \in Nat /\ b <= n
    BY <1>1, <2>1, <2>3
  <2> QED
    BY <2>1, <2>2, <2>4
<1> QED
  BY <1>1, <1>2, <1>3 DEF OneStory

\* The journal is kept, emptied, or has the lists of now.
LEMMA JournalTold ==
  ASSUME NEW old, Told(old.files, old.events), NEW files, NEW events, Told(files, events), NEW live,
         NEW new \in {old, NoListing, Listing(files, events, live)}
  PROVE  Told(new.files, new.events)
<1>1. Told(<<>>, <<>>)
  BY ListsKnown, EventsKnown DEF Told
<1>2. NoListing.files = <<>> /\ NoListing.events = <<>>
  BY DEF NoListing, Listing
<1>3. Listing(files, events, live).files = files /\ Listing(files, events, live).events = events
  BY DEF Listing
<1> QED
  BY <1>1, <1>2, <1>3, Zenon

\* The end of a turn, when all that is owed is in sight of it.
LEMMA EndTells ==
  ASSUME OneStory', EndOf, (auto_test => work_of = "session"), auto_test \in BOOLEAN,
         UNCHANGED <<work_of, markers, auto_test>>, owed' \subseteq Looked'
  PROVE  SeenTo'
<1>1. /\ Told(changed_files', change_events') /\ events_before' \in Nat /\ events_before' <= Len(change_events')
      /\ changed_files' \in FileLists
  BY DEF OneStory, Told
<1>2. PICK cf, ce, b, sees : cf = changed_files' /\ ce = change_events' /\ b = events_before' /\ sees = checked'
  BY Zenon
<1>3. CASE work_of = "session"
  <2> DEFINE fs == ChangedSince(ce, b)
  <2>1. fs \in FileLists /\ Range(fs) \subseteq Range(cf) /\ cf \in FileLists
    BY <1>1, <1>2, SinceIsList
  <2>2. checked' = ChecksOf(fs, auto_test)
    BY <1>2, <1>3 DEF EndOf
  <2>3. owed' \subseteq Range(fs)
    BY <1>2, <1>3 DEF Looked
  <2> HIDE DEF fs
  <2>4. ASSUME NEW f \in Range(fs) PROVE Validated(f)' /\ Tested(f)'
    <3>1. changed_files' = cf /\ markers' = markers /\ (auto_test' => auto_test)
      BY <1>2
    <3> QED
      BY <2>1, <2>2, <3>1, LookedAt
  <2> QED
    BY <2>3, <2>4 DEF SeenTo
<1>4. CASE work_of # "session"
  <2>1. cf \in FileLists /\ Range(cf) \subseteq Range(cf)
    BY <1>1, <1>2
  <2>2. checked' = ChecksOf(cf, FALSE)
    BY <1>2, <1>4 DEF EndOf
  <2>3. owed' \subseteq Range(cf)
    BY <1>2, <1>4 DEF Looked
  <2>4. ASSUME NEW f \in Range(cf) PROVE Validated(f)' /\ Tested(f)'
    <3>1. changed_files' = cf /\ markers' = markers /\ (auto_test' => FALSE) /\ FALSE \in BOOLEAN
      BY <1>2, <1>4
    <3> QED
      BY <2>1, <2>2, <3>1, LookedAt
  <2> QED
    BY <2>3, <2>4 DEF SeenTo
<1> QED
  BY <1>3, <1>4

\* In a turn, what is owed stays in sight.
LEMMA StaysInSight ==
  ASSUME WorkInv, work_at \in {"turn", "loop"}, NEW fs \in FileLists, Routed(fs), UNCHANGED <<work_of, events_before>>
  PROVE  owed \subseteq Looked'
<1>1. owed \subseteq Looked
  BY DEF WorkInv, InSight
<1>2. Looked \subseteq Looked'
  BY DEF Looked, Routed
<1> QED
  BY <1>1, <1>2

LEMMA NativesKnown == \A fs \in Natives : fs \in FileLists
  BY ListsKnown DEF Natives

\* The turn of a call that is typed.
LEMMA TypedKeeps == ASSUME WorkInv, TypedCall PROVE WorkInv'
<1>1. PICK fs \in {<<>>} \cup {<<f>> : f \in WorkFiles} : RecordChanges("manual", fs) /\ Made(fs) /\ owed' = Range(fs)
  BY DEF TypedCall
<1>2. /\ work_at = "idle" /\ UNCHANGED <<work_of, markers, auto_test>> /\ events_before' = Len(change_events)
      /\ last_reply' = <<>> /\ EndOf /\ work_saved' \in {work_saved, NoListing}
  BY DEF TypedCall, Work
<1>3. fs \in FileLists /\ <<>> \in FileLists /\ Range(<<>>) = {}
  BY <1>1, ListsKnown
<1>4. /\ Routed(fs)
      /\ work_of = "session" => \A from \in 0..Len(change_events) : Range(fs) \subseteq Range(ChangedSince(change_events', from))
  <2>1. "manual" \in Sources
    BY DEF Sources
  <2> QED
    BY <1>1, <1>3, <2>1, ChangesRouted
<1>5. Told(work_saved'.files, work_saved'.events)
  BY <1>2, JournalTold DEF WorkInv, OneStory
<1>6. OneStory'
  <2>1. disk_changes \cup Range(fs) \cup Range(last_reply') \subseteq disk_changes'
    BY <1>1, <1>2, <1>3 DEF Made
  <2> QED
    BY <1>2, <1>3, <1>4, <1>5, <2>1, StoryGoesOn
<1>7. BetweenTurns'
  <2>1. work_at' \in {"idle", "over"}
    BY <1>2 DEF EndOf
  <2> QED
    BY <1>2, <2>1 DEF WorkInv, BetweenTurns
<1>8. owed' \subseteq Looked'
  <2>1. Len(change_events) \in Nat
    BY EventsKnown DEF WorkInv, OneStory, Told
  <2>2. CASE work_of = "session"
    <3>1. Len(change_events) \in 0..Len(change_events)
      BY <2>1
    <3>2. Range(fs) \subseteq Range(ChangedSince(change_events', Len(change_events)))
      BY <1>4, <2>2, <3>1
    <3> QED
      BY <1>1, <1>2, <2>2, <3>2 DEF Looked
  <2>3. CASE work_of # "session"
    BY <1>1, <1>2, <1>4, <2>3 DEF Looked, Routed
  <2> QED
    BY <2>2, <2>3
<1>9. SeenTo'
  BY <1>2, <1>6, <1>8, EndTells DEF WorkInv, BetweenTurns
<1>10. InSight'
  BY <1>2 DEF EndOf, InSight
<1> QED
  BY <1>6, <1>7, <1>9, <1>10 DEF WorkInv

LEMMA AskKeeps == ASSUME WorkInv, Ask PROVE WorkInv'
<1>1. /\ work_at = "idle" /\ work_at' = "turn" /\ UNCHANGED <<work_of, auto_test, work_saved>>
      /\ events_before' = Len(change_events) /\ last_reply' \in Natives /\ Made(last_reply')
  BY DEF Ask, Work
<1>2. last_reply' \in FileLists /\ <<>> \in FileLists /\ Range(<<>>) = {}
  BY <1>1, NativesKnown, ListsKnown
<1>3. Told(work_saved'.files, work_saved'.events)
  BY <1>1 DEF WorkInv, OneStory
<1>4. BetweenTurns'
  BY <1>1 DEF WorkInv, BetweenTurns
<1>5. SeenTo'
  BY <1>1 DEF SeenTo
<1>6. disk_changes' = disk_changes \cup Range(last_reply')
  BY <1>1 DEF Made
<1>7. CASE work_of = "prompt"
  <2>1. RecordFiles(last_reply') /\ owed' = Range(last_reply')
    BY <1>7 DEF Ask
  <2>2. PICK fs : fs = last_reply'
    BY Zenon
  <2>3. Routed(fs)
    BY <1>2, <2>1, <2>2, FilesRouted
  <2>4. OneStory'
    BY <1>1, <1>2, <1>3, <1>6, <2>2, <2>3, StoryGoesOn
  <2>5. InSight'
    BY <1>1, <1>7, <2>1, <2>2, <2>3 DEF InSight, Looked, Routed
  <2> QED
    BY <1>4, <1>5, <2>4, <2>5 DEF WorkInv
<1>8. CASE work_of # "prompt"
  <2>1. RecordNone /\ owed' = {}
    BY <1>8 DEF Ask
  <2>2. Routed(<<>>)
    BY <2>1, NoneRouted
  <2>3. OneStory'
    BY <1>1, <1>2, <1>3, <1>6, <2>2, StoryGoesOn
  <2>4. InSight'
    BY <2>1 DEF InSight
  <2> QED
    BY <1>4, <1>5, <2>3, <2>4 DEF WorkInv
<1> QED
  BY <1>7, <1>8

\* A step inside a turn.
LEMMA LoopKeeps ==
  ASSUME WorkInv, work_at \in {"turn", "loop"}, work_at' = "loop", UNCHANGED <<work_of, auto_test, events_before>>,
         NEW fs \in FileLists, Routed(fs), last_reply' \in FileLists,
         disk_changes \cup Range(fs) \cup Range(last_reply') \subseteq disk_changes',
         Told(work_saved'.files, work_saved'.events), owed' = owed \/ owed' \subseteq Looked'
  PROVE  WorkInv'
<1>1. OneStory'
  BY StoryGoesOn
<1>2. BetweenTurns' /\ SeenTo'
  BY DEF WorkInv, BetweenTurns, SeenTo
<1>3. InSight'
  BY StaysInSight DEF InSight
<1> QED
  BY <1>1, <1>2, <1>3 DEF WorkInv

\* Such a step that records nothing.
LEMMA NoneKeeps ==
  ASSUME WorkInv, work_at \in {"turn", "loop"}, work_at' = "loop", UNCHANGED <<work_of, auto_test, events_before>>,
         RecordNone, UNCHANGED <<last_reply, disk_changes, owed>>, Told(work_saved'.files, work_saved'.events)
  PROVE  WorkInv'
<1>1. last_reply' \in FileLists /\ <<>> \in FileLists /\ Range(<<>>) = {} /\ Range(last_reply') \subseteq disk_changes'
  BY ListsKnown DEF WorkInv, OneStory
<1>2. disk_changes \cup Range(<<>>) \cup Range(last_reply') \subseteq disk_changes'
  BY <1>1
<1> QED
  BY <1>1, <1>2, NoneRouted, LoopKeeps

LEMMA OnKeeps == ASSUME WorkInv, WorkOn PROVE WorkInv'
<1>1. /\ work_at = "turn" /\ work_at' = "loop" /\ UNCHANGED <<work_of, auto_test, events_before>>
      /\ RecordNone /\ UNCHANGED <<last_reply, disk_changes, owed>>
      /\ work_saved' \in {work_saved, Listing(changed_files, change_events, TRUE)}
  BY DEF WorkOn, Work, RecordNone
<1>2. Told(work_saved'.files, work_saved'.events)
  BY <1>1, JournalTold DEF WorkInv, OneStory
<1> QED
  BY <1>1, <1>2, NoneKeeps

LEMMA CallKeeps == ASSUME WorkInv, CallInLoop PROVE WorkInv'
<1>1. /\ work_at = "loop" /\ work_at' = "loop" /\ UNCHANGED <<work_of, auto_test, events_before, last_reply, work_saved>>
  BY DEF CallInLoop, Work
<1>2. Told(work_saved'.files, work_saved'.events)
  BY <1>1 DEF WorkInv, OneStory
<1>3. CASE RecordNone /\ UNCHANGED <<owed, disk_changes>>
  BY <1>1, <1>2, <1>3, NoneKeeps
<1>4. ASSUME NEW f \in WorkFiles, RecordChanges("auto", <<f>>), Made(<<f>>), owed' = owed \cup {f}
      PROVE  WorkInv'
  <2>1. <<f>> \in FileLists /\ Range(<<f>>) = {f}
    BY ListsKnown
  <2>2. /\ Routed(<<f>>)
        /\ work_of = "session" => \A from \in 0..Len(change_events) : Range(<<f>>) \subseteq Range(ChangedSince(change_events', from))
    <3>1. "auto" \in Sources
      BY DEF Sources
    <3> QED
      BY <1>4, <2>1, <3>1, ChangesRouted
  <2>3. f \in Looked'
    <3>1. CASE work_of = "session"
      <4>1. events_before \in 0..Len(change_events)
        BY EventsKnown DEF WorkInv, OneStory, Told
      <4>2. f \in Range(ChangedSince(change_events', events_before))
        BY <2>1, <2>2, <3>1, <4>1
      <4> QED
        BY <1>1, <3>1, <4>2 DEF Looked
    <3>2. CASE work_of # "session"
      BY <1>1, <2>1, <2>2, <3>2 DEF Looked, Routed
    <3> QED
      BY <3>1, <3>2
  <2>4. owed \subseteq Looked'
    BY <1>1, <2>1, <2>2, StaysInSight
  <2>5. last_reply' \in FileLists /\ disk_changes \cup Range(<<f>>) \cup Range(last_reply') \subseteq disk_changes'
    BY <1>1, <1>4 DEF WorkInv, OneStory, Made
  <2>6. owed' \subseteq Looked'
    BY <1>4, <2>3, <2>4
  <2> QED
    BY <1>1, <1>2, <2>1, <2>2, <2>5, <2>6, LoopKeeps
<1> QED
  BY <1>3, <1>4 DEF CallInLoop

LEMMA SynopsisKeeps == ASSUME WorkInv, ReadInLoop PROVE WorkInv'
<1>1. /\ work_at = "loop" /\ work_at' = "loop" /\ UNCHANGED <<work_of, auto_test, events_before>> /\ RecordNone
      /\ UNCHANGED <<last_reply, disk_changes, owed>> /\ work_saved' = work_saved
  BY DEF ReadInLoop, Work
<1>2. Told(work_saved'.files, work_saved'.events)
  BY <1>1 DEF WorkInv, OneStory
<1> QED
  BY <1>1, <1>2, NoneKeeps

\* Another turn of the engine.
LEMMA TurnKeeps ==
  ASSUME WorkInv, TurnInLoop(TRUE), NEW fs \in FileLists, fs \in {<<>>, last_reply'}, Routed(fs), Told(work_saved'.files, work_saved'.events)
  PROVE  WorkInv'
<1>1. /\ work_at = "loop" /\ work_at' = "loop" /\ UNCHANGED <<work_of, auto_test, events_before, owed>>
      /\ last_reply' \in Natives /\ disk_changes' = disk_changes \cup Range(last_reply')
  BY DEF TurnInLoop, Work, Made
<1>2. last_reply' \in FileLists /\ Range(<<>>) = {}
  BY <1>1, NativesKnown, ListsKnown
<1>3. disk_changes \cup Range(fs) \cup Range(last_reply') \subseteq disk_changes'
  BY <1>1, <1>2
<1> QED
  BY <1>1, <1>2, <1>3, LoopKeeps

LEMMA TurnsKeep == ASSUME WorkInv, FollowUp \/ Nudge \/ Press \/ PassGate PROVE WorkInv'
<1>1. TurnInLoop(TRUE) /\ last_reply' \in FileLists
  BY NativesKnown DEF FollowUp, Nudge, Press, PassGate, TurnInLoop
<1>2. PICK fs : fs = last_reply'
  BY Zenon
<1>3. Told(work_saved.files, work_saved.events)
  BY DEF WorkInv, OneStory
<1>4. CASE FollowUp \/ Nudge
  <2>1. RecordChanges("auto_native", fs) /\ fs \in FileLists
    BY <1>1, <1>2, <1>4 DEF FollowUp, Nudge, TurnInLoop
  <2>2. Routed(fs)
    <3>1. "auto_native" \in Sources
      BY DEF Sources
    <3> QED
      BY <2>1, <3>1, ChangesRouted
  <2>3. work_saved' \in {work_saved, Listing(changed_files', change_events', TRUE)}
    BY <1>4 DEF FollowUp, Nudge
  <2>4. Told(work_saved'.files, work_saved'.events)
    <3>1. Told(changed_files', change_events')
      BY <2>2 DEF Routed, Told
    <3> QED
      BY <1>3, <2>3, <3>1, JournalTold
  <2> QED
    BY <1>1, <1>2, <2>1, <2>2, <2>4, TurnKeeps
<1>5. CASE Press
  <2>1. RecordFiles(fs) /\ fs \in FileLists /\ work_saved' = work_saved
    BY <1>1, <1>2, <1>5 DEF Press, TurnInLoop
  <2>2. Routed(fs)
    BY <2>1, FilesRouted
  <2> QED
    BY <1>1, <1>2, <1>3, <2>1, <2>2, TurnKeeps
<1>6. CASE PassGate
  <2>1. RecordNone /\ work_saved' = work_saved
    BY <1>6 DEF PassGate, TurnInLoop
  <2>2. Routed(<<>>) /\ <<>> \in FileLists
    BY <2>1, NoneRouted, ListsKnown
  <2> QED
    BY <1>1, <1>3, <2>1, <2>2, TurnKeeps
<1> QED
  BY <1>4, <1>5, <1>6

LEMMA FinishWorkKeeps == ASSUME WorkInv, FinishWork PROVE WorkInv'
<1>1. /\ work_at \in {"turn", "loop"} /\ UNCHANGED <<work_of, markers, auto_test, events_before, owed, disk_changes>>
      /\ EndOf /\ last_reply' = <<>>
  BY DEF FinishWork
<1>2. last_reply \in FileLists /\ <<>> \in FileLists /\ Range(<<>>) = {} /\ Range(last_reply) \subseteq disk_changes
  BY ListsKnown DEF WorkInv, OneStory
<1>3. PICK fs \in {<<>>, last_reply} : Routed(fs)
  <2>1. CASE work_of = "session"
    <3>1. RecordChanges("native", last_reply)
      BY <2>1 DEF FinishWork
    <3> QED
      <4>1. "native" \in Sources
        BY DEF Sources
      <4> QED
        BY <1>2, <3>1, <4>1, ChangesRouted
  <2>2. CASE work_of # "session"
    <3>1. RecordNone
      BY <2>2 DEF FinishWork
    <3> QED
      BY <3>1, NoneRouted
  <2> QED
    BY <2>1, <2>2
<1>4. Told(work_saved'.files, work_saved'.events)
  <2>1. work_saved' \in {work_saved, NoListing, Listing(changed_files, change_events, FALSE)}
    BY DEF FinishWork
  <2> QED
    BY <2>1, JournalTold DEF WorkInv, OneStory
<1>5. OneStory'
  BY <1>1, <1>2, <1>3, <1>4, StoryGoesOn
<1>6. owed' \subseteq Looked'
  BY <1>1, <1>2, <1>3, StaysInSight
<1>7. SeenTo'
  BY <1>1, <1>5, <1>6, EndTells DEF WorkInv, BetweenTurns
<1>8. BetweenTurns' /\ InSight'
  BY <1>1 DEF WorkInv, BetweenTurns, InSight, EndOf
<1> QED
  BY <1>5, <1>7, <1>8 DEF WorkInv

LEMMA BetweenKeeps == ASSUME WorkInv, ClearChanges \/ GoDown \/ Return PROVE WorkInv'
<1>1. /\ <<>> \in FileLists /\ <<>> \in EventLists /\ Len(<<>>) = 0 /\ Range(<<>>) = {} /\ FilesOf(<<>>) = {}
  BY ListsKnown, EventsKnown
<1>2. /\ UNCHANGED <<work_of, auto_test, work_saved>> /\ owed' = {}
  BY DEF ClearChanges, GoDown, Return, Work, WorkInv, BetweenTurns
<1>3. CASE ClearChanges \/ GoDown
  <2>1. /\ changed_files' = <<>> /\ change_events' = <<>> /\ disk_changes' = {} /\ events_before' = 0 /\ last_reply' = <<>>
    BY <1>3 DEF ClearChanges, GoDown, WorkInv, BetweenTurns
  <2>2. OneStory'
    BY <1>1, <1>2, <2>1 DEF WorkInv, OneStory, Told
  <2>3. BetweenTurns' /\ InSight' /\ SeenTo'
    BY <1>2, <2>1 DEF WorkInv, BetweenTurns, InSight, SeenTo
  <2> QED
    BY <2>2, <2>3 DEF WorkInv
<1>4. CASE Return
  <2>1. /\ work_at = "down" /\ events_before' = 0 /\ last_reply' = <<>> /\ disk_changes' = Range(changed_files')
    BY <1>4 DEF Return, WorkInv, BetweenTurns
  <2>2. \/ changed_files' = work_saved.files /\ change_events' = work_saved.events
        \/ changed_files' = changed_files /\ change_events' = change_events
    BY <1>4 DEF Return, RecordNone
  <2>3. Told(changed_files', change_events')
    BY <2>2 DEF WorkInv, OneStory
  <2>4. Len(change_events') \in Nat /\ 0 <= Len(change_events')
    <3>1. PICK ce : ce = change_events'
      BY Zenon
    <3>2. Len(ce) \in Nat
      BY <2>3, <3>1, EventsKnown DEF Told
    <3> QED
      BY <3>1, <3>2
  <2>5. OneStory'
    BY <1>1, <1>2, <2>1, <2>3, <2>4 DEF WorkInv, OneStory
  <2>6. BetweenTurns' /\ InSight' /\ SeenTo'
    BY <1>2, <2>1 DEF WorkInv, BetweenTurns, InSight, SeenTo
  <2> QED
    BY <2>5, <2>6 DEF WorkInv
<1> QED
  BY <1>3, <1>4

\* The lists of the journal behind those of the session: a file that was validated, or
\* for which the limit was reached, still is.
LEMMA ResumeKeeps == ASSUME WorkInv, ResumeChanges PROVE WorkInv'
<1>1. /\ work_at = "idle" /\ work_at' = "idle"
      /\ UNCHANGED <<work_of, markers, auto_test, events_before, last_reply, work_saved, checked, owed>>
      /\ changed_files' = Pushed(changed_files, work_saved.files) /\ change_events' = change_events \o work_saved.events
      /\ disk_changes' = disk_changes \cup Range(work_saved.files)
  BY DEF ResumeChanges, Work
<1>2. /\ changed_files \in FileLists /\ change_events \in EventLists /\ FilesOf(change_events) \subseteq Range(changed_files)
      /\ work_saved.files \in FileLists /\ work_saved.events \in EventLists
      /\ FilesOf(work_saved.events) \subseteq Range(work_saved.files)
  BY DEF WorkInv, OneStory, Told
<1>3. /\ changed_files' \in FileLists /\ Len(changed_files) <= Len(changed_files')
      /\ \A i \in 1..Len(changed_files) : changed_files'[i] = changed_files[i]
      /\ Range(changed_files') = Range(changed_files) \cup Range(work_saved.files)
  BY <1>1, <1>2, PushedHas
<1>4. /\ change_events' \in EventLists /\ Len(change_events) <= Len(change_events')
      /\ FilesOf(change_events') \subseteq FilesOf(change_events) \cup FilesOf(work_saved.events)
  BY <1>1, <1>2, EventsJoined
<1>5. OneStory'
  <2>1. events_before' \in Nat /\ events_before' <= Len(change_events')
    <3>1. PICK b : b = events_before'
      BY Zenon
    <3>2. PICK n : n = Len(change_events')
      BY Zenon
    <3>3. Len(change_events) \in Nat /\ n \in Nat /\ Len(change_events) <= n
      BY <1>2, <1>4, <3>2, EventsKnown
    <3>4. b \in Nat /\ b <= Len(change_events)
      BY <1>1, <3>1 DEF WorkInv, OneStory
    <3> QED
      BY <3>1, <3>2, <3>3, <3>4
  <2>2. Told(changed_files', change_events')
    BY <1>2, <1>3, <1>4 DEF Told
  <2> QED
    BY <1>1, <1>3, <2>1, <2>2 DEF WorkInv, OneStory
<1>6. BetweenTurns' /\ InSight'
  BY <1>1 DEF WorkInv, BetweenTurns, InSight
<1>7. SeenTo'
  <2> SUFFICES ASSUME NEW f \in owed PROVE Validated(f)' /\ Tested(f)'
    BY <1>1 DEF SeenTo
  <2>1. Validated(f) /\ Tested(f)
    BY <1>1 DEF WorkInv, SeenTo
  <2>2. Cardinality(OfKind(changed_files, "python")) > PyChecks => Cardinality(OfKind(changed_files', "python")) > PyChecks
    <3>1. PICK cf : cf = changed_files'
      BY Zenon
    <3>2. /\ Cardinality(OfKind(changed_files, "python")) \in Nat /\ Cardinality(OfKind(cf, "python")) \in Nat
          /\ Cardinality(OfKind(changed_files, "python")) <= Cardinality(OfKind(cf, "python"))
      BY <1>2, <1>3, <3>1, KindsGrow
    <3>3. Cardinality(OfKind(changed_files, "python")) > PyChecks => Cardinality(OfKind(cf, "python")) > PyChecks
      BY <3>2, WorkBounds
    <3> QED
      BY <3>1, <3>3
  <2>3. Validated(f)'
    BY <1>1, <2>1, <2>2 DEF Validated
  <2>4. Tested(f)'
    BY <1>1, <2>1 DEF Tested
  <2> QED
    BY <2>3, <2>4
<1> QED
  BY <1>5, <1>6, <1>7 DEF WorkInv

LEMMA NextWorks == WorkInv /\ [WorkNext]_workVars => WorkInv'
<1> SUFFICES ASSUME WorkInv, [WorkNext]_workVars PROVE WorkInv'
  OBVIOUS
<1>1. CASE TypedCall \/ Ask
  BY <1>1, TypedKeeps, AskKeeps
<1>2. CASE WorkOn \/ CallInLoop \/ ReadInLoop
  BY <1>2, OnKeeps, CallKeeps, SynopsisKeeps
<1>3. CASE FollowUp \/ Nudge \/ Press \/ PassGate
  BY <1>3, TurnsKeep
<1>4. CASE FinishWork
  BY <1>4, FinishWorkKeeps
<1>5. CASE ClearChanges \/ GoDown \/ Return
  BY <1>5, BetweenKeeps
<1>6. CASE ResumeChanges
  BY <1>6, ResumeKeeps
<1>7. CASE UNCHANGED workVars
  BY <1>7 DEF workVars, WorkInv, OneStory, Told, BetweenTurns, InSight, Looked, SeenTo, Validated, Tested
<1> QED
  BY <1>1, <1>2, <1>3, <1>4, <1>5, <1>6, <1>7 DEF WorkNext

\* What is remembered of the work of a turn, for any files, limits and number of turns:
\* both lists and the validation tell one story, on every route, through a crash and a
\* resume too.
THEOREM ChangesTold == WorkSpec => []ChangesAgree
<1>1. WorkInv => ChangesAgree
  BY DEF WorkInv, OneStory, Told, SeenTo, ChangesAgree
<1> QED
  BY <1>1, InitWork, NextWorks, PTL DEF WorkSpec

------------------------------------------------------------------------------
(* The wiki *)

WikiSpec == WikiInit /\ [][WikiNext]_wikiVars

Pages == Folders \X Nat
Logs == Seq(1..MaxRuns)
Writer ==
  [at : WriterPlaces, op : {"none", "init", "ingest", "query", "lint"}, run : 0..MaxRuns, page : Pages,
   index : SUBSET Pages, missed : SUBSET Pages, log : Logs, unread : SUBSET (1..MaxRuns)]
IndexPlaces == {"page", "read_index", "write_index"}

WikiTypes ==
  /\ layout \in 0..4 /\ second \in 0..MaxSeconds /\ runs \in 0..MaxRuns /\ cuts \in Nat /\ overlaps \in Nat
  /\ DOMAIN wiki_pages \subseteq Pages /\ IsFiniteSet(DOMAIN wiki_pages)
  /\ index \subseteq Pages /\ wiki_log \in Logs /\ writer \in [WikiRuns -> Writer]
  /\ ingested \subseteq 1..runs /\ logged_runs \subseteq 1..MaxRuns

\* The overview is there as soon as init is through.
PagesKnown == DOMAIN wiki_pages \cup {Overview}
Laid ==
  /\ layout < 3 => DOMAIN wiki_pages = {}
  /\ layout = 4 => Overview \in DOMAIN wiki_pages
  /\ index \subseteq PagesKnown /\ \A p \in DOMAIN wiki_pages : wiki_pages[p] \subseteq PagesKnown

\* What a run of the program has in hand, by its place.
RunPlaced(w) ==
  LET r == writer[w]
  IN /\ r.at # "idle" => r.run \in 1..runs
     /\ r.at \in {"overview"} \cup IndexPlaces => layout >= 3
     /\ r.at \in IndexPlaces => r.op \in {"ingest", "query", "lint"}
     /\ r.at = "page" => r.run \notin ingested
     /\ r.at \in {"read_index", "write_index"} => r.page \in DOMAIN wiki_pages
     /\ r.at = "write_index" => r.page \in r.index /\ r.index \subseteq PagesKnown
     /\ r.at = "write_log" => r.run \in Range(r.log)
     /\ r.op = "ingest" => r.page[1] = "sources"
     /\ r.op = "query" => r.page[1] = "analyses"
     /\ r.op = "lint" => r.page[1] = "reports"
OwnRuns == \A w, u \in Busy : w # u => writer[w].run # writer[u].run

\* The causes outnumber the damage, counted with what the runs under way may still do:
\* all of them but one.
CausesCover(damage, active, causes) ==
  /\ IsFiniteSet(damage) /\ IsFiniteSet(active) /\ causes \in Nat
  /\ Cardinality(damage) + Cardinality(active) <= causes + (IF active = {} THEN 0 ELSE 1)

\* Runs that are not in the log, or not in one that will be written, but for what is torn.
LogsAtRisk ==
  {x \in logged_runs \ torn_log :
     \/ x \notin Range(wiki_log)
     \/ \E w \in WikiRuns : At(w, "write_log") /\ x \notin Range(writer[w].log) \cup writer[w].unread}
Indexing == {w \in WikiRuns : writer[w].at \in IndexPlaces}
\* Pages that are not in the index, or not in one that will be written, and not to come.
PagesAtRisk ==
  {p \in DOMAIN wiki_pages \ torn_index :
     /\ p[1] \in {"sources", "analyses"} /\ \A w \in Indexing : writer[w].page # p
     /\ \/ p \notin index
        \/ \E w \in WikiRuns : At(w, "write_index") /\ p \notin writer[w].index \cup writer[w].missed}

\* Sources have their names, or will have.
Naming == {w \in WikiRuns : At(w, "page") /\ writer[w].op = "ingest"}
PageNames == PagesIn("sources") \cup {writer[w].page : w \in Naming}
NamesCover(sources, waiting, names, causes) ==
  /\ IsFiniteSet(sources) /\ IsFiniteSet(waiting) /\ IsFiniteSet(names) /\ causes \in Nat
  /\ Cardinality(sources) + Cardinality(waiting) <= Cardinality(names) + causes

Counted ==
  /\ CausesCover(LogsAtRisk, Busy, overlaps) /\ CausesCover(PagesAtRisk, Indexing, cuts + overlaps)
  /\ NamesCover(ingested, Naming, PageNames, overlaps) /\ Cardinality(PagesIn("sources")) <= Cardinality(ingested)

WikiInv == WikiTypes /\ Laid /\ (\A w \in WikiRuns : RunPlaced(w)) /\ OwnRuns /\ Counted

LEMMA LogsKnown ==
  /\ <<>> \in Logs /\ Range(<<>>) = {}
  /\ \A log \in Logs : Range(log) \subseteq 1..MaxRuns
  /\ \A log \in Logs, x \in 1..MaxRuns : Append(log, x) \in Logs /\ Range(Append(log, x)) = Range(log) \cup {x}
  /\ \A log \in Logs : Prefixes(log) \subseteq Logs
<1>1. <<>> \in Logs /\ Range(<<>>) = {}
  <2>1. <<>> \in Seq(1..MaxRuns) /\ DOMAIN <<>> = {}
    OBVIOUS
  <2>2. <<>> \in Logs
    BY <2>1 DEF Logs
  <2>3. Range(<<>>) = {}
    BY ONLY <2>1 DEF Range
  <2> QED
    BY <2>2, <2>3
<1>2. \A log \in Logs : Range(log) \subseteq 1..MaxRuns
  <2> DEFINE S == 1..MaxRuns
  <2>1. Logs = Seq(S)
    BY DEF Logs
  <2> HIDE DEF S
  <2>2. \A log \in Seq(S) : Range(log) \subseteq S
    BY DEF Range
  <2> QED
    BY <2>1, <2>2 DEF S
<1>3. ASSUME NEW log \in Logs, NEW x \in 1..MaxRuns
      PROVE  Append(log, x) \in Logs /\ Range(Append(log, x)) = Range(log) \cup {x}
  <2> DEFINE more == Append(log, x)
  <2>1. /\ more \in Logs /\ Len(log) \in Nat /\ DOMAIN log = 1..Len(log) /\ DOMAIN more = 1..(Len(log) + 1)
        /\ more[Len(log) + 1] = x /\ \A i \in 1..Len(log) : more[i] = log[i]
    BY DEF Logs
  <2> HIDE DEF more
  <2>2. \A y : y \in Range(more) <=> \E i \in 1..(Len(log) + 1) : more[i] = y
    BY <2>1 DEF Range
  <2>3. \A y : y \in Range(log) <=> \E i \in 1..Len(log) : log[i] = y
    BY <2>1 DEF Range
  <2>4. \A i : i \in 1..(Len(log) + 1) <=> i \in 1..Len(log) \/ i = Len(log) + 1
    BY <2>1
  <2>5. \A y : y \in Range(more) <=> y \in Range(log) \/ y = x
    BY <2>1, <2>2, <2>3, <2>4
  <2> QED
    BY <2>1, <2>5 DEF more
<1>4. ASSUME NEW log \in Logs, NEW part \in Prefixes(log) PROVE part \in Logs
  <2> DEFINE S == 1..MaxRuns
  <2>1. log \in Seq(S) /\ \E n \in 0..Len(log) : part = SubSeq(log, 1, n)
    BY DEF Prefixes, Logs
  <2> HIDE DEF S
  <2>2. part \in Seq(S)
    <3>1. PICK n \in 0..Len(log) : part = SubSeq(log, 1, n)
      BY <2>1
    <3>2. Len(log) \in Nat /\ n \in Nat /\ n <= Len(log) /\ \A i \in 1..n : log[i] \in S
      BY ONLY <2>1, <3>1
    <3> QED
      BY ONLY <2>1, <3>1, <3>2
  <2> QED
    BY <2>2 DEF Logs, S
<1> QED
  BY <1>1, <1>2, <1>3, <1>4

-----------------------------------------------------------------------------
(* The accounts. *)

LEMMA CountsKnown ==
  ASSUME NEW S, IsFiniteSet(S)
  PROVE  /\ Cardinality(S) \in Nat /\ (S # {} => Cardinality(S) > 0) /\ Cardinality({}) = 0
         /\ \A T : T \subseteq S => IsFiniteSet(T) /\ Cardinality(T) \in Nat /\ Cardinality(T) <= Cardinality(S)
         /\ \A x : /\ IsFiniteSet(S \cup {x}) /\ Cardinality(S \cup {x}) \in Nat /\ Cardinality(S \cup {x}) <= Cardinality(S) + 1
                   /\ x \notin S => Cardinality(S \cup {x}) = Cardinality(S) + 1
                   /\ IsFiniteSet(S \ {x}) /\ Cardinality(S \ {x}) \in Nat /\ Cardinality(S \ {x}) >= Cardinality(S) - 1
                   /\ x \in S => Cardinality(S \ {x}) = Cardinality(S) - 1
<1>1. Cardinality(S) \in Nat /\ (S # {} => Cardinality(S) > 0) /\ Cardinality({}) = 0
  BY FS_CardinalityType, FS_EmptySet
<1>2. ASSUME NEW T, T \subseteq S PROVE IsFiniteSet(T) /\ Cardinality(T) \in Nat /\ Cardinality(T) <= Cardinality(S)
  BY <1>2, FS_Subset, FS_CardinalityType
<1>3. ASSUME NEW x
      PROVE  /\ IsFiniteSet(S \cup {x}) /\ Cardinality(S \cup {x}) \in Nat /\ Cardinality(S \cup {x}) <= Cardinality(S) + 1
             /\ x \notin S => Cardinality(S \cup {x}) = Cardinality(S) + 1
  <2>1. IsFiniteSet(S \cup {x}) /\ Cardinality(S \cup {x}) = IF x \in S THEN Cardinality(S) ELSE Cardinality(S) + 1
    BY FS_AddElement
  <2> QED
    BY <1>1, <2>1
<1>4. ASSUME NEW x
      PROVE  /\ IsFiniteSet(S \ {x}) /\ Cardinality(S \ {x}) \in Nat /\ Cardinality(S \ {x}) >= Cardinality(S) - 1
             /\ x \in S => Cardinality(S \ {x}) = Cardinality(S) - 1
  <2>1. IsFiniteSet(S \ {x}) /\ Cardinality(S \ {x}) = IF x \in S THEN Cardinality(S) - 1 ELSE Cardinality(S)
    BY FS_RemoveElement
  <2>2. Cardinality(S \ {x}) \in Nat
    BY <2>1, FS_CardinalityType
  <2> QED
    BY <1>1, <2>1, <2>2
<1> QED
  BY <1>1, <1>2, <1>3, <1>4

\* No damage is done, and nobody begins.
LEMMA CoversOn ==
  ASSUME NEW E, NEW B, NEW o, CausesCover(E, B, o), NEW E2, E2 \subseteq E, NEW B2, B2 \subseteq B, NEW o2 \in Nat, o2 >= o
  PROVE  CausesCover(E2, B2, o2)
<1>1. /\ Cardinality(B) \in Nat /\ Cardinality(E) \in Nat /\ Cardinality(B2) \in Nat /\ Cardinality(E2) \in Nat
      /\ Cardinality(E2) <= Cardinality(E) /\ Cardinality(B2) <= Cardinality(B) /\ IsFiniteSet(B2) /\ IsFiniteSet(E2)
      /\ B2 # {} => B # {}
      /\ B # {} => Cardinality(B) > 0
      /\ B2 = {} => Cardinality(B2) = 0
  BY CountsKnown DEF CausesCover
<1>2. Cardinality(E) + Cardinality(B) <= o + (IF B = {} THEN 0 ELSE 1) /\ o \in Nat
  BY DEF CausesCover
<1>3. CASE B2 # {}
  <2>1. Cardinality(E) + Cardinality(B) <= o + 1 /\ B2 # {}
    BY <1>1, <1>2, <1>3
  <2>2. Cardinality(E2) + Cardinality(B2) <= o2 + 1
    BY <1>1, <1>2, <2>1
  <2> QED
    BY <1>1, <2>1, <2>2 DEF CausesCover
<1>4. CASE B2 = {}
  <2>1. Cardinality(E) <= o
    BY <1>1, <1>2
  <2>2. Cardinality(E2) + Cardinality(B2) <= o2 + 0
    BY <1>1, <1>2, <1>4, <2>1
  <2> QED
    BY <1>1, <1>4, <2>2 DEF CausesCover
<1> QED
  BY <1>3, <1>4

\* One begins, and if another is active that is a cause.
LEMMA CoversBegun ==
  ASSUME NEW E, NEW B, NEW o, CausesCover(E, B, o), NEW w, NEW o2 \in Nat, o2 >= o, B # {} => o2 >= o + 1
  PROVE  CausesCover(E, B \cup {w}, o2)
<1>1. /\ Cardinality(B) \in Nat /\ Cardinality(E) \in Nat /\ Cardinality(B \cup {w}) \in Nat
      /\ Cardinality(B \cup {w}) <= Cardinality(B) + 1 /\ IsFiniteSet(B \cup {w})
      /\ B = {} => Cardinality(B) = 0
  BY CountsKnown DEF CausesCover
<1>2. Cardinality(E) + Cardinality(B) <= o + (IF B = {} THEN 0 ELSE 1) /\ o \in Nat
  BY DEF CausesCover
<1>3. Cardinality(E) + Cardinality(B \cup {w}) <= o2 + 1
  BY <1>1, <1>2
<1>4. B \cup {w} # {}
  OBVIOUS
<1> QED
  BY <1>1, <1>3, <1>4 DEF CausesCover

\* One leaves, and it may take one thing along if another stays, or if that is a cause.
LEMMA CoversLeft ==
  ASSUME NEW E, NEW B, NEW o, CausesCover(E, B, o), NEW w \in B, NEW x, NEW E2, E2 \subseteq E \cup {x},
         NEW o2 \in Nat, o2 >= o, B \ {w} = {} => o2 >= o + 1
  PROVE  CausesCover(E2, B \ {w}, o2)
<1>1. /\ Cardinality(B) \in Nat /\ Cardinality(E) \in Nat /\ Cardinality(B \ {w}) = Cardinality(B) - 1 /\ Cardinality(B \ {w}) \in Nat
      /\ Cardinality(E \cup {x}) <= Cardinality(E) + 1 /\ IsFiniteSet(B \ {w}) /\ IsFiniteSet(E \cup {x}) /\ B # {}
      /\ Cardinality(E \cup {x}) \in Nat
  BY CountsKnown DEF CausesCover
<1>2. IsFiniteSet(E2) /\ Cardinality(E2) \in Nat /\ Cardinality(E2) <= Cardinality(E \cup {x})
  BY <1>1, CountsKnown
<1>3. Cardinality(E) + Cardinality(B) <= o + 1 /\ o \in Nat
  BY <1>1 DEF CausesCover
<1>4. CASE B \ {w} # {}
  <2>1. Cardinality(E2) + Cardinality(B \ {w}) <= o2 + 1
    BY <1>1, <1>2, <1>3
  <2> QED
    BY <1>1, <1>2, <1>4, <2>1 DEF CausesCover
<1>5. CASE B \ {w} = {}
  <2>1. Cardinality(E2) + Cardinality(B \ {w}) <= o2 + 0
    BY <1>1, <1>2, <1>3, <1>5
  <2> QED
    BY <1>1, <1>2, <1>5, <2>1 DEF CausesCover
<1> QED
  BY <1>4, <1>5

LEMMA NamedOn ==
  ASSUME NEW S, NEW W, NEW N, NEW o, NamesCover(S, W, N, o), NEW N2, IsFiniteSet(N2), N \subseteq N2, NEW o2 \in Nat, o2 >= o
  PROVE  NamesCover(S, W, N2, o2)
<1>1. /\ Cardinality(S) \in Nat /\ Cardinality(W) \in Nat /\ Cardinality(N) \in Nat /\ Cardinality(N2) \in Nat
      /\ Cardinality(N) <= Cardinality(N2)
  BY CountsKnown DEF NamesCover
<1>2. Cardinality(S) + Cardinality(W) <= Cardinality(N) + o /\ o \in Nat
  BY DEF NamesCover
<1>3. Cardinality(S) + Cardinality(W) <= Cardinality(N2) + o2
  BY <1>1, <1>2
<1> QED
  BY <1>3 DEF NamesCover

\* A name is chosen, which is new, or that is a cause.
LEMMA NamedBegun ==
  ASSUME NEW S, NEW W, NEW N, NEW o, NamesCover(S, W, N, o), NEW w, NEW p, NEW o2 \in Nat, o2 >= o, p \in N => o2 >= o + 1
  PROVE  NamesCover(S, W \cup {w}, N \cup {p}, o2)
<1>1. /\ Cardinality(S) \in Nat /\ Cardinality(W) \in Nat /\ Cardinality(N) \in Nat /\ Cardinality(N \cup {p}) \in Nat
      /\ Cardinality(W \cup {w}) \in Nat /\ Cardinality(W \cup {w}) <= Cardinality(W) + 1
      /\ p \notin N => Cardinality(N \cup {p}) = Cardinality(N) + 1
      /\ p \in N => Cardinality(N \cup {p}) = Cardinality(N)
      /\ IsFiniteSet(W \cup {w}) /\ IsFiniteSet(N \cup {p})
  <2>1. p \in N => N \cup {p} = N
    OBVIOUS
  <2> QED
    BY <2>1, CountsKnown DEF NamesCover
<1>2. Cardinality(S) + Cardinality(W) <= Cardinality(N) + o /\ o \in Nat
  BY DEF NamesCover
<1>3. Cardinality(S) + Cardinality(W \cup {w}) <= Cardinality(N \cup {p}) + o2
  BY <1>1, <1>2
<1> QED
  BY <1>1, <1>3 DEF NamesCover

\* A source is written under its name.
LEMMA NamedWritten ==
  ASSUME NEW S, NEW W, NEW N, NEW o, NamesCover(S, W, N, o), NEW w \in W, NEW r
  PROVE  NamesCover(S \cup {r}, W \ {w}, N, o)
<1>1. /\ Cardinality(S) \in Nat /\ Cardinality(W) \in Nat /\ Cardinality(N) \in Nat
      /\ Cardinality(S \cup {r}) \in Nat /\ Cardinality(S \cup {r}) <= Cardinality(S) + 1
      /\ Cardinality(W \ {w}) = Cardinality(W) - 1
      /\ IsFiniteSet(W \ {w}) /\ IsFiniteSet(S \cup {r})
  BY CountsKnown DEF NamesCover
<1>2. Cardinality(S) + Cardinality(W) <= Cardinality(N) + o /\ o \in Nat
  BY DEF NamesCover
<1>3. Cardinality(S \cup {r}) + Cardinality(W \ {w}) <= Cardinality(N) + o
  BY <1>1, <1>2
<1> QED
  BY <1>1, <1>3 DEF NamesCover

\* A name is given up.
LEMMA NamedLeft ==
  ASSUME NEW S, NEW W, NEW N, NEW o, NamesCover(S, W, N, o), NEW w \in W, NEW p, NEW N2, IsFiniteSet(N2), N \ {p} \subseteq N2
  PROVE  NamesCover(S, W \ {w}, N2, o)
<1>1. /\ Cardinality(S) \in Nat /\ Cardinality(W) \in Nat /\ Cardinality(N) \in Nat /\ Cardinality(N2) \in Nat
      /\ Cardinality(N \ {p}) \in Nat /\ Cardinality(N \ {p}) >= Cardinality(N) - 1 /\ Cardinality(N \ {p}) <= Cardinality(N2)
      /\ Cardinality(W \ {w}) = Cardinality(W) - 1
      /\ IsFiniteSet(W \ {w})
  BY CountsKnown DEF NamesCover
<1>2. Cardinality(S) + Cardinality(W) <= Cardinality(N) + o /\ o \in Nat
  BY DEF NamesCover
<1>3. Cardinality(S) + Cardinality(W \ {w}) <= Cardinality(N2) + o
  BY <1>1, <1>2
<1> QED
  BY <1>1, <1>3 DEF NamesCover

LEMMA CoversSays == ASSUME NEW E, NEW B, NEW o, CausesCover(E, B, o) PROVE Cardinality(E) \in Nat /\ Cardinality(E) <= o
<1>1. /\ Cardinality(B) \in Nat /\ Cardinality(E) \in Nat /\ (B # {} => Cardinality(B) > 0)
  BY CountsKnown DEF CausesCover
<1>2. Cardinality(E) + Cardinality(B) <= o + (IF B = {} THEN 0 ELSE 1) /\ o \in Nat
  BY DEF CausesCover
<1> QED
  BY <1>1, <1>2

\* Those who wait have at most a name each.
LEMMA NamesCounted ==
  ASSUME NEW P, IsFiniteSet(P), NEW W, IsFiniteSet(W), NEW g
  PROVE  LET N == P \cup {g[w].page : w \in W}
         IN IsFiniteSet(N) /\ Cardinality(N) \in Nat /\ Cardinality(N) <= Cardinality(P) + Cardinality(W)
<1> DEFINE f == [w \in W |-> g[w].page]
           T == {f[w] : w \in W}
<1>1. IsFiniteSet(T) /\ Cardinality(T) <= Cardinality(W)
  <2>1. f \in Surjection(W, T)
    <3>1. f \in [W -> T]
      OBVIOUS
    <3> QED
      BY <3>1 DEF Surjection
  <2> HIDE DEF f, T
  <2> QED
    BY <2>1, FS_Surjection
<1>2. T = {g[w].page : w \in W}
  OBVIOUS
<1> HIDE DEF T
<1>3. IsFiniteSet(P \cup T) /\ Cardinality(P \cup T) = Cardinality(P) + Cardinality(T) - Cardinality(P \cap T)
  BY <1>1, FS_Union
<1>4. /\ Cardinality(P) \in Nat /\ Cardinality(T) \in Nat /\ Cardinality(W) \in Nat /\ Cardinality(P \cap T) \in Nat
      /\ Cardinality(P \cup T) \in Nat
  <2>1. IsFiniteSet(P \cap T)
    BY FS_Intersection
  <2> QED
    BY <1>1, <1>3, <2>1, FS_CardinalityType
<1>5. Cardinality(P \cup T) <= Cardinality(P) + Cardinality(W)
  BY <1>1, <1>3, <1>4
<1> QED
  BY <1>2, <1>3, <1>4, <1>5

LEMMA WikiTold == WikiInv => WikiAccounts
<1> SUFFICES ASSUME WikiInv PROVE WikiAccounts
  OBVIOUS
<1>1. layout \in 0..4 /\ (layout = 4 => Overview \in DOMAIN wiki_pages) /\ IsFiniteSet(DOMAIN wiki_pages)
  BY DEF WikiInv, WikiTypes, Laid
<1>2. PagesKnown \subseteq DOMAIN wiki_pages \cup Unwritten
  BY <1>1 DEF PagesKnown, Unwritten
<1>3. index \subseteq DOMAIN wiki_pages \cup Unwritten
  BY <1>2 DEF WikiInv, Laid
<1>4. \A link \in BrokenLinks : link[2] \in Unwritten
  <2> SUFFICES ASSUME NEW link \in BrokenLinks PROVE link[2] \in Unwritten
    OBVIOUS
  <2>1. PICK p \in DOMAIN wiki_pages : link \in {<<p, q>> : q \in wiki_pages[p] \ DOMAIN wiki_pages}
    BY DEF BrokenLinks
  <2>2. PICK q \in wiki_pages[p] \ DOMAIN wiki_pages : link = <<p, q>>
    BY <2>1
  <2>3. q \in PagesKnown
    BY <2>2 DEF WikiInv, Laid
  <2> QED
    BY <1>2, <2>2, <2>3
<1>5. Cardinality({p \in MissingInIndex \ (PagesInWork \cup torn_index) : p[1] \in {"sources", "analyses"}}) <= cuts + overlaps
  <2> DEFINE missing == {p \in MissingInIndex \ (PagesInWork \cup torn_index) : p[1] \in {"sources", "analyses"}}
  <2>1. ASSUME NEW p \in missing, NEW w \in Indexing PROVE writer[w].page # p
    <3>1. writer[w].op \in {"ingest", "query", "lint"} /\ (writer[w].op = "lint" => writer[w].page[1] = "reports")
      BY DEF Indexing, WikiInv, RunPlaced
    <3>2. CASE writer[w].op = "lint"
      BY <3>1, <3>2
    <3>3. CASE writer[w].op # "lint"
      <4>1. w \in Busy
        BY DEF Busy, Indexing, IndexPlaces
      <4>2. writer[w].page \in PagesInWork
        BY <3>1, <3>3, <4>1 DEF PagesInWork
      <4> QED
        BY <4>2
    <3> QED
      BY <3>2, <3>3
  <2>2. missing \subseteq PagesAtRisk
    <3> SUFFICES ASSUME NEW p \in missing PROVE p \in PagesAtRisk
      OBVIOUS
    <3>1. p \in DOMAIN wiki_pages \ torn_index /\ p \notin index /\ p[1] \in {"sources", "analyses"}
      BY DEF MissingInIndex
    <3> HIDE DEF missing
    <3> QED
      BY <2>1, <3>1 DEF PagesAtRisk
  <2> HIDE DEF missing
  <2>3. CausesCover(PagesAtRisk, Indexing, cuts + overlaps)
    BY DEF WikiInv, Counted
  <2>4. IsFiniteSet(PagesAtRisk) /\ Cardinality(PagesAtRisk) \in Nat /\ Cardinality(PagesAtRisk) <= cuts + overlaps
    BY <2>3, CoversSays DEF CausesCover
  <2>5. Cardinality(missing) \in Nat /\ Cardinality(missing) <= Cardinality(PagesAtRisk)
    BY <2>2, <2>4, CountsKnown
  <2>6. cuts + overlaps \in Nat
    BY <2>3 DEF CausesCover
  <2>7. Cardinality(missing) <= cuts + overlaps
    BY <2>4, <2>5, <2>6
  <2> QED
    BY <2>7 DEF missing
<1>6. Cardinality(logged_runs \ (Range(wiki_log) \cup torn_log)) <= overlaps
  <2>1. logged_runs \ (Range(wiki_log) \cup torn_log) \subseteq LogsAtRisk
    BY DEF LogsAtRisk
  <2>2. CausesCover(LogsAtRisk, Busy, overlaps) /\ overlaps \in Nat
    BY DEF WikiInv, Counted, CausesCover
  <2>3. IsFiniteSet(LogsAtRisk) /\ Cardinality(LogsAtRisk) \in Nat /\ Cardinality(LogsAtRisk) <= overlaps
    BY <2>2, CoversSays DEF CausesCover
  <2>4. Cardinality(logged_runs \ (Range(wiki_log) \cup torn_log)) \in Nat /\ Cardinality(logged_runs \ (Range(wiki_log) \cup torn_log)) <= Cardinality(LogsAtRisk)
    BY <2>1, <2>3, CountsKnown
  <2> QED
    BY <2>2, <2>3, <2>4
<1>7. Cardinality(ingested) <= Cardinality(PagesIn("sources")) + overlaps
  <2>1. NamesCover(ingested, Naming, PageNames, overlaps)
    BY DEF WikiInv, Counted
  <2>2. IsFiniteSet(PagesIn("sources"))
    BY <1>1, CountsKnown DEF PagesIn
  <2>3. Cardinality(PageNames) \in Nat /\ Cardinality(PageNames) <= Cardinality(PagesIn("sources")) + Cardinality(Naming)
    BY <2>1, <2>2, NamesCounted DEF PageNames, NamesCover
  <2>4. Cardinality(ingested) \in Nat /\ Cardinality(Naming) \in Nat /\ Cardinality(PagesIn("sources")) \in Nat /\ overlaps \in Nat
    BY <2>1, <2>2, CountsKnown DEF NamesCover
  <2>5. Cardinality(ingested) + Cardinality(Naming) <= Cardinality(PageNames) + overlaps
    BY <2>1 DEF NamesCover
  <2> QED
    BY <2>3, <2>4, <2>5
<1> QED
  BY <1>3, <1>4, <1>5, <1>6, <1>7 DEF WikiAccounts

LEMMA WikiTyped == WikiInv => WikiTypeOK
<1> SUFFICES ASSUME WikiInv PROVE WikiTypeOK
  OBVIOUS
<1>1. /\ layout \in 0..4 /\ second \in 0..MaxSeconds /\ DOMAIN wiki_pages \subseteq Pages
      /\ index \subseteq Pages /\ wiki_log \in Logs /\ writer \in [WikiRuns -> Writer]
  BY DEF WikiInv, WikiTypes
<1>2. \A p \in Pages : p[1] \in Folders
  BY DEF Pages
<1>3. Range(wiki_log) \subseteq 1..MaxRuns
  BY <1>1, LogsKnown
<1>4. \A w \in WikiRuns : writer[w].at \in WriterPlaces
  BY <1>1 DEF Writer
<1> QED
  BY <1>1, <1>2, <1>3, <1>4 DEF WikiTypeOK

LEMMA InitWiki == WikiInit => WikiInv
<1> SUFFICES ASSUME WikiInit PROVE WikiInv
  OBVIOUS
<1>1. /\ layout = 0 /\ DOMAIN wiki_pages = {} /\ index = {} /\ wiki_log = <<>> /\ second = 0 /\ runs = 0
      /\ ingested = {} /\ logged_runs = {} /\ cuts = 0 /\ overlaps = 0
      /\ writer = [w \in WikiRuns |-> NotRunning] /\ MaxRuns \in Nat /\ MaxSeconds \in Nat
  BY WikiBounds DEF WikiInit, NoPages
<1>2. Overview \in Pages
  BY DEF Overview, Page, Pages, Folders
<1>3. NotRunning \in Writer /\ NotRunning.at = "idle" /\ NotRunning.op = "none"
  BY <1>1, <1>2, LogsKnown DEF NotRunning, Writer, WriterPlaces
<1>4. IsFiniteSet({}) /\ Cardinality({}) = 0
  BY FS_EmptySet
<1>5. WikiTypes
  BY <1>1, <1>3, <1>4, LogsKnown DEF WikiTypes
<1>6. Laid
  BY <1>1 DEF Laid
<1>7. \A w \in WikiRuns : RunPlaced(w)
  BY <1>1, <1>3 DEF RunPlaced, IndexPlaces
<1>8. Busy = {} /\ Indexing = {} /\ Naming = {} /\ LogsAtRisk = {} /\ PagesAtRisk = {} /\ PagesIn("sources") = {} /\ PageNames = {}
  BY <1>1, <1>3 DEF Busy, Indexing, IndexPlaces, Naming, At, LogsAtRisk, PagesAtRisk, PagesIn, PageNames
<1>9. OwnRuns
  BY <1>8 DEF OwnRuns
<1>10. Counted
  <2>1. CausesCover({}, {}, 0) /\ NamesCover({}, {}, {}, 0)
    BY <1>4 DEF CausesCover, NamesCover
  <2>2. cuts + overlaps = 0
    BY <1>1
  <2>3. CausesCover(LogsAtRisk, Busy, overlaps) /\ CausesCover(PagesAtRisk, Indexing, cuts + overlaps)
    BY ONLY <1>1, <1>8, <2>1, <2>2
  <2>4. NamesCover(ingested, Naming, PageNames, overlaps)
    BY ONLY <1>1, <1>8, <2>1
  <2>5. Cardinality(PagesIn("sources")) <= Cardinality(ingested)
    <3>1. Cardinality(PagesIn("sources")) = 0 /\ Cardinality(ingested) = 0
      BY ONLY <1>1, <1>4, <1>8
    <3> QED
      BY <3>1
  <2> QED
    BY <2>3, <2>4, <2>5 DEF Counted
<1> QED
  BY <1>5, <1>6, <1>7, <1>9, <1>10 DEF WikiInv

-----------------------------------------------------------------------------
(* A step of a run. *)

\* What every step of a run leaves to the others.
Frame(w) ==
  /\ writer' \in [WikiRuns -> Writer] /\ \A u \in WikiRuns : u # w => writer'[u] = writer[u]
  /\ (layout >= 3 => layout' >= 3) /\ DOMAIN wiki_pages \subseteq DOMAIN wiki_pages' /\ 1..runs \subseteq 1..runs'
  /\ ingested' \subseteq ingested \cup (IF w \in Busy THEN {writer[w].run} ELSE {})

LEMMA OthersPlaced ==
  ASSUME WikiInv, NEW w \in WikiRuns, Frame(w), NEW u \in WikiRuns, u # w
  PROVE  RunPlaced(u)'
<1>1. PICK r \in Writer : r = writer[u] /\ writer'[u] = r
  BY DEF WikiInv, WikiTypes, Frame
<1>2. RunPlaced(u)
  BY DEF WikiInv
<1>3. PagesKnown \subseteq PagesKnown'
  BY DEF Frame, PagesKnown
<1>4. r.at = "page" => r.run \notin ingested'
  <2> SUFFICES ASSUME r.at = "page" PROVE r.run \notin ingested'
    OBVIOUS
  <2>1. u \in Busy /\ r.run \notin ingested
    BY <1>1, <1>2 DEF RunPlaced, Busy
  <2>2. w \in Busy => writer[w].run # r.run
    BY <1>1, <2>1 DEF WikiInv, OwnRuns
  <2> QED
    BY <2>1, <2>2 DEF Frame
<1> QED
  BY <1>1, <1>2, <1>3, <1>4 DEF RunPlaced, Frame

LEMMA OwnStay ==
  ASSUME WikiInv, NEW w \in WikiRuns, Frame(w), writer'[w].at = "idle" \/ (w \in Busy /\ writer'[w].run = writer[w].run)
  PROVE  OwnRuns'
  BY DEF WikiInv, OwnRuns, Busy, Frame

\* All of an invariant, given what is peculiar to a step.
LEMMA WikiKept ==
  ASSUME WikiInv, NEW w \in WikiRuns, Frame(w), WikiTypes', Laid', RunPlaced(w)', OwnRuns', Counted'
  PROVE  WikiInv'
<1>1. \A u \in WikiRuns : RunPlaced(u)'
  BY OthersPlaced
<1> QED
  BY <1>1 DEF WikiInv

\* Going from one place to another.
LEMMA Went ==
  ASSUME WikiInv, NEW w \in WikiRuns, NEW r \in Writer, writer' = [writer EXCEPT ![w] = r]
  PROVE  writer' \in [WikiRuns -> Writer] /\ writer'[w] = r /\ \A u \in WikiRuns : u # w => writer'[u] = writer[u]
  BY DEF WikiInv, WikiTypes

LEMMA WriterKnown ==
  ASSUME WikiInv, NEW w \in WikiRuns
  PROVE  /\ writer[w] \in Writer /\ writer[w].page \in Pages /\ writer[w].run \in 0..MaxRuns
         /\ writer[w].log \in Logs /\ writer[w].index \subseteq Pages
         /\ \A place \in WriterPlaces :
              /\ [writer[w] EXCEPT !.at = place] \in Writer
              /\ \A ix, mi \in SUBSET Pages : [writer[w] EXCEPT !.at = place, !.index = ix, !.missed = mi] \in Writer
              /\ \A log \in Logs, un \in SUBSET (1..MaxRuns) :
                   [writer[w] EXCEPT !.at = place, !.log = log, !.unread = un] \in Writer
         /\ Overview \in Pages /\ NotRunning \in Writer
<1>1. writer[w] \in Writer
  BY DEF WikiInv, WikiTypes
<1>2. Overview \in Pages
  BY DEF Overview, Page, Pages, Folders
<1>3. NotRunning \in Writer
  <2>1. 0 \in 0..MaxRuns
    BY WikiBounds
  <2> QED
    BY <1>2, <2>1, LogsKnown DEF NotRunning, Writer, WriterPlaces
<1> QED
  BY <1>1, <1>2, <1>3 DEF Writer

LEMMA MovedKnown ==
  ASSUME WikiInv, NEW w \in WikiRuns, NEW place \in WriterPlaces, Go(w, place)
  PROVE  /\ writer' \in [WikiRuns -> Writer] /\ writer'[w] = [writer[w] EXCEPT !.at = place]
         /\ \A u \in WikiRuns : u # w => writer'[u] = writer[u]
         /\ writer'[w].at = place /\ writer'[w].run = writer[w].run /\ writer'[w].op = writer[w].op
         /\ writer'[w].page = writer[w].page /\ writer'[w].log = writer[w].log /\ writer'[w].index = writer[w].index
<1>1. PICK r : r = [writer[w] EXCEPT !.at = place]
  OBVIOUS
<1>2. r \in Writer /\ writer[w] \in Writer
  BY <1>1, WriterKnown
<1>3. writer' = [writer EXCEPT ![w] = r]
  BY <1>1 DEF Go
<1>4. writer' \in [WikiRuns -> Writer] /\ writer'[w] = r /\ \A u \in WikiRuns : u # w => writer'[u] = writer[u]
  BY <1>2, <1>3, Went
<1>5. r.at = place /\ r.run = writer[w].run /\ r.op = writer[w].op /\ r.page = writer[w].page /\ r.log = writer[w].log /\ r.index = writer[w].index
  BY <1>1, <1>2 DEF Writer
<1> QED
  BY <1>1, <1>4, <1>5

\* The counts of a step that does not concern them.
LEMMA LogsStay ==
  ASSUME WikiInv, NEW w \in Busy, Frame(w), writer'[w].at \notin {"idle"},
         writer'[w].at = "write_log" => Range(wiki_log) \subseteq Range(writer'[w].log) \cup writer'[w].unread,
         UNCHANGED <<wiki_log, logged_runs, torn_log, overlaps>>
  PROVE  CausesCover(LogsAtRisk, Busy, overlaps)'
<1>1. Busy' = Busy
  BY DEF Busy, Frame
<1>2. LogsAtRisk' \subseteq LogsAtRisk
  BY DEF LogsAtRisk, Frame, At, Busy
<1>3. CausesCover(LogsAtRisk, Busy, overlaps) /\ overlaps' \in Nat /\ overlaps' >= overlaps
  BY DEF WikiInv, Counted, CausesCover
<1>4. CausesCover(LogsAtRisk', Busy', overlaps')
  BY ONLY <1>1, <1>2, <1>3, CoversOn
<1> QED
  BY <1>4

LEMMA PagesStay ==
  ASSUME WikiInv, NEW w \in WikiRuns, Frame(w), w \notin Indexing, writer'[w].at \notin IndexPlaces,
         DOMAIN wiki_pages' \subseteq DOMAIN wiki_pages \cup {Overview},
         index' = index \/ DOMAIN wiki_pages' = {}, torn_index' = torn_index, cuts' \in Nat, overlaps' \in Nat, cuts' >= cuts, overlaps' >= overlaps
  PROVE  CausesCover(PagesAtRisk, Indexing, cuts + overlaps)'
<1>1. Indexing' = Indexing
  BY DEF Indexing, Frame
<1>2. PagesAtRisk' \subseteq PagesAtRisk
  <2> SUFFICES ASSUME NEW p \in PagesAtRisk' PROVE p \in PagesAtRisk
    OBVIOUS
  <2>1. /\ p \in DOMAIN wiki_pages' \ torn_index' /\ p[1] \in {"sources", "analyses"} /\ \A u \in Indexing' : writer'[u].page # p
        /\ p \notin index' \/ \E u \in WikiRuns : writer'[u].at = "write_index" /\ p \notin writer'[u].index \cup writer'[u].missed
    BY DEF PagesAtRisk, At
  <2>2. p \in DOMAIN wiki_pages /\ index' = index
    BY <2>1 DEF Overview, Page
  <2>3. \A u \in Indexing : u # w /\ writer[u].page # p
    BY <1>1, <2>1 DEF Frame, Indexing
  <2>4. p \notin index \/ \E u \in WikiRuns : writer[u].at = "write_index" /\ p \notin writer[u].index \cup writer[u].missed
    BY <2>1, <2>2 DEF Frame, IndexPlaces
  <2> QED
    BY <2>1, <2>2, <2>3, <2>4 DEF PagesAtRisk, At
<1>3. PICK o : o = cuts' + overlaps'
  OBVIOUS
<1>4. o \in Nat /\ o >= cuts + overlaps
  <2>1. PICK c, v : c = cuts' /\ v = overlaps'
    BY Zenon
  <2>2. o = c + v /\ c \in Nat /\ v \in Nat /\ c >= cuts /\ v >= overlaps /\ cuts \in Nat /\ overlaps \in Nat
    BY <1>3, <2>1 DEF WikiInv, WikiTypes
  <2> QED
    BY <2>2
<1>5. CausesCover(PagesAtRisk, Indexing, cuts + overlaps)
  BY DEF WikiInv, Counted
<1>6. CausesCover(PagesAtRisk', Indexing', o)
  BY ONLY <1>1, <1>2, <1>4, <1>5, CoversOn
<1> QED
  BY <1>3, <1>6

LEMMA NamesStay ==
  ASSUME WikiInv, NEW w \in WikiRuns, Frame(w), w \notin Naming, w \notin Naming', ingested' = ingested,
         IsFiniteSet(DOMAIN wiki_pages'), \A p \in DOMAIN wiki_pages' : p \in DOMAIN wiki_pages \/ p[1] # "sources",
         overlaps' \in Nat, overlaps' >= overlaps
  PROVE  NamesCover(ingested, Naming, PageNames, overlaps)' /\ (Cardinality(PagesIn("sources")) <= Cardinality(ingested))'
<1>1. Naming' = Naming /\ PagesIn("sources")' = PagesIn("sources")
  BY DEF Naming, Frame, PagesIn, At
<1>2. PageNames' = PageNames
  BY <1>1 DEF PageNames, Frame, Naming
<1>3. NamesCover(ingested, Naming, PageNames, overlaps) /\ IsFiniteSet(PageNames) /\ PageNames \subseteq PageNames
  BY DEF WikiInv, Counted, NamesCover
<1>4. NamesCover(ingested, Naming, PageNames, overlaps')
  BY ONLY <1>3, NamedOn, overlaps' \in Nat, overlaps' >= overlaps
<1>5. Cardinality(PagesIn("sources")) <= Cardinality(ingested)
  BY DEF WikiInv, Counted
<1> QED
  BY <1>1, <1>2, <1>4, <1>5

\* init
LEMMA InitKeeps == ASSUME WikiInv, NEW w \in WikiRuns, MakeFolders(w) \/ MakeFiles(w) \/ MakeOverview(w) PROVE WikiInv'
<1>1. PICK place \in {"files", "overview", "read_log"} :
         /\ Go(w, place) /\ (place = "overview" => layout' >= 3)
  BY DEF MakeFolders, MakeFiles, MakeOverview, WikiInv, WikiTypes
<1>2. /\ w \in Busy /\ writer[w].at \in {"dirs", "files", "overview"} /\ place \in WriterPlaces
  BY <1>1 DEF MakeFolders, MakeFiles, MakeOverview, At, Busy, WriterPlaces
<1>3. UNCHANGED <<second, runs, overlaps, wiki_log, ingested, logged_runs, torn_log, torn_index, cuts>>
  BY DEF MakeFolders, MakeFiles, MakeOverview, SameRuns, tornVars
<1>4. /\ layout' \in 0..4 /\ (layout >= 3 => layout' >= 3) /\ (layout' < 3 => layout < 3)
      /\ layout' = 4 => layout = 4 \/ MakeOverview(w)
  BY DEF MakeFolders, MakeFiles, MakeOverview, WikiInv, WikiTypes
<1>5. /\ \/ DOMAIN wiki_pages' = DOMAIN wiki_pages /\ wiki_pages' = wiki_pages
         \/ /\ DOMAIN wiki_pages' = DOMAIN wiki_pages \cup {Overview} /\ layout' = 4
            /\ \A p \in DOMAIN wiki_pages : p # Overview => wiki_pages'[p] = wiki_pages[p]
            /\ wiki_pages'[Overview] = {}
      /\ MakeOverview(w) => Overview \in DOMAIN wiki_pages'
  BY DEF MakeFolders, MakeFiles, MakeOverview, Put
<1>6. index' = index \/ (index' = {Overview} /\ layout < 2)
  BY DEF MakeFolders, MakeFiles, MakeOverview, Template
<1>7. /\ writer' \in [WikiRuns -> Writer] /\ \A u \in WikiRuns : u # w => writer'[u] = writer[u]
      /\ writer'[w].at = place /\ writer'[w].run = writer[w].run /\ writer'[w].op = writer[w].op
      /\ writer'[w].page = writer[w].page
  BY <1>1, <1>2, MovedKnown
<1>8. Frame(w)
  BY <1>3, <1>4, <1>5, <1>7 DEF Frame
<1>9. WikiTypes /\ Overview \in Pages /\ writer[w].run \in 0..MaxRuns
  BY WriterKnown DEF WikiInv
<1>10. WikiTypes'
  <2>1. DOMAIN wiki_pages' \subseteq Pages /\ IsFiniteSet(DOMAIN wiki_pages')
    BY <1>5, <1>9, FS_AddElement DEF WikiTypes
  <2>2. index' \subseteq Pages
    BY <1>6, <1>9 DEF WikiTypes
  <2> QED
    BY <1>3, <1>4, <1>7, <1>9, <2>1, <2>2 DEF WikiTypes
<1>11. Laid /\ RunPlaced(w)
  BY DEF WikiInv
<1>12. Laid'
  <2>1. layout' < 3 => DOMAIN wiki_pages' = {}
    BY <1>4, <1>5, <1>11 DEF Laid
  <2>2. layout' = 4 => Overview \in DOMAIN wiki_pages'
    BY <1>4, <1>5, <1>11 DEF Laid
  <2>3. PagesKnown \subseteq PagesKnown'
    BY <1>5 DEF PagesKnown
  <2>4. index' \subseteq PagesKnown'
    BY <1>6, <1>11, <2>3 DEF Laid, PagesKnown
  <2>5. \A p \in DOMAIN wiki_pages' : wiki_pages'[p] \subseteq PagesKnown'
    BY <1>5, <1>11, <2>3 DEF Laid
  <2> QED
    BY <2>1, <2>2, <2>4, <2>5 DEF Laid
<1>13. RunPlaced(w)'
  <2>1. place \in {"files", "overview", "read_log"}
    BY <1>1
  <2> QED
    BY <1>1, <1>2, <1>3, <1>7, <1>11, <2>1 DEF RunPlaced, IndexPlaces
<1>14. OwnRuns'
  BY <1>2, <1>7, <1>8, OwnStay
<1>15. Counted'
  <2>1. CausesCover(LogsAtRisk, Busy, overlaps)'
    <3>1. writer'[w].at \notin {"idle"} /\ (writer'[w].at = "write_log" => Range(wiki_log) \subseteq Range(writer'[w].log) \cup writer'[w].unread)
      BY <1>1, <1>7
    <3> QED
      BY <1>2, <1>3, <1>8, <3>1, LogsStay
  <2>2. CausesCover(PagesAtRisk, Indexing, cuts + overlaps)'
    <3>1. w \notin Indexing /\ writer'[w].at \notin IndexPlaces
      BY <1>1, <1>2, <1>7 DEF Indexing, IndexPlaces
    <3>2. index' = index \/ DOMAIN wiki_pages' = {}
      <4>1. layout < 2 => DOMAIN wiki_pages = {}
        BY <1>9, <1>11 DEF Laid, WikiTypes
      <4>2. index' = index \/ wiki_pages' = wiki_pages
        BY DEF MakeFolders, MakeFiles, MakeOverview
      <4> QED
        BY <1>6, <4>1, <4>2
    <3>3. cuts' \in Nat /\ overlaps' \in Nat /\ cuts' >= cuts /\ overlaps' >= overlaps
      BY <1>3, <1>9 DEF WikiTypes
    <3> QED
      BY <1>3, <1>5, <1>8, <3>1, <3>2, <3>3, PagesStay
  <2>3. NamesCover(ingested, Naming, PageNames, overlaps)' /\ (Cardinality(PagesIn("sources")) <= Cardinality(ingested))'
    <3>1. w \notin Naming /\ w \notin Naming'
      BY <1>1, <1>2, <1>7 DEF Naming, At
    <3>2. IsFiniteSet(DOMAIN wiki_pages')
      BY <1>10 DEF WikiTypes
    <3>3. \A p \in DOMAIN wiki_pages' : p \in DOMAIN wiki_pages \/ p[1] # "sources"
      BY <1>5 DEF Overview, Page
    <3>4. overlaps' \in Nat /\ overlaps' >= overlaps /\ ingested' = ingested
      BY <1>3, <1>9 DEF WikiTypes
    <3> QED
      BY <1>8, <3>1, <3>2, <3>3, <3>4, NamesStay
  <2> QED
    BY <2>1, <2>2, <2>3 DEF Counted
<1> QED
  BY <1>8, <1>10, <1>12, <1>13, <1>14, <1>15, WikiKept

\* A run begins.
LEMMA StartRunKeeps ==
  ASSUME WikiInv, NEW w \in WikiRuns, NEW q \in Writer, Begin(w, q),
         UNCHANGED <<layout, wiki_pages, index, wiki_log, second, ingested, logged_runs, tornVars, cuts>>,
         \/ q.at = "dirs" /\ q.op = "init"
         \/ /\ q.at = "page" /\ q.op \in {"ingest", "query", "lint"} /\ layout >= 3
            /\ q.op = "ingest" => q.page[1] = "sources" /\ q.page \notin DOMAIN wiki_pages
            /\ q.op = "query" => q.page[1] = "analyses"
            /\ q.op = "lint" => q.page[1] = "reports"
  PROVE  WikiInv'
<1>1. /\ w \notin Busy /\ runs < MaxRuns /\ runs' = runs + 1 /\ overlaps' = overlaps + Cardinality(Busy)
  BY DEF Begin
<1>2. WikiTypes /\ Laid /\ RunPlaced(w) /\ Counted /\ MaxRuns \in Nat /\ runs \in 0..MaxRuns /\ overlaps \in Nat /\ cuts \in Nat
  BY WikiBounds DEF WikiInv, WikiTypes
<1>3. PICK n \in 1..MaxRuns : n = runs + 1 /\ n \notin 1..runs /\ 1..runs \subseteq 1..n
  <2>1. runs + 1 \in 1..MaxRuns /\ runs + 1 \notin 1..runs /\ 1..runs \subseteq 1..(runs + 1)
    BY <1>1, <1>2
  <2> QED
    BY <2>1
<1>4. PICK r \in Writer : /\ r = [q EXCEPT !.run = n]
                          /\ r.at = q.at /\ r.op = q.op /\ r.run = n /\ r.page = q.page
  <2>1. n \in 0..MaxRuns
    BY <1>3
  <2>2. /\ [q EXCEPT !.run = n] \in Writer /\ [q EXCEPT !.run = n].at = q.at /\ [q EXCEPT !.run = n].op = q.op
        /\ [q EXCEPT !.run = n].run = n /\ [q EXCEPT !.run = n].page = q.page
    BY <2>1 DEF Writer
  <2> QED
    BY <2>2
<1>5. writer' \in [WikiRuns -> Writer] /\ writer'[w] = r /\ \A u \in WikiRuns : u # w => writer'[u] = writer[u]
  <2>1. writer' = [writer EXCEPT ![w] = r]
    BY <1>3, <1>4 DEF Begin
  <2> QED
    BY <2>1, Went
<1>6. runs' = n /\ writer[w].at = "idle"
  BY <1>1, <1>3 DEF Busy
<1>7. Frame(w)
  BY <1>1, <1>3, <1>5, <1>6 DEF Frame
<1>8. /\ CausesCover(LogsAtRisk, Busy, overlaps) /\ CausesCover(PagesAtRisk, Indexing, cuts + overlaps)
      /\ NamesCover(ingested, Naming, PageNames, overlaps) /\ Cardinality(PagesIn("sources")) <= Cardinality(ingested)
  BY <1>2 DEF Counted
<1>9. PICK o \in Nat : o = overlaps' /\ o >= overlaps /\ (Busy # {} => o >= overlaps + 1)
  <2>1. Cardinality(Busy) \in Nat /\ (Busy # {} => Cardinality(Busy) > 0)
    BY <1>8, CountsKnown DEF CausesCover
  <2>2. overlaps + Cardinality(Busy) \in Nat
    BY <1>2, <2>1
  <2>3. overlaps + Cardinality(Busy) >= overlaps /\ (Busy # {} => overlaps + Cardinality(Busy) >= overlaps + 1)
    BY <1>2, <2>1
  <2> QED
    BY <1>1, <2>2, <2>3
<1>10. WikiTypes'
  <2>1. runs' \in 0..MaxRuns /\ ingested' \subseteq 1..runs'
    BY <1>2, <1>3, <1>6 DEF WikiTypes
  <2> QED
    BY <1>2, <1>5, <1>9, <2>1 DEF WikiTypes
<1>11. Laid'
  BY <1>2 DEF Laid, PagesKnown
<1>12. RunPlaced(w)'
  <2>1. r.run \in 1..runs' /\ r.run \notin ingested'
    BY <1>2, <1>3, <1>4, <1>6 DEF WikiTypes
  <2>2. r.at \in {"dirs", "page"} /\ (r.at = "dirs" => r.op = "init")
    BY <1>4
  <2>3. writer'[w].at = r.at /\ writer'[w].op = r.op /\ writer'[w].run = r.run /\ writer'[w].page = r.page /\ layout' = layout
    BY <1>5
  <2> QED
    BY <1>4, <2>1, <2>2, <2>3 DEF RunPlaced, IndexPlaces
<1>13. OwnRuns'
  <2>1. \A u \in Busy : writer[u].run # n
    BY <1>3 DEF WikiInv, RunPlaced, Busy
  <2>2. \A u \in Busy' : u = w \/ (u \in Busy /\ u # w /\ writer'[u] = writer[u])
    BY <1>5 DEF Busy
  <2>3. writer'[w].run = n /\ w \notin Busy /\ OwnRuns
    BY <1>1, <1>4, <1>5 DEF WikiInv
  <2>4. \A u, v \in Busy' : u # v => writer'[u].run # writer'[v].run
    BY <2>1, <2>2, <2>3 DEF OwnRuns
  <2> QED
    BY <2>4 DEF OwnRuns
<1>14. CausesCover(LogsAtRisk, Busy, overlaps)'
  <2>1. Busy' = Busy \cup {w}
    BY <1>4, <1>5 DEF Busy
  <2>2. LogsAtRisk' \subseteq LogsAtRisk
    BY <1>4, <1>5 DEF LogsAtRisk, At, tornVars
  <2>3. CausesCover(LogsAtRisk, Busy \cup {w}, o)
    BY <1>8, <1>9, CoversBegun
  <2>4. CausesCover(LogsAtRisk', Busy \cup {w}, o)
    <3>1. Busy \cup {w} \subseteq Busy \cup {w} /\ o >= o
      BY <1>9
    <3> QED
      BY ONLY <2>2, <2>3, <3>1, o \in Nat, CoversOn
  <2> QED
    BY <1>9, <2>1, <2>4
<1>15. CausesCover(PagesAtRisk, Indexing, cuts + overlaps)'
  <2>1. CASE q.at = "dirs"
    <3>1. w \notin Indexing /\ writer'[w].at \notin IndexPlaces
      BY <1>4, <1>5, <1>6, <2>1 DEF Indexing, IndexPlaces
    <3>2. cuts' \in Nat /\ overlaps' \in Nat /\ cuts' >= cuts /\ overlaps' >= overlaps /\ torn_index' = torn_index
      BY <1>2, <1>9 DEF tornVars
    <3> QED
      BY <1>7, <3>1, <3>2, PagesStay
  <2>2. CASE q.at = "page"
    <3>1. Indexing' = Indexing \cup {w} /\ (Indexing # {} => Busy # {})
      BY <1>4, <1>5, <2>2 DEF Indexing, IndexPlaces, Busy
    <3>2. PagesAtRisk' \subseteq PagesAtRisk
      <4> SUFFICES ASSUME NEW p \in PagesAtRisk' PROVE p \in PagesAtRisk
        OBVIOUS
      <4>1. /\ p \in DOMAIN wiki_pages \ torn_index /\ p[1] \in {"sources", "analyses"} /\ \A u \in Indexing' : writer'[u].page # p
            /\ p \notin index \/ \E u \in WikiRuns : writer'[u].at = "write_index" /\ p \notin writer'[u].index \cup writer'[u].missed
        BY DEF PagesAtRisk, At, tornVars
      <4>2. \A u \in Indexing : u # w
        BY <1>6 DEF Indexing, IndexPlaces
      <4>3. \A u \in Indexing : writer[u].page # p
        BY <1>5, <3>1, <4>1, <4>2 DEF Indexing
      <4>4. p \notin index \/ \E u \in WikiRuns : writer[u].at = "write_index" /\ p \notin writer[u].index \cup writer[u].missed
        BY <1>4, <1>5, <2>2, <4>1
      <4> QED
        BY <4>1, <4>3, <4>4 DEF PagesAtRisk, At
    <3>3. PICK c \in Nat : c = cuts' + overlaps' /\ c >= cuts + overlaps /\ (Indexing # {} => c >= (cuts + overlaps) + 1)
      <4>1. cuts + o \in Nat /\ cuts + o >= cuts + overlaps /\ (Indexing # {} => cuts + o >= (cuts + overlaps) + 1)
        <5>1. cuts + o \in Nat /\ cuts + o >= cuts + overlaps
          <6>1. cuts \in Nat /\ overlaps \in Nat /\ o \in Nat /\ o >= overlaps
            BY <1>2, <1>9
          <6> QED
            BY ONLY <6>1
        <5>2. ASSUME Indexing # {} PROVE cuts + o >= (cuts + overlaps) + 1
          <6>1. o >= overlaps + 1
            BY <1>9, <3>1, <5>2
          <6> QED
            BY <1>2, <6>1
        <5> QED
          BY <5>1, <5>2
      <4> QED
        BY <1>9, <4>1
    <3>4. CausesCover(PagesAtRisk, Indexing \cup {w}, c)
      BY <1>8, <3>3, CoversBegun
    <3>5. CausesCover(PagesAtRisk', Indexing \cup {w}, c)
      <4>1. Indexing \cup {w} \subseteq Indexing \cup {w} /\ c >= c
        BY <3>3
      <4> QED
        BY ONLY <3>2, <3>4, <4>1, c \in Nat, CoversOn
    <3> QED
      BY <3>1, <3>3, <3>5
  <2> QED
    BY <2>1, <2>2
<1>16. NamesCover(ingested, Naming, PageNames, overlaps)' /\ (Cardinality(PagesIn("sources")) <= Cardinality(ingested))'
  <2>1. CASE ~(q.at = "page" /\ q.op = "ingest")
    <3>1. w \notin Naming /\ w \notin Naming'
      BY <1>4, <1>5, <1>6, <2>1 DEF Naming, At
    <3>2. IsFiniteSet(DOMAIN wiki_pages') /\ \A p \in DOMAIN wiki_pages' : p \in DOMAIN wiki_pages \/ p[1] # "sources"
      BY <1>2 DEF WikiTypes
    <3>3. overlaps' \in Nat /\ overlaps' >= overlaps /\ ingested' = ingested
      BY <1>9
    <3> QED
      BY <1>7, <3>1, <3>2, <3>3, NamesStay
  <2>2. CASE q.at = "page" /\ q.op = "ingest"
    <3>1. Naming' = Naming \cup {w} /\ PagesIn("sources")' = PagesIn("sources")
      BY <1>4, <1>5, <2>2 DEF Naming, At, PagesIn
    <3>2. w \notin Naming
      BY <1>6 DEF Naming, At
    <3>3. PageNames' = PageNames \cup {q.page}
      <4>1. \A u \in Naming : writer'[u] = writer[u]
        BY <1>5, <3>2 DEF Naming
      <4>2. writer'[w].page = q.page
        BY <1>4, <1>5
      <4>3. {writer'[u].page : u \in Naming'} = {writer[u].page : u \in Naming} \cup {q.page}
        BY <3>1, <4>1, <4>2
      <4>4. PageNames' = PagesIn("sources")' \cup {writer'[u].page : u \in Naming'}
        BY DEF PageNames
      <4> QED
        BY <3>1, <4>3, <4>4 DEF PageNames
    <3>4. q.page \in PageNames => o >= overlaps + 1
      <4>1. q.page \in PageNames => Naming # {}
        BY <2>2 DEF PageNames, PagesIn
      <4>2. Naming # {} => Busy # {}
        BY DEF Naming, Busy, At
      <4> QED
        BY <1>9, <4>1, <4>2
    <3>5. NamesCover(ingested, Naming \cup {w}, PageNames \cup {q.page}, o)
      BY <1>8, <1>9, <3>4, NamedBegun
    <3> QED
      BY <1>8, <1>9, <3>1, <3>3, <3>5
  <2> QED
    BY <2>1, <2>2
<1>17. Counted'
  BY <1>14, <1>15, <1>16 DEF Counted
<1> QED
  BY <1>7, <1>10, <1>11, <1>12, <1>13, <1>17, WikiKept

\* The first name that is free: there is one, as no more sources are there than runs.
LEMMA SlugIsFree ==
  ASSUME WikiInv, runs < MaxRuns
  PROVE  FreeSlug \in 1..(MaxRuns + 1) /\ Page("sources", FreeSlug) \notin DOMAIN wiki_pages
<1>1. MaxRuns \in Nat /\ runs \in 0..MaxRuns /\ ingested \subseteq 1..runs /\ IsFiniteSet(DOMAIN wiki_pages)
  BY WikiBounds DEF WikiInv, WikiTypes
<1> DEFINE free == {n \in 1..(MaxRuns + 1) : Page("sources", n) \notin DOMAIN wiki_pages}
<1>2. free # {}
  <2> SUFFICES ASSUME free = {} PROVE FALSE
    OBVIOUS
  <2> DEFINE N == 1..(MaxRuns + 1)
             f == [n \in N |-> Page("sources", n)]
  <2>1. \A n \in N : Page("sources", n) \in PagesIn("sources")
    BY DEF PagesIn, Page
  <2>2. \A n, m \in N : Page("sources", n) = Page("sources", m) => n = m
    BY DEF Page
  <2>3. f \in Injection(N, PagesIn("sources"))
    BY <2>1, <2>2 DEF Injection, IsInjective
  <2>4. IsFiniteSet(N) /\ Cardinality(N) = MaxRuns + 1
    BY <1>1, FS_Interval
  <2>5. IsFiniteSet(PagesIn("sources")) /\ Cardinality(PagesIn("sources")) \in Nat
    BY <1>1, CountsKnown DEF PagesIn
  <2> HIDE DEF N, f
  <2>6. Cardinality(N) <= Cardinality(PagesIn("sources"))
    BY <2>3, <2>4, <2>5, FS_Injection
  <2>7. Cardinality(PagesIn("sources")) <= Cardinality(ingested)
    BY DEF WikiInv, Counted
  <2>8. Cardinality(ingested) \in Nat /\ Cardinality(ingested) <= runs
    <3>1. IsFiniteSet(1..runs) /\ Cardinality(1..runs) = runs
      BY <1>1, FS_Interval
    <3> QED
      BY <1>1, <3>1, CountsKnown
  <2> QED
    BY <1>1, <2>4, <2>5, <2>6, <2>7, <2>8
<1>3. PICK n \in free : \A m \in free : n <= m
  <2>1. free \in SUBSET Nat
    BY <1>1
  <2> HIDE DEF free
  <2> QED
    BY <1>2, <2>1, LeastOf
<1>4. \A m \in 1..(n - 1) : m \in 1..(MaxRuns + 1) /\ ~(n <= m)
  BY <1>1
<1>5. \A m \in 1..(n - 1) : Page("sources", m) \in DOMAIN wiki_pages
  BY <1>3, <1>4
<1> QED
  BY <1>5 DEF FreeSlug

LEMMA BeginsKeep == ASSUME WikiInv, NEW w \in WikiRuns, Initialise(w) \/ StartRun(w) PROVE WikiInv'
<1>1. NotRunning \in Writer /\ Overview \in Pages
  BY WriterKnown
<1>2. CASE Initialise(w)
  <2>1. PICK q : q = [NotRunning EXCEPT !.at = "dirs", !.op = "init"]
    OBVIOUS
  <2>2. q \in Writer /\ q.at = "dirs" /\ q.op = "init"
    BY <1>1, <2>1 DEF Writer, WriterPlaces
  <2>3. Begin(w, q) /\ UNCHANGED <<layout, wiki_pages, index, wiki_log, second, ingested, logged_runs, tornVars, cuts>>
    BY <1>2, <2>1 DEF Initialise
  <2> QED
    BY <2>2, <2>3, StartRunKeeps
<1>3. CASE StartRun(w)
  <2>1. PICK op \in {"ingest", "query", "lint"} :
           Begin(w, [NotRunning EXCEPT !.at = "page", !.op = op, !.page = PageOf(op)])
    BY <1>3 DEF StartRun
  <2>2. PICK q : q = [NotRunning EXCEPT !.at = "page", !.op = op, !.page = PageOf(op)]
    OBVIOUS
  <2>3. runs < MaxRuns /\ second \in Nat /\ MaxRuns \in Nat
    BY <2>1, WikiBounds DEF Begin, WikiInv, WikiTypes
  <2>4. /\ PageOf(op) \in Pages
        /\ op = "ingest" => PageOf(op)[1] = "sources" /\ PageOf(op) \notin DOMAIN wiki_pages
        /\ op = "query" => PageOf(op)[1] = "analyses"
        /\ op = "lint" => PageOf(op)[1] = "reports"
    <3>1. FreeSlug \in 1..(MaxRuns + 1) /\ Page("sources", FreeSlug) \notin DOMAIN wiki_pages
      BY <2>3, SlugIsFree
    <3>2. FreeSlug \in Nat
      BY <2>3, <3>1
    <3> QED
      BY <2>1, <2>3, <3>1, <3>2 DEF PageOf, Page, Pages, Folders
  <2>5. q \in Writer /\ q.at = "page" /\ q.op = op /\ q.page = PageOf(op)
    BY <1>1, <2>2, <2>4 DEF Writer, WriterPlaces
  <2>6. /\ Begin(w, q) /\ layout >= 3
        /\ UNCHANGED <<layout, wiki_pages, index, wiki_log, second, ingested, logged_runs, tornVars, cuts>>
    BY <1>3, <2>1, <2>2 DEF StartRun, Usable
  <2> QED
    BY <2>4, <2>5, <2>6, StartRunKeeps
<1> QED
  BY <1>2, <1>3

\* A page is written.
LEMMA NamesWritten ==
  ASSUME WikiInv, NEW w \in WikiRuns, Frame(w), At(w, "page"), writer'[w].at # "page",
         DOMAIN wiki_pages' = DOMAIN wiki_pages \cup {writer[w].page}, ingested' = Ingested(writer[w]), overlaps' = overlaps
  PROVE  NamesCover(ingested, Naming, PageNames, overlaps)' /\ (Cardinality(PagesIn("sources")) <= Cardinality(ingested))'
<1>1. PICK r \in Writer : r = writer[w]
  BY WriterKnown
<1>2. WikiTypes /\ Counted /\ r.at = "page" /\ overlaps \in Nat /\ IsFiniteSet(DOMAIN wiki_pages')
  BY <1>1, FS_AddElement DEF WikiInv, WikiTypes, At
<1>3. /\ r.op \in {"ingest", "query", "lint"} /\ r.run \notin ingested
      /\ r.op = "ingest" => r.page[1] = "sources"
      /\ r.op # "ingest" => r.page[1] # "sources"
  BY <1>1, <1>2 DEF WikiInv, RunPlaced, IndexPlaces
<1>4. CASE r.op # "ingest"
  <2>1. w \notin Naming /\ w \notin Naming'
    BY <1>1, <1>4 DEF Naming, At
  <2>2. \A p \in DOMAIN wiki_pages' : p \in DOMAIN wiki_pages \/ p[1] # "sources"
    BY <1>1, <1>3, <1>4
  <2>3. overlaps' \in Nat /\ overlaps' >= overlaps /\ ingested' = ingested
    BY <1>1, <1>2, <1>4 DEF Ingested
  <2> QED
    BY <1>2, <2>1, <2>2, <2>3, NamesStay
<1>5. CASE r.op = "ingest"
  <2>1. w \in Naming /\ Naming' = Naming \ {w} /\ \A u \in WikiRuns : u # w => writer'[u] = writer[u]
    BY <1>1, <1>2, <1>5 DEF Naming, At, Frame
  <2>2. PagesIn("sources")' = PagesIn("sources") \cup {r.page}
    BY <1>1, <1>3, <1>5 DEF PagesIn
  <2>3. PageNames' = PageNames
    <3>1. \A u \in Naming' : writer'[u] = writer[u] /\ u \in Naming
      BY <2>1 DEF Naming
    <3>2. \A u \in Naming : u = w \/ u \in Naming'
      BY <2>1
    <3>3. {writer'[u].page : u \in Naming'} \cup {r.page} = {writer[u].page : u \in Naming}
      BY <1>1, <2>1, <3>1, <3>2
    <3>4. PageNames' = PagesIn("sources")' \cup {writer'[u].page : u \in Naming'}
      BY DEF PageNames
    <3> QED
      BY <2>2, <3>3, <3>4 DEF PageNames
  <2>4. NamesCover(ingested, Naming, PageNames, overlaps) /\ ingested' = ingested \cup {r.run}
    BY <1>1, <1>2, <1>5 DEF Counted, Ingested
  <2>5. NamesCover(ingested \cup {r.run}, Naming \ {w}, PageNames, overlaps)
    BY ONLY <2>1, <2>4, NamedWritten
  <2>6. Cardinality(PagesIn("sources") \cup {r.page}) <= Cardinality(ingested \cup {r.run})
    <3>1. IsFiniteSet(PagesIn("sources")) /\ IsFiniteSet(ingested)
      BY <1>2, <2>4, CountsKnown DEF PagesIn, WikiTypes, NamesCover
    <3>2. /\ Cardinality(PagesIn("sources") \cup {r.page}) \in Nat
          /\ Cardinality(PagesIn("sources") \cup {r.page}) <= Cardinality(PagesIn("sources")) + 1
          /\ Cardinality(ingested \cup {r.run}) = Cardinality(ingested) + 1
          /\ Cardinality(ingested) \in Nat /\ Cardinality(PagesIn("sources")) \in Nat
      BY <1>3, <3>1, CountsKnown
    <3>3. Cardinality(PagesIn("sources")) <= Cardinality(ingested)
      BY <1>2 DEF Counted
    <3> QED
      BY <3>2, <3>3
  <2> QED
    BY <2>1, <2>2, <2>3, <2>4, <2>5, <2>6
<1> QED
  BY <1>3, <1>4, <1>5

LEMMA WritePageKeeps == ASSUME WikiInv, NEW w \in WikiRuns, WritePage(w) PROVE WikiInv'
<1>1. PICK r \in Writer : r = writer[w]
  BY WriterKnown
<1>2. PICK links : links = LinksOf(r)
  OBVIOUS
<1>3. PICK place \in WriterPlaces : place = IF r.op = "lint" THEN "read_log" ELSE "read_index"
  BY DEF WriterPlaces
<1>4. /\ r.at = "page" /\ Go(w, place)
      /\ DOMAIN wiki_pages' = DOMAIN wiki_pages \cup {r.page} /\ wiki_pages'[r.page] = links
      /\ \A p \in DOMAIN wiki_pages : p # r.page => wiki_pages'[p] = wiki_pages[p]
      /\ ingested' = IF r.op = "ingest" THEN ingested \cup {r.run} ELSE ingested
      /\ UNCHANGED <<runs, overlaps, layout, index, wiki_log, second, logged_runs, torn_index, torn_log, cuts>>
  BY <1>1, <1>2, <1>3 DEF WritePage, Put, At, SameRuns, Ingested, tornVars
<1>5. WikiTypes /\ Laid /\ Counted /\ w \in Busy
  BY <1>1, <1>4 DEF WikiInv, Busy
<1>6. /\ r.run \in 1..runs /\ layout >= 3 /\ r.op \in {"ingest", "query", "lint"} /\ r.run \notin ingested
      /\ r.op = "ingest" => r.page[1] = "sources"
      /\ r.op = "query" => r.page[1] = "analyses"
      /\ r.op = "lint" => r.page[1] = "reports"
  BY <1>1, <1>4 DEF WikiInv, RunPlaced, IndexPlaces
<1>7. /\ writer' \in [WikiRuns -> Writer] /\ \A u \in WikiRuns : u # w => writer'[u] = writer[u]
      /\ writer'[w].at = place /\ writer'[w].run = r.run /\ writer'[w].op = r.op /\ writer'[w].page = r.page
  BY <1>1, <1>4, MovedKnown
<1>8. Frame(w)
  BY <1>1, <1>4, <1>5, <1>7 DEF Frame
<1>9. WikiTypes'
  <2>1. DOMAIN wiki_pages' \subseteq Pages /\ IsFiniteSet(DOMAIN wiki_pages')
    BY <1>4, <1>5, FS_AddElement DEF WikiTypes, Writer
  <2>2. ingested' \subseteq 1..runs'
    BY <1>4, <1>5, <1>6 DEF WikiTypes
  <2> QED
    BY <1>4, <1>5, <1>7, <2>1, <2>2 DEF WikiTypes
<1>10. Laid'
  <2>1. layout \in 0..4 /\ layout' = layout
    BY <1>4, <1>5 DEF WikiTypes
  <2>2. layout' < 3 => DOMAIN wiki_pages' = {}
    BY <1>6, <2>1
  <2>3. layout' = 4 => Overview \in DOMAIN wiki_pages'
    BY <1>4, <1>5 DEF Laid
  <2>4. PagesKnown \subseteq PagesKnown' /\ links \subseteq PagesKnown
    BY <1>2, <1>4, <1>6 DEF PagesKnown, FoundPages, LinksOf
  <2>5. \A p \in DOMAIN wiki_pages' : wiki_pages'[p] \subseteq PagesKnown'
    BY <1>4, <1>5, <2>4 DEF Laid
  <2>6. index' \subseteq PagesKnown'
    BY <1>4, <1>5, <2>4 DEF Laid
  <2> QED
    BY <2>2, <2>3, <2>5, <2>6 DEF Laid
<1>11. RunPlaced(w)'
  BY <1>3, <1>4, <1>6, <1>7 DEF RunPlaced, IndexPlaces
<1>12. OwnRuns'
  BY <1>1, <1>5, <1>7, <1>8, OwnStay
<1>13. CausesCover(LogsAtRisk, Busy, overlaps)'
  <2>1. writer'[w].at \notin {"idle"} /\ (writer'[w].at = "write_log" => Range(wiki_log) \subseteq Range(writer'[w].log) \cup writer'[w].unread)
    BY <1>3, <1>7
  <2> QED
    BY <1>4, <1>5, <1>8, <2>1, LogsStay
<1>14. CausesCover(PagesAtRisk, Indexing, cuts + overlaps)'
  <2>1. Indexing' \subseteq Indexing /\ w \in Indexing /\ (r.op # "lint" => w \in Indexing')
        /\ \A u \in Indexing : u # w => u \in Indexing'
    BY <1>1, <1>3, <1>4, <1>7 DEF Indexing, IndexPlaces
  <2>2. PagesAtRisk' \subseteq PagesAtRisk
    <3> SUFFICES ASSUME NEW p \in PagesAtRisk' PROVE p \in PagesAtRisk
      OBVIOUS
    <3>1. /\ p \in DOMAIN wiki_pages' \ torn_index' /\ p[1] \in {"sources", "analyses"} /\ \A u \in Indexing' : writer'[u].page # p
          /\ p \notin index \/ \E u \in WikiRuns : writer'[u].at = "write_index" /\ p \notin writer'[u].index \cup writer'[u].missed
      BY <1>4 DEF PagesAtRisk, At
    <3>2. p # r.page
      BY <1>6, <1>7, <2>1, <3>1
    <3>3. p \in DOMAIN wiki_pages \ torn_index
      BY <1>4, <3>1, <3>2
    <3>4. \A u \in Indexing : writer[u].page # p
      BY <1>1, <1>7, <2>1, <3>1, <3>2 DEF Indexing
    <3>5. p \notin index \/ \E u \in WikiRuns : writer[u].at = "write_index" /\ p \notin writer[u].index \cup writer[u].missed
      BY <1>3, <1>7, <3>1
    <3> QED
      BY <3>1, <3>3, <3>4, <3>5 DEF PagesAtRisk, At
  <2>3. CausesCover(PagesAtRisk, Indexing, cuts + overlaps) /\ cuts + overlaps \in Nat /\ cuts + overlaps >= cuts + overlaps
    BY <1>5 DEF Counted, CausesCover
  <2>4. CausesCover(PagesAtRisk', Indexing', cuts + overlaps)
    BY ONLY <2>1, <2>2, <2>3, CoversOn
  <2> QED
    BY <1>4, <2>4
<1>15. NamesCover(ingested, Naming, PageNames, overlaps)' /\ (Cardinality(PagesIn("sources")) <= Cardinality(ingested))'
  <2>1. At(w, "page") /\ writer'[w].at # "page" /\ DOMAIN wiki_pages' = DOMAIN wiki_pages \cup {writer[w].page}
    BY <1>1, <1>3, <1>4, <1>7 DEF At
  <2>2. ingested' = Ingested(writer[w]) /\ overlaps' = overlaps
    BY <1>1, <1>4 DEF Ingested
  <2> QED
    BY <1>8, <2>1, <2>2, NamesWritten
<1>16. Counted'
  BY <1>13, <1>14, <1>15 DEF Counted
<1> QED
  BY <1>8, <1>9, <1>10, <1>11, <1>12, <1>16, WikiKept

\* A step at the index or the log, or the end of a run: no page is written, no source is
\* begun or given up.
LEMMA AfterPage ==
  ASSUME WikiInv, NEW w \in WikiRuns, NEW r \in Writer, w \in Busy,
         writer' \in [WikiRuns -> Writer], writer'[w] = r, \A u \in WikiRuns : u # w => writer'[u] = writer[u],
         UNCHANGED <<layout, wiki_pages, second, runs, ingested, overlaps>>,
         cuts' \in Nat, index' \subseteq Pages, index' \subseteq PagesKnown, wiki_log' \in Logs, logged_runs' \subseteq 1..MaxRuns,
         RunPlaced(w)', r.at = "idle" \/ r.run = writer[w].run
  PROVE  /\ Frame(w) /\ WikiTypes' /\ Laid' /\ OwnRuns'
         /\ CausesCover(LogsAtRisk, Busy, overlaps)' /\ CausesCover(PagesAtRisk, Indexing, cuts + overlaps)'
            /\ NamesCover(ingested, Naming, PageNames, overlaps)' => WikiInv'
<1>1. WikiTypes /\ Laid /\ Counted
  BY DEF WikiInv
<1>2. Frame(w)
  BY DEF Frame
<1>3. WikiTypes'
  BY <1>1 DEF WikiTypes
<1>4. Laid'
  BY <1>1 DEF Laid, PagesKnown
<1>5. OwnRuns'
  BY <1>2, OwnStay
<1>6. (Cardinality(PagesIn("sources")) <= Cardinality(ingested))'
  BY <1>1 DEF Counted, PagesIn
<1>7. ASSUME CausesCover(LogsAtRisk, Busy, overlaps)', CausesCover(PagesAtRisk, Indexing, cuts + overlaps)',
             NamesCover(ingested, Naming, PageNames, overlaps)'
      PROVE  WikiInv'
  <2>1. Counted'
    BY <1>6, <1>7 DEF Counted
  <2> QED
    BY <1>2, <1>3, <1>4, <1>5, <2>1, WikiKept
<1> QED
  BY <1>2, <1>3, <1>4, <1>5, <1>7

LEMMA IndexKeeps == ASSUME WikiInv, NEW w \in WikiRuns, ReadIndex(w) \/ WriteIndex(w) PROVE WikiInv'
<1>1. WikiTypes /\ Laid /\ Counted /\ RunPlaced(w) /\ writer[w] \in Writer
  BY WriterKnown DEF WikiInv
<1>2. /\ writer[w].at \in {"read_index", "write_index"} /\ w \in Busy /\ w \in Indexing
      /\ UNCHANGED <<layout, wiki_pages, second, runs, ingested, overlaps, cuts, wiki_log, logged_runs, torn_log>>
  BY DEF ReadIndex, WriteIndex, At, Busy, Indexing, IndexPlaces, SameRuns
<1>3. /\ writer[w].run \in 1..runs /\ layout >= 3 /\ writer[w].page \in DOMAIN wiki_pages /\ writer[w].page \in Pages
      /\ writer[w].op \in {"ingest", "query", "lint"}
  BY <1>1, <1>2 DEF RunPlaced, IndexPlaces, WikiTypes
<1>4. PICK r \in Writer :
         /\ writer' \in [WikiRuns -> Writer] /\ writer'[w] = r /\ \A u \in WikiRuns : u # w => writer'[u] = writer[u]
         /\ r.run = writer[w].run /\ r.op = writer[w].op /\ r.page = writer[w].page
         /\ \/ /\ r.at = "write_index" /\ writer[w].at = "read_index" /\ index' = index /\ torn_index' = torn_index
               /\ writer[w].page \in r.index /\ index \subseteq r.index \cup r.missed /\ r.index \subseteq PagesKnown
            \/ /\ r.at = "read_log" /\ writer[w].at = "write_index" /\ index' = writer[w].index
               /\ torn_index' = torn_index \cup writer[w].missed
  <2>1. CASE ReadIndex(w)
    <3>1. PICK seen \in {index} \cup UNION {SUBSET writer[u].index : u \in Writing("write_index", w)} :
             writer' = [writer EXCEPT ![w].at = "write_index", ![w].index = seen \cup {writer[w].page}, ![w].missed = index \ seen]
      BY <2>1 DEF ReadIndex
    <3>2. PICK r : r = [writer[w] EXCEPT !.at = "write_index", !.index = seen \cup {writer[w].page}, !.missed = index \ seen]
      OBVIOUS
    <3>3. seen \subseteq Pages /\ seen \subseteq PagesKnown
      <4>1. CASE seen = index
        BY <1>1, <4>1 DEF WikiTypes, Laid
      <4>2. CASE seen # index
        <5>1. PICK u \in WikiRuns : writer[u].at = "write_index" /\ seen \subseteq writer[u].index
          BY <3>1, <4>2 DEF Writing, At
        <5>2. writer[u].index \subseteq Pages /\ writer[u].index \subseteq PagesKnown
          BY <5>1, WriterKnown DEF WikiInv, RunPlaced
        <5> QED
          BY <5>1, <5>2
      <4> QED
        BY <4>1, <4>2
    <3>4. r \in Writer
      <4>1. "write_index" \in WriterPlaces /\ seen \cup {writer[w].page} \in SUBSET Pages /\ index \ seen \in SUBSET Pages
        BY <1>1, <1>3, <3>3 DEF WriterPlaces, WikiTypes
      <4> QED
        BY <3>2, <4>1, WriterKnown
    <3>5. writer' = [writer EXCEPT ![w] = r]
      BY <1>1, <3>1, <3>2 DEF WikiTypes
    <3>6. /\ r.run = writer[w].run /\ r.op = writer[w].op /\ r.page = writer[w].page /\ r.at = "write_index"
          /\ r.index = seen \cup {writer[w].page} /\ r.missed = index \ seen
      BY <1>1, <3>2 DEF Writer
    <3>7. index' = index /\ torn_index' = torn_index /\ writer[w].at = "read_index"
      BY <2>1 DEF ReadIndex, At
    <3>8. r.index \subseteq PagesKnown
      BY <1>3, <3>3, <3>6 DEF PagesKnown
    <3>9. writer' \in [WikiRuns -> Writer] /\ writer'[w] = r /\ \A u \in WikiRuns : u # w => writer'[u] = writer[u]
      BY <3>4, <3>5, Went
    <3> QED
      BY <3>4, <3>6, <3>7, <3>8, <3>9
  <2>2. CASE WriteIndex(w)
    <3>1. PICK r : r = [writer[w] EXCEPT !.at = "read_log", !.index = {}, !.missed = {}]
      OBVIOUS
    <3>2. r \in Writer
      <4>1. "read_log" \in WriterPlaces /\ {} \in SUBSET Pages
        BY DEF WriterPlaces
      <4> QED
        BY <3>1, <4>1, WriterKnown
    <3>3. writer' = [writer EXCEPT ![w] = r]
      BY <1>1, <2>2, <3>1 DEF WriteIndex, WikiTypes
    <3>4. r.run = writer[w].run /\ r.op = writer[w].op /\ r.page = writer[w].page /\ r.at = "read_log"
      BY <1>1, <3>1 DEF Writer
    <3>5. /\ writer[w].at = "write_index" /\ index' = writer[w].index
          /\ torn_index' = torn_index \cup writer[w].missed
      BY <2>2 DEF WriteIndex, At
    <3>6. writer' \in [WikiRuns -> Writer] /\ writer'[w] = r /\ \A u \in WikiRuns : u # w => writer'[u] = writer[u]
      BY <3>2, <3>3, Went
    <3> QED
      BY <3>2, <3>4, <3>5, <3>6
  <2> QED
    BY <2>1, <2>2
<1>5. index' \subseteq Pages /\ index' \subseteq PagesKnown /\ r.at \in {"write_index", "read_log"}
      /\ (r.at = "write_index" => r.page \in r.index /\ r.index \subseteq PagesKnown)
  <2>1. index \subseteq PagesKnown /\ index \subseteq Pages
    BY <1>1 DEF Laid, WikiTypes
  <2>2. writer[w].at = "write_index" => writer[w].index \subseteq PagesKnown
    BY <1>1 DEF RunPlaced
  <2>3. writer[w].index \subseteq Pages
    BY WriterKnown
  <2> QED
    BY <1>4, <2>1, <2>2, <2>3
<1>6. RunPlaced(w)'
  <2>1. PagesKnown' = PagesKnown
    BY <1>2 DEF PagesKnown
  <2> QED
    BY <1>1, <1>2, <1>3, <1>4, <1>5, <2>1 DEF RunPlaced, IndexPlaces
<1>7. /\ cuts' \in Nat /\ wiki_log' \in Logs /\ logged_runs' \subseteq 1..MaxRuns
      /\ UNCHANGED <<layout, wiki_pages, second, runs, ingested, overlaps>>
  BY <1>1, <1>2 DEF WikiTypes
<1>8. /\ Frame(w)
      /\ CausesCover(LogsAtRisk, Busy, overlaps)' /\ CausesCover(PagesAtRisk, Indexing, cuts + overlaps)'
         /\ NamesCover(ingested, Naming, PageNames, overlaps)' => WikiInv'
  BY <1>2, <1>4, <1>5, <1>6, <1>7, AfterPage
<1>9. CausesCover(LogsAtRisk, Busy, overlaps)'
  <2>1. writer'[w].at \notin {"idle"} /\ (writer'[w].at = "write_log" => Range(wiki_log) \subseteq Range(writer'[w].log) \cup writer'[w].unread)
    BY <1>4, <1>5
  <2> QED
    BY <1>2, <1>8, <2>1, LogsStay
<1>10. NamesCover(ingested, Naming, PageNames, overlaps)'
  <2>1. w \notin Naming /\ w \notin Naming'
    BY <1>2, <1>4, <1>5 DEF Naming, At
  <2>2. IsFiniteSet(DOMAIN wiki_pages') /\ \A p \in DOMAIN wiki_pages' : p \in DOMAIN wiki_pages \/ p[1] # "sources"
    BY <1>1, <1>2 DEF WikiTypes
  <2>3. overlaps' \in Nat /\ overlaps' >= overlaps /\ ingested' = ingested
    BY <1>1, <1>2 DEF WikiTypes
  <2> QED
    BY <1>8, <2>1, <2>2, <2>3, NamesStay
<1>11. CausesCover(PagesAtRisk, Indexing, cuts + overlaps)'
  <2>1. CausesCover(PagesAtRisk, Indexing, cuts + overlaps) /\ cuts + overlaps \in Nat /\ cuts + overlaps >= cuts + overlaps
        /\ cuts' + overlaps' = cuts + overlaps
    BY <1>1, <1>2 DEF Counted, CausesCover
  <2>2. \A p \in PagesAtRisk' :
          /\ p \in DOMAIN wiki_pages \ torn_index' /\ p[1] \in {"sources", "analyses"} /\ \A u \in Indexing' : writer'[u].page # p
          /\ p \notin index' \/ \E u \in WikiRuns : writer'[u].at = "write_index" /\ p \notin writer'[u].index \cup writer'[u].missed
    BY <1>2 DEF PagesAtRisk, At
  <2>3. CASE r.at = "write_index"
    <3>1. /\ Indexing' = Indexing /\ w \in Indexing /\ index' = index /\ torn_index' = torn_index
          /\ index \subseteq r.index \cup r.missed
      BY <1>2, <1>4, <2>3 DEF Indexing, IndexPlaces
    <3>2. PagesAtRisk' \subseteq PagesAtRisk
      <4> SUFFICES ASSUME NEW p \in PagesAtRisk' PROVE p \in PagesAtRisk
        OBVIOUS
      <4>1. \A u \in Indexing : writer[u].page # p
        BY <1>4, <2>2, <3>1 DEF Indexing
      <4>2. p \notin index \/ \E u \in WikiRuns : writer[u].at = "write_index" /\ p \notin writer[u].index \cup writer[u].missed
        <5>1. CASE p \notin index'
          BY <3>1, <5>1
        <5>2. CASE \E u \in WikiRuns : writer'[u].at = "write_index" /\ p \notin writer'[u].index \cup writer'[u].missed
          BY <1>4, <3>1, <5>2
        <5> QED
          BY <2>2, <5>1, <5>2
      <4> QED
        BY <2>2, <3>1, <4>1, <4>2 DEF PagesAtRisk, At
    <3>3. CausesCover(PagesAtRisk', Indexing', cuts + overlaps)
      BY <2>1, <3>1, <3>2, CoversOn
    <3> QED
      BY <2>1, <3>3
  <2>4. CASE r.at = "read_log"
    <3>1. /\ Indexing' = Indexing \ {w} /\ index' = writer[w].index /\ writer[w].at = "write_index"
          /\ torn_index' = torn_index \cup writer[w].missed
      BY <1>2, <1>4, <2>4 DEF Indexing, IndexPlaces
    <3>2. writer[w].page \in index'
      BY <1>1, <3>1 DEF RunPlaced
    <3>3. ASSUME NEW p \in PagesAtRisk', p # writer[w].page PROVE p \in PagesAtRisk
      <4>1. \A u \in Indexing : writer[u].page # p
        BY <1>4, <2>2, <3>1, <3>3 DEF Indexing
      <4>2. p \notin index \/ \E u \in WikiRuns : writer[u].at = "write_index" /\ p \notin writer[u].index \cup writer[u].missed
        <5>1. CASE p \notin index'
          BY <2>2, <3>1, <3>3, <5>1
        <5>2. CASE \E u \in WikiRuns : writer'[u].at = "write_index" /\ p \notin writer'[u].index \cup writer'[u].missed
          BY <1>4, <2>4, <5>2
        <5> QED
          BY <2>2, <5>1, <5>2
      <4> QED
        BY <2>2, <3>1, <3>3, <4>1, <4>2 DEF PagesAtRisk, At
    <3>4. CASE Indexing \ {w} # {}
      <4>1. PagesAtRisk' \subseteq PagesAtRisk \cup {writer[w].page}
        BY <3>3
      <4>2. CausesCover(PagesAtRisk', Indexing \ {w}, cuts + overlaps)
        BY ONLY <1>2, <2>1, <3>4, <4>1, CoversLeft
      <4> QED
        BY <2>1, <3>1, <4>2
    <3>5. CASE Indexing \ {w} = {}
      <4>1. writer[w].page \notin PagesAtRisk'
        <5>1. \A u \in WikiRuns : writer'[u].at # "write_index"
          BY <1>4, <2>4, <3>1, <3>5 DEF Indexing, IndexPlaces
        <5> QED
          BY <2>2, <3>2, <5>1
      <4>2. PagesAtRisk' \subseteq PagesAtRisk /\ Indexing' \subseteq Indexing
        BY <3>1, <3>3, <4>1
      <4>3. CausesCover(PagesAtRisk', Indexing', cuts + overlaps)
        BY ONLY <2>1, <4>2, CoversOn
      <4> QED
        BY <2>1, <4>3
    <3> QED
      BY <3>4, <3>5
  <2> QED
    BY <1>5, <2>3, <2>4
<1> QED
  BY <1>8, <1>9, <1>10, <1>11

LEMMA LogKeeps == ASSUME WikiInv, NEW w \in WikiRuns, ReadLog(w) \/ WriteLog(w) PROVE WikiInv'
<1>1. WikiTypes /\ Laid /\ Counted /\ RunPlaced(w) /\ writer[w] \in Writer /\ MaxRuns \in Nat
  BY WriterKnown, WikiBounds DEF WikiInv
<1>2. /\ writer[w].at \in {"read_log", "write_log"} /\ w \in Busy /\ w \notin Indexing /\ w \notin Naming
      /\ UNCHANGED <<layout, wiki_pages, index, second, runs, ingested, torn_index, overlaps, cuts>>
  BY DEF ReadLog, WriteLog, At, Busy, Indexing, IndexPlaces, Naming, SameRuns
<1>3. writer[w].run \in 1..runs /\ writer[w].run \in 1..MaxRuns /\ writer[w].log \in Logs
  <2>1. writer[w].run \in 1..runs /\ runs \in 0..MaxRuns
    BY <1>1, <1>2 DEF RunPlaced, WikiTypes
  <2>2. writer[w].run \in 1..MaxRuns
    BY <1>1, <2>1
  <2> QED
    BY <2>1, <2>2, WriterKnown
<1>4. index' \subseteq Pages /\ index' \subseteq PagesKnown /\ cuts' \in Nat
      /\ UNCHANGED <<layout, wiki_pages, second, runs, ingested, overlaps>>
  BY <1>1, <1>2 DEF WikiTypes, Laid
<1>5. /\ IsFiniteSet(DOMAIN wiki_pages') /\ \A p \in DOMAIN wiki_pages' : p \in DOMAIN wiki_pages \/ p[1] # "sources"
      /\ overlaps' \in Nat /\ overlaps' >= overlaps /\ cuts' >= cuts
      /\ DOMAIN wiki_pages' \subseteq DOMAIN wiki_pages \cup {Overview}
  BY <1>1, <1>2 DEF WikiTypes
<1>6. CASE ReadLog(w)
  <2> DEFINE Seen == {wiki_log, <<>>} \cup UNION {Prefixes(writer[u].log) : u \in Writing("write_log", w)}
             unseen(seen) == Range(wiki_log) \ Range(seen)
  <2>0. PICK seen \in Seen :
           writer' = [writer EXCEPT ![w].at = "write_log", ![w].log = Append(seen, writer[w].run), ![w].unread = unseen(seen)]
    BY <1>6 DEF ReadLog
  <2>1. PICK r : r = [writer[w] EXCEPT !.at = "write_log", !.log = Append(seen, writer[w].run), !.unread = unseen(seen)]
    OBVIOUS
  <2>2. /\ Append(seen, writer[w].run) \in Logs /\ unseen(seen) \in SUBSET (1..MaxRuns)
        /\ Range(Append(seen, writer[w].run)) = Range(seen) \cup {writer[w].run}
    <3>1. seen \in Logs
      <4>1. CASE seen \in {wiki_log, <<>>}
        BY <1>1, <4>1, LogsKnown DEF WikiTypes
      <4>2. CASE seen \notin {wiki_log, <<>>}
        <5>1. PICK u \in WikiRuns : seen \in Prefixes(writer[u].log)
          BY <2>0, <4>2 DEF Writing
        <5>2. writer[u].log \in Logs
          BY WriterKnown
        <5> QED
          BY <5>1, <5>2, LogsKnown
      <4> QED
        BY <4>1, <4>2
    <3>2. Range(wiki_log) \subseteq 1..MaxRuns
      BY <1>1, LogsKnown DEF WikiTypes
    <3> QED
      BY <1>3, <3>1, <3>2, LogsKnown
  <2>3. r \in Writer
    <3>1. "write_log" \in WriterPlaces
      BY DEF WriterPlaces
    <3> QED
      BY <2>1, <2>2, <3>1, WriterKnown
  <2>4. /\ r.run = writer[w].run /\ r.op = writer[w].op /\ r.page = writer[w].page /\ r.at = "write_log"
        /\ r.log = Append(seen, writer[w].run) /\ r.unread = unseen(seen)
    BY <1>1, <2>1 DEF Writer
  <2>5. writer' \in [WikiRuns -> Writer] /\ writer'[w] = r /\ \A u \in WikiRuns : u # w => writer'[u] = writer[u]
    <3>1. writer' = [writer EXCEPT ![w] = r]
      BY <1>1, <2>0, <2>1 DEF WikiTypes
    <3> QED
      BY <2>3, <3>1, Went
  <2>6. wiki_log' = wiki_log /\ logged_runs' = logged_runs /\ torn_log' = torn_log
    BY <1>6 DEF ReadLog
  <2>7. RunPlaced(w)'
    <3>1. r.run \in Range(r.log)
      BY <2>2, <2>4
    <3> QED
      BY <1>1, <1>2, <1>3, <2>4, <2>5, <3>1 DEF RunPlaced, IndexPlaces
  <2>8. wiki_log' \in Logs /\ logged_runs' \subseteq 1..MaxRuns
    BY <1>1, <2>6 DEF WikiTypes
  <2>9. /\ Frame(w)
        /\ CausesCover(LogsAtRisk, Busy, overlaps)' /\ CausesCover(PagesAtRisk, Indexing, cuts + overlaps)'
           /\ NamesCover(ingested, Naming, PageNames, overlaps)' => WikiInv'
    BY <1>2, <1>4, <2>3, <2>4, <2>5, <2>7, <2>8, AfterPage
  <2>10. CausesCover(LogsAtRisk, Busy, overlaps)'
    <3>1. writer'[w].at \notin {"idle"} /\ (writer'[w].at = "write_log" => Range(wiki_log) \subseteq Range(writer'[w].log) \cup writer'[w].unread)
      BY <2>2, <2>4, <2>5
    <3> QED
      BY <1>2, <2>6, <2>9, <3>1, LogsStay
  <2>11. CausesCover(PagesAtRisk, Indexing, cuts + overlaps)'
    <3>1. writer'[w].at \notin IndexPlaces
      BY <2>4, <2>5 DEF IndexPlaces
    <3> QED
      BY <1>2, <1>4, <1>5, <2>9, <3>1, PagesStay
  <2>12. NamesCover(ingested, Naming, PageNames, overlaps)'
    <3>1. w \notin Naming'
      BY <2>4, <2>5 DEF Naming, At
    <3> QED
      BY <1>2, <1>5, <2>9, <3>1, NamesStay
  <2> QED
    BY <2>9, <2>10, <2>11, <2>12
<1>7. CASE WriteLog(w)
  <2>1. /\ NotRunning \in Writer /\ NotRunning.at = "idle" /\ NotRunning.op = "none"
    BY WriterKnown DEF NotRunning
  <2>2. writer' \in [WikiRuns -> Writer] /\ writer'[w] = NotRunning /\ \A u \in WikiRuns : u # w => writer'[u] = writer[u]
    <3>1. writer' = [writer EXCEPT ![w] = NotRunning]
      BY <1>7 DEF WriteLog
    <3> QED
      BY <2>1, <3>1, Went
  <2>3. /\ wiki_log' = writer[w].log /\ logged_runs' = logged_runs \cup {writer[w].run} /\ writer[w].at = "write_log"
        /\ torn_log' = torn_log \cup writer[w].unread
    BY <1>7 DEF WriteLog, At
  <2>4. wiki_log' \in Logs /\ logged_runs' \subseteq 1..MaxRuns
    BY <1>1, <1>3, <2>3 DEF WikiTypes
  <2>5. RunPlaced(w)'
    BY <2>1, <2>2 DEF RunPlaced, IndexPlaces
  <2>6. /\ Frame(w)
        /\ CausesCover(LogsAtRisk, Busy, overlaps)' /\ CausesCover(PagesAtRisk, Indexing, cuts + overlaps)'
           /\ NamesCover(ingested, Naming, PageNames, overlaps)' => WikiInv'
    BY <1>2, <1>4, <2>1, <2>2, <2>4, <2>5, AfterPage
  <2>7. CausesCover(PagesAtRisk, Indexing, cuts + overlaps)'
    <3>1. writer'[w].at \notin IndexPlaces
      BY <2>1, <2>2 DEF IndexPlaces
    <3> QED
      BY <1>2, <1>4, <1>5, <2>6, <3>1, PagesStay
  <2>8. NamesCover(ingested, Naming, PageNames, overlaps)'
    <3>1. w \notin Naming'
      BY <2>1, <2>2 DEF Naming, At
    <3> QED
      BY <1>2, <1>5, <2>6, <3>1, NamesStay
  <2>9. Busy' = Busy \ {w}
    BY <2>1, <2>2 DEF Busy
  <2>10. writer[w].run \in Range(wiki_log')
    BY <1>1, <2>3 DEF RunPlaced
  <2>11. ASSUME NEW x \in LogsAtRisk', x # writer[w].run PROVE x \in LogsAtRisk
    <3>1. /\ x \in logged_runs \ torn_log'
          /\ x \notin Range(writer[w].log) \/ \E u \in WikiRuns : writer'[u].at = "write_log" /\ x \notin Range(writer'[u].log) \cup writer'[u].unread
      BY <2>3, <2>11 DEF LogsAtRisk, At
    <3>2. \E u \in WikiRuns : writer[u].at = "write_log" /\ x \notin Range(writer[u].log) \cup writer[u].unread
      BY <2>1, <2>2, <2>3, <3>1
    <3>3. x \in logged_runs \ torn_log
      BY <2>3, <3>1
    <3> QED
      BY <3>2, <3>3 DEF LogsAtRisk, At
  <2>12. CausesCover(LogsAtRisk, Busy, overlaps) /\ overlaps \in Nat /\ overlaps >= overlaps /\ overlaps' = overlaps
    BY <1>1, <1>2 DEF Counted, CausesCover
  <2>13. CausesCover(LogsAtRisk, Busy, overlaps)'
    <3>1. CASE Busy \ {w} # {}
      <4>1. LogsAtRisk' \subseteq LogsAtRisk \cup {writer[w].run}
        BY <2>11
      <4>2. CausesCover(LogsAtRisk', Busy \ {w}, overlaps)
        BY ONLY <1>2, <2>12, <3>1, <4>1, CoversLeft
      <4> QED
        BY <2>9, <2>12, <4>2
    <3>2. CASE Busy \ {w} = {}
      <4>1. writer[w].run \notin LogsAtRisk'
        <5>1. \A u \in WikiRuns : writer'[u].at # "write_log"
          BY <2>1, <2>2, <3>2 DEF Busy
        <5> QED
          BY <2>10, <5>1 DEF LogsAtRisk, At
      <4>2. LogsAtRisk' \subseteq LogsAtRisk /\ Busy' \subseteq Busy
        BY <2>9, <2>11, <4>1
      <4>3. CausesCover(LogsAtRisk', Busy', overlaps)
        BY ONLY <2>12, <4>2, CoversOn
      <4> QED
        BY <2>12, <4>3
    <3> QED
      BY <3>1, <3>2
  <2> QED
    BY <2>6, <2>7, <2>8, <2>13
<1> QED
  BY <1>6, <1>7

\* A run that was at its page or the index leaves it there.
LEMMA PagesLeft ==
  ASSUME WikiInv, NEW w \in Indexing, Frame(w), writer'[w].at = "idle",
         DOMAIN wiki_pages' \subseteq DOMAIN wiki_pages \cup {writer[w].page}, torn_index \subseteq torn_index',
         \A p \in DOMAIN wiki_pages \ torn_index' :
           p \notin index' => p \notin index \/ (At(w, "write_index") /\ p \notin writer[w].index \cup writer[w].missed),
         cuts' = cuts + 1, overlaps' = overlaps
  PROVE  CausesCover(PagesAtRisk, Indexing, cuts + overlaps)'
<1>1. Indexing' = Indexing \ {w} /\ \A u \in WikiRuns : u # w => writer'[u] = writer[u]
  BY DEF Indexing, IndexPlaces, Frame
<1>2. PagesAtRisk' \subseteq PagesAtRisk \cup {writer[w].page}
  <2> SUFFICES ASSUME NEW p \in PagesAtRisk', p # writer[w].page PROVE p \in PagesAtRisk
    OBVIOUS
  <2>1. /\ p \in DOMAIN wiki_pages' \ torn_index' /\ p[1] \in {"sources", "analyses"} /\ \A u \in Indexing' : writer'[u].page # p
        /\ p \notin index' \/ \E u \in WikiRuns : writer'[u].at = "write_index" /\ p \notin writer'[u].index \cup writer'[u].missed
    BY DEF PagesAtRisk, At
  <2>2. \A u \in Indexing : writer[u].page # p
    BY <1>1, <2>1 DEF Indexing
  <2>3. p \in DOMAIN wiki_pages \ torn_index'
    BY <2>1
  <2>4. p \notin index \/ \E u \in WikiRuns : writer[u].at = "write_index" /\ p \notin writer[u].index \cup writer[u].missed
    <3>1. CASE p \notin index'
      BY <2>3, <3>1 DEF At, Indexing
    <3>2. CASE \E u \in WikiRuns : writer'[u].at = "write_index" /\ p \notin writer'[u].index \cup writer'[u].missed
      BY <1>1, <3>2
    <3> QED
      BY <2>1, <3>1, <3>2
  <2> QED
    BY <2>1, <2>2, <2>3, <2>4 DEF PagesAtRisk, At
<1>3. PICK c \in Nat : c = cuts' + overlaps' /\ c >= cuts + overlaps /\ c >= (cuts + overlaps) + 1
  <2>1. cuts \in Nat /\ overlaps \in Nat
    BY DEF WikiInv, WikiTypes
  <2>2. cuts + 1 + overlaps \in Nat /\ cuts + 1 + overlaps >= cuts + overlaps /\ cuts + 1 + overlaps >= (cuts + overlaps) + 1
    BY <2>1
  <2> QED
    BY <2>2
<1>4. CausesCover(PagesAtRisk, Indexing, cuts + overlaps)
  BY DEF WikiInv, Counted
<1>5. CausesCover(PagesAtRisk', Indexing \ {w}, c)
  <2>1. w \in Indexing
    OBVIOUS
  <2> QED
    BY ONLY <1>2, <1>3, <1>4, <2>1, CoversLeft, c \in Nat
<1> QED
  BY <1>1, <1>3, <1>5

\* A run goes without an entry in the log.
LEMMA LogsLeft ==
  ASSUME WikiInv, NEW w \in Busy, Frame(w), writer'[w].at = "idle", torn_log \subseteq torn_log',
         UNCHANGED <<logged_runs, overlaps>>,
         \A x \in logged_runs \ torn_log' :
           x \notin Range(wiki_log') =>
             x \notin Range(wiki_log) \/ (At(w, "write_log") /\ x \notin Range(writer[w].log) \cup writer[w].unread)
  PROVE  CausesCover(LogsAtRisk, Busy, overlaps)'
<1>1. Busy' \subseteq Busy /\ w \in WikiRuns /\ \A u \in WikiRuns : u # w => writer'[u] = writer[u]
  BY DEF Busy, Frame
<1>2. LogsAtRisk' \subseteq LogsAtRisk
  <2> SUFFICES ASSUME NEW x \in LogsAtRisk' PROVE x \in LogsAtRisk
    OBVIOUS
  <2>1. /\ x \in logged_runs \ torn_log'
        /\ \/ x \notin Range(wiki_log')
           \/ \E u \in WikiRuns : writer'[u].at = "write_log" /\ x \notin Range(writer'[u].log) \cup writer'[u].unread
    BY DEF LogsAtRisk, At
  <2>2. x \in logged_runs \ torn_log
    BY <2>1
  <2>3. CASE x \notin Range(wiki_log')
    <3>1. x \notin Range(wiki_log) \/ (At(w, "write_log") /\ x \notin Range(writer[w].log) \cup writer[w].unread)
      BY <2>1, <2>3
    <3> QED
      BY <1>1, <2>2, <3>1 DEF LogsAtRisk
  <2>4. CASE \E u \in WikiRuns : writer'[u].at = "write_log" /\ x \notin Range(writer'[u].log) \cup writer'[u].unread
    <3>1. PICK u \in WikiRuns : writer'[u].at = "write_log" /\ x \notin Range(writer'[u].log) \cup writer'[u].unread
      BY <2>4
    <3>2. writer'[u] = writer[u]
      BY <1>1, <3>1
    <3> QED
      BY <2>2, <3>1, <3>2 DEF LogsAtRisk, At
  <2> QED
    BY <2>1, <2>3, <2>4
<1>3. CausesCover(LogsAtRisk, Busy, overlaps) /\ overlaps \in Nat /\ overlaps >= overlaps /\ overlaps' = overlaps
  BY DEF WikiInv, Counted, CausesCover
<1>4. CausesCover(LogsAtRisk', Busy', overlaps)
  BY ONLY <1>1, <1>2, <1>3, CoversOn
<1> QED
  BY <1>3, <1>4

\* A run goes and no page is written.
LEMMA NamesLeft ==
  ASSUME WikiInv, NEW w \in WikiRuns, Frame(w), writer'[w].at = "idle", UNCHANGED <<wiki_pages, ingested, overlaps>>
  PROVE  NamesCover(ingested, Naming, PageNames, overlaps)'
<1>1. NamesCover(ingested, Naming, PageNames, overlaps) /\ IsFiniteSet(PageNames) /\ WikiTypes
  BY DEF WikiInv, Counted, NamesCover
<1>2. CASE w \notin Naming
  <2>1. w \notin Naming'
    BY DEF Naming, At
  <2>2. /\ IsFiniteSet(DOMAIN wiki_pages') /\ \A p \in DOMAIN wiki_pages' : p \in DOMAIN wiki_pages \/ p[1] # "sources"
        /\ overlaps' \in Nat /\ overlaps' >= overlaps
    BY <1>1 DEF WikiTypes
  <2> QED
    BY <1>2, <2>1, <2>2, NamesStay
<1>3. CASE w \in Naming
  <2>1. Naming' = Naming \ {w} /\ PagesIn("sources")' = PagesIn("sources")
    BY DEF Naming, At, PagesIn, Frame
  <2>2. \A u \in Naming' : writer'[u] = writer[u] /\ u \in Naming
    BY <2>1 DEF Naming, Frame
  <2>3. PageNames' = PagesIn("sources")' \cup {writer'[u].page : u \in Naming'}
    BY DEF PageNames
  <2>4. PageNames' \subseteq PageNames
    BY <2>1, <2>2, <2>3 DEF PageNames
  <2>5. PageNames \ {writer[w].page} \subseteq PageNames'
    <3>1. \A u \in Naming : u = w \/ u \in Naming'
      BY <2>1
    <3> QED
      BY <2>1, <2>2, <2>3, <3>1 DEF PageNames
  <2>6. IsFiniteSet(PageNames')
    BY ONLY <1>1, <2>4, FS_Subset
  <2>7. NamesCover(ingested, Naming \ {w}, PageNames', overlaps)
    BY ONLY <1>1, <1>3, <2>5, <2>6, NamedLeft
  <2> QED
    BY <2>1, <2>7
<1> QED
  BY <1>2, <1>3

\* What is known of a run that goes.
LEMMA WriterGone ==
  ASSUME WikiInv, NEW w \in WikiRuns, CutShort(w)
  PROVE  /\ writer' \in [WikiRuns -> Writer] /\ writer'[w] = NotRunning /\ \A u \in WikiRuns : u # w => writer'[u] = writer[u]
         /\ NotRunning \in Writer /\ NotRunning.at = "idle" /\ RunPlaced(w)'
         /\ cuts' = cuts + 1 /\ cuts' \in Nat /\ cuts' >= cuts /\ cuts \in Nat /\ overlaps \in Nat
<1>1. NotRunning \in Writer /\ NotRunning.at = "idle" /\ NotRunning.op = "none"
  BY WriterKnown DEF NotRunning
<1>2. writer' \in [WikiRuns -> Writer] /\ writer'[w] = NotRunning /\ \A u \in WikiRuns : u # w => writer'[u] = writer[u]
  <2>1. writer' = [writer EXCEPT ![w] = NotRunning]
    BY DEF CutShort
  <2> QED
    BY <1>1, <2>1, Went
<1>3. RunPlaced(w)'
  BY <1>1, <1>2 DEF RunPlaced, IndexPlaces
<1>4. cuts' = cuts + 1 /\ cuts \in Nat /\ overlaps \in Nat
  BY DEF CutShort, WikiInv, WikiTypes
<1> QED
  BY <1>1, <1>2, <1>3, <1>4

LEMMA EndsKeep == ASSUME WikiInv, NEW w \in WikiRuns, EndEarly(w) \/ CutIndex(w) \/ CutLog(w) PROVE WikiInv'
<1>1. WikiTypes /\ Laid /\ Counted /\ RunPlaced(w)
  BY DEF WikiInv
<1>2. /\ w \in Busy /\ CutShort(w)
      /\ UNCHANGED <<layout, wiki_pages, second, ingested, logged_runs, runs, overlaps>>
  BY DEF EndEarly, CutIndex, CutLog, SameRuns, Busy, At
<1>3. /\ writer' \in [WikiRuns -> Writer] /\ writer'[w] = NotRunning /\ \A u \in WikiRuns : u # w => writer'[u] = writer[u]
      /\ NotRunning \in Writer /\ NotRunning.at = "idle" /\ RunPlaced(w)'
      /\ cuts' = cuts + 1 /\ cuts' \in Nat /\ cuts' >= cuts /\ cuts \in Nat /\ overlaps \in Nat
  BY <1>2, WriterGone
<1>4. /\ torn_index \subseteq torn_index'
      /\ \/ index' = index /\ torn_index' = torn_index
         \/ /\ w \in Indexing /\ At(w, "write_index") /\ index' \subseteq writer[w].index
            /\ writer[w].missed \cup (writer[w].index \ index') \subseteq torn_index'
  <2>1. CASE CutIndex(w)
    <3>1. PICK kept \in SUBSET writer[w].index :
             index' = kept /\ torn_index' = torn_index \cup writer[w].missed \cup (writer[w].index \ kept)
      BY <2>1 DEF CutIndex
    <3>2. At(w, "write_index") /\ w \in Indexing
      BY <2>1 DEF CutIndex, Indexing, IndexPlaces, At
    <3> QED
      BY <3>1, <3>2
  <2>2. CASE EndEarly(w) \/ CutLog(w)
    BY <2>2 DEF EndEarly, CutLog, tornVars
  <2> QED
    BY <2>1, <2>2
<1>5. /\ torn_log \subseteq torn_log' /\ wiki_log' \in Logs
      /\ \/ wiki_log' = wiki_log /\ torn_log' = torn_log
         \/ At(w, "write_log") /\ writer[w].unread \cup (Range(writer[w].log) \ Range(wiki_log')) \subseteq torn_log'
  <2>1. CASE CutLog(w)
    <3>1. PICK kept \in Prefixes(writer[w].log) :
             wiki_log' = kept /\ torn_log' = torn_log \cup writer[w].unread \cup (Range(writer[w].log) \ Range(kept))
      BY <2>1 DEF CutLog
    <3>2. At(w, "write_log") /\ kept \in Logs
      BY <2>1, WriterKnown, LogsKnown DEF CutLog
    <3> QED
      BY <3>1, <3>2
  <2>2. CASE EndEarly(w) \/ CutIndex(w)
    BY <1>1, <2>2 DEF EndEarly, CutIndex, tornVars, WikiTypes
  <2> QED
    BY <2>1, <2>2
<1>6. index' \subseteq Pages /\ index' \subseteq PagesKnown
  <2>1. writer[w].index \subseteq Pages /\ (At(w, "write_index") => writer[w].index \subseteq PagesKnown)
    BY <1>1, WriterKnown DEF RunPlaced, At
  <2> QED
    BY <1>1, <1>4, <2>1 DEF WikiTypes, Laid
<1>7. /\ Frame(w)
      /\ CausesCover(LogsAtRisk, Busy, overlaps)' /\ CausesCover(PagesAtRisk, Indexing, cuts + overlaps)'
         /\ NamesCover(ingested, Naming, PageNames, overlaps)' => WikiInv'
  <2>1. logged_runs' \subseteq 1..MaxRuns
    BY <1>1, <1>2 DEF WikiTypes
  <2> QED
    BY <1>2, <1>3, <1>5, <1>6, <2>1, AfterPage
<1>8. CausesCover(LogsAtRisk, Busy, overlaps)'
  <2>1. \A x \in logged_runs \ torn_log' :
          x \notin Range(wiki_log') =>
            x \notin Range(wiki_log) \/ (At(w, "write_log") /\ x \notin Range(writer[w].log) \cup writer[w].unread)
    BY <1>5
  <2>2. writer'[w].at = "idle"
    BY <1>3
  <2> QED
    BY <1>2, <1>5, <1>7, <2>1, <2>2, LogsLeft
<1>9. CausesCover(PagesAtRisk, Indexing, cuts + overlaps)'
  <2>1. CASE w \notin Indexing
    <3>1. writer'[w].at \notin IndexPlaces
      BY <1>3 DEF IndexPlaces
    <3>2. /\ DOMAIN wiki_pages' \subseteq DOMAIN wiki_pages \cup {Overview} /\ index' = index /\ torn_index' = torn_index
          /\ overlaps' \in Nat /\ overlaps' >= overlaps
      BY <1>2, <1>3, <1>4, <2>1
    <3> QED
      BY <1>3, <1>7, <2>1, <3>1, <3>2, PagesStay
  <2>2. CASE w \in Indexing
    <3>1. \A p \in DOMAIN wiki_pages \ torn_index' :
            p \notin index' => p \notin index \/ (At(w, "write_index") /\ p \notin writer[w].index \cup writer[w].missed)
      BY <1>4
    <3>2. writer'[w].at = "idle" /\ DOMAIN wiki_pages' \subseteq DOMAIN wiki_pages \cup {writer[w].page}
      BY <1>2, <1>3
    <3> QED
      BY <1>2, <1>3, <1>4, <1>7, <2>2, <3>1, <3>2, PagesLeft
  <2> QED
    BY <2>1, <2>2
<1>10. NamesCover(ingested, Naming, PageNames, overlaps)'
  <2>1. writer'[w].at = "idle" /\ UNCHANGED <<wiki_pages, ingested, overlaps>>
    BY <1>2, <1>3
  <2> QED
    BY <1>7, <2>1, NamesLeft
<1> QED
  BY <1>7, <1>8, <1>9, <1>10

\* A page that is there in part.
LEMMA CutPageKeeps == ASSUME WikiInv, NEW w \in WikiRuns, CutPage(w) PROVE WikiInv'
<1>1. PICK r \in Writer : r = writer[w]
  BY WriterKnown
<1>2. PICK links \in SUBSET LinksOf(r) : Put(r.page, links)
  BY <1>1 DEF CutPage
<1>3. /\ At(w, "page") /\ r.at = "page" /\ CutShort(w) /\ w \in Busy /\ w \in Indexing
      /\ ingested' = Ingested(r)
      /\ UNCHANGED <<runs, overlaps, layout, index, wiki_log, second, logged_runs, torn_index, torn_log>>
  BY <1>1 DEF CutPage, At, Busy, Indexing, IndexPlaces, SameRuns
<1>4. /\ DOMAIN wiki_pages' = DOMAIN wiki_pages \cup {r.page} /\ wiki_pages'[r.page] = links
      /\ \A p \in DOMAIN wiki_pages : p # r.page => wiki_pages'[p] = wiki_pages[p]
  BY <1>2 DEF Put
<1>5. /\ writer' \in [WikiRuns -> Writer] /\ writer'[w] = NotRunning /\ \A u \in WikiRuns : u # w => writer'[u] = writer[u]
      /\ NotRunning \in Writer /\ NotRunning.at = "idle" /\ RunPlaced(w)'
      /\ cuts' = cuts + 1 /\ cuts' \in Nat /\ cuts' >= cuts /\ cuts \in Nat /\ overlaps \in Nat
  BY <1>3, WriterGone
<1>6. WikiTypes /\ Laid /\ Counted /\ RunPlaced(w)
  BY DEF WikiInv
<1>7. r.run \in 1..runs /\ layout >= 3 /\ r.op \in {"ingest", "query", "lint"}
  BY <1>1, <1>3, <1>6 DEF RunPlaced, IndexPlaces
<1>8. Frame(w)
  BY <1>1, <1>3, <1>4, <1>5 DEF Frame, Ingested
<1>9. WikiTypes'
  <2>1. DOMAIN wiki_pages' \subseteq Pages /\ IsFiniteSet(DOMAIN wiki_pages')
    BY <1>4, <1>6, FS_AddElement DEF WikiTypes, Writer
  <2>2. ingested' \subseteq 1..runs'
    BY <1>3, <1>6, <1>7 DEF WikiTypes, Ingested
  <2> QED
    BY <1>3, <1>5, <1>6, <2>1, <2>2 DEF WikiTypes
<1>10. Laid'
  <2>1. layout \in 0..4 /\ layout' = layout
    BY <1>3, <1>6 DEF WikiTypes
  <2>2. layout' < 3 => DOMAIN wiki_pages' = {}
    BY <1>7, <2>1
  <2>3. layout' = 4 => Overview \in DOMAIN wiki_pages'
    BY <1>3, <1>4, <1>6 DEF Laid
  <2>4. PagesKnown \subseteq PagesKnown' /\ links \subseteq PagesKnown
    BY <1>2, <1>4, <1>7 DEF PagesKnown, FoundPages, LinksOf
  <2>5. \A p \in DOMAIN wiki_pages' : wiki_pages'[p] \subseteq PagesKnown'
    BY <1>4, <1>6, <2>4 DEF Laid
  <2>6. index' \subseteq PagesKnown'
    BY <1>3, <1>6, <2>4 DEF Laid
  <2> QED
    BY <2>2, <2>3, <2>5, <2>6 DEF Laid
<1>11. OwnRuns'
  BY <1>5, <1>8, OwnStay
<1>12. CausesCover(LogsAtRisk, Busy, overlaps)'
  <2>1. /\ torn_log \subseteq torn_log' /\ writer'[w].at = "idle"
        /\ \A x \in logged_runs \ torn_log' : x \notin Range(wiki_log') => x \notin Range(wiki_log)
    BY <1>3, <1>5
  <2> QED
    BY <1>3, <1>8, <2>1, LogsLeft
<1>13. CausesCover(PagesAtRisk, Indexing, cuts + overlaps)'
  <2>1. /\ torn_index \subseteq torn_index' /\ writer'[w].at = "idle"
        /\ \A p \in DOMAIN wiki_pages \ torn_index' : p \notin index' => p \notin index
        /\ DOMAIN wiki_pages' \subseteq DOMAIN wiki_pages \cup {writer[w].page}
    BY <1>1, <1>3, <1>4, <1>5
  <2> QED
    BY <1>3, <1>5, <1>8, <2>1, PagesLeft
<1>14. NamesCover(ingested, Naming, PageNames, overlaps)' /\ (Cardinality(PagesIn("sources")) <= Cardinality(ingested))'
  <2>1. writer'[w].at # "page" /\ DOMAIN wiki_pages' = DOMAIN wiki_pages \cup {writer[w].page}
    BY <1>1, <1>4, <1>5
  <2>2. ingested' = Ingested(writer[w]) /\ overlaps' = overlaps
    BY <1>1, <1>3
  <2> QED
    BY <1>3, <1>8, <2>1, <2>2, NamesWritten
<1>15. Counted'
  BY <1>12, <1>13, <1>14 DEF Counted
<1> QED
  BY <1>5, <1>8, <1>9, <1>10, <1>11, <1>15, WikiKept

\* A file of init that is there in part.
LEMMA CutInitKeeps == ASSUME WikiInv, NEW w \in WikiRuns, CutFiles(w) \/ CutOverview(w) PROVE WikiInv'
<1>1. /\ writer[w].at \in {"files", "overview"} /\ CutShort(w)
      /\ UNCHANGED <<runs, overlaps, wiki_log, second, ingested, logged_runs, torn_index, torn_log>>
  BY DEF CutFiles, CutOverview, At, SameRuns
<1>2. /\ writer' \in [WikiRuns -> Writer] /\ writer'[w] = NotRunning /\ \A u \in WikiRuns : u # w => writer'[u] = writer[u]
      /\ NotRunning \in Writer /\ NotRunning.at = "idle" /\ RunPlaced(w)'
      /\ cuts' = cuts + 1 /\ cuts' \in Nat /\ cuts' >= cuts /\ cuts \in Nat /\ overlaps \in Nat
  BY <1>1, WriterGone
<1>3. WikiTypes /\ Laid /\ Counted /\ RunPlaced(w) /\ w \in Busy /\ w \notin Indexing /\ Overview \in Pages
  BY <1>1, WriterKnown DEF WikiInv, Busy, Indexing, IndexPlaces
<1>4. /\ layout' \in 0..4 /\ (layout >= 3 => layout' >= 3)
      /\ \/ /\ wiki_pages' = wiki_pages /\ layout < 3 /\ layout' \in {2, 3} /\ index' \subseteq index \cup {Overview}
         \/ /\ DOMAIN wiki_pages' = DOMAIN wiki_pages \cup {Overview} /\ wiki_pages'[Overview] = {} /\ layout' = 4
            /\ \A p \in DOMAIN wiki_pages : p # Overview => wiki_pages'[p] = wiki_pages[p]
            /\ index' = index
  <2>1. CASE CutFiles(w)
    <3>1. Template \subseteq index \cup {Overview} /\ layout \in 0..4
      BY <1>3 DEF Template, WikiTypes
    <3>2. /\ wiki_pages' = wiki_pages
          /\ \/ layout < 2 /\ layout' = 2 /\ index' \subseteq Template
             \/ layout < 3 /\ layout' = 3 /\ index' = Template
      BY <2>1 DEF CutFiles
    <3> QED
      BY <3>1, <3>2
  <2>2. CASE CutOverview(w)
    BY <1>3, <2>2 DEF CutOverview, Put
  <2> QED
    BY <2>1, <2>2
<1>5. layout < 3 => DOMAIN wiki_pages = {}
  BY <1>3 DEF Laid
<1>6. Frame(w)
  BY <1>1, <1>2, <1>4 DEF Frame
<1>7. WikiTypes'
  <2>1. DOMAIN wiki_pages' \subseteq Pages /\ IsFiniteSet(DOMAIN wiki_pages')
    BY <1>3, <1>4, FS_AddElement DEF WikiTypes
  <2>2. index' \subseteq Pages
    BY <1>3, <1>4 DEF WikiTypes
  <2> QED
    BY <1>1, <1>2, <1>3, <1>4, <2>1, <2>2 DEF WikiTypes
<1>8. Laid'
  <2>1. PagesKnown \subseteq PagesKnown' /\ Overview \in PagesKnown'
    BY <1>4 DEF PagesKnown
  <2>2. index' \subseteq PagesKnown'
    BY <1>3, <1>4, <2>1 DEF Laid
  <2>3. \A p \in DOMAIN wiki_pages' : wiki_pages'[p] \subseteq PagesKnown'
    BY <1>3, <1>4, <2>1 DEF Laid
  <2>4. (layout' < 3 => DOMAIN wiki_pages' = {}) /\ (layout' = 4 => Overview \in DOMAIN wiki_pages')
    BY <1>4, <1>5
  <2> QED
    BY <2>2, <2>3, <2>4 DEF Laid
<1>9. OwnRuns'
  BY <1>2, <1>6, OwnStay
<1>10. Counted'
  <2>1. CausesCover(LogsAtRisk, Busy, overlaps)'
    <3>1. /\ torn_log \subseteq torn_log' /\ writer'[w].at = "idle"
          /\ \A x \in logged_runs \ torn_log' : x \notin Range(wiki_log') => x \notin Range(wiki_log)
      BY <1>1, <1>2
    <3> QED
      BY <1>1, <1>3, <1>6, <3>1, LogsLeft
  <2>2. CausesCover(PagesAtRisk, Indexing, cuts + overlaps)'
    <3>1. writer'[w].at \notin IndexPlaces /\ torn_index' = torn_index
      BY <1>1, <1>2 DEF IndexPlaces
    <3>2. DOMAIN wiki_pages' \subseteq DOMAIN wiki_pages \cup {Overview} /\ (index' = index \/ DOMAIN wiki_pages' = {})
      BY <1>4, <1>5
    <3>3. cuts' \in Nat /\ overlaps' \in Nat /\ cuts' >= cuts /\ overlaps' >= overlaps
      BY <1>1, <1>2
    <3> QED
      BY <1>3, <1>6, <3>1, <3>2, <3>3, PagesStay
  <2>3. NamesCover(ingested, Naming, PageNames, overlaps)' /\ (Cardinality(PagesIn("sources")) <= Cardinality(ingested))'
    <3>1. w \notin Naming /\ w \notin Naming'
      BY <1>1, <1>2 DEF Naming, At
    <3>2. IsFiniteSet(DOMAIN wiki_pages')
      BY <1>7 DEF WikiTypes
    <3>3. \A p \in DOMAIN wiki_pages' : p \in DOMAIN wiki_pages \/ p[1] # "sources"
      BY <1>4 DEF Overview, Page
    <3>4. overlaps' \in Nat /\ overlaps' >= overlaps /\ ingested' = ingested
      BY <1>1, <1>2
    <3> QED
      BY <1>6, <3>1, <3>2, <3>3, <3>4, NamesStay
  <2> QED
    BY <2>1, <2>2, <2>3 DEF Counted
<1> QED
  BY <1>2, <1>6, <1>7, <1>8, <1>9, <1>10, WikiKept

LEMMA NextWikis == WikiInv /\ [WikiNext]_wikiVars => WikiInv'
<1> SUFFICES ASSUME WikiInv, [WikiNext]_wikiVars PROVE WikiInv'
  OBVIOUS
<1>1. ASSUME NEW w \in WikiRuns,
             \/ Initialise(w) \/ MakeFolders(w) \/ MakeFiles(w) \/ MakeOverview(w) \/ StartRun(w) \/ WritePage(w)
             \/ ReadIndex(w) \/ WriteIndex(w) \/ ReadLog(w) \/ WriteLog(w) \/ EndEarly(w)
             \/ CutFiles(w) \/ CutOverview(w) \/ CutPage(w) \/ CutIndex(w) \/ CutLog(w)
      PROVE  WikiInv'
  BY <1>1, InitKeeps, BeginsKeep, WritePageKeeps, IndexKeeps, LogKeeps, EndsKeep, CutPageKeeps, CutInitKeeps
<1>2. CASE NextSecond \/ UNCHANGED wikiVars
  <2>1. /\ second' \in 0..MaxSeconds
        /\ UNCHANGED <<layout, wiki_pages, index, wiki_log, writer, runs, ingested, logged_runs, torn_index, torn_log, cuts, overlaps>>
    BY <1>2, WikiBounds DEF NextSecond, wikiVars, tornVars, WikiInv, WikiTypes
  <2>2. WikiTypes' /\ Laid' /\ (\A w \in WikiRuns : RunPlaced(w))' /\ OwnRuns'
    BY <2>1 DEF WikiInv, WikiTypes, Laid, PagesKnown, RunPlaced, OwnRuns, Busy
  <2>3. Counted'
    BY <2>1 DEF WikiInv, Counted, LogsAtRisk, Busy, PagesAtRisk, Indexing, Naming, PageNames, PagesIn, At
  <2> QED
    BY <2>2, <2>3 DEF WikiInv
<1> QED
  BY <1>1, <1>2 DEF WikiNext

\* The wiki keeps its types, for any runs of the program side by side.
THEOREM WikiTypeCorrect == WikiSpec => []WikiTypeOK
  BY InitWiki, NextWikis, WikiTyped, PTL DEF WikiSpec

\* What is lost in the wiki is bounded by its causes, for any runs of the program: but for
\* the entries in a part of a file that was torn off, an entry, a page or a name is lost at
\* most as often as runs were cut short or began while another went on, however many of
\* them write over each other; and no entry and no link names a page that is not there,
\* whatever is torn.
THEOREM WikiHolds == WikiSpec => []WikiAccounts
  BY InitWiki, NextWikis, WikiTold, PTL DEF WikiSpec

------------------------------------------------------------------------------
(* The benchmark runs *)

BenchSpec == BenchInit /\ [][BenchNext]_benchVars

\* f counts the numbers in P by their keys.
ByKey(f, P, N, K, key, at) ==
  /\ N \in Nat /\ P \in SUBSET (1..N) /\ f \in [K -> Nat] /\ \A i \in P : key[i] \in K
  /\ \A k \in K : f[k] = Cardinality(at[k]) /\ \A i : i \in at[k] <=> i \in P /\ key[i] = k

\* What is counted by keys adds up to the whole.
LEMMA Summed ==
  ASSUME NEW f, NEW P, NEW N, NEW K, NEW key, NEW at, ByKey(f, P, N, K, key, at)
  PROVE  Sum(f) = Cardinality(P)
<1> DEFINE upto(i) == {j \in at[key[i]] : j <= i}
           T == UNION {{x} \X (1..f[x]) : x \in DOMAIN f}
           g == [i \in P |-> <<key[i], Cardinality(upto(i))>>]
<1>1. /\ N \in Nat /\ P \in SUBSET (1..N) /\ f \in [K -> Nat] /\ \A i \in P : key[i] \in K
      /\ \A k \in K : \A i : i \in at[k] <=> i \in P /\ key[i] = k
      /\ \A k \in K : f[k] = Cardinality(at[k])
  BY DEF ByKey
<1>2. IsFiniteSet(P) /\ \A S \in SUBSET P : IsFiniteSet(S) /\ Cardinality(S) \in Nat
  <2>1. IsFiniteSet(1..N)
    BY <1>1, FS_Interval
  <2> QED
    BY <1>1, <2>1, FS_Subset, FS_CardinalityType
<1>3. \A k, n : <<k, n>> \in T <=> k \in K /\ n \in 1..f[k]
  BY <1>1
<1>4. \A y \in T : y = <<y[1], y[2]>>
  OBVIOUS
<1>5. \A i \in P : i \in Nat
  BY <1>1
<1>6. \A i \in P : \A m : m \in upto(i) <=> m \in P /\ key[m] = key[i] /\ m <= i
  BY <1>1
<1>7. \A k \in K : at[k] \in SUBSET P
  BY <1>1
<1> HIDE DEF upto
<1>8. \A i \in P : upto(i) \in SUBSET P /\ upto(i) \in SUBSET at[key[i]] /\ i \in upto(i)
  BY <1>1, <1>5, <1>6
<1>9. \A i \in P : Cardinality(upto(i)) \in 1..f[key[i]]
  <2> SUFFICES ASSUME NEW i \in P PROVE Cardinality(upto(i)) \in 1..f[key[i]]
    OBVIOUS
  <2>1. f[key[i]] = Cardinality(at[key[i]]) /\ at[key[i]] \in SUBSET P
    BY <1>1, <1>7
  <2>2. /\ IsFiniteSet(upto(i)) /\ Cardinality(upto(i)) \in Nat /\ IsFiniteSet(at[key[i]])
        /\ Cardinality(at[key[i]]) \in Nat /\ upto(i) \subseteq at[key[i]] /\ upto(i) # {}
    BY <1>2, <1>8, <2>1
  <2>3. Cardinality(upto(i)) <= Cardinality(at[key[i]])
    BY <2>2, FS_Subset
  <2>4. Cardinality(upto(i)) # 0
    BY <2>2, FS_EmptySet
  <2> QED
    BY <2>1, <2>2, <2>3, <2>4
<1>10. \A i, j \in P : key[i] = key[j] /\ i < j => Cardinality(upto(i)) < Cardinality(upto(j))
  <2> SUFFICES ASSUME NEW i \in P, NEW j \in P, key[i] = key[j], i < j
               PROVE  Cardinality(upto(i)) < Cardinality(upto(j))
    OBVIOUS
  <2>1. j \notin upto(i) /\ upto(i) \cup {j} \subseteq upto(j)
    BY <1>5, <1>6
  <2>2. IsFiniteSet(upto(i)) /\ IsFiniteSet(upto(j)) /\ Cardinality(upto(i)) \in Nat /\ Cardinality(upto(j)) \in Nat
    BY <1>2, <1>8
  <2>3. Cardinality(upto(i) \cup {j}) = Cardinality(upto(i)) + 1
    BY <2>1, <2>2, FS_AddElement
  <2>4. Cardinality(upto(i) \cup {j}) <= Cardinality(upto(j))
    BY <2>1, <2>2, FS_Subset
  <2> QED
    BY <2>2, <2>3, <2>4
<1>11. \A k \in K : \A n \in 1..f[k] : \E i \in P : key[i] = k /\ Cardinality(upto(i)) = n
  <2> SUFFICES ASSUME NEW k \in K, NEW n \in 1..f[k] PROVE \E i \in P : key[i] = k /\ Cardinality(upto(i)) = n
    OBVIOUS
  <2>1. PICK S : S = at[k]
    OBVIOUS
  <2>2. S \in SUBSET (1..N) /\ n \in 1..Cardinality(S)
    BY <1>1, <1>7, <2>1
  <2>3. PICK i \in S : Cardinality({j \in S : j <= i}) = n
    <3>1. N \in Nat
      BY <1>1
    <3>2. S \in SUBSET (1..N)
      BY <2>2
    <3>3. \A m \in 1..Cardinality(S) : \E i \in S : Cardinality({j \in S : j <= i}) = m
      BY ONLY <3>1, <3>2, Ranks
    <3>4. n \in 1..Cardinality(S)
      BY <2>2
    <3> QED
      BY ONLY <3>3, <3>4
  <2>4. i \in P /\ key[i] = k
    BY <1>1, <2>1, <2>3
  <2>5. {j \in S : j <= i} = upto(i)
    BY <1>1, <1>6, <2>1, <2>4
  <2> QED
    BY <2>3, <2>4, <2>5
<1> HIDE DEF T
<1>12. \A i \in P : g[i] = <<key[i], Cardinality(upto(i))>> /\ g[i] \in T
  BY <1>1, <1>3, <1>9
<1>13. \A i, j \in P : g[i] = g[j] => i = j
  <2> SUFFICES ASSUME NEW i \in P, NEW j \in P, g[i] = g[j] PROVE i = j
    OBVIOUS
  <2>1. key[i] = key[j] /\ Cardinality(upto(i)) = Cardinality(upto(j))
    BY <1>12
  <2>2. Cardinality(upto(i)) \in Nat /\ Cardinality(upto(j)) \in Nat
    BY <1>2, <1>8
  <2>3. ~(i < j) /\ ~(j < i)
    BY <1>10, <2>1, <2>2
  <2> QED
    BY <1>5, <2>3
<1>14. \A y \in T : \E i \in P : g[i] = y
  <2> SUFFICES ASSUME NEW y \in T PROVE \E i \in P : g[i] = y
    OBVIOUS
  <2>1. y = <<y[1], y[2]>> /\ y[1] \in K /\ y[2] \in 1..f[y[1]]
    BY <1>3, <1>4
  <2>2. PICK i \in P : key[i] = y[1] /\ Cardinality(upto(i)) = y[2]
    BY <1>11, <2>1
  <2> QED
    BY <1>12, <2>1, <2>2
<1>15. g \in [P -> T] /\ DOMAIN g = P
  BY <1>12
<1> HIDE DEF g
<1>16. g \in Bijection(P, T)
  BY <1>13, <1>14, <1>15 DEF Bijection, Injection, Surjection, IsInjective
<1>17. ExistsBijection(P, T)
  BY <1>16 DEF ExistsBijection
<1>18. Cardinality(T) = Cardinality(P)
  BY <1>2, <1>17, FS_Bijection
<1> QED
  BY <1>18 DEF Sum, T

LEMMA SuiteKnown ==
  /\ Len(Suite) \in Nat /\ Len(Suite) > 0 /\ DOMAIN Suite = 1..Len(Suite)
  /\ \A i \in 1..Len(Suite) : Suite[i] \in Range(Suite)
<1>1. Suite \in Seq(Range(Suite)) /\ Suite # <<>>
  BY BenchBounds
<1>2. DOMAIN Suite = 1..Len(Suite) /\ Len(Suite) \in Nat /\ Len(Suite) # 0
  BY <1>1, EmptySeq
<1> QED
  BY <1>2 DEF Range

\* The place in the suite and the round of the n-th case.
LEMMA PlacesKnown ==
  ASSUME NEW n \in Nat
  PROVE  /\ 1 + (n % Len(Suite)) \in 1..Len(Suite) /\ n \div Len(Suite) \in Nat
         /\ \A r \in Nat : n < r * Len(Suite) => n \div Len(Suite) < r
<1>1. PICK L \in Nat : L = Len(Suite) /\ L > 0
  BY SuiteKnown
<1>2. n % L \in 0..(L - 1)
  BY <1>1
<1>3. n \div L \in Nat
  BY <1>1
<1>4. n = L * (n \div L) + (n % L)
  BY <1>1
<1>5. \A r, q, m \in Nat : n = L * q + m /\ n < r * L => q < r
  <2> SUFFICES ASSUME NEW r \in Nat, NEW q \in Nat, NEW m \in Nat, n = L * q + m, q >= r PROVE ~(n < r * L)
    OBVIOUS
  <2>1. PICK d \in Nat : q = r + d
    BY SMT
  <2>2. L * q = r * L + L * d /\ L * d \in Nat
    BY <1>1, <2>1
  <2> QED
    BY <1>1, <2>2
<1> QED
  BY <1>1, <1>2, <1>3, <1>4, <1>5
ReadmeParts == {"missing", "own", "phrase", "title", "fixture"} \cup Range(BenchEdits)
ReadmeTexts == Seq(ReadmeParts)
Judgement ==
  [round : Nat, id : {case.id : case \in Range(Suite)}, dimension : Dimensions, pass : BOOLEAN, refused : BOOLEAN]
Judgings == Seq(Judgement)
StopReasons == {"none", "provider_error", "max_turns_reached", "completed", "tool_result"}
Results == [stop : StopReasons, token : BOOLEAN, steps : Nat, refused : BOOLEAN]
BenchRuns ==
  [phase : Phases, repeat : 0..MaxRepeat, cases : Judgings, fixture : [held : BOOLEAN, original : ReadmeTexts],
   turns : 0..BenchTurns, result : Results, named : Nat]

BenchTypes ==
  /\ bench \in [Benches -> BenchRuns] /\ readme \in ReadmeTexts /\ locked \in BOOLEAN /\ excused \in BOOLEAN
  /\ bench_faults \in 0..MaxBenchFaults /\ bench_second \in Nat \ {0}
  /\ bench_edits \in [made : Nat, safe : SUBSET Range(BenchEdits), torn : SUBSET Range(BenchEdits)]
  /\ DOMAIN reports = 1..MaxBenchClock
  /\ \A s \in DOMAIN reports : reports[s] = [json |-> reports[s].json, markdown |-> reports[s].markdown]

\* The cases judged so far are those of the suite in its order, round after round.
InOrder(cases) ==
  \A i \in DOMAIN cases :
    /\ cases[i].id = Suite[1 + ((i - 1) % Len(Suite))].id /\ cases[i].round = RoundOf(i)
    /\ BenchTurns > 0 /\ (i - 1) % Len(Suite) = 0 => ~cases[i].refused

\* What a run has in hand, by its place.
AtCase == {"fixing", "turn", "loop", "fallback", "restore"}
FirstOfRound(r) == BenchTurns > 0 /\ Len(r.cases) % Len(Suite) = 0
RunFits(r) ==
  /\ InOrder(r.cases)
  /\ r.fixture.held => r.phase \in AtCase
  /\ r.phase = "fixing" => r.fixture.held
  /\ r.phase \in {"fixing", "turn"} /\ FirstOfRound(r) => r.turns = 0
  /\ r.phase \in {"loop", "fallback"} /\ FirstOfRound(r) => ~r.result.refused
  /\ r.phase \in {"report", "markdown"} => Len(r.cases) = r.repeat * Len(Suite)
  /\ r.named # 0 => r.phase \in {"markdown", "done", "failed", "killed"}
  /\ r.phase = "markdown" => r.named # 0

\* Without an excuse one run has the file, what it will put back is without the fixture, and
\* so is the file until it writes it.
FixtureKept ==
  ~excused =>
    /\ \A b, c \in Holding : b = c
    /\ \A b \in Holding : "fixture" \notin Range(bench[b].fixture.original)
    /\ Holding = {} \/ (\E b \in Benches : bench[b].phase = "fixing") => "fixture" \notin Range(readme)

\* What is safe, and was not torn off, is in the file and in whatever will be put back.
SafeKept ==
  /\ bench_edits.safe \subseteq Range(readme) \cup bench_edits.torn
  /\ \A b \in Holding : bench_edits.safe \subseteq Range(bench[b].fixture.original) \cup bench_edits.torn

\* A report with all its cases, counted once in their rounds and in their dimensions.
WholeReport(json) ==
  /\ Len(json.cases) = Len(json.rounds) * Len(Suite)
  /\ \A i \in DOMAIN json.cases : json.cases[i].id = Suite[1 + ((i - 1) % Len(Suite))].id
  /\ PassesOf(json.cases, DOMAIN json.cases) = Sum([r \in DOMAIN json.rounds |-> json.rounds[r].passed])
  /\ PassesOf(json.cases, DOMAIN json.cases) = Sum([d \in json.dimensions |-> d.passed])

\* What is in a file of a name is of a run that has this name; a run that has written the
\* first of its files has it in hand for the second.
Sheet(b, r) ==
  [by |-> b, cases |-> r.cases, dimensions |-> Scores(r.cases, DOMAIN r.cases),
   rounds |-> [n \in 1..r.repeat |-> RoundReport(r.cases, n)]]
PaperOf(paper, s) == paper.by \in Benches /\ bench[paper.by].named = s
Filed(s) ==
  LET json == reports[s].json
      markdown == reports[s].markdown
  IN /\ json # NoReport =>
          /\ WholeReport(json) /\ PaperOf(json, s)
          /\ bench[json.by].phase = "markdown" => json = Sheet(json.by, bench[json.by])
     /\ markdown # NoReport => PaperOf(markdown, s) /\ bench[markdown.by].phase # "markdown"
     /\ json # NoReport /\ markdown # NoReport /\ json.by = markdown.by => markdown = Rendered(json)

BenchInv ==
  /\ BenchTypes /\ (\A b \in Benches : RunFits(bench[b])) /\ FixtureKept /\ SafeKept
  /\ \A s \in DOMAIN reports : Filed(s)

LEMMA ReadmeTextsKnown ==
  /\ \A part \in ReadmeParts : <<part>> \in ReadmeTexts /\ Range(<<part>>) = {part}
  /\ \A text \in ReadmeTexts, part \in ReadmeParts : Append(text, part) \in ReadmeTexts /\ Range(Append(text, part)) = Range(text) \cup {part}
  /\ \A text \in ReadmeTexts : FixtureText(text) \in ReadmeTexts /\ (text # NoReadme => Range(text) \subseteq Range(FixtureText(text)))
<1>1. ASSUME NEW part \in ReadmeParts PROVE <<part>> \in ReadmeTexts /\ Range(<<part>>) = {part}
  <2> DEFINE one == <<part>>
  <2>1. one \in Seq(ReadmeParts) /\ DOMAIN one = {1} /\ one[1] = part
    OBVIOUS
  <2> HIDE DEF one
  <2>2. Range(one) = {part}
    BY <2>1 DEF Range
  <2> QED
    BY <2>1, <2>2 DEF one, ReadmeTexts
<1>2. ASSUME NEW text \in ReadmeTexts, NEW part \in ReadmeParts
      PROVE  Append(text, part) \in ReadmeTexts /\ Range(Append(text, part)) = Range(text) \cup {part}
  <2> DEFINE more == Append(text, part)
  <2>1. /\ more \in ReadmeTexts /\ Len(text) \in Nat /\ DOMAIN text = 1..Len(text) /\ DOMAIN more = 1..(Len(text) + 1)
        /\ more[Len(text) + 1] = part /\ \A i \in 1..Len(text) : more[i] = text[i]
    BY DEF ReadmeTexts
  <2> HIDE DEF more
  <2>2. \A y : y \in Range(more) <=> \E i \in 1..(Len(text) + 1) : more[i] = y
    BY <2>1 DEF Range
  <2>3. \A y : y \in Range(text) <=> \E i \in 1..Len(text) : text[i] = y
    BY <2>1 DEF Range
  <2>4. \A i : i \in 1..(Len(text) + 1) <=> i \in 1..Len(text) \/ i = Len(text) + 1
    BY <2>1
  <2>5. \A y : y \in Range(more) <=> y \in Range(text) \/ y = part
    BY <2>1, <2>2, <2>3, <2>4
  <2> QED
    BY <2>1, <2>5 DEF more
<1>3. "fixture" \in ReadmeParts /\ "title" \in ReadmeParts
  BY DEF ReadmeParts
<1>4. <<"title", "fixture">> \in ReadmeTexts
  BY <1>3 DEF ReadmeTexts
<1>5. ASSUME NEW text \in ReadmeTexts PROVE Range(<<>>) \subseteq Range(FixtureText(text))
  BY DEF Range
<1>6. ASSUME NEW text \in ReadmeTexts
      PROVE  FixtureText(text) \in ReadmeTexts /\ (text # NoReadme => Range(text) \subseteq Range(FixtureText(text)))
  <2>1. CASE text \in {NoReadme, <<>>}
    <3>1. FixtureText(text) = <<"title", "fixture">>
      BY <2>1 DEF FixtureText
    <3> QED
      BY <1>4, <1>5, <2>1, <3>1
  <2>2. CASE text \notin {NoReadme, <<>>}
    <3>1. FixtureText(text) = Append(text, "fixture")
      BY <2>2 DEF FixtureText
    <3> QED
      BY <1>2, <1>3, <3>1
  <2> QED
    BY <2>1, <2>2
<1> QED
  BY <1>1, <1>2, <1>6

LEMMA SheetKnown == \A b : ReportOf(b) = Sheet(b, bench[b])
  BY DEF ReportOf, Sheet

\* The sheet of a run that is through is whole.
LEMMA SheetWhole ==
  ASSUME NEW b, NEW r \in BenchRuns, RunFits(r), Len(r.cases) = r.repeat * Len(Suite)
  PROVE  WholeReport(Sheet(b, r))
<1> DEFINE json == Sheet(b, r)
           cases == r.cases
           P == {i \in DOMAIN cases : cases[i].pass}
           rounds == [n \in DOMAIN json.rounds |-> json.rounds[n].passed]
           score(d) == [dimension |-> d, count |-> Cardinality({i \in DOMAIN cases : cases[i].dimension = d}),
                        passed |-> PassesOf(cases, {i \in DOMAIN cases : cases[i].dimension = d})]
           dims == [d \in json.dimensions |-> d.passed]
<1>1. /\ json.cases = cases /\ json.dimensions = Scores(cases, DOMAIN cases)
      /\ json.rounds = [n \in 1..r.repeat |-> RoundReport(cases, n)]
  BY DEF Sheet
<1>2. cases \in Judgings /\ r.repeat \in Nat
  BY BenchBounds DEF BenchRuns
<1>3. DOMAIN cases = 1..Len(cases) /\ Len(cases) \in Nat
  BY <1>2 DEF Judgings
<1>4. P \in SUBSET (1..Len(cases)) /\ PassesOf(cases, DOMAIN cases) = Cardinality(P)
  BY <1>3 DEF PassesOf
<1>5. \A S \in SUBSET (1..Len(cases)) : Cardinality(S) \in Nat
  <2>1. IsFiniteSet(1..Len(cases))
    BY <1>3, FS_Interval
  <2> QED
    BY <2>1, FS_Subset, FS_CardinalityType
<1>6. Len(json.rounds) = r.repeat /\ DOMAIN json.rounds = 1..r.repeat
  <2>1. PICK q : q = json.rounds
    OBVIOUS
  <2>2. PICK n \in Nat : n = r.repeat
    BY <1>2
  <2>3. DOMAIN q = 1..n /\ q = [i \in 1..n |-> q[i]]
    <3> HIDE DEF json, cases
    <3> QED
      BY <1>1, <2>1, <2>2
  <2>4. q \in [1..n -> {q[i] : i \in 1..n}]
    BY <2>3
  <2>5. q \in Seq({q[i] : i \in 1..n})
    BY <2>4, SeqDef
  <2>6. Len(q) = n
    BY <2>2, <2>3, <2>5, LenProperties
  <2> QED
    BY <2>1, <2>2, <2>3, <2>6
<1>7. \A i \in 1..Len(cases) : cases[i].id = Suite[1 + ((i - 1) % Len(Suite))].id /\ cases[i].round \in 1..r.repeat
  <2> SUFFICES ASSUME NEW i \in 1..Len(cases)
               PROVE  cases[i].id = Suite[1 + ((i - 1) % Len(Suite))].id /\ cases[i].round \in 1..r.repeat
    OBVIOUS
  <2>1. cases[i].id = Suite[1 + ((i - 1) % Len(Suite))].id /\ cases[i].round = 1 + ((i - 1) \div Len(Suite))
    BY <1>3 DEF RunFits, InOrder, RoundOf
  <2>2. PICK n \in Nat : n = i - 1 /\ n < r.repeat * Len(Suite)
    BY <1>3
  <2>3. PICK q : q = n \div Len(Suite)
    OBVIOUS
  <2>4. q \in Nat /\ q < r.repeat
    BY <1>2, <2>2, <2>3, PlacesKnown
  <2>5. 1 + q \in 1..r.repeat
    BY ONLY <1>2, <2>4
  <2>6. cases[i].round = 1 + q
    BY ONLY <2>1, <2>2, <2>3
  <2> QED
    BY ONLY <2>1, <2>5, <2>6
<1>8. Cardinality(P) = Sum(rounds)
  <2> DEFINE K == 1..r.repeat
             key == [i \in P |-> cases[i].round]
             of(k) == {i \in {j \in DOMAIN cases : cases[j].round = k} : cases[i].pass}
  <2>1. rounds = [k \in K |-> Cardinality(of(k))]
    BY <1>1, <1>6 DEF RoundReport, PassesOf
  <2>2. \A k : of(k) = {i \in P : key[i] = k} /\ of(k) \in SUBSET (1..Len(cases))
    BY <1>3
  <2>3. \A i \in P : key[i] \in K
    BY <1>4, <1>7
  <2> HIDE DEF of, K, key, P, rounds
  <2>4. rounds \in [K -> Nat]
    BY <1>5, <2>1, <2>2
  <2>5. PICK at : at = [k \in K |-> of(k)]
    OBVIOUS
  <2>6. \A k \in K : rounds[k] = Cardinality(at[k])
    BY <2>1, <2>5
  <2>7. \A k \in K : \A i : i \in at[k] <=> i \in P /\ key[i] = k
    BY <2>2, <2>5
  <2>8. Len(cases) \in Nat
    BY <1>3
  <2>9. P \in SUBSET (1..Len(cases))
    BY <1>4
  <2>10. ByKey(rounds, P, Len(cases), K, key, at)
    BY ONLY <2>3, <2>4, <2>8, <2>9, <2>6, <2>7 DEF ByKey
  <2> QED
    BY <2>10, Summed
<1>9. Cardinality(P) = Sum(dims)
  <2> DEFINE K == Scores(cases, DOMAIN cases)
             key == [i \in P |-> score(cases[i].dimension)]
             of(d) == {i \in {j \in DOMAIN cases : cases[j].dimension = d} : cases[i].pass}
  <2>1. K = {score(d) : d \in {cases[i].dimension : i \in DOMAIN cases}}
    BY DEF Scores
  <2>2. \A d : score(d).dimension = d /\ score(d).passed = Cardinality(of(d)) /\ of(d) \in SUBSET (1..Len(cases))
    BY <1>3 DEF PassesOf
  <2>3. \A i \in P : key[i] = score(cases[i].dimension) /\ i \in DOMAIN cases
    OBVIOUS
  <2>4. \A d, i : i \in of(d) <=> i \in P /\ cases[i].dimension = d
    OBVIOUS
  <2>5. dims = [k \in K |-> k.passed]
    BY <1>1
  <2> HIDE DEF of, key, score, P, dims, K
  <2>6. \A i \in P : key[i] \in K
    BY <2>1, <2>3
  <2>7. ASSUME NEW k \in K
        PROVE  /\ k.passed \in Nat /\ k.passed = Cardinality(of(k.dimension))
               /\ \A i : i \in of(k.dimension) <=> i \in P /\ key[i] = k
    <3>1. PICK d : k = score(d)
      BY <2>1
    <3>2. \A i \in P : key[i] = k <=> cases[i].dimension = d
      BY <2>2, <2>3, <3>1
    <3>3. k.dimension = d /\ \A i : i \in of(d) <=> i \in P /\ cases[i].dimension = d
      BY <2>2, <2>4, <3>1
    <3>4. \A i : i \in of(d) <=> i \in P /\ key[i] = k
      BY <3>2, <3>3
    <3>5. Cardinality(of(d)) \in Nat
      BY <1>5, <2>2
    <3> QED
      BY <2>2, <3>1, <3>3, <3>4, <3>5
  <2>8. dims \in [K -> Nat]
    BY <2>5, <2>7
  <2>9. PICK at : at = [k \in K |-> of(k.dimension)]
    OBVIOUS
  <2>10. \A k \in K : dims[k] = Cardinality(at[k])
    BY <2>5, <2>7, <2>9
  <2>11. \A k \in K : \A i : i \in at[k] <=> i \in P /\ key[i] = k
    BY <2>7, <2>9
  <2>12. Len(cases) \in Nat
    BY <1>3
  <2>13. P \in SUBSET (1..Len(cases))
    BY <1>4
  <2>14. ByKey(dims, P, Len(cases), K, key, at)
    BY ONLY <2>6, <2>8, <2>12, <2>13, <2>10, <2>11 DEF ByKey
  <2> QED
    BY <2>14, Summed
<1>10. Len(json.cases) = Len(json.rounds) * Len(Suite)
  BY <1>1, <1>6
<1>11. \A i \in DOMAIN json.cases : json.cases[i].id = Suite[1 + ((i - 1) % Len(Suite))].id
  BY <1>1, <1>3, <1>7
<1>12. PassesOf(json.cases, DOMAIN json.cases) = Sum(rounds) /\ PassesOf(json.cases, DOMAIN json.cases) = Sum(dims)
  BY <1>1, <1>4, <1>8, <1>9
<1> HIDE DEF rounds, dims, P, cases, score
<1>13. WholeReport(json) <=> /\ Len(json.cases) = Len(json.rounds) * Len(Suite)
                             /\ \A i \in DOMAIN json.cases : json.cases[i].id = Suite[1 + ((i - 1) % Len(Suite))].id
                             /\ PassesOf(json.cases, DOMAIN json.cases) = Sum(rounds)
                             /\ PassesOf(json.cases, DOMAIN json.cases) = Sum(dims)
  BY Zenon DEF WholeReport, rounds, dims
<1> QED
  BY ONLY <1>10, <1>11, <1>12, <1>13

-----------------------------------------------------------------------------
(* What the invariant says *)

LEMMA BenchTold == BenchInv /\ BenchTurns > 0 => BenchAccounts
<1> SUFFICES ASSUME BenchInv, BenchTurns > 0 PROVE BenchAccounts
  OBVIOUS
<1>1. FixtureGone /\ EditsKept
  BY DEF BenchInv, FixtureKept, SafeKept, FixtureGone, EditsKept
<1>2. ASSUME NEW s \in DOMAIN reports, NEW json, json = reports[s].json, NEW markdown, markdown = reports[s].markdown
      PROVE  /\ json # NoReport /\ markdown # NoReport
                /\ (\A b, c \in Benches : bench[b].named = s /\ bench[c].named = s => b = c)
                => markdown = Rendered(json)
             /\ json # NoReport => WholeReport(json)
  BY <1>2 DEF BenchInv, Filed, PaperOf
<1>3. ReportsWhole
  BY <1>2 DEF ReportsWhole, WholeReport
<1>4. RoundsFresh
  BY DEF BenchInv, RunFits, InOrder, RoundsFresh
<1> QED
  BY <1>1, <1>3, <1>4 DEF BenchAccounts

LEMMA BenchTyped == BenchInv => BenchTypeOK
  BY DEF BenchInv, BenchTypes, BenchTypeOK, BenchRuns, Results, ReadmeTexts, ReadmeParts

-----------------------------------------------------------------------------
(* A run by itself *)

LEMMA NothingKnown ==
  /\ NoFixture \in [held : BOOLEAN, original : ReadmeTexts] /\ NoResult \in Results /\ <<>> \in Judgings
  /\ NoReadme \in ReadmeTexts /\ Range(NoReadme) = {"missing"} /\ DOMAIN <<>> = {} /\ Len(<<>>) = 0 /\ InOrder(<<>>)
  /\ 0 \in 0..MaxRepeat /\ 0 \in 0..BenchTurns
<1>1. "missing" \in ReadmeParts
  BY DEF ReadmeParts
<1>2. NoReadme \in ReadmeTexts /\ Range(NoReadme) = {"missing"}
  BY <1>1, ReadmeTextsKnown DEF NoReadme
<1>3. NoResult \in Results
  BY DEF NoResult, Results, StopReasons
<1>4. DOMAIN <<>> = {} /\ Len(<<>>) = 0 /\ <<>> \in Judgings
  BY DEF Judgings
<1>5. InOrder(<<>>)
  BY <1>4 DEF InOrder
<1>6. 0 \in 0..MaxRepeat /\ 0 \in 0..BenchTurns
  BY BenchBounds
<1> QED
  BY <1>2, <1>3, <1>4, <1>5, <1>6 DEF NoFixture

\* A run that has not begun, or that is over.
Vacant(phase, named) ==
  [phase |-> phase, repeat |-> 0, cases |-> <<>>, fixture |-> NoFixture, turns |-> 0, result |-> NoResult, named |-> named]

LEMMA VacantFits ==
  ASSUME NEW phase \in Phases, phase \notin AtCase, phase \notin {"report", "markdown"},
         NEW named \in Nat, named # 0 => phase \in {"done", "failed", "killed"}
  PROVE  LET r == Vacant(phase, named)
         IN r \in BenchRuns /\ RunFits(r) /\ ~r.fixture.held /\ r.named = named /\ r.phase = phase
<1>1. PICK r : r = Vacant(phase, named)
  OBVIOUS
<1>2. r \in BenchRuns
  BY <1>1, NothingKnown DEF BenchRuns, Vacant
<1>3. r.phase = phase /\ r.named = named /\ r.cases = <<>> /\ r.fixture = NoFixture
  BY <1>1 DEF Vacant
<1>4. NoFixture.held = FALSE
  BY DEF NoFixture
<1>5. ~r.fixture.held
  BY <1>3, <1>4
<1>6. RunFits(r)
  BY ONLY <1>3, <1>5, NothingKnown, phase \notin AtCase, phase \notin {"report", "markdown"},
     named # 0 => phase \in {"done", "failed", "killed"} DEF RunFits, AtCase
<1> QED
  BY <1>1, <1>2, <1>3, <1>5, <1>6

LEMMA GoneVacant ==
  ASSUME NEW phase, NEW named
  PROVE  [NewBench EXCEPT !.phase = phase, !.named = named] = Vacant(phase, named)
<1>1. PICK r : r = [NewBench EXCEPT !.phase = phase, !.named = named]
  OBVIOUS
<1>2. r = [phase |-> phase, repeat |-> 0, cases |-> <<>>, fixture |-> NoFixture, turns |-> 0, result |-> NoResult,
           named |-> named]
  BY <1>1 DEF NewBench
<1>3. r = Vacant(phase, named)
  BY <1>2 DEF Vacant
<1> QED
  BY <1>1, <1>3

LEMMA InitBench == BenchInit => BenchInv
<1> SUFFICES ASSUME BenchInit PROVE BenchInv
  OBVIOUS
<1>1. NewBench = Vacant("idle", 0)
  BY DEF NewBench, Vacant
<1>2. "idle" \in Phases /\ "idle" \notin AtCase
  BY DEF Phases, AtCase
<1>3. NewBench \in BenchRuns /\ RunFits(NewBench) /\ ~NewBench.fixture.held /\ NewBench.phase = "idle"
  BY <1>1, <1>2, VacantFits
<1>4. \A b \in Benches : bench[b] = NewBench
  BY DEF BenchInit
<1>5. readme \in ReadmeTexts /\ "fixture" \notin Range(readme)
  <2>1. {"own", "phrase"} \subseteq ReadmeParts
    BY DEF ReadmeParts
  <2>2. <<"own", "phrase">> = Append(<<"own">>, "phrase")
    OBVIOUS
  <2>3. <<"own">> \in ReadmeTexts /\ Range(<<"own">>) = {"own"}
    BY <2>1, ReadmeTextsKnown
  <2>4. PICK own \in ReadmeTexts : own = <<"own">>
    BY <2>3
  <2>5. Append(own, "phrase") \in ReadmeTexts /\ Range(Append(own, "phrase")) = {"own"} \cup {"phrase"}
    BY <2>1, <2>3, <2>4, ReadmeTextsKnown
  <2>6. /\ <<"own">> \in ReadmeTexts /\ Range(<<"own">>) = {"own"}
        /\ <<"own", "phrase">> \in ReadmeTexts /\ Range(<<"own", "phrase">>) = {"own"} \cup {"phrase"}
    BY <2>2, <2>3, <2>4, <2>5
  <2>7. readme \in {NoReadme, <<"own">>, <<"own", "phrase">>}
    BY DEF BenchInit
  <2> QED
    BY <2>6, <2>7, NothingKnown
<1>6. BenchTypes
  <2>1. bench \in [Benches -> BenchRuns]
    BY <1>3 DEF BenchInit
  <2>2. DOMAIN reports = 1..MaxBenchClock /\ \A s \in DOMAIN reports : reports[s] = [json |-> NoReport, markdown |-> NoReport]
    BY DEF BenchInit
  <2>3. 0 \in 0..MaxBenchFaults
    BY BenchBounds
  <2>4. locked \in BOOLEAN /\ excused \in BOOLEAN /\ bench_faults = 0 /\ bench_second = 1
    BY DEF BenchInit
  <2>5. bench_edits \in [made : Nat, safe : SUBSET Range(BenchEdits), torn : SUBSET Range(BenchEdits)]
    BY DEF BenchInit
  <2> QED
    BY ONLY <1>5, <2>1, <2>2, <2>3, <2>4, <2>5 DEF BenchTypes
<1>7. FixtureKept /\ SafeKept
  BY <1>3, <1>4, <1>5 DEF FixtureKept, SafeKept, Holding, BenchInit
<1>8. \A s \in DOMAIN reports : Filed(s)
  BY DEF BenchInit, Filed
<1> QED
  BY <1>3, <1>4, <1>6, <1>7, <1>8 DEF BenchInv

LEMMA BenchKnown ==
  ASSUME BenchInv, NEW b \in Benches
  PROVE  /\ bench[b] \in BenchRuns /\ RunFits(bench[b]) /\ Len(bench[b].cases) \in Nat
         /\ CaseOf(b) \in Range(Suite)
         /\ bench[b].turns \in 0..BenchTurns /\ bench[b].repeat \in 0..MaxRepeat /\ bench[b].named \in Nat
         /\ bench[b].result \in Results /\ bench[b].fixture \in [held : BOOLEAN, original : ReadmeTexts]
         /\ bench[b].cases \in Judgings /\ bench[b].phase \in Phases
<1>1. bench[b] \in BenchRuns /\ RunFits(bench[b])
  BY DEF BenchInv, BenchTypes
<1>2. bench[b].cases \in Judgings
  BY <1>1 DEF BenchRuns
<1>3. Len(bench[b].cases) \in Nat
  BY <1>2 DEF Judgings
<1>4. CaseOf(b) \in Range(Suite)
  BY <1>3, PlacesKnown, SuiteKnown DEF CaseOf, Judgements
<1> QED
  BY <1>1, <1>2, <1>3, <1>4 DEF BenchRuns

\* A step of one run leaves the others.
LEMMA BenchWent ==
  ASSUME BenchInv, NEW b \in Benches, NEW r \in BenchRuns, RunFits(r), bench' = [bench EXCEPT ![b] = r]
  PROVE  /\ bench' \in [Benches -> BenchRuns] /\ (\A c \in Benches : RunFits(bench[c]))'
         /\ bench'[b] = r /\ \A c \in Benches : c # b => bench'[c] = bench[c]
<1>1. bench \in [Benches -> BenchRuns] /\ \A c \in Benches : RunFits(bench[c])
  BY DEF BenchInv, BenchTypes
<1>2. bench'[b] = r /\ (\A c \in Benches : c # b => bench'[c] = bench[c]) /\ bench' \in [Benches -> BenchRuns]
  BY <1>1
<1>3. \A c \in Benches : RunFits(bench'[c])
  BY <1>1, <1>2
<1> QED
  BY <1>2, <1>3

LEMMA FixtureStays ==
  ASSUME BenchInv, readme' = readme, bench_edits' = bench_edits,
         \A c \in Benches : bench'[c].fixture.held =>
           bench[c].fixture.held /\ bench'[c].fixture.original = bench[c].fixture.original,
         \/ excused'
         \/ /\ ~excused
            /\ \A c \in Benches : /\ bench[c].fixture.held => bench'[c].fixture.held
                                  /\ bench'[c].phase = "fixing" => bench[c].phase = "fixing"
  PROVE  FixtureKept' /\ SafeKept'
<1>1. Holding' \subseteq Holding
  BY DEF Holding
<1>2. SafeKept'
  BY <1>1 DEF BenchInv, SafeKept, Holding
<1>3. CASE excused'
  BY <1>2, <1>3 DEF FixtureKept
<1>4. CASE ~excused'
  <2>1. Holding' = Holding /\ ~excused
    BY <1>4 DEF Holding
  <2> QED
    BY <1>2, <2>1 DEF BenchInv, FixtureKept, Holding
<1> QED
  BY <1>3, <1>4

\* A name loses a file, or none.
LEMMA FiledLess ==
  ASSUME BenchInv, DOMAIN reports' = DOMAIN reports,
         \A s \in DOMAIN reports : /\ reports'[s].json = reports[s].json \/ reports'[s].json = NoReport
                                   /\ reports'[s].markdown = reports[s].markdown \/ reports'[s].markdown = NoReport,
         \A c \in Benches : bench'[c].named = bench[c].named /\ (bench'[c].phase = "markdown" => bench'[c] = bench[c])
  PROVE  (\A s \in DOMAIN reports : Filed(s))'
<1> SUFFICES ASSUME NEW s \in DOMAIN reports PROVE Filed(s)'
  OBVIOUS
<1>1. PICK json : json = reports[s].json
  OBVIOUS
<1>2. PICK markdown : markdown = reports[s].markdown
  OBVIOUS
<1>3. /\ json # NoReport => /\ WholeReport(json) /\ json.by \in Benches /\ bench[json.by].named = s
                            /\ bench[json.by].phase = "markdown" => json = Sheet(json.by, bench[json.by])
      /\ markdown # NoReport => /\ markdown.by \in Benches /\ bench[markdown.by].named = s
                                /\ bench[markdown.by].phase # "markdown"
      /\ json # NoReport /\ markdown # NoReport /\ json.by = markdown.by => markdown = Rendered(json)
  BY <1>1, <1>2 DEF BenchInv, Filed, PaperOf
<1>4. /\ json # NoReport => /\ WholeReport(json) /\ json.by \in Benches /\ bench'[json.by].named = s
                            /\ bench'[json.by].phase = "markdown" => json = Sheet(json.by, bench'[json.by])
      /\ markdown # NoReport => /\ markdown.by \in Benches /\ bench'[markdown.by].named = s
                                /\ bench'[markdown.by].phase # "markdown"
  BY <1>3
<1>5. /\ reports'[s].json = json \/ reports'[s].json = NoReport
      /\ reports'[s].markdown = markdown \/ reports'[s].markdown = NoReport
  BY <1>1, <1>2
<1> QED
  BY <1>3, <1>4, <1>5 DEF Filed, PaperOf

LEMMA FiledStays ==
  ASSUME BenchInv, reports' = reports,
         \A c \in Benches : bench'[c].named = bench[c].named /\ (bench'[c].phase = "markdown" => bench'[c] = bench[c])
  PROVE  (\A s \in DOMAIN reports : Filed(s))'
  BY FiledLess

\* What is torn off is told.
LEMMA TornKept ==
  ASSUME BenchInv, NEW part, bench_edits' = Tearing(part), readme' = readme \/ readme' = part,
         \A c \in Holding' : \/ bench'[c].fixture.original = part
                             \/ c \in Holding /\ bench'[c].fixture = bench[c].fixture
  PROVE  /\ SafeKept'
         /\ bench_edits' \in [made : Nat, safe : SUBSET Range(BenchEdits), torn : SUBSET Range(BenchEdits)]
<1>1. bench_edits \in [made : Nat, safe : SUBSET Range(BenchEdits), torn : SUBSET Range(BenchEdits)]
  BY DEF BenchInv, BenchTypes
<1>2. PICK off \in SUBSET Range(BenchEdits) : off = bench_edits.safe \ Range(part)
  BY <1>1
<1>3. bench_edits' = [made |-> bench_edits.made, safe |-> bench_edits.safe, torn |-> bench_edits.torn \cup off]
  BY <1>1, <1>2 DEF Tearing
<1>4. bench_edits'.safe = bench_edits.safe /\ bench_edits'.torn = bench_edits.torn \cup off
  BY <1>3
<1>5. bench_edits.safe \subseteq Range(part) \cup bench_edits'.torn
  BY <1>2, <1>4
<1>6. SafeKept'
  BY <1>4, <1>5 DEF BenchInv, SafeKept
<1> QED
  BY <1>1, <1>3, <1>6

-----------------------------------------------------------------------------
(* The steps of a run *)

LEMMA StartKeepsBench == ASSUME BenchInv, NEW b \in Benches, StartBench(b) PROVE BenchInv'
<1>1. PICK n \in 0..MaxRepeat : n = IF Repeats[b] = 0 THEN 1 ELSE AtMost(MaxRepeat, Repeats[b])
  BY BenchBounds DEF AtMost
<1>2. PICK r : r = [bench[b] EXCEPT !.phase = "prepare", !.repeat = n]
  OBVIOUS
<1>3. bench' = [bench EXCEPT ![b] = r]
  BY <1>1, <1>2 DEF StartBench, BenchInv, BenchTypes
<1>4. /\ r \in BenchRuns /\ r.phase = "prepare" /\ r.fixture = bench[b].fixture /\ r.named = bench[b].named
      /\ r.cases = bench[b].cases
  BY <1>1, <1>2, BenchKnown DEF BenchRuns, Phases
<1>5. bench[b].phase = "idle" /\ RunFits(bench[b])
  BY BenchKnown DEF StartBench, Goes
<1>6. RunFits(r)
  BY <1>4, <1>5 DEF RunFits, AtCase
<1>7. /\ bench' \in [Benches -> BenchRuns] /\ (\A c \in Benches : RunFits(bench[c]))'
      /\ bench'[b] = r /\ \A c \in Benches : c # b => bench'[c] = bench[c]
  BY <1>3, <1>4, <1>6, BenchWent
<1>8. UNCHANGED <<readme, locked, reports, bench_second, bench_edits, excused, bench_faults>>
  BY DEF StartBench, OnlyBench
<1>9. BenchTypes'
  BY <1>7, <1>8 DEF BenchInv, BenchTypes
<1>10. FixtureKept' /\ SafeKept'
  BY <1>4, <1>7, <1>8, FixtureStays DEF BenchInv, BenchTypes
<1>11. (\A s \in DOMAIN reports : Filed(s))'
  BY <1>4, <1>7, <1>8, FiledStays
<1> QED
  BY <1>7, <1>9, <1>10, <1>11 DEF BenchInv

\* A turn, or a case judged.
LEMMA TurnKeepsBench ==
  ASSUME BenchInv, NEW b \in Benches, bench[b].phase \in {"turn", "loop", "fallback"},
         NEW r \in BenchRuns, r.fixture = bench[b].fixture, r.named = bench[b].named, RunFits(r),
         r.phase \in {"loop", "fallback", "restore"}, bench' = [bench EXCEPT ![b] = r], OnlyBench
  PROVE  BenchInv'
<1>1. /\ bench' \in [Benches -> BenchRuns] /\ (\A c \in Benches : RunFits(bench[c]))'
      /\ bench'[b] = r /\ \A c \in Benches : c # b => bench'[c] = bench[c]
  BY BenchWent
<1>2. UNCHANGED <<readme, locked, reports, bench_second, bench_edits, excused, bench_faults>>
  BY DEF OnlyBench
<1>3. BenchTypes'
  BY <1>1, <1>2 DEF BenchInv, BenchTypes
<1>4. FixtureKept' /\ SafeKept'
  BY <1>1, <1>2, FixtureStays DEF BenchInv, BenchTypes
<1>5. (\A s \in DOMAIN reports : Filed(s))'
  BY <1>1, <1>2, FiledStays
<1> QED
  BY <1>1, <1>3, <1>4, <1>5 DEF BenchInv

LEMMA StepKeeps ==
  ASSUME BenchInv, NEW b \in Benches, bench[b].phase \in {"turn", "loop", "fallback"},
         NEW result \in Results, NEW turns \in 0..BenchTurns, NEW phase \in {"loop", "fallback"},
         FirstOfRound(bench[b]) => ~result.refused, bench' = Step(b, phase, result, turns), OnlyBench
  PROVE  BenchInv'
<1>1. PICK r : r = [bench[b] EXCEPT !.phase = phase, !.turns = turns, !.result = result]
  OBVIOUS
<1>2. bench' = [bench EXCEPT ![b] = r]
  BY <1>1 DEF Step, BenchInv, BenchTypes
<1>3. /\ r \in BenchRuns /\ r.phase = phase /\ r.fixture = bench[b].fixture /\ r.named = bench[b].named
      /\ r.cases = bench[b].cases /\ r.result = result
  BY <1>1, BenchKnown DEF BenchRuns, Phases
<1>4. RunFits(bench[b])
  BY BenchKnown
<1>5. RunFits(r)
  BY <1>3, <1>4 DEF RunFits, AtCase, FirstOfRound
<1> QED
  BY <1>2, <1>3, <1>5, TurnKeepsBench

LEMMA PassedKnown ==
  ASSUME NEW case \in Range(Suite), NEW r \in Results
  PROVE  CasePassed(case.expects, r) \in BOOLEAN
<1>1. case.expects \in {"contains", "progress", "both"} /\ r.token \in BOOLEAN
  BY BenchBounds DEF Results
<1> QED
  BY <1>1 DEF CasePassed, EndedWell

LEMMA RecordKeeps ==
  ASSUME BenchInv, NEW b \in Benches, bench[b].phase \in {"turn", "loop", "fallback"},
         NEW result \in Results, NEW turns \in 0..BenchTurns,
         FirstOfRound(bench[b]) => ~result.refused, bench' = Recorded(b, result, turns), OnlyBench
  PROVE  BenchInv'
<1> DEFINE case == CaseOf(b)
<1>1. PICK j : j = [round |-> RoundOf(Judgements(b) + 1), id |-> case.id, dimension |-> case.dimension,
                    pass |-> CasePassed(case.expects, result), refused |-> result.refused]
  OBVIOUS
<1>2. PICK n \in Nat : n = Len(bench[b].cases)
  BY BenchKnown
<1>3. RoundOf(n + 1) = 1 + (n \div Len(Suite)) /\ RoundOf(n + 1) \in Nat
  <2>1. RoundOf(n + 1) = 1 + (n \div Len(Suite))
    BY DEF RoundOf
  <2>2. PICK q \in Nat : q = n \div Len(Suite)
    BY PlacesKnown
  <2> QED
    BY <2>1, <2>2
<1>4. case \in Range(Suite) /\ case = Suite[1 + (n % Len(Suite))]
  BY <1>2, BenchKnown DEF CaseOf, Judgements
<1>5. /\ j \in Judgement /\ j.id = Suite[1 + (n % Len(Suite))].id /\ j.round = RoundOf(n + 1)
      /\ j.refused = result.refused
  <2>1. CasePassed(case.expects, result) \in BOOLEAN /\ result.refused \in BOOLEAN
    BY <1>4, PassedKnown DEF Results
  <2>2. case.id \in {x.id : x \in Range(Suite)} /\ case.dimension \in Dimensions
    BY <1>4 DEF Dimensions
  <2> HIDE DEF case
  <2> QED
    BY <1>1, <1>2, <1>3, <1>4, <2>1, <2>2 DEF Judgement, Judgements
<1>6. PICK cases : cases = Append(bench[b].cases, j)
  OBVIOUS
<1>7. /\ cases \in Judgings /\ DOMAIN cases = 1..(n + 1) /\ cases[n + 1] = j
      /\ \A i \in 1..n : cases[i] = bench[b].cases[i]
  <2>1. bench[b].cases \in Judgings
    BY BenchKnown
  <2> QED
    BY <1>2, <1>5, <1>6, <2>1 DEF Judgings
<1>8. RunFits(bench[b]) /\ DOMAIN bench[b].cases = 1..n
  <2>1. bench[b].cases \in Judgings
    BY BenchKnown
  <2> QED
    BY <1>2, <2>1, BenchKnown DEF Judgings
<1>9. InOrder(cases)
  <2> SUFFICES ASSUME NEW i \in 1..(n + 1)
               PROVE  /\ cases[i].id = Suite[1 + ((i - 1) % Len(Suite))].id /\ cases[i].round = RoundOf(i)
                      /\ BenchTurns > 0 /\ (i - 1) % Len(Suite) = 0 => ~cases[i].refused
    BY <1>7 DEF InOrder
  <2>1. CASE i = n + 1
    <3>1. i - 1 = n
      BY <2>1
    <3>2. BenchTurns > 0 /\ n % Len(Suite) = 0 => ~j.refused
      BY <1>2, <1>5 DEF FirstOfRound
    <3> QED
      BY <1>5, <1>7, <2>1, <3>1, <3>2
  <2>2. CASE i # n + 1
    <3>1. i \in 1..n
      BY <2>2
    <3> QED
      BY <1>7, <1>8, <3>1 DEF RunFits, InOrder
  <2> QED
    BY <2>1, <2>2
<1>10. PICK r : r = [bench[b] EXCEPT !.phase = "restore", !.turns = turns, !.result = NoResult, !.cases = cases]
  OBVIOUS
<1>11. bench' = [bench EXCEPT ![b] = r]
  BY <1>1, <1>6, <1>10 DEF Recorded, BenchInv, BenchTypes
<1>12. /\ r \in BenchRuns /\ r.phase = "restore" /\ r.fixture = bench[b].fixture /\ r.named = bench[b].named
       /\ r.cases = cases
  BY <1>7, <1>10, BenchKnown, NothingKnown DEF BenchRuns, Phases
<1>13. RunFits(r)
  BY <1>8, <1>9, <1>12 DEF RunFits, AtCase
<1> QED
  BY <1>11, <1>12, <1>13, TurnKeepsBench

LEMMA JudgeKeeps ==
  ASSUME BenchInv, NEW b \in Benches, bench[b].phase \in {"turn", "loop", "fallback"},
         NEW result \in Results, NEW turns \in 0..BenchTurns,
         FirstOfRound(bench[b]) => ~result.refused, bench' = Judged(b, result, turns), OnlyBench
  PROVE  BenchInv'
<1>1. CASE bench' = Step(b, "fallback", result, turns)
  <2>1. "fallback" \in {"loop", "fallback"}
    OBVIOUS
  <2> QED
    BY <1>1, <2>1, StepKeeps
<1>2. CASE bench' = Recorded(b, result, turns)
  BY <1>2, RecordKeeps
<1> QED
  BY <1>1, <1>2 DEF Judged

LEMMA AnswersKnown == ASSUME NEW b, NEW a \in Answers(b) PROVE a \in Results
<1>1. NoResult \in Results
  BY NothingKnown
<1>2. {"max_turns_reached", "provider_error", "completed"} \subseteq StopReasons
  BY DEF StopReasons
<1>3. PICK stop \in StopReasons, token \in BOOLEAN :
        a = [NoResult EXCEPT !.stop = stop] \/ a = [NoResult EXCEPT !.stop = stop, !.token = token]
  BY <1>2 DEF Answers
<1> QED
  BY <1>1, <1>3 DEF Results

LEMMA FirstTurnKeeps == ASSUME BenchInv, NEW b \in Benches, FirstTurn(b) PROVE BenchInv'
<1>1. bench[b].phase = "turn" /\ OnlyBench
  BY DEF FirstTurn, Goes
<1>2. PICK turns \in 0..BenchTurns : turns = AtMost(BenchTurns, bench[b].turns + 1)
  BY BenchKnown, BenchBounds DEF AtMost
<1>3. PICK a \in Answers(b) :
        LET r == [a EXCEPT !.refused = Refused(b)]
        IN bench' = IF CaseOf(b).agent /\ r.stop = "completed" THEN Step(b, "loop", r, turns) ELSE Judged(b, r, turns)
  BY <1>2 DEF FirstTurn
<1>4. PICK r : r = [a EXCEPT !.refused = Refused(b)]
  OBVIOUS
<1>5. r \in Results /\ r.refused = Refused(b)
  <2>1. a \in Results
    BY AnswersKnown
  <2>2. Refused(b) \in BOOLEAN
    BY DEF Refused
  <2> QED
    BY <1>4, <2>1, <2>2 DEF Results
<1>6. FirstOfRound(bench[b]) => ~r.refused
  <2> SUFFICES ASSUME FirstOfRound(bench[b]) PROVE ~r.refused
    OBVIOUS
  <2>1. bench[b].turns = 0 /\ BenchTurns > 0
    BY <1>1, BenchKnown DEF RunFits, FirstOfRound
  <2>2. ~(0 >= BenchTurns)
    BY <2>1, BenchBounds
  <2> QED
    BY <1>5, <2>1, <2>2 DEF Refused
<1>7. bench' = Step(b, "loop", r, turns) \/ bench' = Judged(b, r, turns)
  BY <1>3, <1>4
<1>8. CASE bench' = Step(b, "loop", r, turns)
  <2>1. "loop" \in {"loop", "fallback"} /\ bench[b].phase \in {"turn", "loop", "fallback"}
    BY <1>1
  <2> QED
    BY <1>1, <1>5, <1>6, <1>8, <2>1, StepKeeps
<1>9. CASE bench' = Judged(b, r, turns)
  BY <1>1, <1>5, <1>6, <1>9, JudgeKeeps
<1> QED
  BY <1>7, <1>8, <1>9

\* As many turns as are left, at most.
LEMMA TurnsLeft ==
  ASSUME BenchInv, NEW b \in Benches, NEW n \in Nat
  PROVE  bench[b].turns + AtMost(BenchTurns - bench[b].turns, n) \in 0..BenchTurns
<1>1. PICK t \in 0..BenchTurns : t = bench[b].turns
  BY BenchKnown
<1>2. BenchTurns \in Nat
  BY BenchBounds
<1>3. t + AtMost(BenchTurns - t, n) \in 0..BenchTurns
  BY <1>2 DEF AtMost
<1> QED
  BY <1>1, <1>3

LEMMA LoopKeepsBench == ASSUME BenchInv, NEW b \in Benches, Loop(b) PROVE BenchInv'
<1>1. bench[b].phase = "loop" /\ OnlyBench
  BY DEF Loop, Goes
<1>2. StepLimit \in Nat
  BY BenchBounds
<1>3. PICK steps \in 0..StepLimit, a \in Answers(b) :
        LET had == AtMost(BenchTurns - bench[b].turns, steps)
            last == IF steps = 0 THEN bench[b].result
                    ELSE IF had < steps THEN [NoResult EXCEPT !.stop = "max_turns_reached"] ELSE a
            r == [last EXCEPT !.steps = steps, !.refused = bench[b].result.refused]
        IN bench' = Judged(b, r, bench[b].turns + had)
  BY DEF Loop
<1>4. PICK last : last = IF steps = 0 THEN bench[b].result
                         ELSE IF AtMost(BenchTurns - bench[b].turns, steps) < steps
                              THEN [NoResult EXCEPT !.stop = "max_turns_reached"] ELSE a
  OBVIOUS
<1>5. last \in Results
  <2>1. bench[b].result \in Results /\ a \in Results
    BY BenchKnown, AnswersKnown
  <2>2. [NoResult EXCEPT !.stop = "max_turns_reached"] \in Results
    BY NothingKnown DEF Results, StopReasons
  <2> QED
    BY <1>4, <2>1, <2>2
<1>6. PICK r : r = [last EXCEPT !.steps = steps, !.refused = bench[b].result.refused]
  OBVIOUS
<1>7. r \in Results /\ r.refused = bench[b].result.refused
  <2>1. bench[b].result.refused \in BOOLEAN /\ steps \in Nat
    BY <1>2, BenchKnown DEF Results
  <2> QED
    BY <1>5, <1>6, <2>1 DEF Results
<1>8. FirstOfRound(bench[b]) => ~r.refused
  BY <1>1, <1>7, BenchKnown DEF RunFits
<1>9. PICK turns \in 0..BenchTurns : turns = bench[b].turns + AtMost(BenchTurns - bench[b].turns, steps)
  BY <1>2, TurnsLeft
<1>10. bench' = Judged(b, r, turns)
  BY <1>3, <1>4, <1>6, <1>9
<1> QED
  BY <1>1, <1>7, <1>8, <1>10, JudgeKeeps

LEMMA FallbackKeeps == ASSUME BenchInv, NEW b \in Benches, Fallback(b) PROVE BenchInv'
<1>1. bench[b].phase = "fallback" /\ OnlyBench
  BY DEF Fallback, Goes
<1>2. PICK commands \in Nat : commands = CaseOf(b).fallback
  BY BenchKnown, BenchBounds
<1>3. PICK stop \in StopReasons :
        stop = IF AtMost(BenchTurns - bench[b].turns, commands) < commands THEN "max_turns_reached" ELSE "tool_result"
  BY DEF StopReasons
<1>4. PICK t \in BOOLEAN :
        bench' = Recorded(b, [[bench[b].result EXCEPT !.stop = stop, !.steps = @ + commands] EXCEPT !.token = t],
                          bench[b].turns + AtMost(BenchTurns - bench[b].turns, commands))
  BY <1>2, <1>3 DEF Fallback
<1>5. PICK r : r = [[bench[b].result EXCEPT !.stop = stop, !.steps = @ + commands] EXCEPT !.token = t]
  OBVIOUS
<1>6. r \in Results /\ r.refused = bench[b].result.refused
  <2>1. PICK old \in Results : old = bench[b].result
    BY BenchKnown
  <2>2. old.steps \in Nat /\ r = [old EXCEPT !.stop = stop, !.steps = old.steps + commands, !.token = t]
    BY <1>5, <2>1 DEF Results
  <2>3. old.steps + commands \in Nat
    BY <2>2
  <2> QED
    BY <2>1, <2>2, <2>3 DEF Results
<1>7. FirstOfRound(bench[b]) => ~r.refused
  BY <1>1, <1>6, BenchKnown DEF RunFits
<1>8. PICK turns \in 0..BenchTurns : turns = bench[b].turns + AtMost(BenchTurns - bench[b].turns, commands)
  BY TurnsLeft
<1>9. bench' = Recorded(b, r, turns)
  BY <1>4, <1>5, <1>8
<1> QED
  BY <1>1, <1>6, <1>7, <1>9, RecordKeeps

-----------------------------------------------------------------------------
(* The fixture *)

LEMMA PartsKnown ==
  ASSUME NEW text \in ReadmeTexts, NEW part \in Prefixes(text)
  PROVE  part \in ReadmeTexts
<1>1. PICK n \in 0..Len(text) : part = SubSeq(text, 1, n)
  BY DEF Prefixes
<1> QED
  BY <1>1 DEF ReadmeTexts

\* What a run writes next; it has the file then.
LEMMA BenchWritesKnown ==
  ASSUME BenchInv, NEW b \in Benches
  PROVE  /\ Writes(b) \in ReadmeTexts
         /\ Writes(b) # <<>> => bench[b].fixture.held /\ bench[b].phase \in {"fixing", "restore"}
<1>1. PICK f \in [held : BOOLEAN, original : ReadmeTexts] : f = bench[b].fixture
  BY BenchKnown
<1>2. FixtureText(f.original) \in ReadmeTexts /\ <<>> \in ReadmeTexts
  BY ReadmeTextsKnown DEF ReadmeTexts
<1>3. bench[b].phase = "fixing" => f.held
  BY <1>1, BenchKnown DEF RunFits
<1>4. CASE bench[b].phase = "fixing"
  BY <1>1, <1>2, <1>3, <1>4 DEF Writes, Goes
<1>5. CASE bench[b].phase = "restore" /\ f.held /\ f.original # NoReadme
  BY <1>1, <1>5 DEF Writes, Goes
<1>6. CASE bench[b].phase # "fixing" /\ ~(bench[b].phase = "restore" /\ f.held /\ f.original # NoReadme)
  BY <1>1, <1>2, <1>6 DEF Writes, Goes
<1> QED
  BY <1>4, <1>5, <1>6

\* A case that reads the whole file, or a part of what another run writes.
LEMMA ReadmeReadKeeps ==
  ASSUME BenchInv, NEW b \in Benches, NEW text \in ReadmeTexts, ReadThe(b, text), bench_faults' \in 0..MaxBenchFaults,
         \/ text = readme /\ bench_edits' = bench_edits
         \/ CaseOf(b).fixture /\ ~locked /\ Holding # {} /\ bench_edits' = Tearing(text)
  PROVE  BenchInv'
<1>1. PICK reads \in BOOLEAN : reads = (CaseOf(b).fixture /\ (readme = NoReadme \/ ~locked))
  <2>1. CaseOf(b).fixture \in BOOLEAN
    BY BenchKnown, BenchBounds
  <2> QED
    BY <2>1
<1>2. PICK turns \in 0..BenchTurns : turns = IF Judgements(b) % Len(Suite) = 0 THEN 0 ELSE bench[b].turns
  BY BenchKnown, NothingKnown
<1>3. PICK phase \in {"fixing", "turn"} : phase = IF reads /\ ~HasMarker(text) THEN "fixing" ELSE "turn"
  OBVIOUS
<1>4. readme \in ReadmeTexts /\ text \in ReadmeTexts
  BY DEF BenchInv, BenchTypes
<1>5. PICK fixture \in [held : BOOLEAN, original : ReadmeTexts] :
        fixture = IF reads THEN [held |-> TRUE, original |-> text] ELSE NoFixture
  BY <1>4, NothingKnown
<1>6. fixture.held = reads /\ (reads => fixture.original = text)
  BY <1>5 DEF NoFixture
<1>7. /\ bench[b].phase = "prepare" /\ excused' = (excused \/ (reads /\ Holding # {}))
      /\ bench' = [bench EXCEPT ![b].turns = turns, ![b].phase = phase, ![b].fixture = fixture]
      /\ UNCHANGED <<readme, locked, reports, bench_second>>
  BY <1>1, <1>2, <1>3, <1>5 DEF ReadThe, Goes
<1>8. PICK r : r = [bench[b] EXCEPT !.turns = turns, !.phase = phase, !.fixture = fixture]
  OBVIOUS
<1>9. bench' = [bench EXCEPT ![b] = r]
  BY <1>7, <1>8 DEF BenchInv, BenchTypes
<1>10. /\ r \in BenchRuns /\ r.phase = phase /\ r.fixture = fixture /\ r.named = bench[b].named
       /\ r.cases = bench[b].cases /\ r.turns = turns
  BY <1>8, BenchKnown DEF BenchRuns, Phases
<1>11. RunFits(bench[b]) /\ ~bench[b].fixture.held
  BY <1>7, BenchKnown DEF RunFits, AtCase
<1>12. RunFits(r)
  <2>1. FirstOfRound(r) => r.turns = 0
    BY <1>2, <1>10 DEF FirstOfRound, Judgements
  <2>2. phase = "fixing" => r.fixture.held
    BY <1>3, <1>6, <1>10
  <2> QED
    BY <1>7, <1>10, <1>11, <2>1, <2>2 DEF RunFits, AtCase
<1>13. /\ bench' \in [Benches -> BenchRuns] /\ (\A c \in Benches : RunFits(bench[c]))'
       /\ bench'[b] = r /\ \A c \in Benches : c # b => bench'[c] = bench[c]
  BY <1>9, <1>10, <1>12, BenchWent
<1>15. (\A s \in DOMAIN reports : Filed(s))'
  BY <1>7, <1>10, <1>13, FiledStays
<1>16. Holding' = IF reads THEN Holding \cup {b} ELSE Holding
  BY <1>6, <1>10, <1>11, <1>13 DEF Holding
<1>14. \A c \in Holding' : \/ reads /\ bench'[c].fixture.original = text
                           \/ c \in Holding /\ bench'[c].fixture = bench[c].fixture
  BY <1>6, <1>10, <1>11, <1>13 DEF Holding
<1>17. /\ SafeKept'
       /\ bench_edits' \in [made : Nat, safe : SUBSET Range(BenchEdits), torn : SUBSET Range(BenchEdits)]
  <2>1. CASE text = readme /\ bench_edits' = bench_edits
    BY <1>7, <1>14, <2>1 DEF BenchInv, BenchTypes, SafeKept
  <2>2. CASE bench_edits' = Tearing(text)
    BY <1>7, <1>14, <2>2, TornKept
  <2> QED
    BY <2>1, <2>2
<1>19. BenchTypes'
  BY <1>7, <1>13, <1>17 DEF BenchInv, BenchTypes
<1>18. FixtureKept'
  <2>1. CASE ~reads
    <3>1. \A c \in Benches : bench'[c].phase = "fixing" => bench[c].phase = "fixing"
      BY <1>3, <1>10, <1>13, <2>1
    <3>2. \A c \in Holding : bench'[c] = bench[c]
      BY <1>11, <1>13 DEF Holding
    <3> QED
      BY <1>7, <1>16, <2>1, <3>1, <3>2 DEF BenchInv, FixtureKept
  <2>2. CASE reads /\ Holding # {}
    BY <1>7, <2>2 DEF FixtureKept
  <2>3. CASE reads /\ Holding = {}
    <3>1. Holding' = {b} /\ bench'[b].fixture.original = readme
      BY <1>6, <1>10, <1>13, <1>16, <2>3
    <3>2. excused' = excused
      BY <1>7, <2>3 DEF BenchInv, BenchTypes
    <3>3. ~excused => "fixture" \notin Range(readme)
      BY <2>3 DEF BenchInv, FixtureKept
    <3> QED
      BY <1>7, <3>1, <3>2, <3>3 DEF FixtureKept
  <2> QED
    BY <2>1, <2>2, <2>3
<1> QED
  BY <1>13, <1>15, <1>17, <1>18, <1>19 DEF BenchInv

LEMMA PrepareReadKeeps == ASSUME BenchInv, NEW b \in Benches, PrepareRead(b) \/ PrepareReadPart(b) PROVE BenchInv'
<1>1. CASE PrepareRead(b)
  <2>1. readme \in ReadmeTexts /\ bench_faults' \in 0..MaxBenchFaults /\ bench_edits' = bench_edits /\ ReadThe(b, readme)
    BY <1>1 DEF PrepareRead, BenchInv, BenchTypes
  <2> QED
    BY <2>1, ReadmeReadKeeps
<1>2. CASE PrepareReadPart(b)
  <2>1. PICK c \in Benches \ {b} :
          \E part \in Prefixes(Writes(c)) : Writes(c) # <<>> /\ ReadThe(b, part) /\ bench_edits' = Tearing(part)
    BY <1>2 DEF PrepareReadPart
  <2>4. PICK part \in Prefixes(Writes(c)) : Writes(c) # <<>> /\ ReadThe(b, part) /\ bench_edits' = Tearing(part)
    BY <2>1
  <2>2. part \in ReadmeTexts /\ Holding # {}
    BY <2>4, BenchWritesKnown, PartsKnown DEF Holding
  <2>3. CaseOf(b).fixture /\ ~locked /\ bench_faults' \in 0..MaxBenchFaults
    BY <1>2, BenchBounds DEF PrepareReadPart, Fault, BenchInv, BenchTypes
  <2> QED
    BY <2>2, <2>3, <2>4, ReadmeReadKeeps
<1> QED
  BY <1>1, <1>2

LEMMA PrepareWriteKeeps == ASSUME BenchInv, NEW b \in Benches, PrepareWrite(b) PROVE BenchInv'
<1>1. /\ bench[b].phase = "fixing" /\ readme' = (IF locked THEN readme ELSE FixtureText(bench[b].fixture.original))
      /\ UNCHANGED <<locked, reports, bench_second, bench_edits, excused, bench_faults>>
  BY DEF PrepareWrite, Goes
<1>2. PICK fixture \in [held : BOOLEAN, original : ReadmeTexts] :
        fixture = IF locked THEN NoFixture ELSE bench[b].fixture
  BY BenchKnown, NothingKnown
<1>3. PICK r : r = [bench[b] EXCEPT !.phase = "turn", !.fixture = fixture]
  OBVIOUS
<1>4. bench' = [bench EXCEPT ![b] = r]
  BY <1>2, <1>3 DEF PrepareWrite, BenchInv, BenchTypes
<1>5. /\ r \in BenchRuns /\ r.phase = "turn" /\ r.fixture = fixture /\ r.named = bench[b].named
      /\ r.cases = bench[b].cases /\ r.turns = bench[b].turns
  BY <1>3, BenchKnown DEF BenchRuns, Phases
<1>6. RunFits(bench[b]) /\ bench[b].fixture.held
  BY <1>1, BenchKnown DEF RunFits
<1>7. RunFits(r)
  BY <1>1, <1>5, <1>6 DEF RunFits, AtCase, FirstOfRound
<1>8. /\ bench' \in [Benches -> BenchRuns] /\ (\A c \in Benches : RunFits(bench[c]))'
      /\ bench'[b] = r /\ \A c \in Benches : c # b => bench'[c] = bench[c]
  BY <1>4, <1>5, <1>7, BenchWent
<1>9. (\A s \in DOMAIN reports : Filed(s))'
  BY <1>1, <1>5, <1>8, FiledStays
<1>10. PICK original \in ReadmeTexts : original = bench[b].fixture.original
  BY BenchKnown
<1>11. readme' \in ReadmeTexts
  BY <1>1, <1>10, ReadmeTextsKnown DEF BenchInv, BenchTypes
<1>12. BenchTypes'
  BY <1>1, <1>8, <1>11 DEF BenchInv, BenchTypes
<1>13. b \in Holding /\ (locked => Holding' = Holding \ {b}) /\ (~locked => Holding' = Holding)
       /\ \A c \in Holding' : bench'[c].fixture = bench[c].fixture
  <2>1. ~NoFixture.held
    BY DEF NoFixture
  <2> QED
    BY <1>2, <1>5, <1>6, <1>8, <2>1 DEF Holding
<1>14. SafeKept'
  <2>1. bench_edits.safe \subseteq Range(readme') \cup bench_edits.torn
    <3>1. CASE locked
      BY <1>1, <3>1 DEF BenchInv, SafeKept
    <3>2. CASE ~locked
      <4>1. bench_edits.safe \subseteq Range(original) \cup bench_edits.torn /\ readme' = FixtureText(original)
        BY <1>1, <1>10, <1>13, <3>2 DEF BenchInv, SafeKept
      <4>2. CASE original = NoReadme
        <5>1. bench_edits.safe \subseteq {"missing"} \cup bench_edits.torn /\ bench_edits.safe \subseteq Range(BenchEdits)
          BY <4>1, <4>2, NothingKnown DEF BenchInv, BenchTypes
        <5>2. bench_edits.safe \subseteq bench_edits.torn
          BY <5>1, BenchBounds
        <5> QED
          BY <5>2
      <4>3. CASE original # NoReadme
        BY <4>1, <4>3, ReadmeTextsKnown
      <4> QED
        BY <4>2, <4>3
    <3> QED
      BY <3>1, <3>2
  <2> QED
    BY <1>1, <1>13, <2>1 DEF BenchInv, SafeKept
<1>15. FixtureKept'
  <2> SUFFICES ASSUME ~excused PROVE FixtureKept'
    BY <1>1 DEF FixtureKept
  <2>1. Holding = {b} /\ "fixture" \notin Range(readme) /\ "fixture" \notin Range(bench[b].fixture.original)
    BY <1>1, <1>13 DEF BenchInv, FixtureKept
  <2>2. \A c \in Benches : bench'[c].phase # "fixing"
    <3>1. \A c \in Benches : bench[c].phase = "fixing" => c = b
      BY <2>1 DEF BenchInv, RunFits, Holding
    <3> QED
      BY <1>5, <1>8, <3>1
  <2>3. CASE locked
    BY <1>1, <1>13, <2>1, <2>2, <2>3 DEF FixtureKept
  <2>4. CASE ~locked
    BY <1>1, <1>13, <2>1, <2>2, <2>4 DEF FixtureKept
  <2> QED
    BY <2>3, <2>4
<1> QED
  BY <1>8, <1>9, <1>12, <1>14, <1>15 DEF BenchInv

\* A run that ends.
LEMMA GoneRun ==
  ASSUME BenchInv, NEW b \in Benches, NEW phase \in {"done", "failed", "killed"}, bench' = Gone(b, phase)
  PROVE  /\ bench' \in [Benches -> BenchRuns] /\ (\A c \in Benches : RunFits(bench[c]))'
         /\ bench'[b].named = bench[b].named /\ bench'[b].phase = phase /\ ~bench'[b].fixture.held
         /\ \A c \in Benches : c # b => bench'[c] = bench[c]
<1>1. PICK named \in Nat : named = bench[b].named
  BY BenchKnown
<1>2. PICK r : r = Vacant(phase, named)
  OBVIOUS
<1>3. phase \in Phases /\ phase \notin AtCase /\ phase \notin {"report", "markdown"}
  BY DEF Phases, AtCase
<1>4. r \in BenchRuns /\ RunFits(r) /\ ~r.fixture.held /\ r.named = named /\ r.phase = phase
  BY <1>2, <1>3, VacantFits
<1>5. bench' = [bench EXCEPT ![b] = r]
  <2>1. PICK q : q = [NewBench EXCEPT !.phase = phase, !.named = named]
    OBVIOUS
  <2>2. q = r
    BY <1>2, <2>1, GoneVacant
  <2>3. bench' = [bench EXCEPT ![b] = q]
    BY <1>1, <2>1 DEF Gone
  <2> QED
    BY ONLY <2>2, <2>3
<1>6. /\ bench' \in [Benches -> BenchRuns] /\ (\A c \in Benches : RunFits(bench[c]))'
      /\ bench'[b] = r /\ \A c \in Benches : c # b => bench'[c] = bench[c]
  BY <1>4, <1>5, BenchWent
<1> QED
  BY <1>1, <1>4, <1>6

\* One that ends before its report, or with a file of it cut.
LEMMA GoneRunKeeps ==
  ASSUME BenchInv, NEW b \in Benches, NEW phase \in {"done", "failed", "killed"}, bench' = Gone(b, phase),
         bench_faults' \in 0..MaxBenchFaults, excused' \in BOOLEAN, excused => excused',
         bench[b].fixture.held => excused', bench_second' \in Nat \ {0}, DOMAIN reports' = DOMAIN reports,
         \A s \in DOMAIN reports : /\ reports'[s].json = reports[s].json \/ reports'[s].json = NoReport
                                   /\ reports'[s].markdown = reports[s].markdown \/ reports'[s].markdown = NoReport
                                   /\ reports'[s] = [json |-> reports'[s].json, markdown |-> reports'[s].markdown],
         UNCHANGED <<readme, locked, bench_edits>>
  PROVE  BenchInv'
<1>1. /\ bench' \in [Benches -> BenchRuns] /\ (\A c \in Benches : RunFits(bench[c]))'
      /\ bench'[b].named = bench[b].named /\ bench'[b].phase = phase /\ ~bench'[b].fixture.held
      /\ \A c \in Benches : c # b => bench'[c] = bench[c]
  BY GoneRun
<1>2. (\A s \in DOMAIN reports : Filed(s))'
  <2>1. \A c \in Benches : bench'[c].named = bench[c].named /\ (bench'[c].phase = "markdown" => bench'[c] = bench[c])
    BY <1>1
  <2> QED
    BY <2>1, FiledLess
<1>3. BenchTypes'
  BY <1>1 DEF BenchInv, BenchTypes
<1>4. FixtureKept' /\ SafeKept'
  <2>1. \A c \in Benches : bench'[c].fixture.held =>
          bench[c].fixture.held /\ bench'[c].fixture.original = bench[c].fixture.original
    BY <1>1
  <2>2. \/ excused'
        \/ /\ ~excused
           /\ \A c \in Benches : /\ bench[c].fixture.held => bench'[c].fixture.held
                                 /\ bench'[c].phase = "fixing" => bench[c].phase = "fixing"
    BY <1>1
  <2> QED
    BY <2>1, <2>2, FixtureStays
<1> QED
  BY <1>1, <1>2, <1>3, <1>4 DEF BenchInv

LEMMA CutKeepsBench == ASSUME BenchInv, NEW b \in Benches, CutReadme(b) PROVE BenchInv'
<1>1. PICK part \in Prefixes(Writes(b)) : readme' = part /\ bench_edits' = Tearing(part)
  BY DEF CutReadme
<1>2. /\ part \in ReadmeTexts /\ bench[b].fixture.held /\ bench[b].phase \in {"fixing", "restore"}
      /\ bench_faults' \in 0..MaxBenchFaults /\ excused' = TRUE /\ UNCHANGED <<locked, reports, bench_second>>
  <2>1. bench_faults' \in 0..MaxBenchFaults
    BY BenchBounds DEF CutReadme, Fault, BenchInv, BenchTypes
  <2> QED
    BY <1>1, <2>1, BenchWritesKnown, PartsKnown DEF CutReadme
<1>3. /\ bench' \in [Benches -> BenchRuns] /\ (\A c \in Benches : RunFits(bench[c]))'
      /\ bench'[b].named = bench[b].named /\ bench'[b].phase # "markdown" /\ ~bench'[b].fixture.held
      /\ \A c \in Benches : c # b => bench'[c] = bench[c]
  <2>1. CASE bench' = Gone(b, "killed")
    BY <2>1, GoneRun
  <2>2. CASE bench' = Gone(b, "failed")
    BY <2>2, GoneRun
  <2>3. CASE bench[b].phase = "fixing" /\ bench' = [bench EXCEPT ![b].phase = "turn", ![b].fixture = NoFixture]
    <3>1. PICK r : r = [bench[b] EXCEPT !.phase = "turn", !.fixture = NoFixture]
      OBVIOUS
    <3>2. bench' = [bench EXCEPT ![b] = r]
      BY <2>3, <3>1 DEF BenchInv, BenchTypes
    <3>3. /\ r \in BenchRuns /\ r.phase = "turn" /\ r.fixture = NoFixture /\ r.named = bench[b].named
          /\ r.cases = bench[b].cases /\ r.turns = bench[b].turns
      BY <3>1, BenchKnown, NothingKnown DEF BenchRuns, Phases
    <3>4. ~r.fixture.held
      BY <3>3 DEF NoFixture
    <3>5. RunFits(r)
      BY <2>3, <3>3, <3>4, BenchKnown DEF RunFits, AtCase, FirstOfRound
    <3> QED
      BY <3>2, <3>3, <3>4, <3>5, BenchWent
  <2> QED
    BY <2>1, <2>2, <2>3 DEF CutReadme, Goes
<1>4. \A c \in Benches : bench'[c].named = bench[c].named /\ (bench'[c].phase = "markdown" => bench'[c] = bench[c])
  BY <1>3
<1>5. (\A s \in DOMAIN reports : Filed(s))'
  BY <1>2, <1>4, FiledStays
<1>6. \A c \in Holding' : c \in Holding /\ bench'[c].fixture = bench[c].fixture
  BY <1>3 DEF Holding
<1>7. /\ SafeKept'
      /\ bench_edits' \in [made : Nat, safe : SUBSET Range(BenchEdits), torn : SUBSET Range(BenchEdits)]
  BY <1>1, <1>6, TornKept
<1>8. BenchTypes'
  BY <1>1, <1>2, <1>3, <1>7 DEF BenchInv, BenchTypes
<1>9. FixtureKept'
  BY <1>2 DEF FixtureKept
<1> QED
  BY <1>3, <1>5, <1>7, <1>8, <1>9 DEF BenchInv

LEMMA RestoreKeepsBench == ASSUME BenchInv, NEW b \in Benches, Restore(b) PROVE BenchInv'
<1>1. PICK f \in [held : BOOLEAN, original : ReadmeTexts] : f = bench[b].fixture
  BY BenchKnown
<1>2. PICK fails \in BOOLEAN : fails = (f.held /\ locked /\ (f.original # NoReadme \/ readme # NoReadme))
  BY DEF BenchInv, BenchTypes
<1>3. /\ bench[b].phase = "restore" /\ readme' = (IF f.held /\ ~fails THEN f.original ELSE readme)
      /\ excused' = (excused \/ fails) /\ UNCHANGED <<locked, reports, bench_second, bench_edits, bench_faults>>
      /\ bench' = IF fails THEN Gone(b, "failed")
                  ELSE [bench EXCEPT ![b].fixture = NoFixture,
                          ![b].phase = IF Judgements(b) = bench[b].repeat * Len(Suite) THEN "report" ELSE "prepare"]
  BY <1>1, <1>2 DEF Restore, Goes
<1>4. CASE fails
  <2>1. readme' = readme /\ excused' = TRUE /\ bench' = Gone(b, "failed")
    BY <1>3, <1>4
  <2>2. bench_faults' \in 0..MaxBenchFaults /\ bench_second' \in Nat \ {0}
    BY <1>3 DEF BenchInv, BenchTypes
  <2>3. \A s \in DOMAIN reports : reports[s] = [json |-> reports[s].json, markdown |-> reports[s].markdown]
    BY DEF BenchInv, BenchTypes
  <2> QED
    BY <1>3, <2>1, <2>2, <2>3, GoneRunKeeps
<1>5. CASE ~fails
  <2>1. PICK phase \in {"report", "prepare"} :
          phase = IF Judgements(b) = bench[b].repeat * Len(Suite) THEN "report" ELSE "prepare"
    OBVIOUS
  <2>2. PICK r : r = [bench[b] EXCEPT !.fixture = NoFixture, !.phase = phase]
    OBVIOUS
  <2>3. bench' = [bench EXCEPT ![b] = r]
    BY <1>3, <1>5, <2>1, <2>2 DEF BenchInv, BenchTypes
  <2>4. /\ r \in BenchRuns /\ r.phase = phase /\ r.fixture = NoFixture /\ r.named = bench[b].named
        /\ r.cases = bench[b].cases /\ r.repeat = bench[b].repeat
    BY <2>2, BenchKnown, NothingKnown DEF BenchRuns, Phases
  <2>5. ~NoFixture.held
    BY DEF NoFixture
  <2>6. RunFits(bench[b])
    BY BenchKnown
  <2>7. RunFits(r)
    BY <1>3, <2>1, <2>4, <2>5, <2>6 DEF RunFits, AtCase, Judgements
  <2>8. /\ bench' \in [Benches -> BenchRuns] /\ (\A c \in Benches : RunFits(bench[c]))'
        /\ bench'[b] = r /\ \A c \in Benches : c # b => bench'[c] = bench[c]
    BY <2>3, <2>4, <2>7, BenchWent
  <2>9. (\A s \in DOMAIN reports : Filed(s))'
    BY <1>3, <2>4, <2>8, FiledStays
  <2>10. excused' = excused
    BY <1>3, <1>5 DEF BenchInv, BenchTypes
  <2>11. BenchTypes'
    BY <1>3, <2>8, <2>10 DEF BenchInv, BenchTypes
  <2>12. Holding' = Holding \ {b} /\ \A c \in Holding' : bench'[c] = bench[c]
    BY <2>4, <2>5, <2>8 DEF Holding
  <2>13. \A c \in Benches : bench'[c].phase = "fixing" => bench[c].phase = "fixing" /\ c # b
    BY <2>4, <2>8
  <2>14. CASE ~f.held
    <3>1. readme' = readme /\ Holding' = Holding
      BY <1>1, <1>3, <2>12, <2>14 DEF Holding
    <3> QED
      BY <1>3, <2>8, <2>9, <2>10, <2>11, <2>12, <2>13, <3>1 DEF BenchInv, FixtureKept, SafeKept
  <2>15. CASE f.held
    <3>1. b \in Holding /\ readme' = f.original
      BY <1>1, <1>3, <1>5, <2>15 DEF Holding
    <3>2. SafeKept'
      BY <1>1, <1>3, <2>12, <3>1 DEF BenchInv, SafeKept
    <3>3. ~excused => "fixture" \notin Range(f.original) /\ Holding' = {}
      BY <1>1, <2>12, <3>1 DEF BenchInv, FixtureKept
    <3>4. FixtureKept'
      BY <2>10, <3>1, <3>3 DEF FixtureKept
    <3> QED
      BY <2>8, <2>9, <2>11, <3>2, <3>4 DEF BenchInv
  <2> QED
    BY <2>14, <2>15
<1> QED
  BY <1>4, <1>5

-----------------------------------------------------------------------------
(* The report *)

LEMMA WriteJsonKeeps == ASSUME BenchInv, NEW b \in Benches, WriteJson(b) PROVE BenchInv'
<1>1. PICK t \in Nat \ {0} : t = bench_second'
  <2>1. bench_second \in Nat \ {0} /\ bench_second' \in bench_second..MaxBenchClock /\ MaxBenchClock \in Nat
    BY BenchBounds DEF BenchInv, BenchTypes, WriteJson
  <2>2. \A m \in Nat \ {0}, n \in Nat : m..n \subseteq Nat \ {0}
    OBVIOUS
  <2> QED
    BY <2>1, <2>2
<1>2. PICK paper : paper = Sheet(b, bench[b])
  OBVIOUS
<1>3. /\ bench[b].phase = "report" /\ bench' = [bench EXCEPT ![b].phase = "markdown", ![b].named = t]
      /\ reports' = [reports EXCEPT ![t].json = paper]
      /\ UNCHANGED <<readme, locked, bench_edits, excused, bench_faults>>
  BY <1>1, <1>2, SheetKnown DEF WriteJson, Goes
<1>4. PICK r : r = [bench[b] EXCEPT !.phase = "markdown", !.named = t]
  OBVIOUS
<1>5. bench' = [bench EXCEPT ![b] = r]
  BY <1>3, <1>4 DEF BenchInv, BenchTypes
<1>6. /\ r \in BenchRuns /\ r.phase = "markdown" /\ r.fixture = bench[b].fixture /\ r.named = t
      /\ r.cases = bench[b].cases /\ r.repeat = bench[b].repeat
  BY <1>4, BenchKnown DEF BenchRuns, Phases
<1>7. RunFits(bench[b]) /\ ~bench[b].fixture.held /\ bench[b].named = 0 /\ Len(bench[b].cases) = bench[b].repeat * Len(Suite)
  BY <1>3, BenchKnown DEF RunFits, AtCase
<1>8. RunFits(r)
  BY <1>6, <1>7 DEF RunFits, AtCase
<1>9. /\ bench' \in [Benches -> BenchRuns] /\ (\A c \in Benches : RunFits(bench[c]))'
      /\ bench'[b] = r /\ \A c \in Benches : c # b => bench'[c] = bench[c]
  BY <1>5, <1>6, <1>8, BenchWent
<1>10. FixtureKept' /\ SafeKept'
  BY <1>3, <1>6, <1>9, FixtureStays DEF BenchInv, BenchTypes
<1>11. /\ DOMAIN reports' = DOMAIN reports
       /\ \A s \in DOMAIN reports :
            /\ reports'[s].json = IF s = t THEN paper ELSE reports[s].json
            /\ reports'[s].markdown = reports[s].markdown
            /\ reports'[s] = [json |-> reports'[s].json, markdown |-> reports'[s].markdown]
  <2>1. \A s \in DOMAIN reports : reports[s] = [json |-> reports[s].json, markdown |-> reports[s].markdown]
    BY DEF BenchInv, BenchTypes
  <2> QED
    BY <1>3, <2>1
<1>12. BenchTypes'
  BY <1>1, <1>3, <1>9, <1>11 DEF BenchInv, BenchTypes
<1>13. paper.by = b /\ paper = Sheet(b, r) /\ WholeReport(paper)
  <2>1. Sheet(b, r) = Sheet(b, bench[b])
    BY <1>6 DEF Sheet
  <2>2. Sheet(b, r).by = b
    BY DEF Sheet
  <2>3. WholeReport(Sheet(b, r))
    BY <1>6, <1>7, <1>8, SheetWhole
  <2> QED
    BY <1>2, <2>1, <2>2, <2>3
<1>14. ASSUME NEW s \in DOMAIN reports PROVE Filed(s)'
  <2>1. PICK json : json = reports[s].json
    OBVIOUS
  <2>2. PICK markdown : markdown = reports[s].markdown
    OBVIOUS
  <2>3. s # 0
    BY DEF BenchInv, BenchTypes
  <2>4. /\ json # NoReport => /\ WholeReport(json) /\ json.by \in Benches /\ bench[json.by].named = s
                              /\ bench[json.by].phase = "markdown" => json = Sheet(json.by, bench[json.by])
        /\ markdown # NoReport => /\ markdown.by \in Benches /\ bench[markdown.by].named = s
                                  /\ bench[markdown.by].phase # "markdown"
        /\ json # NoReport /\ markdown # NoReport /\ json.by = markdown.by => markdown = Rendered(json)
    BY <2>1, <2>2 DEF BenchInv, Filed, PaperOf
  <2>5. /\ json # NoReport => json.by # b /\ bench'[json.by] = bench[json.by]
        /\ markdown # NoReport => markdown.by # b /\ bench'[markdown.by] = bench[markdown.by]
    BY <1>7, <1>9, <2>3, <2>4
  <2>6. /\ markdown # NoReport => /\ markdown.by \in Benches /\ bench'[markdown.by].named = s
                                  /\ bench'[markdown.by].phase # "markdown"
        /\ reports'[s].markdown = markdown
    BY <1>11, <2>2, <2>4, <2>5
  <2>7. CASE s = t
    <3>1. reports'[s].json = paper
      BY <1>11, <2>7
    <3>2. /\ WholeReport(paper) /\ paper.by \in Benches /\ bench'[paper.by].named = s /\ paper = Sheet(paper.by, bench'[paper.by])
          /\ markdown # NoReport => paper.by # markdown.by
      BY <1>6, <1>9, <1>13, <2>5, <2>7
    <3> QED
      BY <2>6, <3>1, <3>2 DEF Filed, PaperOf
  <2>8. CASE s # t
    <3>1. reports'[s].json = json
      BY <1>11, <2>1, <2>8
    <3>2. json # NoReport => /\ WholeReport(json) /\ json.by \in Benches /\ bench'[json.by].named = s
                             /\ bench'[json.by].phase = "markdown" => json = Sheet(json.by, bench'[json.by])
      BY <2>4, <2>5
    <3> QED
      BY <2>4, <2>6, <3>1, <3>2 DEF Filed, PaperOf
  <2> QED
    BY <2>7, <2>8
<1>15. (\A s \in DOMAIN reports : Filed(s))'
  BY <1>11, <1>14
<1> QED
  BY <1>9, <1>10, <1>12, <1>15 DEF BenchInv

LEMMA WriteMarkdownKeeps == ASSUME BenchInv, NEW b \in Benches, WriteMarkdown(b) PROVE BenchInv'
<1>1. PICK t \in Nat \ {0} : t = bench[b].named
  <2>1. bench[b].phase = "markdown"
    BY DEF WriteMarkdown, Goes
  <2> QED
    BY <2>1, BenchKnown DEF RunFits
<1>2. PICK paper : paper = Rendered(Sheet(b, bench[b]))
  OBVIOUS
<1>3. /\ bench[b].phase = "markdown" /\ bench' = Gone(b, "done")
      /\ reports' = [reports EXCEPT ![t].markdown = paper]
      /\ UNCHANGED <<readme, locked, bench_second, bench_edits, excused, bench_faults>>
  BY <1>1, <1>2, SheetKnown DEF WriteMarkdown, Goes
<1>4. PICK r : r = Vacant("done", t)
  OBVIOUS
<1>5. bench' = [bench EXCEPT ![b] = r]
  <2>1. PICK q : q = [NewBench EXCEPT !.phase = "done", !.named = t]
    OBVIOUS
  <2>2. q = r
    BY <1>4, <2>1, GoneVacant
  <2>3. bench' = [bench EXCEPT ![b] = q]
    BY <1>1, <1>3, <2>1 DEF Gone
  <2> QED
    BY ONLY <2>2, <2>3
<1>6. r \in BenchRuns /\ RunFits(r) /\ ~r.fixture.held /\ r.named = t /\ r.phase = "done"
  <2>1. "done" \in Phases /\ "done" \notin AtCase /\ "done" \notin {"report", "markdown"}
    BY DEF Phases, AtCase
  <2> QED
    BY <1>4, <2>1, VacantFits
<1>7. ~bench[b].fixture.held
  BY <1>3, BenchKnown DEF RunFits, AtCase
<1>8. /\ bench' \in [Benches -> BenchRuns] /\ (\A c \in Benches : RunFits(bench[c]))'
      /\ bench'[b] = r /\ \A c \in Benches : c # b => bench'[c] = bench[c]
  BY <1>5, <1>6, BenchWent
<1>9. FixtureKept' /\ SafeKept'
  <2>1. \A c \in Benches : bench'[c].fixture.held =>
          bench[c].fixture.held /\ bench'[c].fixture.original = bench[c].fixture.original
    BY <1>6, <1>8
  <2>2. \A c \in Benches : /\ bench[c].fixture.held => bench'[c].fixture.held
                           /\ bench'[c].phase = "fixing" => bench[c].phase = "fixing"
    BY <1>6, <1>7, <1>8
  <2> QED
    BY <1>3, <2>1, <2>2, FixtureStays DEF BenchInv, BenchTypes
<1>10. /\ DOMAIN reports' = DOMAIN reports
       /\ \A s \in DOMAIN reports :
            /\ reports'[s].markdown = IF s = t THEN paper ELSE reports[s].markdown
            /\ reports'[s].json = reports[s].json
            /\ reports'[s] = [json |-> reports'[s].json, markdown |-> reports'[s].markdown]
  <2>1. \A s \in DOMAIN reports : reports[s] = [json |-> reports[s].json, markdown |-> reports[s].markdown]
    BY DEF BenchInv, BenchTypes
  <2> QED
    BY <1>3, <2>1
<1>11. BenchTypes'
  BY <1>3, <1>8, <1>10 DEF BenchInv, BenchTypes
<1>12. paper.by = b
  BY <1>2 DEF Sheet, Rendered
<1>13. ASSUME NEW s \in DOMAIN reports PROVE Filed(s)'
  <2>1. PICK json : json = reports[s].json
    OBVIOUS
  <2>2. PICK markdown : markdown = reports[s].markdown
    OBVIOUS
  <2>3. /\ json # NoReport => /\ WholeReport(json) /\ json.by \in Benches /\ bench[json.by].named = s
                              /\ bench[json.by].phase = "markdown" => json = Sheet(json.by, bench[json.by])
        /\ markdown # NoReport => /\ markdown.by \in Benches /\ bench[markdown.by].named = s
                                  /\ bench[markdown.by].phase # "markdown"
        /\ json # NoReport /\ markdown # NoReport /\ json.by = markdown.by => markdown = Rendered(json)
    BY <2>1, <2>2 DEF BenchInv, Filed, PaperOf
  <2>4. /\ json # NoReport => /\ WholeReport(json) /\ json.by \in Benches /\ bench'[json.by].named = s
                              /\ bench'[json.by].phase = "markdown" => json = Sheet(json.by, bench'[json.by])
        /\ reports'[s].json = json
    BY <1>1, <1>6, <1>8, <1>10, <2>1, <2>3
  <2>5. CASE s = t
    <3>1. reports'[s].markdown = paper
      BY <1>10, <2>5
    <3>2. /\ paper.by \in Benches /\ bench'[paper.by].named = s /\ bench'[paper.by].phase # "markdown"
          /\ json # NoReport /\ json.by = paper.by => paper = Rendered(json)
      BY <1>2, <1>3, <1>6, <1>8, <1>12, <2>3, <2>5
    <3> QED
      BY <2>4, <3>1, <3>2 DEF Filed, PaperOf
  <2>6. CASE s # t
    <3>1. reports'[s].markdown = markdown
      BY <1>10, <2>2, <2>6
    <3>2. markdown # NoReport => /\ markdown.by \in Benches /\ bench'[markdown.by].named = s
                                 /\ bench'[markdown.by].phase # "markdown"
      BY <1>1, <1>8, <2>3, <2>6
    <3> QED
      BY <2>3, <2>4, <3>1, <3>2 DEF Filed, PaperOf
  <2> QED
    BY <2>5, <2>6
<1>14. (\A s \in DOMAIN reports : Filed(s))'
  BY <1>10, <1>13
<1> QED
  BY <1>8, <1>9, <1>11, <1>14 DEF BenchInv

LEMMA EndsKeepBench == ASSUME BenchInv, NEW b \in Benches, ReportFails(b) \/ Kill(b) PROVE BenchInv'
<1>1. bench_faults' \in 0..MaxBenchFaults
  BY BenchBounds DEF BenchInv, BenchTypes, ReportFails, Kill, Fault
<1>2. bench[b].fixture.held \in BOOLEAN /\ excused \in BOOLEAN
  BY BenchKnown DEF BenchInv, BenchTypes
<1>3. \A s \in DOMAIN reports : reports[s] = [json |-> reports[s].json, markdown |-> reports[s].markdown]
  BY DEF BenchInv, BenchTypes
<1>4. bench_second \in Nat \ {0} /\ MaxBenchClock \in Nat
  BY BenchBounds DEF BenchInv, BenchTypes
<1>5. CASE ReportFails(b)
  <2>1. PICK end \in {"failed", "killed"} : bench' = Gone(b, end)
    BY <1>5 DEF ReportFails
  <2>2. bench[b].phase \in {"report", "markdown"} /\ UNCHANGED <<readme, locked, bench_edits, excused>>
    BY <1>5 DEF ReportFails, Goes
  <2>3. ~bench[b].fixture.held
    BY <2>2, BenchKnown DEF RunFits, AtCase
  <2>4. bench_second' \in Nat \ {0}
    <3>1. bench_second' = bench_second \/ bench_second' \in bench_second..MaxBenchClock
      BY <1>5 DEF ReportFails
    <3>2. \A m \in Nat \ {0}, n \in Nat : m..n \subseteq Nat \ {0}
      OBVIOUS
    <3> QED
      BY <1>4, <3>1, <3>2
  <2>5. PICK s : reports' \in {reports, [reports EXCEPT ![s].json = NoReport], [reports EXCEPT ![s].markdown = NoReport]}
    BY <1>5 DEF ReportFails
  <2>6. /\ DOMAIN reports' = DOMAIN reports
        /\ \A n \in DOMAIN reports :
             /\ reports'[n].json = reports[n].json \/ reports'[n].json = NoReport
             /\ reports'[n].markdown = reports[n].markdown \/ reports'[n].markdown = NoReport
             /\ reports'[n] = [json |-> reports'[n].json, markdown |-> reports'[n].markdown]
    <3>1. CASE reports' = reports
      BY <1>3, <3>1
    <3>2. CASE reports' = [reports EXCEPT ![s].json = NoReport]
      BY <1>3, <3>2
    <3>3. CASE reports' = [reports EXCEPT ![s].markdown = NoReport]
      BY <1>3, <3>3
    <3> QED
      BY <2>5, <3>1, <3>2, <3>3
  <2> QED
    BY <1>1, <1>2, <2>1, <2>2, <2>3, <2>4, <2>6, GoneRunKeeps
<1>6. CASE Kill(b)
  <2>1. bench' = Gone(b, "killed") /\ excused' = (excused \/ bench[b].fixture.held)
        /\ UNCHANGED <<readme, locked, reports, bench_second, bench_edits>>
    BY <1>6 DEF Kill
  <2> QED
    BY <1>1, <1>2, <1>3, <1>4, <2>1, GoneRunKeeps
<1> QED
  BY <1>5, <1>6

-----------------------------------------------------------------------------
(* What happens beside it *)

LEMMA EditKeepsBench == ASSUME BenchInv, EditReadme PROVE BenchInv'
<1>1. PICK n \in DOMAIN BenchEdits : n = bench_edits.made + 1
  BY DEF EditReadme
<1>2. PICK edit \in Range(BenchEdits) : edit = BenchEdits[n]
  BY DEF Range
<1>3. edit \in ReadmeParts /\ edit # "fixture" /\ edit # "missing"
  BY <1>2, BenchBounds DEF ReadmeParts
<1>4. /\ readme' = IF readme = NoReadme THEN <<edit>> ELSE Append(readme, edit)
      /\ bench_edits' = [made |-> n, safe |-> bench_edits.safe \cup (IF Holding = {} THEN {edit} ELSE {}),
                         torn |-> bench_edits.torn]
      /\ UNCHANGED <<bench, locked, reports, bench_second, excused, bench_faults>>
  <2>1. bench_edits \in [made : Nat, safe : SUBSET Range(BenchEdits), torn : SUBSET Range(BenchEdits)]
    BY DEF BenchInv, BenchTypes
  <2>2. bench_edits' = [bench_edits EXCEPT !.made = n, !.safe = @ \cup IF Holding = {} THEN {edit} ELSE {}]
    BY <1>1, <1>2 DEF EditReadme
  <2>3. bench_edits' = [made |-> n, safe |-> bench_edits.safe \cup (IF Holding = {} THEN {edit} ELSE {}),
                        torn |-> bench_edits.torn]
    BY <2>1, <2>2
  <2> QED
    BY <1>1, <1>2, <2>3 DEF EditReadme
<1>5. /\ readme \in ReadmeTexts /\ bench_edits.safe \subseteq Range(BenchEdits) /\ n \in Nat
      /\ bench_edits.torn \subseteq Range(BenchEdits)
  BY <1>1 DEF BenchInv, BenchTypes
<1>6. /\ readme' \in ReadmeTexts /\ edit \in Range(readme') /\ (readme # NoReadme => Range(readme) \subseteq Range(readme'))
      /\ Range(readme') \subseteq Range(readme) \cup {edit}
  <2>1. CASE readme = NoReadme
    BY <1>3, <1>4, <2>1, ReadmeTextsKnown
  <2>2. CASE readme # NoReadme
    BY <1>3, <1>4, <1>5, <2>2, ReadmeTextsKnown
  <2> QED
    BY <2>1, <2>2
<1>7. bench_edits.safe \subseteq Range(readme') \cup bench_edits.torn
  <2>1. CASE readme = NoReadme
    <3>1. bench_edits.safe \subseteq {"missing"} \cup bench_edits.torn
      BY <2>1, NothingKnown DEF BenchInv, SafeKept
    <3>2. bench_edits.safe \subseteq bench_edits.torn
      BY <1>5, <3>1, BenchBounds
    <3> QED
      BY <3>2
  <2>2. CASE readme # NoReadme
    BY <1>6, <2>2 DEF BenchInv, SafeKept
  <2> QED
    BY <2>1, <2>2
<1>8. Holding' = Holding
  BY <1>4 DEF Holding
<1>9. SafeKept'
  BY <1>4, <1>6, <1>7, <1>8 DEF BenchInv, SafeKept
<1>10. FixtureKept'
  BY <1>3, <1>4, <1>6, <1>8 DEF BenchInv, FixtureKept
<1>11. BenchTypes'
  <2>1. bench_edits' \in [made : Nat, safe : SUBSET Range(BenchEdits), torn : SUBSET Range(BenchEdits)]
    BY <1>2, <1>4, <1>5
  <2> QED
    BY <1>4, <1>6, <2>1 DEF BenchInv, BenchTypes
<1>12. (\A s \in DOMAIN reports : Filed(s))'
  BY <1>4, FiledStays
<1>13. (\A b \in Benches : RunFits(bench[b]))'
  BY <1>4 DEF BenchInv
<1> QED
  BY <1>9, <1>10, <1>11, <1>12, <1>13 DEF BenchInv

LEMMA BesideKeepsBench == ASSUME BenchInv, Lock \/ Unlock \/ UNCHANGED benchVars PROVE BenchInv'
<1>1. UNCHANGED <<bench, readme, reports, bench_edits, excused>>
  BY DEF Lock, Unlock, benchVars
<1>2. locked' \in BOOLEAN /\ bench_faults' \in 0..MaxBenchFaults /\ bench_second' \in Nat \ {0}
  <2>1. locked' \in BOOLEAN
    BY DEF BenchInv, BenchTypes, Lock, Unlock, benchVars
  <2>2. bench_faults' = bench_faults \/ (bench_faults < MaxBenchFaults /\ bench_faults' = bench_faults + 1)
    BY DEF Lock, Unlock, benchVars, Fault
  <2>3. bench_second' = bench_second
    BY DEF Lock, Unlock, benchVars
  <2>4. bench_faults \in 0..MaxBenchFaults /\ MaxBenchFaults \in Nat /\ bench_second \in Nat \ {0}
    BY BenchBounds DEF BenchInv, BenchTypes
  <2> QED
    BY <2>1, <2>2, <2>3, <2>4
<1>3. BenchTypes'
  BY <1>1, <1>2 DEF BenchInv, BenchTypes
<1>4. FixtureKept' /\ SafeKept'
  BY <1>1 DEF BenchInv, FixtureKept, SafeKept, Holding
<1>5. (\A s \in DOMAIN reports : Filed(s))'
  BY <1>1, FiledStays
<1>6. (\A b \in Benches : RunFits(bench[b]))'
  BY <1>1 DEF BenchInv
<1> QED
  BY <1>3, <1>4, <1>5, <1>6 DEF BenchInv

LEMMA NextBench == BenchInv /\ [BenchNext]_benchVars => BenchInv'
<1> SUFFICES ASSUME BenchInv, [BenchNext]_benchVars PROVE BenchInv'
  OBVIOUS
<1>1. ASSUME NEW b \in Benches,
             \/ StartBench(b) \/ PrepareRead(b) \/ PrepareWrite(b) \/ FirstTurn(b) \/ Loop(b) \/ Fallback(b)
             \/ Restore(b) \/ WriteJson(b) \/ WriteMarkdown(b) \/ ReportFails(b) \/ Kill(b) \/ PrepareReadPart(b)
             \/ CutReadme(b)
      PROVE  BenchInv'
  BY <1>1, StartKeepsBench, PrepareReadKeeps, PrepareWriteKeeps, FirstTurnKeeps, LoopKeepsBench, FallbackKeeps,
     RestoreKeepsBench, WriteJsonKeeps, WriteMarkdownKeeps, EndsKeepBench, CutKeepsBench
<1>2. CASE EditReadme \/ Lock \/ Unlock \/ UNCHANGED benchVars
  BY <1>2, EditKeepsBench, BesideKeepsBench
<1> QED
  BY <1>1, <1>2 DEF BenchNext

\* The benchmark runs, README.md and the reports keep their types, for any runs and suite.
THEOREM BenchTypeCorrect == BenchSpec => []BenchTypeOK
  BY InitBench, NextBench, BenchTyped, PTL DEF BenchSpec

\* For any runs side by side and any suite: README.md is without the fixture once no run
\* has it, unless a run was killed with it, wrote it in part, could not put it back or met
\* another; what was written while no run had the file goes only with a part that was torn
\* off; a report counts every case once, and the first case of a round has its turn.  A
\* max_turns of 0, which only a file of the configuration can say, refuses every turn.
THEOREM BenchHolds == BenchTurns > 0 => (BenchSpec => []BenchAccounts)
<1> SUFFICES ASSUME BenchTurns > 0 PROVE BenchSpec => []BenchAccounts
  OBVIOUS
<1>1. BenchInv => BenchAccounts
  BY BenchTold
<1> QED
  BY <1>1, InitBench, NextBench, PTL DEF BenchSpec

------------------------------------------------------------------------------
(* The types of the changed files *)

Failings == {"blocked", "failed", "unknown"}
CallStatuses == {"ok", "error"}

\* No list names a file twice, what is kept short is short, and a process that is down
\* has tested nothing.
WorkTypes ==
  /\ work_at \in {"idle", "turn", "loop", "down", "over"} /\ run_only \in BOOLEAN
  /\ IsInjective(changed_files) /\ IsInjective(last_reply) /\ IsInjective(work_saved.files)
  /\ synopses \in FileLists /\ IsInjective(synopses) /\ Len(synopses) <= SynopsisMax
  /\ tested_len \in Nat /\ tested_len <= Len(changed_files) /\ (work_at = "down" => tested_len = 0)
  /\ failures \in Seq(Failings) /\ Len(failures) <= FailureMax
  /\ observed \in Seq(CallStatuses) /\ Len(observed) <= ObservedMax

LEMMA ShortOnes == IsInjective(<<>>) /\ \A f : IsInjective(<<f>>)
  BY DEF IsInjective

\* The young end of a list.
LEMMA LastOnes ==
  ASSUME NEW S, NEW s \in Seq(S), NEW n \in Nat
  PROVE  /\ LastOf(s, n) \in Seq(S) /\ Len(LastOf(s, n)) <= n
         /\ IsInjective(s) => IsInjective(LastOf(s, n))
<1> DEFINE from == (IF Len(s) > n THEN Len(s) - n ELSE 0) + 1
           t == SubSeq(s, from, Len(s))
<1>1. Len(s) \in Nat /\ from \in Nat /\ from >= 1 /\ LastOf(s, n) = t /\ Len(s) - from + 1 <= n
  BY DEF LastOf
<1> HIDE DEF from
<1>2. \A i \in from..Len(s) : s[i] \in S
  <2>1. \A i \in from..Len(s) : i \in 1..Len(s)
    BY <1>1
  <2> QED BY <2>1, ElementOfSeq
<1>3. /\ t \in Seq(S) /\ Len(t) = IF from <= Len(s) THEN Len(s) - from + 1 ELSE 0
      /\ \A i \in 1..Len(t) : t[i] = s[from + i - 1]
  <2>1. from \in Int /\ Len(s) \in Int
    BY <1>1
  <2> QED BY <1>1, <1>2, <2>1, SubSeqProperties
<1> HIDE DEF t
<1>4. ASSUME IsInjective(s) PROVE IsInjective(t)
  <2>1. DOMAIN t = 1..Len(t) /\ DOMAIN s = 1..Len(s)
    BY <1>3
  <2>2. \A i \in 1..Len(t) : from + i - 1 \in 1..Len(s)
    BY <1>1, <1>3
  <2>3. \A i, j \in 1..Len(s) : s[i] = s[j] => i = j
    BY <1>4, <2>1 DEF IsInjective
  <2>4. \A i, j \in 1..Len(t) : t[i] = t[j] => i = j
    <3> SUFFICES ASSUME NEW i \in 1..Len(t), NEW j \in 1..Len(t), t[i] = t[j] PROVE i = j
      OBVIOUS
    <3>1. from + i - 1 = from + j - 1
      BY <1>3, <2>2, <2>3
    <3> QED BY <1>1, <3>1
  <2> QED BY <2>1, <2>4 DEF IsInjective
<1> QED BY <1>1, <1>3, <1>4

\* A window that slides has at most its size.
LEMMA SlidKeeps ==
  ASSUME NEW S, NEW s \in Seq(S), NEW x \in S, NEW n \in Nat
  PROVE  Slid(s, x, n) \in Seq(S) /\ Len(Slid(s, x, n)) <= n
<1> DEFINE t == Append(s, x)
<1>1. t \in Seq(S)
  OBVIOUS
<1> HIDE DEF t
<1>2. LastOf(t, n) \in Seq(S) /\ Len(LastOf(t, n)) <= n
  BY <1>1, LastOnes
<1> QED BY <1>2 DEF Slid, t

LEMMA ObservedKeeps ==
  ASSUME WorkTypes, NEW status \in CallStatuses, NEW remembered \in Failings \cup {"none"}, Observe(status, remembered)
  PROVE  /\ failures' \in Seq(Failings) /\ Len(failures') <= FailureMax
         /\ observed' \in Seq(CallStatuses) /\ Len(observed') <= ObservedMax
<1>1. FailureMax \in Nat /\ ObservedMax \in Nat
  BY WorkBounds
<1>2. observed' \in Seq(CallStatuses) /\ Len(observed') <= ObservedMax
  <2>1. observed' = Slid(observed, status, ObservedMax) /\ observed \in Seq(CallStatuses)
    BY DEF Observe, WorkTypes
  <2> QED BY <1>1, <2>1, SlidKeeps
<1>3. CASE remembered = "none"
  BY <1>2, <1>3 DEF Observe, WorkTypes
<1>4. CASE remembered # "none"
  <2>1. failures' = Slid(failures, remembered, FailureMax) /\ failures \in Seq(Failings) /\ remembered \in Failings
    BY <1>4 DEF Observe, WorkTypes
  <2>2. failures' \in Seq(Failings) /\ Len(failures') <= FailureMax
    BY <1>1, <2>1, SlidKeeps
  <2> QED BY <1>2, <2>2
<1> QED BY <1>3, <1>4

\* A synopsis that is young again is there once, and no more of them are than there were
\* if it was there.
LEMMA TouchedOnce ==
  ASSUME WorkTypes, NEW f \in WorkFiles
  PROVE  /\ Touched(f) \in FileLists /\ IsInjective(Touched(f))
         /\ f \in Range(synopses) => Len(Touched(f)) <= Len(synopses)
<1> DEFINE at == {i \in DOMAIN synopses : synopses[i] # f}
           t == Picked(synopses, at)
           u == Append(t, f)
<1>1. synopses \in Seq(WorkFiles) /\ IsInjective(synopses) /\ Len(synopses) \in Nat /\ DOMAIN synopses = 1..Len(synopses)
  BY DEF WorkTypes, FileLists
<1>2. Touched(f) = u
  BY DEF Touched
<1>3. \A i \in at : synopses[i] # f
  OBVIOUS
<1>4. f \in Range(synopses) => \E j \in 1..Len(synopses) : j \notin at
  BY <1>1 DEF Range
<1> HIDE DEF at
<1>5. /\ t \in Seq(WorkFiles) /\ IsInjective(t) /\ Len(t) <= Len(synopses)
      /\ \A i \in 1..Len(t) : \E j \in at \cap (1..Len(synopses)) : t[i] = synopses[j]
      /\ (\E j \in 1..Len(synopses) : j \notin at) => Len(t) < Len(synopses)
  BY <1>1, PickedTyped, PickedOnce
<1> HIDE DEF t
<1>6. Len(t) \in Nat /\ DOMAIN t = 1..Len(t) /\ \A i \in 1..Len(t) : t[i] # f
  BY <1>3, <1>5
<1>7. /\ u \in Seq(WorkFiles) /\ Len(u) = Len(t) + 1 /\ DOMAIN u = 1..(Len(t) + 1)
      /\ \A i \in 1..Len(t) : u[i] = t[i]
      /\ u[Len(t) + 1] = f
  BY <1>5, <1>6
<1> HIDE DEF u
<1>8. \A i, j \in DOMAIN u : u[i] = u[j] => i = j
  <2> SUFFICES ASSUME NEW i \in DOMAIN u, NEW j \in DOMAIN u, u[i] = u[j] PROVE i = j
    OBVIOUS
  <2>1. (i \in 1..Len(t) \/ i = Len(t) + 1) /\ (j \in 1..Len(t) \/ j = Len(t) + 1)
    BY <1>6, <1>7
  <2>2. CASE i \in 1..Len(t) /\ j \in 1..Len(t)
    <3>1. t[i] = t[j]
      BY <1>7, <2>2
    <3> QED BY <1>5, <1>6, <2>2, <3>1 DEF IsInjective
  <2>3. CASE ~(i \in 1..Len(t) /\ j \in 1..Len(t))
    BY <1>6, <1>7, <2>1, <2>3
  <2> QED BY <2>2, <2>3
<1>9. f \in Range(synopses) => Len(u) <= Len(synopses)
  BY <1>1, <1>4, <1>5, <1>6, <1>7
<1> QED BY <1>2, <1>7, <1>8, <1>9 DEF FileLists, IsInjective

\* The listed files, however they grew.
LEMMA ListGrows ==
  ASSUME WorkInv, WorkTypes, NEW fs \in FileLists, changed_files' = Pushed(changed_files, fs)
  PROVE  IsInjective(changed_files') /\ Len(changed_files) <= Len(changed_files') /\ Len(changed_files) \in Nat
         /\ Len(changed_files') \in Nat
<1>1. changed_files \in FileLists /\ IsInjective(changed_files)
  BY DEF WorkInv, OneStory, Told, WorkTypes
<1>2. changed_files' \in FileLists
  BY <1>1, PushedHas
<1> QED BY <1>1, <1>2, PushedHas, ListsKnown

LEMMA NativesOnce == \A fs \in Natives : fs \in FileLists /\ IsInjective(fs)
  BY ListsKnown, ShortOnes DEF Natives

Grown ==
  /\ IsInjective(changed_files') /\ Len(changed_files) \in Nat /\ Len(changed_files') \in Nat
  /\ Len(changed_files) <= Len(changed_files')

LEMMA RecordsGrow ==
  ASSUME WorkInv, WorkTypes, NEW fs \in FileLists, NEW source,
         RecordChanges(source, fs) \/ RecordFiles(fs) \/ RecordNone
  PROVE  Grown
<1>1. CASE RecordChanges(source, fs) \/ RecordFiles(fs)
  <2>1. changed_files' = Pushed(changed_files, fs)
    BY <1>1 DEF RecordChanges, RecordFiles
  <2> QED BY <2>1, ListGrows DEF Grown
<1>2. CASE RecordNone
  <2>1. changed_files' = changed_files /\ changed_files \in FileLists
    BY <1>2 DEF RecordNone, WorkInv, OneStory, Told
  <2> QED BY <2>1, ListsKnown DEF Grown, WorkTypes
<1> QED BY <1>1, <1>2

LEMMA SavedOnce ==
  ASSUME WorkTypes, NEW events, NEW live,
         work_saved' \in {work_saved, NoListing, Listing(changed_files, events, live)}
         \/ (IsInjective(changed_files') /\ work_saved' = Listing(changed_files', events, live))
  PROVE  IsInjective(work_saved.files')
BY ShortOnes DEF WorkTypes, NoListing, Listing

LEMMA WorkTypesBegin == WorkInit => WorkTypes
<1> SUFFICES ASSUME WorkInit PROVE WorkTypes
  OBVIOUS
<1>1. <<>> \in FileLists /\ Len(<<>>) = 0 /\ <<>> \in Seq(Failings) /\ <<>> \in Seq(CallStatuses)
  BY ListsKnown
<1>2. SynopsisMax \in Nat /\ FailureMax \in Nat /\ ObservedMax \in Nat
  BY WorkBounds
<1>3. /\ changed_files = <<>> /\ last_reply = <<>> /\ work_saved.files = <<>> /\ synopses = <<>>
      /\ failures = <<>> /\ observed = <<>> /\ tested_len = 0 /\ work_at = "idle" /\ run_only = FALSE
  BY DEF WorkInit, NoListing, Listing
<1>4. IsInjective(changed_files) /\ IsInjective(last_reply) /\ IsInjective(work_saved.files) /\ IsInjective(synopses)
  BY <1>3, ShortOnes
<1>5. /\ Len(synopses) <= SynopsisMax /\ Len(failures) <= FailureMax /\ Len(observed) <= ObservedMax
      /\ tested_len \in Nat /\ tested_len <= Len(changed_files)
  BY <1>1, <1>2, <1>3
<1> QED BY <1>1, <1>3, <1>4, <1>5 DEF WorkTypes

LEMMA WorkTypesKeep == ASSUME WorkInv, WorkTypes, [WorkNext]_workVars PROVE WorkTypes'
<1> DEFINE Windows == /\ failures' \in Seq(Failings) /\ Len(failures') <= FailureMax
                      /\ observed' \in Seq(CallStatuses) /\ Len(observed') <= ObservedMax
           Synopses == synopses' \in FileLists /\ IsInjective(synopses') /\ Len(synopses') <= SynopsisMax
           Tests == /\ tested_len' \in Nat /\ tested_len' <= Len(changed_files') /\ (work_at' = "down" => tested_len' = 0)

           Ats == {"idle", "turn", "loop", "down", "over"}
<1> USE DEF WorkTypes
<1>1. <<>> \in FileLists /\ Len(<<>>) = 0 /\ <<>> \in Seq(Failings) /\ <<>> \in Seq(CallStatuses) /\ IsInjective(<<>>)
  BY ListsKnown, ShortOnes
<1>2. SynopsisMax \in Nat /\ FailureMax \in Nat /\ ObservedMax \in Nat
  BY WorkBounds
<1>3. UNCHANGED <<failures, observed>> \/ (failures' = <<>> /\ observed' = <<>>) => Windows
  <2>1. CASE UNCHANGED <<failures, observed>>
    BY <2>1
  <2>2. CASE failures' = <<>> /\ observed' = <<>>
    <3>1. 0 <= FailureMax /\ 0 <= ObservedMax
      BY <1>2
    <3> QED BY <1>1, <2>2, <3>1
  <2> QED BY <2>1, <2>2
<1>4. UNCHANGED synopses \/ synopses' = <<>> => Synopses
  BY <1>1, <1>2
<1>5. ASSUME Grown, UNCHANGED tested_len, work_at' # "down" PROVE Tests
  BY <1>5 DEF Grown
<1>6. changed_files \in FileLists /\ work_saved.files \in FileLists /\ last_reply \in FileLists /\ Len(changed_files) \in Nat
  BY ListsKnown DEF WorkInv, OneStory, Told
<1>7. CASE TypedCall
  <2>1. PICK fs \in {<<>>} \cup {<<f>> : f \in WorkFiles} : RecordChanges("manual", fs)
    BY <1>7 DEF TypedCall
  <2>2. fs \in FileLists
    BY <2>1, ListsKnown
  <2>3. Grown
    BY <2>1, <2>2, RecordsGrow
  <2>4. /\ work_at' \in {"idle", "over"} /\ run_only' = FALSE /\ last_reply' = <<>>
        /\ work_saved' \in {work_saved, NoListing} /\ UNCHANGED <<tested_len, synopses, failures, observed>>
    BY <1>7 DEF TypedCall, EndOf
  <2>5. IsInjective(work_saved.files')
    BY <2>4, SavedOnce
  <2> QED BY <1>1, <1>3, <1>4, <1>5, <2>3, <2>4, <2>5 DEF Grown
<1>8. CASE Ask
  <2>1. /\ work_at' = "turn" /\ run_only' \in BOOLEAN /\ last_reply' \in Natives
        /\ RecordFiles(last_reply') \/ RecordNone
        /\ UNCHANGED <<tested_len, synopses, failures, observed, work_saved>>
    BY <1>8 DEF Ask, RunOnlyAsked
  <2>2. last_reply' \in FileLists /\ IsInjective(last_reply')
    BY <2>1, NativesOnce
  <2>3. Grown
    BY <2>1, <2>2, RecordsGrow
  <2> QED BY <1>3, <1>4, <1>5, <2>1, <2>2, <2>3 DEF Grown
<1>9. CASE WorkOn
  <2>1. /\ work_at' = "loop" /\ tested_len' = Len(changed_files) /\ failures' = <<>> /\ observed' = <<>>
        /\ work_saved' \in {work_saved, Listing(changed_files, change_events, TRUE)}
        /\ UNCHANGED <<run_only, changed_files, last_reply, synopses>>
    BY <1>9 DEF WorkOn
  <2>2. IsInjective(work_saved.files')
    BY <2>1, SavedOnce
  <2> QED BY <1>3, <1>4, <1>6, <2>1, <2>2
<1>10. CASE CallInLoop
  <2>1. /\ work_at = "loop"
        /\ UNCHANGED <<work_at, run_only, last_reply, tested_len, synopses, work_saved>>
    BY <1>10 DEF CallInLoop
  <2>2. \/ \E f \in WorkFiles : RecordChanges("auto", <<f>>) /\ Observe("ok", "none")
        \/ RecordNone /\ \E status \in CallStatuses, remembered \in Failings \cup {"none"} : Observe(status, remembered)
    <3>1. \/ \E f \in WorkFiles :
                IF run_only
                THEN RecordNone /\ Observe("error", "blocked") /\ UNCHANGED <<owed, disk_changes>>
                ELSE \/ RecordChanges("auto", <<f>>) /\ Made(<<f>>) /\ owed' = owed \cup {f} /\ Observe("ok", "none")
                     \/ RecordNone /\ Observe("error", "failed") /\ UNCHANGED <<owed, disk_changes>>
          \/ \E o \in {<<"ok", "none">>, <<"ok", "unknown">>, <<"error", "failed">>} :
                Observe(o[1], o[2]) /\ RecordNone /\ UNCHANGED <<owed, disk_changes>>
      BY <1>10 DEF CallInLoop
    <3>2. {"ok", "error"} \subseteq CallStatuses /\ {"blocked", "failed", "unknown", "none"} \subseteq Failings \cup {"none"}
      BY DEF CallStatuses, Failings
    <3>3. CASE \E o \in {<<"ok", "none">>, <<"ok", "unknown">>, <<"error", "failed">>} :
                 Observe(o[1], o[2]) /\ RecordNone /\ UNCHANGED <<owed, disk_changes>>
      BY <3>2, <3>3
    <3>4. CASE \E f \in WorkFiles :
                 IF run_only
                 THEN RecordNone /\ Observe("error", "blocked") /\ UNCHANGED <<owed, disk_changes>>
                 ELSE \/ RecordChanges("auto", <<f>>) /\ Made(<<f>>) /\ owed' = owed \cup {f} /\ Observe("ok", "none")
                      \/ RecordNone /\ Observe("error", "failed") /\ UNCHANGED <<owed, disk_changes>>
      BY <3>2, <3>4
    <3> QED BY <3>1, <3>3, <3>4
  <2>3. Grown
    BY <2>2, <1>1, ListsKnown, RecordsGrow
  <2>4. Windows
    <3>1. "ok" \in CallStatuses /\ "none" \in Failings \cup {"none"}
      BY DEF CallStatuses
    <3> QED BY <2>2, <3>1, ObservedKeeps
  <2> QED BY <1>4, <1>5, <2>1, <2>3, <2>4 DEF Grown
<1>11. CASE ReadInLoop
  <2>1. /\ work_at = "loop" /\ RecordNone
        /\ UNCHANGED <<work_at, run_only, last_reply, tested_len, work_saved>>
    BY <1>11 DEF ReadInLoop
  <2>2. Grown
    BY <1>1, <2>1, RecordsGrow
  <2>3. PICK f \in WorkFiles :
          \/ synopses' = LastOf(Touched(f), SynopsisMax) /\ Observe("ok", "none")
          \/ synopses' = (IF f \in Range(synopses) THEN Touched(f) ELSE synopses) /\ Observe("error", "failed")
    BY <1>11 DEF ReadInLoop
  <2>4. Windows
    <3>1. {"ok", "error"} \subseteq CallStatuses /\ {"failed", "none"} \subseteq Failings \cup {"none"}
      BY DEF CallStatuses, Failings
    <3> QED BY <2>3, <3>1, ObservedKeeps
  <2>5. /\ Touched(f) \in Seq(WorkFiles) /\ IsInjective(Touched(f)) /\ Len(Touched(f)) \in Nat
        /\ f \in Range(synopses) => Len(Touched(f)) <= Len(synopses)
    BY TouchedOnce, ListsKnown DEF FileLists
  <2>6. LastOf(Touched(f), SynopsisMax) \in FileLists /\ IsInjective(LastOf(Touched(f), SynopsisMax))
        /\ Len(LastOf(Touched(f), SynopsisMax)) <= SynopsisMax
    BY <1>2, <2>5, LastOnes DEF FileLists
  <2>7. Synopses
    <3>1. Len(synopses) \in Nat /\ SynopsisMax \in Nat
      BY <1>2, ListsKnown
    <3> QED BY <2>3, <2>5, <2>6, <3>1 DEF FileLists
  <2> QED BY <1>5, <2>1, <2>2, <2>4, <2>7 DEF Grown
<1>12. CASE FollowUp \/ Nudge \/ Press \/ PassGate
  <2>1. /\ work_at = "loop" /\ last_reply' \in Natives
        /\ UNCHANGED <<work_at, run_only, synopses, failures, observed>>
        /\ RecordChanges("auto_native", last_reply') \/ RecordFiles(last_reply') \/ RecordNone
    BY <1>12 DEF FollowUp, Nudge, Press, PassGate, TurnInLoop
  <2>2. last_reply' \in FileLists /\ IsInjective(last_reply')
    BY <2>1, NativesOnce
  <2>3. Grown
    BY <2>1, <2>2, RecordsGrow
  <2>4. tested_len' \in {tested_len, Len(changed_files')}
    BY <1>12 DEF FollowUp, Nudge, Press, PassGate
  <2>5. work_saved' \in {work_saved, Listing(changed_files', change_events', TRUE)}
    BY <1>12 DEF FollowUp, Nudge, Press, PassGate
  <2>6. IsInjective(work_saved.files')
    BY <2>3, <2>5, SavedOnce DEF Grown
  <2>7. tested_len' \in Nat /\ tested_len' <= Len(changed_files')
    BY <2>3, <2>4 DEF Grown
  <2> QED BY <1>3, <1>4, <2>1, <2>2, <2>3, <2>6, <2>7 DEF Grown
<1>13. CASE FinishWork
  <2>1. /\ RecordChanges("native", last_reply) \/ RecordNone
        /\ work_saved' \in {work_saved, NoListing, Listing(changed_files, change_events, FALSE)}
        /\ run_only' = FALSE /\ last_reply' = <<>> /\ tested_len' = 0 /\ failures' = <<>> /\ observed' = <<>>
        /\ UNCHANGED synopses /\ work_at' \in {"idle", "over"}
    BY <1>13 DEF FinishWork, EndOf
  <2>2. Grown
    BY <1>6, <2>1, RecordsGrow
  <2>3. IsInjective(work_saved.files')
    BY <2>1, SavedOnce
  <2>4. Tests
    BY <2>1, <2>2 DEF Grown
  <2>5. Windows /\ Synopses
    BY <1>3, <1>4, <2>1
  <2> HIDE DEF Windows, Synopses, Tests
  <2>6. IsInjective(last_reply') /\ work_at' \in Ats /\ run_only' \in BOOLEAN
    BY <1>1, <2>1
  <2> QED BY <2>2, <2>3, <2>4, <2>5, <2>6 DEF Grown, Windows, Synopses, Tests
<1>14. CASE ClearChanges \/ GoDown
  <2>1. /\ work_at' \in {"idle", "down"} /\ changed_files' = <<>> /\ tested_len' = 0
        /\ last_reply' \in {last_reply, <<>>} /\ run_only' \in {run_only, FALSE} /\ UNCHANGED work_saved
        /\ UNCHANGED <<failures, observed>> \/ (failures' = <<>> /\ observed' = <<>>)
        /\ UNCHANGED synopses \/ synopses' = <<>>
    BY <1>14 DEF ClearChanges, GoDown
  <2>2. Tests
    BY <1>1, <2>1
  <2>3. Windows /\ Synopses
    BY <1>3, <1>4, <2>1
  <2> HIDE DEF Windows, Synopses, Tests
  <2>4. IsInjective(last_reply') /\ work_at' \in Ats /\ run_only' \in BOOLEAN /\ IsInjective(changed_files')
    BY <1>1, <2>1
  <2>5. IsInjective(work_saved.files')
    BY <2>1
  <2> QED BY <2>2, <2>3, <2>4, <2>5 DEF Windows, Synopses, Tests
<1>15. CASE Return
  <2>1. /\ work_at = "down" /\ work_at' = "idle" /\ changed_files' \in {work_saved.files, changed_files}
        /\ UNCHANGED <<run_only, last_reply, tested_len, synopses, failures, observed, work_saved>>
    BY <1>15 DEF Return, RecordNone
  <2>2. Len(changed_files') \in Nat
    BY <1>6, <2>1, ListsKnown
  <2> QED BY <1>3, <1>4, <2>1, <2>2
<1>16. CASE ResumeChanges
  <2>1. /\ work_at = "idle" /\ changed_files' = Pushed(changed_files, work_saved.files)
        /\ UNCHANGED <<work_at, run_only, last_reply, tested_len, synopses, failures, observed, work_saved>>
    BY <1>16 DEF ResumeChanges
  <2>2. Grown
    BY <1>6, <2>1, ListGrows DEF Grown
  <2> QED BY <1>3, <1>4, <1>5, <2>1, <2>2 DEF Grown
<1>17. CASE UNCHANGED workVars
  BY <1>17 DEF workVars
<1> QED
  BY <1>7, <1>8, <1>9, <1>10, <1>11, <1>12, <1>13, <1>14, <1>15, <1>16, <1>17 DEF WorkNext

\* The lists of the work of a turn name no file twice, no window grows beyond its size, and
\* what was tested is a part of what was changed, for any files, limits and number of
\* steps.
THEOREM WorkTyped == WorkSpec => []WorkTypeOK
<1>1. WorkInit => WorkInv /\ WorkTypes
  BY InitWork, WorkTypesBegin
<1>2. WorkInv /\ [WorkNext]_workVars => WorkInv'
  BY NextWorks
<1>3. WorkInv /\ WorkTypes /\ [WorkNext]_workVars => WorkTypes'
  BY WorkTypesKeep
<1>4. WorkInv /\ WorkTypes => WorkTypeOK
  <2> SUFFICES ASSUME WorkInv, WorkTypes PROVE WorkTypeOK
    OBVIOUS
  <2>1. /\ changed_files \in FileLists /\ change_events \in EventLists /\ last_reply \in FileLists
        /\ work_of \in {"session", "prompt"} /\ events_before <= Len(change_events)
    BY DEF WorkInv, OneStory, Told
  <2>2. /\ Range(changed_files) \subseteq WorkFiles /\ Range(last_reply) \subseteq WorkFiles
        /\ Range(synopses) \subseteq WorkFiles /\ FilesOf(change_events) \subseteq WorkFiles
    BY <2>1, ListsKnown, EventsKnown DEF WorkTypes
  <2> QED BY <2>1, <2>2 DEF WorkTypes, WorkTypeOK
<1> QED BY <1>1, <1>2, <1>3, <1>4, PTL DEF WorkSpec
==============================================================================
