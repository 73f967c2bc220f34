------------------------------- MODULE MCSession -------------------------------
(***************************************************************************)
(* The components of the interactive session and of the services beside    *)
(* it, which share no variable, checked in one run: part says which one a  *)
(* behaviour is about, and the others stay where they began.  The states   *)
(* are the sum of theirs, not the product, and a property of one component *)
(* holds of the behaviours of the others if it holds in its initial states.*)
(***************************************************************************)
EXTENDS ToolGate, Settings, LoopJournal, Subagents, Streams,
        ChildProcess, Gateway, Plugins, McpServers, Worktree, ToolCallParser, Hooks, Voice, WorkLog,
        FileTools, Wiki, OAuthTokens, Bench, Stores

CONSTANT Parts

VARIABLE part

\* A push, a shorter one whose rule covers the first, and a read.
Bash(args) == [tool |-> "bash", args |-> args, wide |-> FALSE]
SomeCalls ==
  {Bash(<<"git", "push", "origin", "main">>), Bash(<<"git", "push">>),
   [tool |-> "read_file", args |-> <<"notes">>, wide |-> FALSE]}

\* The shapes of a call, each with the calls it stands for.  L is a line, T one that
\* names a tool, W, R and B are calls that write, read and run a command.
L(kind) == Line(kind, "none", <<>>)
D(kind, args) == Line(kind, "none", args)
T(kind, tool) == Line(kind, tool, <<>>)
W == Called("write_file", <<"path", "content">>)
Quoted == Called("write_file", <<"path", "quoted">>)
Heredoc == Called("write_file", <<"path", "heredoc">>)
R == Called("read_file", <<"path">>)
B == Called("bash", <<"command">>)
Block(shape, calls) == [lines |-> shape, meant |-> calls]
Whole(kind, c) == Line(kind, c.tool, c.args)

SomeBlocks ==
  {Block(<<D("text", <<"prose">>)>>, <<>>), Block(<<L("blank")>>, <<>>),
   Block(<<Whole("call", R)>>, <<R>>),
   Block(<<T("call", "bash"), L("blank"), D("text", <<"words">>)>>, <<Called("bash", <<"words">>)>>),
   Block(<<Whole("call", R), D("fragment", <<"lines">>)>>, <<Called("read_file", <<"path", "lines">>)>>),
   Block(<<Line("open_quote", "write_file", <<"path">>), D("end_quote", <<"quoted">>)>>, <<Quoted>>),
   Block(<<Line("heredoc", "edit_file", <<"path">>), Whole("call", B), D("text", <<"content">>), L("end")>>,
         <<Called("edit_file", <<"path", "command", "content">>)>>),
   Block(<<L("spaced"), L("blank"), Whole("bare", R), L("spaced")>>, <<R>>),
   Block(<<L("wrapper"), Whole("bare", B), L("wrapper_end")>>, <<B>>),
   Block(<<Whole("cjk", B)>>, <<B>>), Block(<<Whole("angle", R), L("angle_end")>>, <<R>>),
   Block(<<T("calling", "read_file"), L("blank"), L("fence_code"), D("text", <<"path">>), L("fence")>>, <<R>>),
   Block(<<L("fence_shell"), D("text", <<"command">>), L("fence")>>, <<B>>),
   Block(<<L("fence_code"), D("path", <<"path">>), D("text", <<"heredoc">>), L("fence")>>, <<Heredoc>>),
   Block(<<L("fence_code"), D("text", <<"content">>), L("fence")>>, <<>>),
   Block(<<L("fence_shell"), Whole("call", B), Whole("call", R), L("fence")>>, <<B, R>>),
   Block(<<T("header", "read_file"), L("blank"), D("arguments", <<"path">>)>>, <<R>>),
   Block(<<Line("content_tag", "write_file", <<"path">>), D("text", <<"heredoc">>), L("content_end")>>, <<Heredoc>>),
   Block(<<D("file_tag", <<"path", "content">>)>>, <<W>>), Block(<<Whole("self_tag", R)>>, <<R>>),
   Block(<<Line("long_tag", "write_file", <<"path">>), L("fence_shell"), D("text", <<"quoted">>), L("fence"),
           L("long_end")>>, <<Quoted>>),
   Block(<<Line("tag", "write_file", <<"path">>), D("text", <<"heredoc">>), T("tag_end", "write_file")>>, <<Heredoc>>),
   Block(<<T("tag", "write_file"), D("param", <<"path">>), D("param_open", <<"content">>), D("text", <<"quoted">>),
           L("param_end"), T("tag_end", "write_file")>>, <<Called("write_file", <<"path", "content", "quoted">>)>>),
   Block(<<L("unknown"), D("param", <<"path">>), D("param", <<"content">>), L("unknown_end")>>, <<W>>),
   Block(<<T("named_wrapper", "read_file"), D("param", <<"path">>), L("wrapper_end")>>, <<R>>),
   Block(<<L("wrapper"), T("tool_name", "bash"), D("param", <<"command">>), L("wrapper_end")>>, <<B>>),
   Block(<<L("wrapper"), T("tag", "bash"), D("text", <<"command">>), L("wrapper_end")>>, <<B>>),
   Block(<<L("calls"), T("invoke", "read_file"), D("param", <<"path">>), L("invoke_end"),
           T("invoke", "bash"), D("param", <<"command">>), L("invoke_end"), L("calls_end")>>, <<R, B>>),
   Block(<<L("calls"), T("named_wrapper", "bash"), D("param", <<"command">>), L("wrapper_end"), Whole("self_tag", R),
           L("calls_end")>>, <<B, R>>),
   Block(<<L("dsml_calls"), T("dsml_invoke", "bash"), D("dsml_param", <<"command">>), L("dsml_invoke_end"),
           L("dsml_calls_end")>>, <<B>>)}

\* Files of handlers: two of one event, one for every event and one of an unknown name,
\* and one that lacks its script.
Hook(event, script, policy) == [event |-> event, script |-> script, policy |-> policy, prefix |-> "none"]
SomeHookFiles ==
  {HookFile(<<Hook("PreToolUse", "s", "open"), Hook("PreToolUse", "t", "none")>>),
   HookFile(<<Hook("*", "s", "closed"), Hook("pre_tool_use", "t", "none")>>),
   HookFile(<<Hook("Stop", "", "none"), Hook("Stop", "t", "none")>>)}

\* A file that cargo checks, and more Python files than are compiled.
SomeFiles == [f \in {"lib", "one", "two"} |-> IF f = "lib" THEN "rust" ELSE "python"]

\* What a file holds: nothing, line ends of both kinds, a marker and an escape, and five
\* lines with a name in them.  Every old text begins with a word.
N == "nl"
SomeTexts ==
  {<<>>, <<"a", N, "b", N>>, <<"a", "cr", N, "b", "cr", N, "a">>, <<"a", "esc", N, "mark", N, "b">>,
   <<"b", "named", N, "a", N, "b", N, "a", N, "a">>}
SomeEdits ==
  {[old |-> <<"a">>, new |-> <<"b", N, "b">>], [old |-> <<"a", N, "b">>, new |-> <<"b", "cr", N, "a">>],
   [old |-> <<"b", N>>, new |-> <<>>], [old |-> <<"a", N, "a">>, new |-> <<"a">>]}
FileHits(kind, n) == [kind |-> kind, hits |-> n]
SomeTrees ==
  LET Walked == {FileHits("text", n) : n \in 0..2} \cup {FileHits(kind, 1) : kind \in {"skipped", "pruned"}}
  IN UNION {[1..n -> Walked] : n \in 1..3}

\* A plain case and the one that needs the phrase, in two rounds and in one (0 is raised to it).
SomeSuite ==
  <<[id |-> "echo_standard", dimension |-> "core", fixture |-> FALSE, agent |-> FALSE,
     expects |-> "contains", fallback |-> 0],
    [id |-> "gdpval_proxy", dimension |-> "gdpval", fixture |-> TRUE, agent |-> TRUE,
     expects |-> "both", fallback |-> 1]>>
SomeRepeats == [b \in {"one", "two"} |-> IF b = "one" THEN 2 ELSE 0]
SomeBenchEdits == <<"edit">>

\* First fields of schedules: */15, "9-17/4,3", 5-31/250, 2, */0, 30-60 and no number.
Token(range, a, b, step) == [range |-> range, a |-> a, b |-> b, step |-> step]
SomeFields ==
  {<<Token("star", 0, 0, 15)>>, <<Token("pair", 9, 17, 4), Token("one", 3, 0, 1)>>,
   <<Token("pair", 5, 31, 250)>>, <<Token("one", 2, 0, 1)>>, <<Token("star", 0, 0, 0)>>,
   <<Token("pair", 30, 60, 1)>>, <<Token("none", 0, 0, 1)>>}

parts == <<part, gateVars, settingsVars, journalVars, subagentVars, streamVars,
           childVars, gatewayVars, pluginVars, mcpVars, worktreeVars, parserVars,
           hookVars, voiceVars, workVars, fileVars, wikiVars, benchVars, tokenVars, storeVars>>

\* A component a behaviour is not about stands in one of its initial states; each is
\* pinned before the next is begun, so that no product of them is ever made.
Only(p, pinned) == part = p \/ pinned

Init ==
  /\ part \in Parts
  /\ GateInit /\ Only("gate", mode = "on-request")
  /\ SettingsInit
  /\ Only("settings", cfg.provider = "openai" /\ cfg.mode = "workspace-write" /\ cfg.flags = 0 /\ cwd = "a")
  /\ JournalInit /\ Only("journal", automatic)
  /\ SubagentsInit
  /\ StreamsInit /\ Only("streams", family = "openai" /\ protocol = "text")
  /\ ChildInit /\ Only("child", runner = "hook")
  /\ GatewayInit
  /\ PluginsInit /\ Only("plugins", \A p \in PluginNames : content[p] = "v1")
  /\ McpInit /\ WorktreeInit
  /\ ParserInit /\ Only("parser", message = <<>>)
  /\ HooksInit
  /\ Only("hooks", hook_env.path = "unset" /\ hook_env.closed /\ \A p \in HookPaths : hook_files[p] = NoHooks)
  /\ VoiceInit /\ Only("voice", voice_able /\ voice_file = DefaultVoice)
  /\ WorkInit /\ Only("work", work_of = "session" /\ markers = {})
  /\ FilesInit /\ Only("files", file_text = <<>>)
  /\ WikiInit
  /\ BenchInit /\ Only("bench", readme = NoReadme)
  /\ TokensInit
  /\ Only("tokens", ~single /\ token_files["global"] = NoTokenFile /\ \A h, g \in Holders : owner[h].dir = owner[g].dir)
  /\ StoresInit

Others(p) ==
  /\ UNCHANGED part
  /\ IF p = "gate" THEN TRUE ELSE UNCHANGED gateVars
  /\ IF p = "settings" THEN TRUE ELSE UNCHANGED settingsVars
  /\ IF p = "journal" THEN TRUE ELSE UNCHANGED journalVars
  /\ IF p = "subagents" THEN TRUE ELSE UNCHANGED subagentVars
  /\ IF p = "streams" THEN TRUE ELSE UNCHANGED streamVars
  /\ IF p = "child" THEN TRUE ELSE UNCHANGED childVars
  /\ IF p = "gateway" THEN TRUE ELSE UNCHANGED gatewayVars
  /\ IF p = "plugins" THEN TRUE ELSE UNCHANGED pluginVars
  /\ IF p = "mcp" THEN TRUE ELSE UNCHANGED mcpVars
  /\ IF p = "worktree" THEN TRUE ELSE UNCHANGED worktreeVars
  /\ IF p = "parser" THEN TRUE ELSE UNCHANGED parserVars
  /\ IF p = "hooks" THEN TRUE ELSE UNCHANGED hookVars
  /\ IF p = "voice" THEN TRUE ELSE UNCHANGED voiceVars
  /\ IF p = "work" THEN TRUE ELSE UNCHANGED workVars
  /\ IF p = "files" THEN TRUE ELSE UNCHANGED fileVars
  /\ IF p = "wiki" THEN TRUE ELSE UNCHANGED wikiVars
  /\ IF p = "bench" THEN TRUE ELSE UNCHANGED benchVars
  /\ IF p = "tokens" THEN TRUE ELSE UNCHANGED tokenVars
  /\ IF p = "stores" THEN TRUE ELSE UNCHANGED storeVars

In(p, A) == part = p /\ A /\ Others(p)

Next ==
  \/ In("gate", GateNext) \/ In("settings", SettingsNext)
  \/ In("journal", JournalNext) \/ In("subagents", SubagentsNext) \/ In("streams", StreamsNext)
  \/ In("child", ChildNext) \/ In("gateway", GatewayNext) \/ In("plugins", PluginsNext)
  \/ In("mcp", McpNext) \/ In("worktree", WorktreeNext)
  \/ In("parser", ParserNext) \/ In("hooks", HooksNext) \/ In("voice", VoiceNext) \/ In("work", WorkNext)
  \/ In("files", FilesNext)
  \/ In("wiki", WikiNext)
  \/ In("bench", BenchNext)
  \/ In("tokens", TokensNext)
  \/ In("stores", StoresNext)

Spec == Init /\ [][Next]_parts

TypesOK ==
  /\ part = "gate" => GateTypeOK
  /\ part = "settings" => SettingsTypeOK
  /\ part = "journal" => JournalTypeOK
  /\ part = "subagents" => SubagentsTypeOK
  /\ part = "streams" => StreamsTypeOK
  /\ part = "child" => ChildTypeOK
  /\ part = "gateway" => GatewayTypeOK
  /\ part = "plugins" => PluginsTypeOK
  /\ part = "mcp" => McpTypeOK
  /\ part = "worktree" => WorktreeTypeOK
  /\ part = "parser" => ParserTypeOK
  /\ part = "hooks" => HooksTypeOK
  /\ part = "voice" => VoiceTypeOK
  /\ part = "work" => WorkTypeOK
  /\ part = "files" => FileTypeOK
  /\ part = "wiki" => WikiTypeOK
  /\ part = "bench" => BenchTypeOK
  /\ part = "tokens" => TokenTypeOK
  /\ part = "stores" => StoresTypeOK
=============================================================================
