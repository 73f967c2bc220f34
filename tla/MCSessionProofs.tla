----------------------------- MODULE MCSessionProofs -----------------------------
(***************************************************************************)
(* A behaviour of MCSession is a behaviour of each of its parts, so what is *)
(* proved of the parts holds of it.                                        *)
(***************************************************************************)
EXTENDS MCSession, ToolProofs, SessionProofs, StoresProofs

\* A behaviour of the run begins in an initial state of every part.
LEMMA PartsBegin ==
  Init =>
    /\ GateInit /\ SettingsInit /\ JournalInit /\ SubagentsInit /\ StreamsInit
    /\ ChildInit /\ GatewayInit /\ PluginsInit /\ McpInit /\ WorktreeInit
    /\ ParserInit /\ HooksInit /\ VoiceInit /\ WorkInit /\ FilesInit
    /\ WikiInit /\ BenchInit /\ TokensInit /\ StoresInit
BY DEF Init

\* The steps a behaviour may take as one part sees them.
PartSteps ==
  /\ [GateNext]_gateVars /\ [SettingsNext]_settingsVars /\ [JournalNext]_journalVars
  /\ [SubagentsNext]_subagentVars /\ [StreamsNext]_streamVars /\ [ChildNext]_childVars
  /\ [GatewayNext]_gatewayVars /\ [PluginsNext]_pluginVars /\ [McpNext]_mcpVars
  /\ [WorktreeNext]_worktreeVars /\ [ParserNext]_parserVars /\ [HooksNext]_hookVars
  /\ [VoiceNext]_voiceVars /\ [WorkNext]_workVars /\ [FilesNext]_fileVars
  /\ [WikiNext]_wikiVars /\ [BenchNext]_benchVars /\ [TokensNext]_tokenVars
  /\ [StoresNext]_storeVars

\* A step of one part is a step of that part and none of another.
LEMMA PartsStep == [Next]_parts => PartSteps
<1> SUFFICES ASSUME [Next]_parts PROVE PartSteps
  OBVIOUS
<1>1. CASE In("gate", GateNext)
  BY <1>1 DEF In, Others, PartSteps
<1>2. CASE In("settings", SettingsNext)
  BY <1>2 DEF In, Others, PartSteps
<1>3. CASE In("journal", JournalNext)
  BY <1>3 DEF In, Others, PartSteps
<1>4. CASE In("subagents", SubagentsNext)
  BY <1>4 DEF In, Others, PartSteps
<1>5. CASE In("streams", StreamsNext)
  BY <1>5 DEF In, Others, PartSteps
<1>6. CASE In("child", ChildNext)
  BY <1>6 DEF In, Others, PartSteps
<1>7. CASE In("gateway", GatewayNext)
  BY <1>7 DEF In, Others, PartSteps
<1>8. CASE In("plugins", PluginsNext)
  BY <1>8 DEF In, Others, PartSteps
<1>9. CASE In("mcp", McpNext)
  BY <1>9 DEF In, Others, PartSteps
<1>10. CASE In("worktree", WorktreeNext)
  BY <1>10 DEF In, Others, PartSteps
<1>11. CASE In("parser", ParserNext)
  BY <1>11 DEF In, Others, PartSteps
<1>12. CASE In("hooks", HooksNext)
  BY <1>12 DEF In, Others, PartSteps
<1>13. CASE In("voice", VoiceNext)
  BY <1>13 DEF In, Others, PartSteps
<1>14. CASE In("work", WorkNext)
  BY <1>14 DEF In, Others, PartSteps
<1>15. CASE In("files", FilesNext)
  BY <1>15 DEF In, Others, PartSteps
<1>16. CASE In("wiki", WikiNext)
  BY <1>16 DEF In, Others, PartSteps
<1>17. CASE In("bench", BenchNext)
  BY <1>17 DEF In, Others, PartSteps
<1>18. CASE In("tokens", TokensNext)
  BY <1>18 DEF In, Others, PartSteps
<1>19. CASE In("stores", StoresNext)
  BY <1>19 DEF In, Others, PartSteps
<1>20. CASE UNCHANGED parts
  BY <1>20 DEF parts, PartSteps
<1> QED
  BY <1>1, <1>2, <1>3, <1>4, <1>5, <1>6, <1>7, <1>8, <1>9, <1>10, <1>11, <1>12, <1>13,
     <1>14, <1>15, <1>16, <1>17, <1>18, <1>19, <1>20 DEF Next

\* So it is a behaviour of every part, which the theorems about that part are about.
LEMMA PartsRun ==
  Spec =>
    /\ GateSpec /\ SettingsSpec /\ JournalSpec /\ SubagentsSpec
    /\ StreamsSpec /\ ChildSpec /\ GatewaySpec /\ PluginsSpec
    /\ McpSpec /\ WorktreeSpec /\ ParserSpec /\ HooksSpec
    /\ VoiceSpec /\ WorkSpec /\ FilesSpec /\ WikiSpec
    /\ BenchSpec /\ TokensSpec /\ StoresSpec
<1>1. Spec => GateSpec
  BY PartsBegin, PartsStep, PTL DEF Spec, GateSpec, PartSteps
<1>2. Spec => SettingsSpec
  BY PartsBegin, PartsStep, PTL DEF Spec, SettingsSpec, PartSteps
<1>3. Spec => JournalSpec
  BY PartsBegin, PartsStep, PTL DEF Spec, JournalSpec, PartSteps
<1>4. Spec => SubagentsSpec
  BY PartsBegin, PartsStep, PTL DEF Spec, SubagentsSpec, PartSteps
<1>5. Spec => StreamsSpec
  BY PartsBegin, PartsStep, PTL DEF Spec, StreamsSpec, PartSteps
<1>6. Spec => ChildSpec
  BY PartsBegin, PartsStep, PTL DEF Spec, ChildSpec, PartSteps
<1>7. Spec => GatewaySpec
  BY PartsBegin, PartsStep, PTL DEF Spec, GatewaySpec, PartSteps
<1>8. Spec => PluginsSpec
  BY PartsBegin, PartsStep, PTL DEF Spec, PluginsSpec, PartSteps
<1>9. Spec => McpSpec
  BY PartsBegin, PartsStep, PTL DEF Spec, McpSpec, PartSteps
<1>10. Spec => WorktreeSpec
  BY PartsBegin, PartsStep, PTL DEF Spec, WorktreeSpec, PartSteps
<1>11. Spec => ParserSpec
  BY PartsBegin, PartsStep, PTL DEF Spec, ParserSpec, PartSteps
<1>12. Spec => HooksSpec
  BY PartsBegin, PartsStep, PTL DEF Spec, HooksSpec, PartSteps
<1>13. Spec => VoiceSpec
  BY PartsBegin, PartsStep, PTL DEF Spec, VoiceSpec, PartSteps
<1>14. Spec => WorkSpec
  BY PartsBegin, PartsStep, PTL DEF Spec, WorkSpec, PartSteps
<1>15. Spec => FilesSpec
  BY PartsBegin, PartsStep, PTL DEF Spec, FilesSpec, PartSteps
<1>16. Spec => WikiSpec
  BY PartsBegin, PartsStep, PTL DEF Spec, WikiSpec, PartSteps
<1>17. Spec => BenchSpec
  BY PartsBegin, PartsStep, PTL DEF Spec, BenchSpec, PartSteps
<1>18. Spec => TokensSpec
  BY PartsBegin, PartsStep, PTL DEF Spec, TokensSpec, PartSteps
<1>19. Spec => StoresSpec
  BY PartsBegin, PartsStep, PTL DEF Spec, StoresSpec, PartSteps
<1> QED
  BY <1>1, <1>2, <1>3, <1>4, <1>5, <1>6, <1>7, <1>8, <1>9, <1>10, <1>11, <1>12, <1>13,
     <1>14, <1>15, <1>16, <1>17, <1>18, <1>19

\* Every part keeps its types, whichever of them a behaviour is about.
THEOREM SessionTyped == Spec => []TypesOK
<1> DEFINE AllTyped ==
             /\ GateTypeOK /\ SettingsTypeOK /\ JournalTypeOK /\ SubagentsTypeOK
             /\ StreamsTypeOK /\ ChildTypeOK /\ GatewayTypeOK /\ PluginsTypeOK
             /\ McpTypeOK /\ WorktreeTypeOK /\ ParserTypeOK /\ HooksTypeOK
             /\ VoiceTypeOK /\ WorkTypeOK /\ FileTypeOK /\ WikiTypeOK
             /\ BenchTypeOK /\ TokenTypeOK /\ StoresTypeOK
<1>1. AllTyped => TypesOK
  BY DEF TypesOK
<1>2. Spec => []AllTyped
  BY PartsRun,
     GateTypeCorrect, SettingsTyped, JournalTypeCorrect, SubagentsTypeCorrect,
     StreamsTyped, ChildTypeCorrect, GatewayTypeCorrect, PluginsTyped, McpTypeCorrect,
     WorktreeTypeCorrect, ParserTypeCorrect, HooksTypeCorrect, VoiceTyped, WorkTyped,
     FilesTypeCorrect, WikiTypeCorrect, BenchTypeCorrect, TokensTypeCorrect,
     StoresTypeCorrect, PTL
<1> QED BY <1>1, <1>2, PTL

\* The safety properties of the parts that their theorems are about.
Promises ==
  /\ NextIsForNext /\ DenialHolds /\ RuntimeFollows /\ Conversation
  /\ CallsFaithful /\ OutputFaithful /\ TurnsKept /\ OnlyTrusted
  /\ VoiceSurvives /\ ChangesAgree /\ WikiAccounts /\ BenchAccounts
  /\ TokensAccounted /\ StoresAccounted

\* What the parts promise holds of every behaviour of the run, for any values of their
\* constants under which a benchmark may take a turn.
THEOREM SessionKept == BenchTurns > 0 => (Spec => []Promises /\ FinishedNotOffered)
<1> SUFFICES ASSUME BenchTurns > 0 PROVE Spec => []Promises /\ FinishedNotOffered
  OBVIOUS
<1>1. BenchSpec => []BenchAccounts
  BY BenchHolds
<1>2. Spec => []Promises
  BY <1>1, PartsRun,
     GrantedOnce, RefusalsHold, CopiesInStep, ConversationKept, CallsHeard, OutputKept,
     NoTurnLost, HooksTrusted, VoiceKept, ChangesTold, WikiHolds, TokensHold,
     StoresHold, PTL DEF Promises
<1>3. Spec => FinishedNotOffered
  BY PartsRun, FinishedStays, PTL
<1> QED BY <1>2, <1>3, PTL
==============================================================================
