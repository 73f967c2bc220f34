-------------------------------- MODULE MCTurns --------------------------------
(***************************************************************************)
(* The loop and the engine of turns it drives, checked in one run: part    *)
(* says which of the two a behaviour is about, and the other stays where   *)
(* it began.  AutoLoop takes the replies as they come and TurnEngine the   *)
(* inputs; both are sequential and must come to an end.                    *)
(***************************************************************************)
EXTENDS MCAutoLoop, TurnEngine

VARIABLE part

\* The component a behaviour is not about stands in one of its initial states.
TurnsInit ==
  /\ part \in {"loop", "engine"}
  /\ Init /\ (part = "loop" \/ (profile = Plain /\ current = Answer))
  /\ EngineInit /\ (part = "engine" \/ model = "chosen")

InLoop(A) == part = "loop" /\ A /\ UNCHANGED <<part, engineVars>>
InEngine(A) == part = "engine" /\ A /\ UNCHANGED <<part, vars>>

turnsVars == <<part, vars, engineVars>>
TurnsSpec == TurnsInit /\ [][InLoop(Next) \/ InEngine(EngineNext)]_turnsVars

\* The loop is sequential.  Of the engine, the thread of the session runs the turn: no step
\* of it waits for another actor but the provider, whose requests end in a reply or an
\* error, since the HTTP client has a timeout; but nobody has to type a prompt.
TurnsFairSpec == TurnsSpec /\ WF_turnsVars(InLoop(Next)) /\ WF_turnsVars(InEngine(Engine))

TurnTypesOK == TypeOK /\ EngineTypeOK

\* A loop ends: it never asks the model for ever, whatever the replies are
\* (run_tool_loop_core).
LoopEnds == part = "loop" => Termination
=============================================================================
