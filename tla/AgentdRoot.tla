----------------------------- MODULE AgentdRoot -----------------------------
(***************************************************************************)
(* What the components of agentd have in common: the daemons that share    *)
(* one .asi/agentd directory, agentd_root() of agentd/mod.rs.              *)
(***************************************************************************)
EXTENDS FiniteSets

CONSTANT Daemons  \* the processes; each is started again when it ended

ASSUME DaemonsFinite == IsFiniteSet(Daemons)
=============================================================================
