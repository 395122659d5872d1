------------------------------ MODULE MCReload ------------------------------
(* Small instances of AgentReload for TLC. *)
EXTENDS AgentReload, TLC

TurnSymmetry == Permutations(Turns)
==============================================================================
