------------------------------ MODULE MCStreams ------------------------------
(* Small instances of TurnStreams for TLC: a turn and its subagent. *)
EXTENDS TurnStreams, TLC

CONSTANTS t1, t2

Family == [t \in Turns |-> IF t = t2 THEN t1 ELSE None]
EitherAll == {[chunks |-> b, children |-> b] : b \in BOOLEAN}
ClientSymmetry == Permutations(Clients)
==============================================================================
