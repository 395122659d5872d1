------------------------------- MODULE MCLease -------------------------------
(* Small instances of Lease for TLC. *)
EXTENDS Lease, TLC

RuntimeSymmetry == Permutations(Runtimes)
==============================================================================
