---------------------------- MODULE MCRevocation ----------------------------
(* Revocation data for TLC: replicas, writers and serials can be swapped.  *)
EXTENDS Revocation, TLC

Symmetry == Permutations(Replicas) \cup Permutations(Procs) \cup Permutations(Serials)
=============================================================================
