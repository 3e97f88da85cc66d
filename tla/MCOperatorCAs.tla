--------------------------- MODULE MCOperatorCAs ---------------------------
(* Operator CAs for TLC: replicas and request slots are interchangeable.   *)
EXTENDS OperatorCAs, TLC

Symmetry == Permutations(TrustReplicas) \cup Permutations(CAProcs)
=============================================================================
