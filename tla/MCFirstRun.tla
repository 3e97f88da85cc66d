----------------------------- MODULE MCFirstRun -----------------------------
(* First run for TLC: who issued which certificate, and a symmetry set.    *)
EXTENDS FirstRun, TLC

CONSTANTS a1, a2, c1

\* c1 comes from a1, every other certificate from a2 when there is one.
MCIssuer == [c \in Certs |-> IF c = c1 \/ a2 \notin CAs THEN a1 ELSE a2]

\* Bound: after a fault one replica runs at a time.
FaultAlone == faults = 0 \/ Cardinality(up) <= 1

\* Tokens and session secrets are random and compared only for equality.
Symmetry == Permutations(Tokens) \cup Permutations(Sessions) \cup Permutations(Procs)
=============================================================================
