\* Two overlapping API writes.
CONSTANTS
  TrustReplicas = {r1, r2}
  CAProcs = {p1, p2}
  CAs = {a1, a2}
  FirstCA = a1
  MaxWrites = 3
  MaxCAFaults = 0
  None = None
SPECIFICATION CAsSpec
INVARIANT NothingMissed
