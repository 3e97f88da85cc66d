\* A retirement that acts on a state it read earlier.
CONSTANTS
  TrustReplicas = {r1}
  CAProcs = {p1, p2}
  CAs = {a1, a2}
  FirstCA = a1
  MaxWrites = 4
  MaxCAFaults = 0
  None = None
SPECIFICATION CAsSpec
INVARIANT ActiveKept
