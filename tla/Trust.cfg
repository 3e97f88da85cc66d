\* Two replicas, one fault: one write at a time or two rotations, a denial and a
\* CRL or two CRLs at a time; two replicas starting, two audit writers.
CONSTANTS
  None = None
  r1 = r1  p1 = p1  a3 = a3
  TrustReplicas = {r1, r2}
  CAProcs = {p1, p2}
  CAs = {a1, a2, a3}
  FirstCA = a1
  MaxWrites = 3
  MaxCAFaults = 1
  Replicas = {r1, r2}
  Procs = {p1, p2}
  Serials = {s1}
  MaxNumber = 2
  MaxFaults = 1
  Recorded = FALSE
  Managers = {m1, m2}
  Configs <- SomeConfigs
  Writers = {w1, w2}
  Events = {e1, e2}
  Window = 1
  RenewBefore = 0
  CertLife = 1
  MaxDays = 1
  MaxStops = 1
SPECIFICATION CopySpec
INVARIANTS OneOfEach ActiveKept NothingMissed DenylistCurrent CRLCurrent ChainUnforked StartedAlike
PROPERTIES NoRollback CopiesConverge StartsEventually
CHECK_DEADLOCK FALSE
