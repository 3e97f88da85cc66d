\* Two overlapping denials.
CONSTANTS
  Replicas = {r1}
  Procs = {p1, p2}
  Serials = {s1, s2}
  MaxNumber = 1
  MaxFaults = 0
  Recorded = TRUE
  None = None
SPECIFICATION Spec
INVARIANT DenylistCurrent
