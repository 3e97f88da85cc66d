\* Two replicas and two requests at a time; the second refusal trips the window.
CONSTANTS
  a1 = a1  a2 = a2  c1 = c1
  Replicas = {r1, r2}
  HostReplica = r1
  Procs = {p1, p2}
  Tokens = {t1, t2}
  Sessions = {s1, s2}
  CAs = {a1}
  Certs = {c1}
  Issuer <- MCIssuer
  Console = Console
  GlobalFailures = 2
  MaxFaults = 0
  MaxResets = 0
  None = None
SPECIFICATION Spec
SYMMETRY Symmetry
INVARIANTS TypeOK OneOpenSession SingleUse
