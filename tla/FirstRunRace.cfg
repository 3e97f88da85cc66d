\* Two submissions at a time.
CONSTANTS
  a1 = a1  a2 = a2  c1 = c1
  Replicas = {r1}
  HostReplica = r1
  Procs = {p1, p2}
  Tokens = {t1, t2}
  Sessions = {s1}
  CAs = {a1}
  Certs = {c1, c2}
  Issuer <- MCIssuer
  Console = Console
  GlobalFailures = 1
  MaxFaults = 0
  MaxResets = 0
  None = None
SPECIFICATION Spec
INVARIANT NewestFirstAdmin
