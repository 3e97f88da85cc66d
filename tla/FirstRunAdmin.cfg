\* Two replicas with their own copies of the trust data, two operator CAs, a
\* break-glass reset, and a fault after which one replica runs at a time.
CONSTANTS
  a1 = a1  a2 = a2  c1 = c1
  Replicas = {r1, r2}
  HostReplica = r1
  Procs = {p1}
  Tokens = {t1, t2}
  Sessions = {s1, s2}
  CAs = {a1, a2}
  Certs = {c1, c2}
  Issuer <- MCIssuer
  Console = Console
  GlobalFailures = 1
  MaxFaults = 1
  MaxResets = 1
  None = None
SPECIFICATION Spec
SYMMETRY Symmetry
CONSTRAINT FaultAlone
INVARIANT NewestFirstAdmin
PROPERTY ClosedFreezesTrust
