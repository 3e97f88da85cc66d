\* Two replicas whose tickers race the close; a crash, a lost lock connection or a
\* database error anywhere.
CONSTANTS
  a1 = a1  a2 = a2  c1 = c1
  Replicas = {r1, r2}
  HostReplica = r1
  Procs = {p1}
  Tokens = {t1, t2}
  Sessions = {s1}
  CAs = {a1}
  Certs = {c1}
  Issuer <- MCIssuer
  Console = Console
  GlobalFailures = 1
  MaxFaults = 1
  MaxResets = 0
  None = None
SPECIFICATION FairSpec
INVARIANTS OneUnusedToken ClosedEndsAll
PROPERTIES TokenReturns BreakGlassFree
