\* Two tool calls and two deciders on one approval, with two keys; one login, two clients, two
\* keys; two requests, certificates and replicas.
CONSTANTS
  None = None  c1 = c1  k1 = k1
  Ids = {i1}
  Calls = {p1, p2}
  Deciders = {q1, q2}
  Keys = {x1, x2}
  Tools = {"cert_revoke", "profile_create", "profile_update", "profile_delete", "profile_apply_to_node", "adapter_set_enabled", "cert_issue_from_csr"}
  Role = "issuing"
  TTL = 1
  MaxTime = 1
  MaxEdits = 1
  Logins = {i1}
  McpKeys = {r1, r2}
  Clients = {q1, q2}
  URIs = {"loopback", "remote"}
  Loopback = {"loopback"}
  LoginCerts = {c1}
  LoginHandlers = {p1, p2}
  CertLevel <- MCLevel
  RequestTTL = 1
  CodeTTL = 1
  MaxLoginClock = 1
  MaxLoginFaults = 1
  Reqs = {r1, r2}
  Certs = {c1, c2}
  Signed <- MCSigned
  CSRKeys = {k1}
  CSRs <- SomeCSRs
  Recorders = {p1, p2}
  Sites = {q1, q2}
  Visits = {v1}
  Lifetime = 1
  QueueSize = 1
  CacheSize = 1
  MaxClock = 1
  MaxFails = 1
SPECIFICATION AccessSpec
INVARIANTS RunsAsRaised KeyAsConsented CompletedByOne SightingKept
PROPERTIES ImplementsOneShot KnownKept
SYMMETRY AccessSymmetry
CHECK_DEADLOCK FALSE
