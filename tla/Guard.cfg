\* One certificate checked over three ticks, over four after it is revoked; two replicas refreshing two CRLs
\* through two mishaps; two operations on a node's
\* configuration; three nodes, two key rotations at a time.
CONSTANTS
  None = None
  acme = acme  est = est
  c1 = c1  c2 = c2  c3 = c3  rootCN = rootCN  subCN = subCN  l1 = l1  l2 = l2  l3 = l3
  Checks = {k1}
  Peers <- MCPeers
  Responses <- MCResponses
  Policy = "soft"
  MaxTTL = 2
  NoNextTTL = 1
  FailTTL = 1
  FetchTime = 1
  PreSigned = 1
  HasCRL = TRUE
  MaxAge = 1
  CRLLife = 2
  LastTick = 4
  MaxIncidents = 2
  FirstConfig <- EstOn
  Edits <- SomeEdits
  Protocols = {acme, est}
  Profiles = {f1}
  Ops = {o1, o2}
  MaxApplies = 2
  CaNodes = {c1, c2, c3}
  Subjects = {rootCN, subCN}
  SubjectOf <- FirstSubjects
  IssuerOf <- FirstIssuers
  Labels = {l1, l2, l3, l4}
  FirstLabel <- FirstLabels
  Ferries = {f1, f2}
  Serials = {s1}
  MaxKeys = 2
  MaxRelabels = 1
  Refreshers = {r1, r2}
  Uploads <- SomeUploads
  MaxCRLs = 2
  Validity = 2
  Interval = 2
  Jitter = 1
  MaxMishaps = 2
SPECIFICATION GuardSpec
INVARIANTS RevocationHeeded OldAnswersDropped CRLOwed EventsTrue RevokedShown RefreshedInTime
PROPERTIES McpHeedsDenials SwitchAlone IssuerKept
CHECK_DEADLOCK FALSE
