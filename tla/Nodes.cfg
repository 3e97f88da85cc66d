\* A linked machine and one to adopt, one fault and one rename; adoptions with a
\* request at a time, or two requests at a time once the machine has joined.
CONSTANTS
  None = None
  m1 = m1  m2 = m2  n1 = n1  n2 = n2  x0 = x0  x1 = x1
  i1 = i1  i2 = i2  h1 = h1
  Machines = {m1, m2}
  Linked = {m2}
  Names = {n1, n2}
  NameFor <- OwnNames
  NodeIds = {i1, i2, i3}
  Admins = {x0, x1, x2}
  Given <- GivenOne
  Adopts = {a1}
  Handlers = {h1, h2}
  Enrolls = {e1}
  Impostor = Impostor
  MaxNodeFaults = 1
  MaxRenames = 1
SPECIFICATION Spec
INVARIANTS RetrySafe PinsConfirmed NamesTraced ApprovedAdmits
PROPERTY AdoptionWaitsOnNode
CHECK_DEADLOCK FALSE
