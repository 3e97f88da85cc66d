\* An adoption, one fault.
CONSTANTS
  None = None
  m1 = m1  m2 = m2  n1 = n1  n2 = n2  x0 = x0  x1 = x1
  i1 = i1  i2 = i2  h1 = h1
  Machines = {m1, m2}
  Linked = {m2}
  Names = {n1, n2}
  NameFor <- OwnNames
  NodeIds = {i1, i2, i3}
  Admins = {x0, x1, x2}
  Given <- GivenOne
  Adopts = {a1}
  Handlers = {h1}
  Enrolls = {}
  Impostor = Impostor
  MaxNodeFaults = 1
  MaxRenames = 0
SPECIFICATION Spec
PROPERTY AdoptionEnds
CHECK_DEADLOCK FALSE
