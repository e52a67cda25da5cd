\* Neon answers every call; the server dies anywhere.
SPECIFICATION Spec
CONSTANTS
  doc = doc
  work = work
  parent = parent
  child = child
  v1 = v1
  v2 = v2
  p1 = p1
  p2 = p2
  None = None
  Row = {doc, work, parent, child}
  Parent <- MCParent
  Statement <- Separate
  Document = {doc}
  Work = {work}
  Val = {v1, v2}
  Seeded = {doc, work}
  Initial = v1
  Batch = 2
  MaxRetries = 2
  Pid = {p1, p2}
  NextPid <- HostPid
  MaxWrites = 5
  MaxFailures = 0
  MaxErrors = 1
  MaxKills = 2
  MaxLosses = 0
  MaxStops = 1
  MaxRequeues = 0

PROPERTY ImplementsReplica
CHECK_DEADLOCK FALSE
