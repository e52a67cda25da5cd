\* A call fails once and the row is retried after its successor.
SPECIFICATION Spec
CONSTANTS
  doc = doc
  work = work
  parent = parent
  child = child
  v1 = v1
  v2 = v2
  p1 = p1
  p2 = p2
  None = None
  Row = {doc, work, parent, child}
  Parent <- MCParent
  Statement <- Separate
  Document = {doc}
  Work = {work}
  Val = {v1, v2}
  Seeded = {doc, work}
  Initial = v1
  Batch = 2
  MaxRetries = 2
  Pid = {p1, p2}
  NextPid <- HostPid
  MaxWrites = 2
  MaxFailures = 1
  MaxErrors = 0
  MaxKills = 0
  MaxLosses = 0
  MaxStops = 0
  MaxRequeues = 0
INVARIANTS DrainedQueueMeansEqual
CHECK_DEADLOCK FALSE
