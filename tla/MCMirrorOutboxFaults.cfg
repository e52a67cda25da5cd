\* Calls to Neon fail, the server dies with or without its disk, boots purge and
\* restore, an administrator requeues.
SPECIFICATION FairSpec
CONSTANTS
  doc = doc
  work = work
  parent = parent
  child = child
  v1 = v1
  v2 = v2
  p1 = p1
  p2 = p2
  None = None
  Row = {doc, work, parent, child}
  Parent <- MCParent
  Statement <- EverySingle
  Document = {doc}
  Work = {work}
  Val = {v1, v2}
  Seeded = {doc, work}
  Initial = v1
  Batch = 1
  MaxRetries = 2
  Pid = {p1, p2}
  NextPid <- HostPid
  MaxWrites = 2
  MaxFailures = 2
  MaxErrors = 0
  MaxKills = 1
  MaxLosses = 1
  MaxStops = 0
  MaxRequeues = 1
INVARIANTS UndisturbedRowIsCurrent RefusalHasACause
PROPERTY QueueDrains
CHECK_DEADLOCK FALSE
