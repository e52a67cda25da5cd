\* Two callers with three cycles; or a restore of two users and a document.
SPECIFICATION MCSpec
CONSTANTS
  u1 = u1
  u2 = u2
  d1 = d1
  None = None
  Untrusted = Untrusted
  User = {u1, u2}
  Doc = {d1}
  MaxWrites = 7
  Nil = Nil
  Tables = 2
  Keep = 1
  MaxClock = 1
  MaxTransactions = 2
  MaxCycles = 3
  MaxFaults = 2
  MaxRedeploys = 1
SYMMETRY Symmetry
INVARIANTS SnapshotsAreWhole AckedBackupIsRemote LatestIsNewest NextPushIsAccepted
            LossIsOfFormerUsers CommandRestoresExactly FormerDatabaseIsKept
CHECK_DEADLOCK FALSE
