SPECIFICATION FairSpec
CONSTANTS
  User = {u1, u2}
  Doc = {d1}
  LeaseSeconds = {1, 2}
  Horizon = 5
  None = None
INVARIANTS
  LeaseHonoured
  HolderAnnounced
PROPERTIES
  NoWriteUnderLease
  ImplementsLease
PROPERTY AbandonedLockIsFreed
