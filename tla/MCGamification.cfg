SPECIFICATION Spec
CONSTANTS
  ann = ann
  bob = bob
  d1 = d1
  None = None
  User = {ann, bob}
  Doc = {d1}
  Xp <- MCXp
  SaveMarks = {1, 2}
  StreakMark = 2
  MinReviews = 1
  MinKept = 1
  MaxDay = 2
  MaxRequests = 3
  MaxSkips = 1
  MaxFailures = 1
SYMMETRY Symmetry
INVARIANTS TotalIsTheLedger BadgesFollowTheLedger StreakIsTheRun CountersAreTheDays
CHECK_DEADLOCK FALSE
