\* One page, at one of the three tabs or with its roster, another user with two
\* connections, queues of one event.
SPECIFICATION LiveFairSpec
CONSTANTS
  u1 = u1
  u2 = u2
  p1 = p1
  p2 = p2
  o1 = o1
  o2 = o2
  Nil = Nil
  Reader = {u1, u2}
  Viewer = u1
  Stream = {p1, p2, o1, o2}
  PageStream = {p1, p2}
  Edited = 2
  Watched <- MCWatched
  OwnerOf <- MCOwnerOf
  Doc = {1, 2}
  PageSize = 1
  Null = Null
  Key <- MCKey
  Descending = TRUE
  QueueCap = 1
  FeedBudgets <- MCFeedBudgets
  RosterBudget <- MCRosterBudget
  MaxPages = 3
INVARIANTS FeedIsCurrent TabsPartition RosterIsCurrent
PROPERTY RosterConverges
CHECK_DEADLOCK FALSE
