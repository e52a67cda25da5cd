SPECIFICATION Spec
CONSTANTS
  u1 = u1
  u2 = u2
  d1 = d1
  kvk = kvk
  kvk5 = kvk5
  None = None
  User = {u1, u2}
  Watched = u1
  Doc = {d1}
  Ref = {kvk, kvk5}
  Generic = {kvk}
  Law <- MCLaw
  t1 = t1
  t2 = t2
  Text = {t1, t2}
  Output <- MCOutput
  Green <- MCGreen
  MaxVersions = 3
SYMMETRY TextSymmetry
INVARIANTS ChainReplays CompletionIsAudited EditIsCurrent
PROPERTY OverrideIsInformed
