CONSTANTS
  m1 = m1
  m2 = m2
  k1 = k1
  k2 = k2
  Cohorts = {m1, m2}
  Commits = {k1, k2}
  Commit <- MCCommit
  Operators = {op}
  Child = child
  NoCohort = NoCohort
  NoClosure = NoClosure
SPECIFICATION Q4Spec
CHECK_DEADLOCK FALSE
INVARIANTS MissionOpensOnce ClosedIsReviewable RevokedStaysSealed SingleUse CountedOnce CommittedIsWhole
