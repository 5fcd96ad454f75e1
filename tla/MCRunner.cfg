CONSTANTS
  r1 = r1
  r2 = r2
  r3 = r3
  NULL = NULL
  Runners = {r1, r2, r3}
  Intervals <- MCIntervals
  Counts <- MCCounts
  MaxPosts = 1
  MaxLate = 1
SPECIFICATION Spec
SYMMETRY Symmetry
INVARIANTS
    DeletedIsLeftAlone
    WakesInTime
