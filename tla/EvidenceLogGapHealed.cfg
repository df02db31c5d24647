SPECIFICATION Spec
CONSTANTS
  Writers = {w1, w2}
  Keyed = TRUE
  RotateAt = 9
  MaxRecords = 5
  MaxCrashes = 2
  MaxTorn = 0
  MaxLosses = 1
CHECK_DEADLOCK FALSE
INVARIANT NoGapIsHealed
