SPECIFICATION Spec
CONSTANTS
  Writers = {w1, w2}
  Keyed = TRUE
  RotateAt = 3
  MaxRecords = 8
  MaxCrashes = 3
  MaxTorn = 1
  MaxLosses = 2
CHECK_DEADLOCK FALSE
SYMMETRY WriterSymmetry
INVARIANTS QuietLogVerifies AcceptedLogIsComplete AppendRepairs
