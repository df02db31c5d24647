SPECIFICATION Spec
CONSTANTS
  Agents = {a1, a2}
  Files = {f1, f2}
  Auditors = {s1}
  Modes = {"warn", "strict"}
  Unchecked = TRUE
  MaxCrashes = 2
CHECK_DEADLOCK FALSE
SYMMETRY Symmetry
INVARIANTS LiveOwnersKeepTheirFiles SharingIsReported
PROPERTY KilledRecordStaysRefused
