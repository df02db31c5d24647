SPECIFICATION SessionSpec
CONSTANTS
  Agents = {a1}
  Files = {f1}
  Auditors = {s1, s2, s3}
  Products = {v1, v2}
  Modes = {"strict"}
  Unchecked = TRUE
  MaxCrashes = 2
CHECK_DEADLOCK FALSE
SYMMETRY Symmetry
INVARIANTS FrozenIsQuiet PassedSessionWasQuiet OverlappingSessionsDoNotPass
