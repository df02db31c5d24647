SPECIFICATION Spec
CONSTANTS
  Starts <- MCStarts
  MaxDaemons = 2
  Slots = {c1, c2}
CHECK_DEADLOCK FALSE
INVARIANTS VerdictIsEarned SoleDaemonIsNamed
PROPERTIES StopTakesEffect AssessmentConverges
