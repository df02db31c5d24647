CONSTANTS
  U = U
  Undeclared = U
  None = None
  Slots = {s1, s2}
  Plans <- MCPlans
  Requests <- MCRequests
  Configs = {"c", "d"}
  Compiled <- MCCompiled
  Versions <- MCVersions
  Starts <- MCStarts
  MaxCommands = 3
  MaxEdits = 1
  MaxWithdrawals = 1
  MaxCrashes = 1
  MaxIncidents = 2
SPECIFICATION Spec
SYMMETRY Symmetry
INVARIANTS
  OneContractPerApproval
  ExecutedMeetsRequest
  EvidenceSurvives
  
  
CHECK_DEADLOCK FALSE
