SPECIFICATION Spec
CONSTANTS
  Undeclared = U
  U = U
  Padded <- MCPadded
  Workspaces <- MCWorkspaces
  MaxSearchStates = 6
  StateBounds = {20}
  Answers <- MCAnswers
CHECK_DEADLOCK FALSE
INVARIANTS SolverIsRight CompiledIsAccepted PassIsEarned ExitZeroIsProof
