SPECIFICATION Spec
CONSTANTS
  Runners = {r1, r2}
  N = 2
  Deps <- MCDeps
  Needs <- MCDeps
  one = one
  two = two
  both = both
  Contents <- MCContents
  None = None
  Good <- MCGood
  Out <- MCOut
  Flaky = TRUE
  Returns = FALSE
  MaxAttempts = 1
  MaxJobs = 2
  MaxCrashes = 1
SYMMETRY Symmetry
CHECK_DEADLOCK FALSE
INVARIANTS AttemptsBounded RefusedWereTried StatusHasEvidence PlanStaysWhole VerifiedMarkerHolds AcceptedProofIsSound
