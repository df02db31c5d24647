SPECIFICATION FairSpec
CONSTANTS
  Procs = {p1, p2, p3}
  MaxCrashes = 2
  MaxFails = 1
INVARIANTS OverlapIsReported
PROPERTIES ImplementsWriteLock EveryAttemptEnds AbandonedIsReaped
