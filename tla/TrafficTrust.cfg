SPECIFICATION TrustSpec
CONSTANTS
  Hosts = {"model.api"}
  TelemetryHosts = {}
  ModelHosts = {"model.api"}
  MaxAllowedHosts = 2
  MaxBody = 1
  Clients = {c1, c2}
  Handlers = {h1}
  Messages <- MCMessages
  Block <- MCBlock
  Chains <- MCChains
  Authority = TRUE
  SingleSlot = TRUE
  MaxCerts = 2
  Limits <- MCLimits
  MaxDaemons = 2
  MaxCommands = 3
  MaxRequests = 1
  MaxFaults = 1
CHECK_DEADLOCK FALSE
INVARIANTS OneRecorder TrustIsRemovable
PROPERTIES StopEnds
