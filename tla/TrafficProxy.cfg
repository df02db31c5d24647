SPECIFICATION Spec
CONSTANTS
  Hosts = {"model.api", "other.host"}
  TelemetryHosts = {}
  ModelHosts = {"model.api"}
  MaxAllowedHosts = 2
  MaxBody = 1
  Clients = {c1}
  Handlers = {h1, h2}
  Messages <- MCMessages
  Block <- MCBlock
  Chains <- MCChains
  Authority = FALSE
  MaxDaemons = 2
  MaxCommands = 2
  MaxRequests = 2
  MaxFaults = 1
CHECK_DEADLOCK FALSE
SYMMETRY Symmetry
INVARIANTS OkIsComplete LedgerIsExact
