SPECIFICATION Spec
CONSTANTS
  d1 = d1
  d2 = d2
  Devices = {d1}
  Clients <- MCClients
  Policies = {"PUBLIC"}
  Regimes <- FirstResolving
  MaxRotations = 0
  MaxFailures = 0
INVARIANT CacheDrained
CHECK_DEADLOCK FALSE
