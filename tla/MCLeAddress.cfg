SPECIFICATION Spec
CONSTANTS
  d1 = d1
  d2 = d2
  Devices = {d1, d2}
  Clients <- MCClients
  Policies = {"PUBLIC", "STATIC", "ROTATING"}
  Regimes <- Both
  MaxRotations = 1
  MaxFailures = 1
INVARIANTS
  NeverFatal
  ArmedMeansInitiating
  ScansOnlyIfAsked
  ChangedOnlyWhenIdle
  NobodyLeftPaused
  ConnectsToList
  RecordedAddressUsed
CHECK_DEADLOCK FALSE
