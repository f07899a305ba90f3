CONSTANTS
  Session = {"A", "B"}
  Row = {"x", "y"}
  NoRow = NoRow
  NoSymbol = NoSymbol
  OtherEvent = OtherEvent
  Missing = Missing
  MaxTxFaults = 1
  MaxErrors = 1
  MaxFailures = 1
  MaxRestarts = 1
  Rounds = 3
  Slots = {1, 3}
  MaxAttempts = 2
  NetSamples = 3
  MaxMishaps = 2
  MaxAccidents = 2
  EffectIncident = "effect"
  PoolIncident = "i1"
  Handler = "work"
  AppPool = "pool"
  Contracts <- TheContracts
  RuntimeDocs <- TheRuntimeDocs
  OtherCanonicals <- TheCanonicals
  Workspaces <- TheWorkspaces
  Deployments <- TheDeployments
  PoolDocs <- ThePoolDocs
SPECIFICATION LabSpec
INVARIANTS ConfirmedDeadlockHappened ConfirmedDuplicateHappened ConfirmedPoolWaitHappened SupportsIsEarned RerunsAgree
PROPERTY LabsEnd
CHECK_DEADLOCK FALSE
