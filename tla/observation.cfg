CONSTANTS
  Commands <- MCCommands
  Incidents <- MCIncidents
  Revisions <- MCRevisions
  InitialWorkspace <- MCInitialWorkspace
  Symbols <- MCSymbols
  Pools <- MCPools
  Target <- MCTarget
  Traffic <- MCTraffic
  RequestObjective = 4
  WaitObjective = 2
  NoFile = NoFile
  NoTarget = NoTarget
  Nobody = Nobody
  NoSymbol = NoSymbol
  OtherEvent = OtherEvent
  MaxFaults = 1
  MaxChanges = 1
SPECIFICATION Spec
INVARIANTS AnsweredFactsAreSaved OverlapsHappened
PROPERTY RunEnds
CHECK_DEADLOCK FALSE
