CONSTANTS
  Observations <- MCObservations
  Edges <- MCEdges
  Hypotheses <- MCHypotheses
  Probes <- MCProbes
  Scopes = {1, 2}
  Instrument <- MCInstrument
  Lifetime <- MCLifetime
  MaxTime = 2
  MaxChanges = 1
  Varying <- MCVarying
  Supported = {21, 22, 24}
  MaxSteps = 3
  CriteriaChoices <- MCCriteria
  MaxVerifications = 2
  NoContract = NoContract
  Seeds <- MCSeeds
SPECIFICATION Spec
PROPERTY NothingLeftToLearn
INVARIANT ResolvedIsEarned
PROPERTY LoopsAreBounded
CHECK_DEADLOCK FALSE
