CONSTANTS
  Observations <- MCObservations
  Edges <- MCEdges
  Hypotheses <- MCHypotheses
  Probes <- MCProbes
  Scopes = {1, 2, 3, 4, 5}
  Instruments <- MCInstruments
  Bound <- MCBound
  Seeds <- MCSeeds
  Others <- MCOthers
  Phases = {"recovered"}
  MaxSteps = 2
  MaxRevision = 5
  MaxOutages = 1
SPECIFICATION Spec
INVARIANT StepsAreItsCommits
PROPERTY ActsOnItsRevision
PROPERTY AcquisitionIsBounded
CHECK_DEADLOCK FALSE
