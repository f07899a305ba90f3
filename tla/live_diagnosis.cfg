SPECIFICATION Spec
CONSTANTS
  None = None
  Spans <- FourSpans
  Requests <- FourRequests
  MaxTime = 3
  MaxFaults = 1
INVARIANTS
  EvidenceFileIsCurrent
  StoreIsNewest
PROPERTIES
  PublishedNeverRollsBack
  RecomputeHasAReason
  EvidenceIsPublished
  FreshnessIsRestored
