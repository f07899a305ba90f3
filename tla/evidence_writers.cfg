SPECIFICATION Spec
CONSTANTS
  w1 = w1
  w2 = w2
  w3 = w3
  w4 = w4
  i0 = i0
  i1 = i1
  i2 = i2
  tmp = tmp
  workspace = workspace
  NoCommit = NoCommit
  Writers = {w1, w2, w3, w4}
  Instances = {i0, i1, i2}
  SeedEvidence = {i0}
  Produced = {i0, i1, i2}
  Kind <- TwoRoutedOneEach
  ClaimDirectory <- DefaultDirectories
  MayOverlap <- SameTool
INVARIANTS
  AckedEvidenceIsKept
  IInv
PROPERTIES
  CommitsFromNamedRevision
  ImplementsStore
