SPECIFICATION Spec
CONSTANTS
  w1 = w1
  w2 = w2
  s1 = s1
  s2 = s2
  i0 = i0
  near = near
  NoCommit = NoCommit
  Servers = {w1, w2}
  Sessions = {s1, s2}
  Instances = {i0, s1, s2}
  SeedEvidence = {i0}
  Slots = {near}
  Slot <- TwoNear
SYMMETRY Symmetry
INVARIANTS
  AnsweredFinishIsPublished
  JournalIsTrue
PROPERTIES
  ImplementsLifecycle
