SPECIFICATION Spec
CONSTANTS
  w1 = w1
  d1 = d1
  s1 = s1
  i0 = i0
  i1 = i1
  near = near
  tmp = tmp
  NoCommit = NoCommit
  Writers = {w1}
  Kind <- Routed
  ClaimDirectory <- LockDirectory
  Servers = {d1}
  Sessions = {s1}
  Slots = {near}
  Slot <- OneSlot
  Instances = {i0, i1, s1}
  SeedEvidence = {i0}
  Produced = {i1}
INVARIANTS
  AnsweredFinishIsKept
