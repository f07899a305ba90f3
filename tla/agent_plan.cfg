SPECIFICATION PlanSpec
CONSTANTS
  MaxCalls = 4
  w1 = w1
  s1 = s1
  s2 = s2
  i0 = i0
  near = near
  far = far
  NoCommit = NoCommit
  Servers = {w1}
  Sessions = {s1, s2}
  Instances = {i0, s1, s2}
  SeedEvidence = {i0}
  Slots = {near, far}
  Slot <- SlotOf
SYMMETRY Symmetry
INVARIANTS
  PlanIsHonoured
  PlanWasTrue
  HistoryIsTrue
