SPECIFICATION Spec
CONSTANTS
  a1 = a1
  a2 = a2
  semantics = semantics
  plan = plan
  trial = trial
  NoRef = NoRef
  NoResult = NoResult
  Garbage = Garbage
  Agents = {a1, a2}
  Refs = {trial}
  GapOrder <- Gaps
  Contexts <- EveryMaturity
  MaxRevision = 3
  MayLoseNewline = FALSE
SYMMETRY Symmetry
INVARIANTS
  WholeJournalVerifies
  ApprovalIsGated
PROPERTIES
  ImplementsLog
