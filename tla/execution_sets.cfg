SPECIFICATION Spec
CONSTANTS
  primary = primary
  replica = replica
  pgbot = pgbot
  prometheus = prometheus
  i0 = i0
  i1 = i1
  NoCommit = NoCommit
  NoSet = NoSet
  SeedEvidence = {i0}
  Others = {i1}
  Instances <- AllInstances
  Contracts <- TwoPlans
  SetIds <- SetsOfTwoRevisions
  MaxRevision = 3
  MaxReads = 2
INVARIANTS
  JournalIsOrdered
  WholeSetsOnly
  RecoveryIsSafe
PROPERTIES
  SetExtendsItsRevision
  JournaledReadIsNotRepeated
  ImplementsStore
