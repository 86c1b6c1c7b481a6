SPECIFICATION Spec
CONSTANTS
  t1 = t1
  t2 = t2
  t3 = t3
  alice = alice
  bob = bob
  key = key
  Tx <- MCTx
  OwnerOf <- MCOwnerOf
  CreatorOf <- MCCreatorOf
  Incomplete <- MCIncomplete
  MaxLedger = 3
  MaxPerLedger = 1
  MayInclude <- MCMayInclude
  MaxReorg = 1
  MaxCrash = 1
  MaxWalk = 1000
  ResumeFrom = "cursor"
INVARIANTS
  RolledBackIsReingested
CHECK_DEADLOCK FALSE
