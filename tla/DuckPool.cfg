SPECIFICATION FairSpec
CONSTANTS
  Tasks = {t1, t2, t3}
  MaxDepth = 2
  MaxBlocks = 4
  MaxWrites = 3
  MayFail = TRUE
  NoTask = NoTask
INVARIANTS
  TypeOK
  TransactionHeld
  PendingOwned
PROPERTIES
  BlocksAtomic
  EveryoneServed
