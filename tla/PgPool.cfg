SPECIFICATION FairSpec
CONSTANTS
  Tasks = {t1, t2, t3}
  Conns = {c1, c2}
  MaxDepth = 2
  MaxBlocks = 3
  MaxWrites = 2
  MayFail = TRUE
  NoTask = NoTask
  NoConn = NoConn
INVARIANTS
  TypeOK
  ConnectionsHeld
  SlotLive
  OwnStatements
  AloneAtomic
PROPERTY EveryoneServed
