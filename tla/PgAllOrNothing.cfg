SPECIFICATION Spec
CONSTANTS
  Tasks = {t1, t2}
  Conns = {c1, c2, c3}
  MaxDepth = 1
  MaxBlocks = 2
  MaxWrites = 2
  MayFail = FALSE
  NoTask = NoTask
  NoConn = NoConn
INVARIANT AllOrNothing
