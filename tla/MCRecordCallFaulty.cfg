SPECIFICATION FairSpec
CONSTANTS
  Tasks = {t1, t2}
  Sweepers = {w1}
  Stat = {count}
  Assign = {add}
  Publish = {rank}
  Overwrite = {cumsum}
  Derive = {sort}
  DeepModes <- BothModes
  Shapes = {s1, s2}
  MayFail = TRUE
  MayEdit = TRUE
  MaxCalls = 2
  NoTask = NoTask
  NoKey = NoKey
  NoShape = NoShape

INVARIANTS
  TypeOK
  LockHeld
  OpidxFree
  EpochNotAhead
PROPERTY CallsReturn
