SPECIFICATION Spec
CONSTANTS
  Tasks = {t1}
  Sweepers = {w1}
  Stat = {count}
  Assign = {}
  Publish = {rank}
  Overwrite = {}
  Derive = {}
  DeepModes <- DeepOnly
  Shapes = {s1}
  MayFail = FALSE
  MayEdit = FALSE
  MaxCalls = 4
  NoTask = NoTask
  NoKey = NoKey
  NoShape = NoShape
INVARIANT SourceKept
