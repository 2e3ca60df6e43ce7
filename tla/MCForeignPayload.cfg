SPECIFICATION Spec
CONSTANTS
  Tasks = {t1}
  Sweepers = {w1}
  Stat = {count, mean}
  Assign = {}
  Publish = {}
  Overwrite = {}
  Derive = {}
  DeepModes <- DeepOnly
  Shapes = {s1}
  MayFail = FALSE
  MayEdit = FALSE
  MaxCalls = 4
  NoTask = NoTask
  NoKey = NoKey
  NoShape = NoShape
INVARIANT AnswersOwnCall
