SPECIFICATION Spec
CONSTANTS
  Tasks = {t1}
  Sweepers = {}
  Stat = {count}
  Assign = {}
  Publish = {}
  Overwrite = {cumsum}
  Derive = {}
  DeepModes <- DeepOnly
  Shapes = {s1}
  MayFail = FALSE
  MayEdit = FALSE
  MaxCalls = 4
  NoTask = NoTask
  NoKey = NoKey
  NoShape = NoShape
INVARIANT AnswersCurrent
