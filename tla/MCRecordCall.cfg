SPECIFICATION Spec
CONSTANTS
  Tasks = {t1, t2}
  Sweepers = {}
  Stat = {count}
  Assign = {add}
  Publish = {rank}
  Overwrite = {}
  Derive = {sort}
  DeepModes <- BothModes
  Shapes = {s1, s2}
  MayFail = FALSE
  MayEdit = FALSE
  MaxCalls = 4
  NoTask = NoTask
  NoKey = NoKey
  NoShape = NoShape
INVARIANTS
  AnswersCurrent
  StoredTogether
  TablesKept
PROPERTY PromiseKept
