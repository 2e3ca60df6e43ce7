SPECIFICATION FairSpec
CONSTANTS
  c1 = c1
  c2 = c2
  Chats = {c1, c2}
  Datasets = {d1, d2}
  FirstActive = d1
  NoData = none
  NoTable = notable
  Plans <- MCPlans
  Tools <- MCTools
  MaxSteps = 2
  MaxCalls = 1
  MaxTurns = 1
  MaxFaults = 1
INVARIANTS TypeOK SameTable SeesEarlier OnOneDataset OwnAnswer Released
PROPERTY ChatsEnd
\* A session is idle when its chats have ended.
CHECK_DEADLOCK FALSE
