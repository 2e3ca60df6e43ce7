SPECIFICATION FairSpec
CONSTANTS
  Uploads = {u1, u2}
  Ids = {i1, i2}
  Rows = 2
  Chunk = 1
  Sample = 1
  Cases <- MCCases
  MaxFaults = 1
  NoId = NoId
  NoTable = NoTable
  NoEntry = NoEntry
  NoUpload = NoUpload
INVARIANTS
  TypeOK
  RegisteredLoaded
  NoOrphan
  LoadedAlone
PROPERTIES
  RegisteredStays
  UploadsEnd
  UploadAtomic
\* Uploads end, and nothing starts a third one.
CHECK_DEADLOCK FALSE
