CONSTANTS
  Tasks = {"t1", "t2", "t3"}
  None = None
  MaxEvents = 7
  RecordBytes <- MCBytes
  MaxFileBytes = 2
  MaxBackups = 2
  MayCancelOwner = FALSE
  MaxCrashes = 2
  MaxErrors = 1
SPECIFICATION FairSpec
CHECK_DEADLOCK FALSE
INVARIANTS
  AppendsAreSerial
  KeepsRecent
  RetentionIsFull
  FilesAreBounded
PROPERTIES
  EveryLogReturns
