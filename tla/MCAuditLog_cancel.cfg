CONSTANTS
  Tasks = {"t1", "t2"}
  None = None
  MaxEvents = 3
  RecordBytes <- MCBytes
  MaxFileBytes = 2
  MaxBackups = 2
  MayCancelOwner = TRUE
  MaxCrashes = 0
  MaxErrors = 0
SPECIFICATION Spec
CHECK_DEADLOCK FALSE
INVARIANTS
  AppendsAreSerial
