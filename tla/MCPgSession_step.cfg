CONSTANTS
  None = None
  Names = {"", "s"}
  Unnamed = ""
  SQL <- MCSQL
  NameBytes <- MCNameBytes
  SqlBytes <- MCSqlBytes
  ParamBytes = 1
  MaxItems = 2
  MaxBytes = 7
  Class <- MCClass
  TxEffect <- MCTxEffect
  Config <- MCConfig
  Mode = "balanced"
  RowCounts = {0, 2}
  Requests <- StepRequests
  Window = "step"
  BackendMayFail = TRUE
  MaxSent = 6
SPECIFICATION Spec
CHECK_DEADLOCK FALSE
INVARIANTS
  TypeOK
  ExecutedIsJudged
  ReadyStatusIsTrue
  StateIsBounded
