CONSTANTS
  None = None
  Names = {"", "s"}
  Unnamed = ""
  SQL <- MCSQL
  NameBytes <- MCNameBytes
  SqlBytes <- MCSqlBytes
  ParamBytes = 1
  MaxItems = 2
  MaxBytes = 99
  Class <- MCClass
  TxEffect <- MCTxEffect
  Config <- MCConfig
  Mode = "balanced"
  RowCounts = {0, 1, 2}
  Requests <- RenameRequests
  Window = "batch"
  BackendMayFail = FALSE
  MaxSent = 5
SPECIFICATION Spec
CHECK_DEADLOCK FALSE
INVARIANT ExecutedIsJudged
