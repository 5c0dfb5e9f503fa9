CONSTANTS
  None = None
  Names = {"", "s"}
  Unnamed = ""
  SQL <- MCSQL
  NameBytes <- MCNameBytes
  SqlBytes <- MCSqlBytes
  ParamBytes = 1
  MaxItems = 1
  MaxBytes = 6
  Class <- MCClass
  TxEffect <- MCTxEffect
  Config <- MCConfig
  Mode = "permissive"
  RowCounts = {0, 1}
  Requests <- PipelineRequests
  Window = "pipeline"
  BackendMayFail = FALSE
  MaxSent = 4
SPECIFICATION FairSpec
CHECK_DEADLOCK FALSE
INVARIANTS
  OnlyClearedReachServer
  NothingRunsUntilSync
  AtMostOneReady
  OnlyRefusalsOvertake
PROPERTIES
  SyncIsAnswered
  ImplementsGate
