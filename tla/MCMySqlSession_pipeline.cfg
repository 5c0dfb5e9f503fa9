CONSTANTS
  None = None
  SQL <- MCSQL
  Class <- MCClass
  Unparseable = {"broken"}
  SqlBytes <- MCSqlBytes
  Parameters <- MCParameters
  Columns <- MCColumns
  TxEffect <- MCTxEffect
  UseDb <- MCUseDb
  Databases = {"home", "other"}
  Home = "home"
  Config <- MCConfig
  Mode = "balanced"
  RowCounts = {0, 2}
  DeprecateEof = TRUE
  MaxStatements = 2
  MaxBytes = 3
  Requests <- PipelineRequests
  Window = "pipeline"
  MaxSent = 3
  MaxRows = 1
SPECIFICATION FairSpec
CHECK_DEADLOCK FALSE
INVARIANTS
  OnlyClearedReachServer
  PendingIsOutstanding
  NothingUnasked
PROPERTIES
  CommandIsAnswered
  ImplementsGate
