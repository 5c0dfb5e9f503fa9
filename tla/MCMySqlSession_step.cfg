CONSTANTS
  None = None
  SQL <- MCSQL
  Class <- MCClass
  Unparseable = {"broken"}
  SqlBytes <- MCSqlBytes
  Parameters <- MCParameters
  Columns <- MCColumns
  TxEffect <- MCTxEffect
  UseDb <- MCUseDb
  Databases = {"home", "other"}
  Home = "home"
  Config <- MCConfig
  Mode = "permissive"
  RowCounts = {0, 2}
  DeprecateEof = FALSE
  MaxStatements = 2
  MaxBytes = 3
  Requests <- StepRequests
  Window = "step"
  MaxSent = 4
  MaxRows = 1
SPECIFICATION Spec
CHECK_DEADLOCK FALSE
INVARIANTS
  ExecutedIsJudged
  AnswersInOrder
  StatusIsTrue
  EstimateInActiveDatabase
