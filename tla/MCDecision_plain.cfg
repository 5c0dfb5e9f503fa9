CONSTANTS
  Asts <- PlainAsts
  Configs <- MCConfigs
  RowCounts <- MCRowCounts
SPECIFICATION Spec
INVARIANTS
  AutoAllowedIsSmall
  LargeMutationIsStopped
  StricterWithMoreRows
CHECK_DEADLOCK FALSE
