CONSTANTS
  Asts <- NestedAsts
  Configs <- MCConfigs
  RowCounts <- MCRowCounts
SPECIFICATION Spec
INVARIANT NoWhereIsProtected
CHECK_DEADLOCK FALSE
