CONSTANTS
  MaxMessage = 3
  MaxSent = 3
  ReadTimeout = TRUE
  PgHeader = 2
  PgSizes <- MCPgSizes
  PgAnswers = {2, 4}
SPECIFICATION FairSpec
CHECK_DEADLOCK FALSE
INVARIANTS
  ServerStreamIntact
  ClientStreamIntact
  NothingLeftBehind
PROPERTIES
  AnsweredOrEnded
  TeardownCompletes
