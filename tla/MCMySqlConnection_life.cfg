CONSTANTS
  MaxMessage = 3
  MaxSent = 3
  ReadTimeout = TRUE
  MyHeader = 1
  MySizes <- MCMySizes
  MyResults = {2, 4}
  MaxPayload = 2
  SequenceIds = 2
  MaxEarly = 1
SPECIFICATION FairSpec
CHECK_DEADLOCK FALSE
INVARIANTS
  CommandsAreInspected
  ServerStreamIntact
PROPERTIES
  TeardownCompletes
