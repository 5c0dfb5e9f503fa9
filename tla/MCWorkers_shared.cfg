CONSTANTS
  Connections = {c1, c2}
  Threads = {t1, t2}
  Nobody = nobody
SPECIFICATION FairSpec
INVARIANTS
  DialogsAreSerial
  AnswersReachTheirStatement
  SentWasApproved
PROPERTIES
  EveryRequestIsDecided
  AllowedIsNotHeldUp
