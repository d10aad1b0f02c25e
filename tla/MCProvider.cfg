CONSTANTS
  Timeout = 2
  SocketWaits = 2
  Queries = 3
  Pause = 1
  StaleAfter = 19
SPECIFICATION FairSpec
INVARIANTS TypeOK HeldBriefly
PROPERTIES AnswersAsModelled EveryCallReturns
CHECK_DEADLOCK FALSE
