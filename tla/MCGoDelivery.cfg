SPECIFICATION FairSpec
CONSTANTS
  InitialBound = 1
  MaximumBound = 10
  MaximumRetryAfter = 50
  RetryCount = 2
  Answers <- MCAnswers
INVARIANTS
  TypeOK
  PauseHonoursServer
  AttemptReleased
PROPERTIES
  CancellationIsReported
  EveryCallReturns
  ImplementsContract
CHECK_DEADLOCK FALSE
