SPECIFICATION FairSpec
CONSTANTS
  InitialBound = 1
  MaximumBound = 10
  MaximumRetryAfter = 50
  MaxResponseBytes = 2
  RetryCount = 1
  Timeout = 2
  Horizon = 7
  LastRetry = 20
  Answers <- MCAnswers
INVARIANTS
  DelayBoundsAgree
  RetryDelaysAgree
  TypeOK
  PauseHonoursServer
  BodyReadBounded
  AcknowledgedInFull
PROPERTIES
  EveryCallReturns
  ImplementsContract
CHECK_DEADLOCK FALSE
