SPECIFICATION FairSpec
CONSTANTS
  InitialBound = 1
  MaximumBound = 10
  MaximumRetryAfter = 50
  MaxResponseBytes = 2
  RetryCount = 2
  Answers <- MCAnswers
INVARIANTS
  ResponseReleased
  AcknowledgedInFull
PROPERTIES
  CancellationIsFinal
  EveryCallReturns
  ImplementsContract
CHECK_DEADLOCK FALSE
