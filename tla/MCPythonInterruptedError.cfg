\* The message of an error whose body read failed against the conformance contract.
SPECIFICATION Spec
CONSTANTS
  InitialBound = 1
  MaximumBound = 10
  MaximumRetryAfter = 50
  MaxResponseBytes = 2
  RetryCount = 1
  Timeout = 2
  Horizon = 7
  LastRetry = 20
  Answers <- MCAnswers
INVARIANT InterruptedErrorUsesReason
CHECK_DEADLOCK FALSE
