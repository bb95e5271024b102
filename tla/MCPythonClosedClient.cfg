\* The errors of the synchronous Python client against the SDK contract.
SPECIFICATION Spec
CONSTANTS
  InitialBound = 1
  MaximumBound = 10
  MaximumRetryAfter = 50
  MaxResponseBytes = 2
  RetryCount = 1
  Timeout = 2
  Horizon = 7
  LastRetry = 20
  Answers <- MCAnswers
INVARIANT FailuresAreSdkErrors
CHECK_DEADLOCK FALSE
