SPECIFICATION Spec
CONSTANTS
  InitialBound = 1
  MaximumBound = 10
  MaximumRetryAfter = 50
  RetryCount = 2
  Events = {e1}
  Malformed = Malformed
  Answers <- MCAnswers
INVARIANT KnownOutcomeIsKnown
CHECK_DEADLOCK FALSE
