SPECIFICATION FairSpec
CONSTANTS
  InitialBound = 1
  MaximumBound = 10
  MaximumRetryAfter = 50
  RetryCount = 2
  Events = {e1, e2}
  Malformed = Malformed
  Answers <- MCAnswers
INVARIANTS
  TypeOK
  OutcomeMatchesLastAnswer
  NoEarlySurrender
  CopiesCarryOneEvent
  PauseHonoursServer
  NothingLeftBehind
  AbortNeedsNoTimer
PROPERTIES
  AbortStopsTheCall
  RetryOnlyWhenPermitted
  EveryCallSettles
  ImplementsContract
CHECK_DEADLOCK FALSE
