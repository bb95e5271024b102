SPECIFICATION Spec
CONSTANTS
  t1 = t1
  k1 = k1
  k2 = k2
  v1 = v1
  v2 = v2
  none = none
  Threads <- MCThreads
  Tasks <- MCTasks
  Visitors <- MCVisitors
  StripeVisitors <- MCStripe
  NoVisitor <- none
  Inputs <- MCInputs
  NestedFlask = FALSE
  MaxOpen = 3
INVARIANTS
  InnermostScopeIsCurrent
  EventsCarryTheirVisitor
CHECK_DEADLOCK FALSE
