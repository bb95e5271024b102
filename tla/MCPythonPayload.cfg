\* The event payload of the Python SDK: validation and the walk over the properties.
SPECIFICATION Spec
CONSTANTS
  root = root
  inner = inner
  leaf = leaf
  Objects <- MCObjects
  Root = root
  MaxDepth <- MCMaxDepth
  MaxSafe <- MCMaxSafe
  Cases <- MCCases
INVARIANTS WalkIsRight OrderIsPriced OriginReadsBack
\* A call ends when its event is accepted or refused.
CHECK_DEADLOCK FALSE
