\* The conformance runner over two languages, with one signal at any point.
SPECIFICATION FairSpec
CONSTANTS
  Languages <- MCLanguages
  Fixtures <- MCFixtures
  Inapplicable <- MCInapplicable
  Lines <- MCLines
  MaxLines = 3
  MaxSignals = 1
INVARIANTS
  OkMeansAccounted
  NothingOutlivesTheRun
  LanguagesAreIsolated
PROPERTIES
  EveryRunEnds
\* The program ends.
CHECK_DEADLOCK FALSE
