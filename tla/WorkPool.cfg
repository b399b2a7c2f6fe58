SPECIFICATION FairSpec
CONSTANTS
  MaxCount = 3
  MaxThreads = 3
INVARIANTS
  TypeOK
  OneTaskPerIndex
  NothingOutlivesTheCall
  CounterBounded
PROPERTIES
  ImplementsForEach
  Returns
CHECK_DEADLOCK FALSE
