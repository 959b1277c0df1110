CONSTANTS
  Null = Null
  Limit = 2
  AfterInfinite <- CalledOrParked
  MaxChanges = 3
SPECIFICATION Spec
INVARIANTS TypeOK ExtractNeverBlocks WakesHaveEntries EmptyQueueIsFresh
PROPERTIES WakeIsServed DestructionEnds
