CONSTANTS
  N = 2
  Returned <- ReturnedByRules
SPECIFICATION Spec
INVARIANTS TypeOK OnlyProblemBlocks CleanIsInfo NothingLostSilently
PROPERTY KeepsPromise
CHECK_DEADLOCK FALSE
