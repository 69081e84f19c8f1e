SPECIFICATION Spec
CONSTANTS
  MaxSkip = 4
  MaxRetained = 3
  Seed <- OneSeed
  MaxStored = 5
  MaxReached = 10
INVARIANTS TypeOK FillIsItsLevels PeekMatchesFill KeysInStep
PROPERTY TrimsOnlyWhenGrowing
CHECK_DEADLOCK FALSE
