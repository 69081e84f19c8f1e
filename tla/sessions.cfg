SPECIFICATION Spec
CONSTANTS
  Party = {alice, bob}
  Time = {2, 3}
  MaxInits = 3
  MaxSent = 4
  MaxSteps = 6
  MaxSkip = 5
  MaxRetained = 5
  MaxCounter = 9
  MaxArchived = 1
  NoKey = NoKey
  Migrated = FALSE
SYMMETRY PartySymmetry
INVARIANTS OneOpenEntry NoReplay SharedSessionOpens NewSessionOpens
CHECK_DEADLOCK FALSE
