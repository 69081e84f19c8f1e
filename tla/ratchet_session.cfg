SPECIFICATION Spec
CONSTANTS
  Initiator = alice
  Recipient = bob
  NoKey = NoKey
  MaxSkip = 2
  MaxRetained = 2
  MaxCounter = 4
  MaxSent = 6
  MaxKeys = 4
INVARIANTS TypeOK NoKeyReuse NoReplay NextFrameOpens OvertakenFrameOpens OnlyLiveChains
CHECK_DEADLOCK FALSE
