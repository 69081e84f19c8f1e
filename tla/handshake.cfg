SPECIFICATION Spec
CONSTANTS
  MaxSkip = 2
  MaxRetained = 2
  MaxCounter = 3
  NoKey = NoKey
  PreKey = {k1, k2}
  MaxSigned = 3
  MaxSessions = 2
  HasRemovePreKey = TRUE
  Initiator = alice
  Recipient = bob
  Stranger = mallory
INVARIANTS AgreeOnSameKeys ReplyOpens OnePreKeyOneSession SessionsSeparate
CHECK_DEADLOCK FALSE
