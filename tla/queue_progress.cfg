SPECIFICATION FairSpec
CONSTANTS
  Call = {c1, c2, c3, c4}
  q1 = q1 q2 = q2 k1 = k1 k2 = k2
  Queue = {q1, q2}
  Key = {k1, k2}
  KeyOf <- TwoAddresses
  Reaches <- Ordered
  DetachedCalls = FALSE
  NoCall = NoCall
PROPERTIES OnlyReentryDropped EveryCallSettles
CHECK_DEADLOCK FALSE
