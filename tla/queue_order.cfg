SPECIFICATION Spec
CONSTANTS
  Call = {c1, c2, c3, c4}
  q1 = q1 q2 = q2 k1 = k1 k2 = k2
  Queue = {q1, q2}
  Key = {k1, k2}
  KeyOf <- TwoAddresses
  Reaches <- Cyclic
  DetachedCalls = TRUE
  NoCall = NoCall
SYMMETRY CallSymmetry
INVARIANTS TypeOK MutualExclusion EntryIffPending
PROPERTY ImplementsSerialQueue
CHECK_DEADLOCK FALSE
