SPECIFICATION Spec
CONSTANTS
  Job = {j1, j2, j3, j4}
  Addr = {bob}
  r1 = r1 r2 = r2 k1 = k1 s1 = s1 s2 = s2
  None = None
  Frames <- TwoSessions
  PreKey = {k1}
  SignedPreKeys = {s1}
  FallbackSignedPreKeys = {s2, None}
  MaxArchived = 1
  ReadMayFail = TRUE
  StoreMayFail = TRUE
  HasRemovePreKey = TRUE
  RemoveMayFail = TRUE
  MaxCrashes = 1
SYMMETRY JobSymmetry
INVARIANTS TypeOK NoCounterReuse PreKeyAccounted OneOpenEntry DeliveredOnce
PROPERTIES NoLostUpdate OnlyAuthenticPersists
CHECK_DEADLOCK FALSE
