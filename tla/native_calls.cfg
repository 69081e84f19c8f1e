SPECIFICATION Spec
CONSTANTS
  Width = 6
  Order = 7
  TwistOrder = 5
  Base = 24
  Light = 1
  Block = 3
  Byte = 4
  Numeral <- NumeralNames
  MaxArchived = 1
  Unit = 4
  Challenge <- SomeChallenge
  EncryptBlock <- EncryptSome
  DecryptBlock <- DecryptSome
  Message = {1, 2}
  Document <- Documents
  Text <- Texts
  Ciphertext <- Ciphertexts
  Vector <- Vectors
  Entries <- EntrySequences
INVARIANTS Contributory SignedVerifies OnlySignedVerifies AcceptedIsKept CbcExact SelectionsAgree
CHECK_DEADLOCK FALSE
