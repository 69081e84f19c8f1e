SPECIFICATION Spec
CONSTANTS
  Payload = 64
  U64 = 8192
  U32 = 512
  Inputs <- AllInputs
INVARIANTS DecodesAsMeant VarintExact
CHECK_DEADLOCK FALSE
