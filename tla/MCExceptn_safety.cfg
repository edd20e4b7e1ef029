SPECIFICATION Spec
CONSTANTS
  IRQs = {121}
  Reals = {3, 13}
  UserSigs = {"SIGINT", "SIGSEGV"}
  MaxDepth = 3
  MaxGrow = 1
INVARIANTS
  TypeOK
  ShrunkOnlyWhilePending
  HandlerHasItsData
  FramesAreChained
  ProcessorFindsItsFrame
PROPERTY
  KeepsPromises
