SPECIFICATION Spec
CONSTANTS
  NSig = 3
  SIGKILL = 3
  MaxNest = 3
  HandlersBlock = FALSE
  SignalOnBlocked = FALSE
INVARIANTS
  MaskOK
  NoSignalIsLost
PROPERTY
  BlockedIsHeld
