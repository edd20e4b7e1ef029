CONSTANTS Fill = 1 TbSize = 3 VBufs = {2} Modes = {"r", "w", "a", "r+"} FileLens = {2} Bytes = {1, 2} Lens = {1, 3}
 Capacity = 3 MaxOff = 4 PartialLines = FALSE TurnsByFlush = FALSE TellsLines = FALSE UngetsAtEof = FALSE
SPECIFICATION Spec
INVARIANT BufferOK
PROPERTY ActsLikeAStream
CHECK_DEADLOCK FALSE
