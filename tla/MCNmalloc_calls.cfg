CONSTANTS ALIGN = 8 DATAOFFSET = 16 MINSBRK = 96 W = 10 MaxRequest = 440 Base = 64 MaxBrk = 352
  Sizes = {0, 40} Counts = {2, 26} Foreign = {} Alignments = {} MaxLive = 3
SPECIFICATION Spec
INVARIANT HeapOK
PROPERTY KeepsPromises
CHECK_DEADLOCK FALSE
