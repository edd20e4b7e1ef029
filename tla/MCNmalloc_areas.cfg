CONSTANTS ALIGN = 8 DATAOFFSET = 16 MINSBRK = 104 W = 10 MaxRequest = 440 Base = 56 MaxBrk = 384
  Sizes = {16, 48} Counts = {} Foreign = {60} Alignments = {64} MaxLive = 3
SPECIFICATION Spec
INVARIANT HeapOK
PROPERTY KeepsPromises
CHECK_DEADLOCK FALSE
