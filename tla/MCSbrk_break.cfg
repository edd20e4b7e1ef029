CONSTANTS W = 24 Gran = 4 PerClass = 2 Slots = 4 Initial = 4 End = 3 Base = 8
CONSTANTS Places = {4, 12, 16, 20} MaxBlocks = 5 Grows = {0, 3, 6} Shrinks = {2} Breaks = {7} LeftInECX = {} SemiOK = FALSE
SPECIFICATION Spec
INVARIANTS TableOK HeldIsOwned RangesAreSplit ExitFreesTheBlocks
PROPERTIES FreshMemory FillsOnlyNewMemory
CHECK_DEADLOCK FALSE
