CONSTANTS U = 3 Values = {0, 2, 7} Intervals = {0, 3} MaxTime = 13 MaxNest = 4 MaxSlip = 2 MaxRearm = 1
SPECIFICATION Spec
INVARIANTS TypeOK NeverKilled OneShotIsServed NotLate
PROPERTY NotEarly
CHECK_DEADLOCK FALSE
