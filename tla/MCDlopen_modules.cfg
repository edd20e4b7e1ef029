CONSTANTS Files = {"a", "b", "c"} Stray = {} Odd = {"b"} Statuses = {"ok", "missing", "locked", "alien", "short", "cut"}
 MaxMods = 3 MaxHeld = 3 MaxMallocs = 8
SPECIFICATION Spec
INVARIANTS LoaderOK FinalisedInOrder FailureIsExplained
PROPERTY FailureLeavesNothing
CHECK_DEADLOCK FALSE
