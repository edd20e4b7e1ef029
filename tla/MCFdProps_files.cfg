CONSTANTS NFds = 4 NObjs = 12 Files = {"a"} Special = {"dir", "zero"} DirMin = 3 MaxCalls = 6
SPECIFICATION Spec
INVARIANTS TablesAgree TemporaryGoesAway ContextsAreCounted
PROPERTY ExitRemovesTemporaries
CHECK_DEADLOCK FALSE
