CONSTANTS NFds = 4 NObjs = 7 Files = {"a"} Special = {} DirMin = 3 MaxCalls = 6
SPECIFICATION Spec
INVARIANTS TemporaryStaysWhileOpen
CHECK_DEADLOCK FALSE
