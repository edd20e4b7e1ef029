CONSTANTS Keys = {{"C"}, {"L"}, {"R", "A"}} Scans = {1} MaxPress = 2 TimerWhileOff = FALSE
SPECIFICATION Spec
INVARIANTS VectorsOK NothingLeftBehind FaultsAreOurs KeysAreRecognised NoPressIsToldTwice
CHECK_DEADLOCK FALSE
