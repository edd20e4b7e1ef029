SPECIFICATION FairSpec
CONSTANTS
  IRQs = {120, 122}
  Reals = {13}
  UserSigs = {"SIGTIMR"}
  MaxDepth = 2
  MaxGrow = 0
PROPERTY
  EveryRequestIsTaken
