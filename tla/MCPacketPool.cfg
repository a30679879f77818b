CONSTANTS
  NBuf = 4
  Ids <- MCIds
  Pieces = 3
  FragTime = 2
  Clock = "prompt"
  RamFails = TRUE
SPECIFICATION PoolFairSpec
INVARIANT BuffersSound
PROPERTY NeverDeaf
