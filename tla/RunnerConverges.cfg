SPECIFICATION FairSpec
CONSTANTS
  Configs <- TwoConfigs
  RedisConfigs = {}
  InvalidConfigs = {}
  MaxUID = 1
  MaxGeneration = 3
  MaxFaults = 0
  Verbs <- EditAndRevert
  RedisAddress = TRUE
PROPERTY RunnerConverges
CHECK_DEADLOCK FALSE
