SPECIFICATION FairSpec
CONSTANTS
  Configs <- OneConfig
  RedisConfigs <- First
  InvalidConfigs = {}
  MaxUID = 1
  MaxGeneration = 1
  MaxFaults = 0
  Verbs <- OnlyDelete
  RedisAddress = FALSE
PROPERTY DeletionCompletes
CHECK_DEADLOCK FALSE
