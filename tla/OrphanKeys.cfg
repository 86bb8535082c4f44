SPECIFICATION Spec
CONSTANTS
  Configs <- OneConfig
  RedisConfigs <- First
  InvalidConfigs = {}
  MaxUID = 1
  MaxGeneration = 2
  MaxFaults = 0
  Verbs <- StopAndDelete
  RedisAddress = TRUE
INVARIANT NoKeyOutlivesCleanup
CHECK_DEADLOCK FALSE
