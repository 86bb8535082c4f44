SPECIFICATION FairSpec
CONSTANTS
  Configs <- OneConfig
  RedisConfigs <- First
  InvalidConfigs = {}
  MaxUID = 1
  MaxGeneration = 1
  MaxFaults = 1
  Verbs <- DeleteUnderTakenName
  RedisAddress = TRUE
INVARIANT TypeOK
INVARIANT FinalizerGuardsKeys
INVARIANT CleanedLeavesNoKeys
PROPERTY ForeignTouchedOnlyOnStaleRead
PROPERTY DeletionCompletes
CHECK_DEADLOCK FALSE
