SPECIFICATION FairSpec
CONSTANTS
  Configs <- ThreeConfigs
  RedisConfigs <- Third
  InvalidConfigs <- Second
  MaxUID = 1
  MaxGeneration = 2
  MaxFaults = 1
  Verbs <- EditAndSuspend
  RedisAddress = TRUE
INVARIANT FinalizerGuardsKeys
PROPERTY SuspendStopsRunner
PROPERTY StatusConverges
CHECK_DEADLOCK FALSE
