SPECIFICATION FairSpec
CONSTANTS
  p1 = p1
  Processes = {p1}
  Concurrent = 1
  Minute = 3
  Second = 1
  Backend = "redis"
  Schedule = "fixed"
  MinRPM = 3
  MaxRPM = 3
  ScheduleMinutes = 1
  TrafficProfile <- Burst
  MaxRetries = 2
  Horizon = 3
INVARIANTS
  CarryOverBounded
PROPERTIES
  ShutdownCompletes
CHECK_DEADLOCK FALSE
