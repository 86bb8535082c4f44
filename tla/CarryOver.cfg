SPECIFICATION Spec
CONSTANTS
  p1 = p1
  p2 = p2
  Processes = {p1, p2}
  Concurrent = 2
  Minute = 3
  Second = 1
  Backend = "redis"
  Schedule = "fixed"
  MinRPM = 3
  MaxRPM = 3
  ScheduleMinutes = 1
  TrafficProfile <- Burst
  MaxRetries = 0
  Horizon = 2
SYMMETRY ProcessSymmetry
INVARIANTS
  SentWithinMinuteBudget
CHECK_DEADLOCK FALSE
