SPECIFICATION Spec
CONSTANTS
  p1 = p1
  p2 = p2
  Processes = {p1, p2}
  Concurrent = 2
  Minute = 2
  Second = 1
  Backend = "redis"
  Schedule = "uniform"
  MinRPM = 1
  MaxRPM = 2
  ScheduleMinutes = 1
  TrafficProfile <- Burst
  MaxRetries = 2
  Horizon = 2
SYMMETRY ProcessSymmetry
INVARIANTS
  TypeOK
  PermitsExclusive
  WindowBudget
  ShortDecisionWaitsOut
  SameRPMInWindow
  FreshGrantWithinSelectedRPM
CHECK_DEADLOCK FALSE
