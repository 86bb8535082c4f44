SPECIFICATION Spec
CONSTANTS
  Minute = 24
  MaxRPM = 7
  Profiles <- MCProfiles
INVARIANTS
  TypeOK
  MeanPreserved
  BurstWithinMinute
  ClosingPauseCoversMean
