SPECIFICATION FairSpec
CONSTANTS
  Scenarios <- AllScenarios
  Edits <- MCEdits
  Addresses = {"", "redis:6379"}
  Processes = {1, 2}
INVARIANT AcceptedScenarioStarts
INVARIANT SideBySideMeansSharedLimiter
INVARIANT OneRequestPerPermit
INVARIANT SkippedOnlyWhenHeldBack
INVARIANT ExecutorMeetsNoStaticError
INVARIANT RequestCarriesItsCredentials
PROPERTY SlotEnds
CHECK_DEADLOCK FALSE
