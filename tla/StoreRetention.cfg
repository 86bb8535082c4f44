SPECIFICATION FairSpec
CONSTANTS
  Processes <- OldAndNew
  TTL = 5
  Interval = 2
  MaxFailures = 1
  MaxEdits = 3
INVARIANTS TypeOK RemovedStoreExpires
PROPERTIES NeverExpiresInUse RestoredStorePersists
