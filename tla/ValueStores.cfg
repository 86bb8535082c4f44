SPECIFICATION Spec
CONSTANTS
  Clients = {"a", "b", "new"}
  Values = {"", "x", "y"}
  Empty = ""
  limit = 3
  limits <- Shrinking
  MaxRetries = 1
INVARIANT RingInBounds
PROPERTIES MemoryImplementsPool RedisImplementsPool
