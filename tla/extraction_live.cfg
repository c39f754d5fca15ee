SPECIFICATION FairSpec
CHECK_DEADLOCK FALSE
CONSTANTS
  Items = {"a"}
  Origins <- AllOrigins
  Workers = {w1, w2}
  Clients = {"c", "d"}
  Reviewers = {}
  MaxRetries = 2
  MaxRequests = 2
  MaxFaults = 0
INVARIANTS
  Tended
PROPERTIES
  ItemsSettle
