SPECIFICATION Spec
CHECK_DEADLOCK FALSE
CONSTANTS
  Items = {"a"}
  Origins <- AllOrigins
  Workers = {w1, w2}
  Clients = {c1, c2}
  Reviewers = {"r"}
  MaxRetries = 1
  MaxRequests = 2
  MaxFaults = 1
SYMMETRY Symmetry
INVARIANTS
  TypeOK
  OneDraftPerItem
  ReviewHasDraft
  SingleFlight
PROPERTIES
  DecidedNotRewritten
