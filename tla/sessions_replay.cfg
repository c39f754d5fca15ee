SPECIFICATION Spec
CHECK_DEADLOCK FALSE
CONSTANTS
  Requests = {p, q}
  Tokens = {s, t, u}
  MaxChanges = 1
PROPERTIES
  ReplayRevokesFamily
