SPECIFICATION Spec
CHECK_DEADLOCK FALSE
CONSTANTS
  Requests = {p, q, r}
  Tokens = {s, t, u}
  MaxChanges = 2
SYMMETRY Symmetry
INVARIANTS
  TypeOK
  OneLiveTokenPerLogin
  SessionsEndWithThePassword
