SPECIFICATION Spec
CHECK_DEADLOCK FALSE
CONSTANTS
  Connections = {c1, c2}
  Pairings = {g1, g2, g3}
  Chats = {x, y}
  NoChat = NoChat
  Requests = {p, q}
SYMMETRY Symmetry
INVARIANTS TypeOK OneCodePerConnection OpenConnectionsBounded
PROPERTIES PairedByCurrentCode ActiveUntilDisconnected
