SPECIFICATION Spec
CHECK_DEADLOCK FALSE
CONSTANTS
  Members = {1, 2}
  Founder = 1
  Roles = {"OWNER", "ADMIN"}
  Keep = Keep
  Patches <- OneField
  Invitations = {i, j}
  Emails = {"x"}
  Requests = {p, q}
SYMMETRY Symmetry
INVARIANTS
  TypeOK
  DeadlockNeedsOwnerChange
  InvitationsBounded
PROPERTIES
  OwnerLossExplained
