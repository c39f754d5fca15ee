SPECIFICATION Spec
CHECK_DEADLOCK FALSE
CONSTANTS
  N = 3
  Documents = {d1}
  Contents = {x}
  Handlers = {h1, h2}
  Drafts = {a}
  NoDraft = NoDraft
  Conversations <- ThreeUpdates
  MaxFaults = 2
  AnswersEarly = TRUE
SYMMETRY Symmetry
INVARIANTS TypeOK UpdateOnce NothingForgotten CorrectionNotRefiled
PROPERTIES InOrder
