SPECIFICATION DocumentSpec
CHECK_DEADLOCK FALSE
CONSTANTS
  Documents = {d1, d2, d3}
  Contents = {x, y}
  Handlers = {p, q, r}
SYMMETRY Symmetry
INVARIANTS OneDocumentPerContent DocumentsTended
