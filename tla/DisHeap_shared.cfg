SPECIFICATION Spec
CONSTANTS
  Prog = {p1, p2}
  N = 2
  MaxRef = 3
  H = H
  Slots = 1
  Fields = 1
  Depth = 2
  Nest = 1
  CopiesUnmarked = FALSE
  DataAsHeader = FALSE
SYMMETRY Symmetry
INVARIANTS
  RefsCounted
