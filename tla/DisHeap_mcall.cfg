SPECIFICATION LoadedSpec
CONSTANTS
  Prog = {p1}
  N = 5
  MaxRef = 2
  H = H
  Slots = 1
  Fields = 1
  Depth = 2
  Nest = 1
  CopiesUnmarked = TRUE
  DataAsHeader = FALSE
INVARIANTS
  DestroyConsistent
