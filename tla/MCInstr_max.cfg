SPECIFICATION MCSpec
CONSTANTS
  nil = nil
  Types <- MCTypes
  Module <- MCModule
  SS <- MCSS
  Label = {"a"}
  Pattern <- MCPattern
  Err <- MCErr
  Ext = {10, 20, 30}
  MaxUnits = 4
  MaxRec = 2
  ErrorsAnywhere = FALSE
  Var = {1, 2}
  Chars = {1, 200}
  MaxLen = 3
  Quantum = 3
  Header = 1
  EmptyGrows = TRUE
  H = H
  Ops <- MCOps
  Offsets = {0, 3}
  Regs = {1, 2, 7}
  Seeds <- MCSeeds
  Progs = {"p1", "p2"}
  Kinds = {"dis", "nolink", "native", "none"}
  MaxVers = 2
  MaxKept = 1
INVARIANTS
  MaxInRepresentation
CHECK_DEADLOCK FALSE
