SPECIFICATION FairSpec
CONSTANTS
  Prog = {p1}
  N = 4
  MaxRef = 2
  H = H
  Slots = 1
  Fields = 1
  Depth = 1
  Nest = 1
  CopiesUnmarked = FALSE
  DataAsHeader = FALSE
INVARIANTS
  TypeOK
  NoLostObject
  NoDangling
  IdleCollects
PROPERTIES
  EpochsEnd
