SPECIFICATION MCSpec
CONSTANTS
  Proc = {p1, p2}
  Sizes = {1, 5}
  chunk = 4
  MaxSizes = {11}
  Memory = 15
  Gaps = {0, 1}
  MaxImm = 1
SYMMETRY Symmetry
INVARIANTS
  PoolAudited
  FreeTreeExact
  SearchFindsBest
  AccountsAgree
