SPECIFICATION Spec
CONSTANTS
  Proc = {p1, p2, p3, p4}
  Prog = {g1, g2, g3}
  NoProc = NoProc
  NoProg = NoProg
SYMMETRY Symmetry
INVARIANTS
  TypeOK
  OneVM
  NobodyForgotten
  RequestsCounted
  NoLostWakeup
  RendezvousPaired
  SliceIntact
  ProgsAccounted
  TailsRight
  IdleIsTransient
  ProcsBounded
