SPECIFICATION LiveSpec
CONSTANTS
  Proc = {p1, p2, p3}
  Prog = {g1, g2}
  NoProc = NoProc
  NoProg = NoProg
PROPERTIES
  AcquireReturns
  ReadyRuns
  ImplementsLock
