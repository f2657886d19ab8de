SPECIFICATION LiveSpec
CONSTANTS
  Prog = {p1, p2, p3}
  c1 = c1
  c2 = c2
  a1 = a1
  Chan = {c1}
  Arr = {}
  Alts <- MCRecvAlts
  NoProg = NoProg
  H = H
  Silence = Silence
  ArrLen = 2
  Quanta = 1
  Lim = 1
  StoresWhileWaiting = FALSE
PROPERTIES
  HangupNoticed
  SendersServed
