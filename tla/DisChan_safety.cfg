SPECIFICATION Spec
CONSTANTS
  Prog = {p1, p2, p3}
  c1 = c1
  c2 = c2
  a1 = a1
  Chan <- MCChan
  Arr <- MCArr
  Alts <- MCAlts
  NoProg = NoProg
  H = H
  Silence = Silence
  ArrLen = 2
  Quanta = 2
  Lim = 1
  StoresWhileWaiting = FALSE
SYMMETRY Symmetry
INVARIANTS
  TypeOK
  ReadyOnce
  WaitersQueued
  AltMarks
  NoMissedMeeting
  AltCountsAgree
PROPERTIES
  ImplementsRendezvous
