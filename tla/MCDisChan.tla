----------------------------- MODULE MCDisChan -----------------------------
(***************************************************************************)
(* Small instances of DisChan for TLC.                                     *)
(***************************************************************************)
EXTENDS DisChan, TLC

CONSTANTS c1, c2, a1

MCChan == {c1, c2}
MCArr == {a1}

\* Alternatives in both directions, on one channel and on two, an array, and
\* what altrdy refuses: a nil channel, the same channel twice.
MCAlts ==
  {[sends |-> <<c1>>, recvs |-> <<c2>>],
   [sends |-> <<c1, c2>>, recvs |-> <<>>],
   [sends |-> <<>>, recvs |-> <<c1, c2>>],
   [sends |-> <<c2>>, recvs |-> <<a1>>],
   [sends |-> <<c1>>, recvs |-> <<c1>>],
   [sends |-> <<c1, H>>, recvs |-> <<>>]}

\* One channel, for liveness: alts that receive.
MCRecvAlts == {[sends |-> <<>>, recvs |-> <<c1>>]}

\* An alt on an array, for stores into the array while it waits.
MCArrAlts == {[sends |-> <<>>, recvs |-> <<a1>>]}

\* Progs are interchangeable (safety runs only).
Symmetry == Permutations(Prog)

\* Liveness is checked without symmetry; which Prog is first loses nothing.
LiveInit == Init /\ runq = <<CHOOSE p \in Prog : TRUE>>

LiveSpec == LiveInit /\ [][Next]_vars /\ Fairness
=============================================================================
