----------------------------- MODULE MCVMSched -----------------------------
(***************************************************************************)
(* Small instances of VMSched for TLC.                                     *)
(***************************************************************************)
EXTENDS VMSched, TLC

\* Procs and Progs are interchangeable (safety runs only).
Symmetry == Permutations(Proc) \cup Permutations(Prog)

\* Liveness is checked without symmetry; which Proc and which Prog come
\* first is all that Init leaves open, and the choice of it loses nothing.
LiveInit ==
  /\ Init
  /\ pc[CHOOSE p \in Proc : TRUE] = "startup"
  /\ runq = <<CHOOSE g \in Prog : TRUE>>

LiveSpec == LiveInit /\ [][Next]_vars /\ Fairness
=============================================================================
