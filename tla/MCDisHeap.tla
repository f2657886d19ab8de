----------------------------- MODULE MCDisHeap -----------------------------
(***************************************************************************)
(* Small instances of DisHeap for TLC.                                     *)
(***************************************************************************)
EXTENDS DisHeap, TLC

\* Progs are interchangeable (safety runs only); blocks are not, they have
\* an order.
Symmetry == Permutations(Prog)

\* A full heap: the frame holds an object that holds the only reference to a
\* module, whose data holds an object.  (The program has executed NewAdt and
\* Load, called the module, which executed NewAdt, and has returned.)
LoadedInit ==
  /\ blocks = Obj
  /\ kind = <<"modlink", "adt", "adt", "modlink", "adt">>
  /\ ref = <<1, 1, 1, 1, 1>>
  /\ fld = <<<<H>>, <<H>>, <<4>>, <<5>>, <<2>>>>
  /\ stk = [p \in Prog |-> <<[slot |-> <<3>>, mr |-> H]>>]
  /\ M = [p \in Prog |-> 1]
  /\ color = [o \in Obj |-> 0]
  /\ built = [p \in Prog |-> FALSE]
  /\ todo = <<>> /\ walk = H
  /\ ptr = 1 /\ mutator = 0 /\ nprop = FALSE /\ epochs = 0

\* The steps of Next that a call of that module needs.
LoadedNext ==
  \/ \E p \in Prog : (NewFrame(p) \/ Movp(p) \/ Mcall(p)) /\ Bounded
  \/ Destroy \/ RunGC

LoadedSpec == LoadedInit /\ [][LoadedNext]_vars
=============================================================================
