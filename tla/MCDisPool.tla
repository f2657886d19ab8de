----------------------------- MODULE MCDisPool -----------------------------
(***************************************************************************)
(* A small instance of DisPool for TLC: a pool that grows from nothing, or *)
(* one at its limit, whose only arena is fragmented.                       *)
(***************************************************************************)
EXTENDS DisPool, SequencesExt

\* The blocks of an arena of 13 units: the free ones make a tree whose root
\* has two children, the right one with a child on its left.
Fragments ==
  << [at |-> 2, magic |-> "F", size |-> 2], [at |-> 4, magic |-> "A", size |-> 1],
     [at |-> 5, magic |-> "F", size |-> 4], [at |-> 9, magic |-> "A", size |-> 1],
     [at |-> 10, magic |-> "F", size |-> 1], [at |-> 11, magic |-> "A", size |-> 1],
     [at |-> 12, magic |-> "F", size |-> 3] >>

Fragmented ==
  LET Made(f(_), g(_)) ==
        [a \in {f(b) : b \in Range(Fragments)} |->
           g(CHOOSE b \in Range(Fragments) : f(b) = a)]
      T == FoldLeft(LAMBDA t, q : PoolAdd(t, SizeIn(blk), q),
                    [root |-> nil, node |-> << >>], <<2, 5, 10, 12>>)
  IN /\ blk = (1 :> Leader(14, nil)) @@ (15 :> EndMark)
                @@ Made(LAMBDA b : b.at, LAMBDA b : Header(b.magic, b.size))
     /\ tail = (2 :> 1) @@ Made(LAMBDA b : b.at + b.size, LAMBDA b : b.at)
     /\ root = T.root /\ node = T.node
     /\ chain = 1
     /\ cursize = 3 /\ arenasize = 15 /\ maxsize = 15
     /\ brk = 16 /\ lost = 0
     /\ job = [p \in Proc |-> Idle]

\* A pool that grows from nothing serves all Procs; in the fragmented one
\* blocks are freed, and large ones allocated, by one.
MCNext ==
  \/ maxsize \in MaxSizes /\ Next
  \/ /\ maxsize \notin MaxSizes
     /\ \E p \in Proc :
          /\ \A r \in Proc \ {p} : job[r] = Idle
          /\ (\E n \in Sizes \ {1} : PoolAlloc(p, n, nil)) \/ Free(p)

MCSpec == (Init \/ Fragmented) /\ [][MCNext]_vars

Symmetry == Permutations(Proc)
=============================================================================
