----------------------------- MODULE Recursion -----------------------------
(***************************************************************************)
(* Induction over the numbers and functions defined by recursion, for the  *)
(* proofs about searches: of the free tree and of the arenas in DisPool,   *)
(* of a case table in DisCompile, of what can be reached in DisHeap.       *)
(***************************************************************************)
EXTENDS Integers, WellFoundedInduction, TLAPS

\* A set that has 0 and with each number the next has them all.
LEMMA SetInduction ==
  ASSUME NEW T, 0 \in T, \A i \in Nat : i \in T => i + 1 \in T
  PROVE  \A i \in Nat : i \in T
<1> DEFINE B == Nat \ T
<1>1. SUFFICES ASSUME B # {} PROVE FALSE
  OBVIOUS
<1>2. PICK m \in B : \A y \in B : ~(<<y, m>> \in OpToRel(<, Nat))
  <2>1. IsWellFoundedOn(OpToRel(<, Nat), Nat)
    BY NatLessThanWellFounded
  <2>2. B \subseteq Nat
    OBVIOUS
  <2>3. QED
    BY <1>1, <2>1, <2>2, WFMin
<1>3. \A y \in B : ~(y < m)
  BY <1>2 DEF OpToRel
<1>4. CASE m = 0
  BY <1>4
<1>5. CASE m # 0
  <2>1. m - 1 \in Nat /\ m - 1 < m /\ (m - 1) + 1 = m
    BY <1>5
  <2>2. m - 1 \in T
    BY <2>1, <1>3
  <2>3. m \in T
    BY <2>1, <2>2
  <2>. QED
    BY <2>3
<1>. QED
  BY <1>4, <1>5

\* What step makes of t and a function depends on its values of lower rank.
Descends(D, S, rank, step) ==
  \A t \in D : \A g, h \in [D -> S] :
    (\A u \in D : rank[u] < rank[t] => g[u] = h[u]) => step[t][g] = step[t][h]

\* A function made of such steps.
Solves(f, D, step) == \A t \in D : f[t] = step[t][f]

\* There is one.
LEMMA RankRecursion ==
  ASSUME NEW D, NEW S, S # {}, NEW n \in Nat, NEW rank \in [D -> 0 .. n],
         NEW step \in [D -> [[D -> S] -> S]], Descends(D, S, rank, step)
  PROVE  \E f \in [D -> S] : Solves(f, D, step)
<1>0. PICK s0 : s0 \in S
  OBVIOUS
<1> DEFINE T == {k \in Nat : \E f \in [D -> S] : \A t \in D : rank[t] < k => f[t] = step[t][f]}
<1>1. 0 \in T
  <2>1. [t \in D |-> s0] \in [D -> S] /\ \A t \in D : ~(rank[t] < 0)
    BY <1>0
  <2>. QED
    BY <2>1
<1>2. \A k \in Nat : k \in T => k + 1 \in T
  <2>1. SUFFICES ASSUME NEW k \in Nat, k \in T PROVE k + 1 \in T
    OBVIOUS
  <2>2. PICK f \in [D -> S] : \A t \in D : rank[t] < k => f[t] = step[t][f]
    BY <2>1
  <2> DEFINE h == [t \in D |-> IF rank[t] < k THEN f[t] ELSE step[t][f]]
  <2>3. h \in [D -> S] /\ \A t \in D : h[t] = step[t][f]
    BY <2>2
  <2>4. \A u \in D : rank[u] < k => h[u] = f[u]
    OBVIOUS
  <2> HIDE DEF h
  <2>5. ASSUME NEW t \in D, rank[t] < k + 1 PROVE h[t] = step[t][h]
    <3>1. \A u \in D : rank[u] < rank[t] => f[u] = h[u]
      BY <2>4, <2>5
    <3>2. step[t][f] = step[t][h]
      BY <2>3, <3>1 DEF Descends
    <3>. QED
      BY <2>3, <3>2
  <2>. QED
    BY <2>3, <2>5
<1>3. n + 1 \in T
  <2>. HIDE DEF T
  <2>. QED
    BY <1>1, <1>2, SetInduction
<1>4. PICK f \in [D -> S] : \A t \in D : rank[t] < n + 1 => f[t] = step[t][f]
  BY <1>3
<1>5. \A t \in D : rank[t] < n + 1
  OBVIOUS
<1>. QED
  BY <1>4, <1>5 DEF Solves
=============================================================================
