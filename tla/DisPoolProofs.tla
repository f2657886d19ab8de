---------------------------- MODULE DisPoolProofs ----------------------------
(***************************************************************************)
(* The allocator of DisPool, for every set of Procs, of sizes and of       *)
(* limits: its blocks tile its arenas, its free tree finds the smallest    *)
(* free block that is large enough, and its books are right.               *)
(***************************************************************************)
EXTENDS DisPool, Recursion, FiniteSetTheorems, TLAPS

-----------------------------------------------------------------------------
(***************************************************************************)
(* The free tree of DisPool: what pooladd and pooldel keep of its shape,   *)
(* order, parents and rings, and what the search of poolalloc finds in it, *)
(* for trees of any blocks.                                                *)
(*                                                                         *)
(* D are its nodes, N their links and r the root.  Sub gives the nodes at  *)
(* and below each one.                                                     *)
(***************************************************************************)
NodeSet(D) ==
  [left : D \cup {nil}, right : D \cup {nil}, parent : D \cup {nil}, fwd : D, prev : D]

Linked(D, N, r) ==
  /\ IsFiniteSet(D) /\ nil \notin D
  /\ N \in [D -> NodeSet(D)] /\ r \in D \cup {nil}

Subtrees(D, N, Sub) ==
  /\ Sub \in [D \cup {nil} -> SUBSET D] /\ Sub[nil] = {}
  /\ \A t \in D : Sub[t] = {t} \cup Sub[N[t].left] \cup Sub[N[t].right]

\* The nodes of a subtree are on the right side by size.
Ordered(D, N, size, Sub) ==
  /\ \A t \in D : size[t] \in Nat
  /\ \A t \in D : \A q \in Sub[N[t].left] : size[q] < size[t]
  /\ \A t \in D : \A q \in Sub[N[t].right] : size[t] < size[q]

\* Children know their parents, and no others have one.
Parents(D, N, r, Sub) ==
  /\ \A t \in D : N[t].left # nil => N[N[t].left].parent = t
  /\ \A t \in D : N[t].right # nil => N[N[t].right].parent = t
  /\ r # nil => N[r].parent = nil
  /\ \A t \in D : N[t].parent # nil => N[N[t].parent].left = t \/ N[N[t].parent].right = t
  /\ \A t \in D : t \notin Sub[r] => N[t].parent = nil /\ N[t].left = nil /\ N[t].right = nil

\* Each size has its node in the tree.
Sized(D, r, size, Sub) == \A t \in D : \E h \in Sub[r] : size[h] = size[t]

Shape(D, N, r, size, Sub) ==
  /\ Linked(D, N, r)
  /\ Subtrees(D, N, Sub)
  /\ Ordered(D, N, size, Sub)
  /\ Parents(D, N, r, Sub)
  /\ Sized(D, r, size, Sub)

\* The blocks of a size are on one ring.
OneRing(D, N, size) ==
  /\ \A t \in D : N[N[t].fwd].prev = t /\ N[N[t].prev].fwd = t /\ size[N[t].fwd] = size[t]
  /\ \A t \in D : \A S \in SUBSET D :
       t \in S /\ (\A q \in S : N[q].fwd \in S) => \A q \in D : size[q] = size[t] => q \in S

\* What is true of all nodes when it is true of those whose children it is
\* true of.
LEMMA TreeInduction ==
  ASSUME NEW D, NEW N, NEW r, NEW size, NEW Sub,
         Linked(D, N, r), Subtrees(D, N, Sub), Ordered(D, N, size, Sub),
         NEW S, \A t \in D : N[t].left \in S \cup {nil} /\ N[t].right \in S \cup {nil} => t \in S
  PROVE  D \subseteq S
<1>1. ASSUME NEW t \in D
      PROVE  /\ IsFiniteSet(Sub[t]) /\ Cardinality(Sub[t]) \in Nat
             /\ N[t].left \in D \cup {nil} /\ N[t].right \in D \cup {nil}
             /\ Sub[N[t].left] \subseteq Sub[t] \ {t} /\ Sub[N[t].right] \subseteq Sub[t] \ {t} /\ t \in Sub[t]
  <2>1. N[t] \in NodeSet(D) /\ Sub[t] \in SUBSET D /\ IsFiniteSet(D)
    BY DEF Linked, Subtrees
  <2>2. N[t].left \in D \cup {nil} /\ N[t].right \in D \cup {nil}
    BY <2>1 DEF NodeSet
  <2>3. Sub[t] = {t} \cup Sub[N[t].left] \cup Sub[N[t].right]
    BY DEF Subtrees
  <2>4. t \notin Sub[N[t].left] /\ t \notin Sub[N[t].right]
    <3>1. size[t] \in Nat /\ ~(size[t] < size[t])
      BY DEF Ordered
    <3>. QED
      BY <3>1 DEF Ordered
  <2>. QED
    BY <2>1, <2>2, <2>3, <2>4, FS_Subset, FS_CardinalityType
<1>2. ASSUME NEW t \in D, NEW c \in D, Sub[c] \subseteq Sub[t] \ {t}
      PROVE  Cardinality(Sub[c]) <= Cardinality(Sub[t]) - 1
  <2>1. IsFiniteSet(Sub[t]) /\ t \in Sub[t]
    BY <1>1
  <2>2. IsFiniteSet(Sub[t] \ {t}) /\ Cardinality(Sub[t] \ {t}) = Cardinality(Sub[t]) - 1
    BY <2>1, FS_RemoveElement
  <2>. QED
    BY <1>2, <2>2, FS_Subset
<1> DEFINE T == {k \in Nat : \A t \in D : Cardinality(Sub[t]) <= k => t \in S}
<1>3. 0 \in T
  <2>1. ASSUME NEW t \in D PROVE ~(Cardinality(Sub[t]) <= 0)
    <3>1. Cardinality(Sub[t]) # 0
      BY <1>1, FS_EmptySet
    <3>. QED
      BY <1>1, <3>1
  <2>. QED
    BY <2>1
<1>4. \A k \in Nat : k \in T => k + 1 \in T
  <2>1. SUFFICES ASSUME NEW k \in Nat, \A t \in D : Cardinality(Sub[t]) <= k => t \in S,
                        NEW t \in D, Cardinality(Sub[t]) <= k + 1
                 PROVE  t \in S
    OBVIOUS
  <2>2. ASSUME NEW c \in {N[t].left, N[t].right}, c # nil PROVE c \in S
    <3>1. c \in D /\ Sub[c] \subseteq Sub[t] \ {t}
      BY <1>1, <2>2
    <3>2. Cardinality(Sub[c]) <= Cardinality(Sub[t]) - 1
      BY <1>2, <3>1
    <3>3. Cardinality(Sub[c]) \in Nat /\ Cardinality(Sub[t]) \in Nat
      BY <1>1, <3>1
    <3>. QED
      BY <2>1, <3>1, <3>2, <3>3
  <2>. QED
    BY <2>2
<1>5. ASSUME NEW t \in D PROVE t \in S
  <2>1. Cardinality(Sub[t]) \in T
    <3> HIDE DEF T
    <3>1. Cardinality(Sub[t]) \in Nat
      BY <1>1
    <3>. QED
      BY <1>3, <1>4, <3>1, SetInduction
  <2>2. Cardinality(Sub[t]) \in Nat
    BY <1>1
  <2>. QED
    BY <2>1, <2>2
<1>. QED
  BY <1>5

\* The links of a node, and where it is not.
LEMMA NodeFacts ==
  ASSUME NEW D, NEW N, NEW r, NEW size, NEW Sub, Shape(D, N, r, size, Sub), NEW t \in D
  PROVE  /\ N[t] \in NodeSet(D)
         /\ N[t].left \in D \cup {nil} /\ N[t].right \in D \cup {nil} /\ N[t].parent \in D \cup {nil}
         /\ N[t].fwd \in D /\ N[t].prev \in D
         /\ t # nil /\ Sub[t] \subseteq D /\ t \in Sub[t]
         /\ Sub[t] = {t} \cup Sub[N[t].left] \cup Sub[N[t].right]
         /\ t \notin Sub[N[t].left] /\ t \notin Sub[N[t].right]
         /\ Sub[N[t].left] \cap Sub[N[t].right] = {}
         /\ size[t] \in Nat
<1>1. N[t] \in NodeSet(D) /\ t # nil
  BY DEF Shape, Linked
<1>2. /\ N[t].left \in D \cup {nil} /\ N[t].right \in D \cup {nil} /\ N[t].parent \in D \cup {nil}
      /\ N[t].fwd \in D /\ N[t].prev \in D
  BY <1>1 DEF NodeSet
<1>3. Sub[t] = {t} \cup Sub[N[t].left] \cup Sub[N[t].right] /\ Sub[t] \subseteq D
  BY DEF Shape, Subtrees
<1>4. /\ \A q \in Sub[N[t].left] : size[q] < size[t]
      /\ \A q \in Sub[N[t].right] : size[t] < size[q]
      /\ size[t] \in Nat /\ \A q \in D : size[q] \in Nat
  BY DEF Shape, Ordered
<1>5. t \notin Sub[N[t].left] /\ t \notin Sub[N[t].right]
  BY <1>4
<1>6. Sub[N[t].left] \cap Sub[N[t].right] = {}
  <2>1. SUFFICES ASSUME NEW q \in Sub[N[t].left], q \in Sub[N[t].right] PROVE FALSE
    OBVIOUS
  <2>2. q \in D
    BY <1>3, <2>1
  <2>. QED
    BY <1>4, <2>1, <2>2
<1>. QED
  BY <1>1, <1>2, <1>3, <1>4, <1>5, <1>6

\* A subtree has the subtrees of its nodes.
LEMMA SubtreeIn ==
  ASSUME NEW D, NEW N, NEW r, NEW size, NEW Sub, Shape(D, N, r, size, Sub),
         NEW t \in D, NEW u \in Sub[t]
  PROVE  Sub[u] \subseteq Sub[t]
<1> DEFINE S == {x \in D : \A v \in Sub[x] : Sub[v] \subseteq Sub[x]}
<1>1. ASSUME NEW x \in D, N[x].left \in S \cup {nil}, N[x].right \in S \cup {nil} PROVE x \in S
  <2>1. SUFFICES ASSUME NEW v \in Sub[x] PROVE Sub[v] \subseteq Sub[x]
    OBVIOUS
  <2>2. Sub[x] = {x} \cup Sub[N[x].left] \cup Sub[N[x].right]
    BY NodeFacts
  <2>3. Sub[nil] = {}
    BY DEF Shape, Subtrees
  <2>4. ASSUME NEW c \in {N[x].left, N[x].right}, v \in Sub[c] PROVE Sub[v] \subseteq Sub[c]
    BY <1>1, <2>3, <2>4
  <2>. QED
    BY <2>2, <2>4
<1>2. Linked(D, N, r) /\ Subtrees(D, N, Sub) /\ Ordered(D, N, size, Sub)
  BY DEF Shape
<1>3. D \subseteq S
  <2> HIDE DEF S
  <2>. QED
    BY <1>1, <1>2, TreeInduction
<1>. QED
  BY <1>3

\* No child of a node of a subtree has its root below it.
LEMMA NotAbove ==
  ASSUME NEW D, NEW N, NEW r, NEW size, NEW Sub, Shape(D, N, r, size, Sub),
         NEW x \in D, NEW a \in Sub[x]
  PROVE  x \notin Sub[N[a].left] /\ x \notin Sub[N[a].right]
<1>1. /\ Sub[x] = {x} \cup Sub[N[x].left] \cup Sub[N[x].right] /\ Sub[x] \subseteq D
      /\ x \notin Sub[N[x].left] /\ x \notin Sub[N[x].right]
  BY NodeFacts
<1>2. a = x \/ x \notin Sub[a]
  <2>1. CASE a # x
    <3>1. a \in Sub[N[x].left] \/ a \in Sub[N[x].right]
      BY <1>1, <2>1
    <3>2. \E c \in {N[x].left, N[x].right} : a \in Sub[c] /\ c \in D
      BY <3>1, NodeFacts DEF Shape, Subtrees
    <3>3. \E c \in {N[x].left, N[x].right} : Sub[a] \subseteq Sub[c]
      BY <3>2, SubtreeIn
    <3>. QED
      BY <3>3, <1>1
  <2>. QED
    BY <2>1
<1>3. Sub[a] = {a} \cup Sub[N[a].left] \cup Sub[N[a].right]
  BY <1>1, NodeFacts
<1>. QED
  BY <1>1, <1>2, <1>3

\* A node of a subtree that is not its root has its parent there.
LEMMA ParentIn ==
  ASSUME NEW D, NEW N, NEW r, NEW size, NEW Sub, Shape(D, N, r, size, Sub),
         NEW t \in D, NEW u \in Sub[t], u # t
  PROVE  N[u].parent \in Sub[t] /\ N[u].parent # nil
<1> DEFINE S == {x \in D : \A v \in Sub[x] : v # x => N[v].parent \in Sub[x]}
<1>1. ASSUME NEW x \in D, N[x].left \in S \cup {nil}, N[x].right \in S \cup {nil} PROVE x \in S
  <2>1. SUFFICES ASSUME NEW v \in Sub[x], v # x PROVE N[v].parent \in Sub[x]
    OBVIOUS
  <2>2. Sub[x] = {x} \cup Sub[N[x].left] \cup Sub[N[x].right]
    BY NodeFacts
  <2>3. Sub[nil] = {}
    BY DEF Shape, Subtrees
  <2>4. ASSUME NEW c \in {N[x].left, N[x].right}, v \in Sub[c] PROVE N[v].parent \in Sub[x]
    <3>1. c \in S /\ c # nil /\ Sub[c] \subseteq Sub[x]
      BY <1>1, <2>2, <2>3, <2>4
    <3>2. N[c].parent = x
      BY <2>4, <3>1 DEF Shape, Parents
    <3>. QED
      BY <2>1, <2>2, <2>4, <3>1, <3>2
  <2>. QED
    BY <2>1, <2>2, <2>4
<1>2. Linked(D, N, r) /\ Subtrees(D, N, Sub) /\ Ordered(D, N, size, Sub)
  BY DEF Shape
<1>3. D \subseteq S
  <2> HIDE DEF S
  <2>. QED
    BY <1>1, <1>2, TreeInduction
<1>4. N[u].parent \in Sub[t]
  BY <1>3
<1>5. Sub[t] \subseteq D /\ nil \notin D
  BY NodeFacts DEF Shape, Linked
<1>. QED
  BY <1>4, <1>5

\* The nodes of a subtree have different sizes.
LEMMA SizesDiffer ==
  ASSUME NEW D, NEW N, NEW r, NEW size, NEW Sub, Shape(D, N, r, size, Sub),
         NEW t \in D, NEW u \in Sub[t], NEW w \in Sub[t], size[u] = size[w]
  PROVE  u = w
<1> DEFINE S == {x \in D : \A v, y \in Sub[x] : size[v] = size[y] => v = y}
<1>1. ASSUME NEW x \in D, N[x].left \in S \cup {nil}, N[x].right \in S \cup {nil} PROVE x \in S
  <2>1. SUFFICES ASSUME NEW v \in Sub[x], NEW y \in Sub[x], size[v] = size[y] PROVE v = y
    OBVIOUS
  <2>2. Sub[x] = {x} \cup Sub[N[x].left] \cup Sub[N[x].right] /\ Sub[x] \subseteq D
    BY NodeFacts
  <2>3. Sub[nil] = {}
    BY DEF Shape, Subtrees
  <2>4. /\ \A q \in Sub[N[x].left] : size[q] < size[x]
        /\ \A q \in Sub[N[x].right] : size[x] < size[q]
        /\ \A q \in D : size[q] \in Nat
    BY DEF Shape, Ordered
  <2>5. ASSUME NEW c \in {N[x].left, N[x].right}, v \in Sub[c], y \in Sub[c] PROVE v = y
    BY <1>1, <2>1, <2>3, <2>5
  <2>6. v \in D /\ y \in D
    BY <2>2
  <2>. QED
    BY <2>1, <2>2, <2>4, <2>5, <2>6
<1>2. Linked(D, N, r) /\ Subtrees(D, N, Sub) /\ Ordered(D, N, size, Sub)
  BY DEF Shape
<1>3. D \subseteq S
  <2> HIDE DEF S
  <2>. QED
    BY <1>1, <1>2, TreeInduction
<1>. QED
  BY <1>3

\* What step makes of t and a function depends on its values at t's children.
FromChildren(E, N, S, step) ==
  \A t \in E : \A g, h \in [E -> S] :
    (t # nil => g[N[t].left] = h[N[t].left] /\ g[N[t].right] = h[N[t].right])
      => step[t][g] = step[t][h]

\* A recursion on the children of a node has a solution.
LEMMA TreeRecursion ==
  ASSUME NEW D, NEW N, NEW r, NEW size, NEW Sub, Shape(D, N, r, size, Sub),
         NEW E, E = D \cup {nil}, NEW S, S # {}, NEW step \in [E -> [[E -> S] -> S]],
         FromChildren(E, N, S, step)
  PROVE  \E f \in [E -> S] : Solves(f, E, step)
<1> DEFINE n == Cardinality(D)
           rank == [t \in E |-> Cardinality(Sub[t])]
<1>1. IsFiniteSet(D) /\ nil \notin D /\ n \in Nat
  BY FS_CardinalityType DEF Shape, Linked
<1>2. ASSUME NEW t \in E PROVE IsFiniteSet(Sub[t]) /\ Cardinality(Sub[t]) \in 0 .. n
  <2>1. Sub[t] \subseteq D
    BY DEF Shape, Subtrees
  <2>2. IsFiniteSet(Sub[t]) /\ Cardinality(Sub[t]) <= n
    BY <1>1, <2>1, FS_Subset
  <2>3. Cardinality(Sub[t]) \in Nat
    BY <2>2, FS_CardinalityType
  <2>. QED
    BY <1>1, <2>2, <2>3
<1>3. rank \in [E -> 0 .. n]
  BY <1>2
<1>4. ASSUME NEW t \in D, NEW c \in {N[t].left, N[t].right} PROVE c \in E /\ rank[c] < rank[t]
  <2>1. t \in Sub[t] /\ Sub[c] \subseteq Sub[t] \ {t} /\ c \in E
    BY NodeFacts
  <2>2. IsFiniteSet(Sub[t] \ {t}) /\ Cardinality(Sub[t] \ {t}) = Cardinality(Sub[t]) - 1
    BY <1>2, <2>1, FS_RemoveElement
  <2>3. Cardinality(Sub[c]) <= Cardinality(Sub[t]) - 1
    BY <2>1, <2>2, FS_Subset
  <2>4. Cardinality(Sub[c]) \in 0 .. n /\ Cardinality(Sub[t]) \in 0 .. n
    BY <1>2, <2>1
  <2>5. rank[c] = Cardinality(Sub[c]) /\ rank[t] = Cardinality(Sub[t])
    BY <2>1
  <2> HIDE DEF rank
  <2>. QED
    BY <2>1, <2>3, <2>4, <2>5, <1>1
<1>5. ASSUME NEW t \in E, NEW g \in [E -> S], NEW h \in [E -> S],
             \A u \in E : rank[u] < rank[t] => g[u] = h[u]
      PROVE  step[t][g] = step[t][h]
  <2>1. ASSUME t # nil PROVE g[N[t].left] = h[N[t].left] /\ g[N[t].right] = h[N[t].right]
    <3> HIDE DEF rank
    <3>. QED
      BY <1>4, <1>5, <2>1
  <2>. QED
    BY <1>5, <2>1 DEF FromChildren
<1> HIDE DEF n, rank
<1>6. Descends(E, S, rank, step)
  BY <1>5 DEF Descends
<1>. QED
  BY <1>1, <1>3, <1>6, RankRecursion

\* What the descent of Place does at each node.
PlaceStep(D, N, size, n, f) ==
  \A t \in D :
    f[t] = LET next == IF n < size[t] THEN N[t].left ELSE N[t].right
           IN IF size[t] = n \/ next = nil THEN t ELSE f[next]

\* Place is what its recursion says.
LEMMA PlaceRecursion ==
  ASSUME NEW D, NEW N, NEW r, NEW size, NEW Sub, Shape(D, N, r, size, Sub), NEW n
  PROVE  \E f : PlaceStep(D, N, size, n, f) /\ Place([root |-> r, node |-> N], size, n) = f[r]
<1> DEFINE E == D \cup {nil}
           next(t) == IF n < size[t] THEN N[t].left ELSE N[t].right
           body(t, g) == IF t = nil THEN nil
                         ELSE IF size[t] = n \/ next(t) = nil THEN t ELSE g[next(t)]
           step == [t \in E |-> [g \in [E -> E] |-> body(t, g)]]
<1>1. ASSUME NEW t \in D PROVE next(t) \in E
  BY NodeFacts
<1>2. step \in [E -> [[E -> E] -> E]]
  BY <1>1
<1>3. FromChildren(E, N, E, step)
  BY DEF FromChildren
<1>4. \A t \in E : \A g \in [E -> E] : step[t][g] = body(t, g)
  OBVIOUS
<1>5. E # {} /\ E = D \cup {nil}
  OBVIOUS
<1> HIDE DEF step, next, E
<1>6. PICK f \in [E -> E] : Solves(f, E, step)
  BY <1>2, <1>3, <1>5, TreeRecursion
<1> USE DEF E, next
<1>7. \A t \in E : f[t] = body(t, f)
  BY <1>4, <1>6 DEF Solves
<1> DEFINE Down[t \in D] ==
             LET nx == IF n < size[t] THEN N[t].left ELSE N[t].right
             IN IF size[t] = n \/ nx = nil THEN t ELSE Down[nx]
           g == [t \in D |-> f[t]]
<1>8. Down = [t \in D |-> LET nx == IF n < size[t] THEN N[t].left ELSE N[t].right
                          IN IF size[t] = n \/ nx = nil THEN t ELSE Down[nx]]
  <2>1. ASSUME NEW t \in D PROVE g[t] = IF size[t] = n \/ next(t) = nil THEN t ELSE g[next(t)]
    <3>1. t # nil
      BY DEF Shape, Linked
    <3>2. next(t) # nil => next(t) \in D
      BY <1>1
    <3> HIDE DEF next
    <3>. QED
      BY <1>7, <3>1, <3>2
  <2>2. g = [t \in D |-> LET nx == IF n < size[t] THEN N[t].left ELSE N[t].right
                         IN IF size[t] = n \/ nx = nil THEN t ELSE g[nx]]
    BY <2>1
  <2> HIDE DEF g
  <2>. QED
    BY <2>2
<1>9. Place([root |-> r, node |-> N], size, n) = Down[r]
  <2>1. DOMAIN N = D
    BY DEF Shape, Linked
  <2>. QED
    BY <2>1 DEF Place
<1> HIDE DEF Down
<1>. QED
  BY <1>8, <1>9 DEF PlaceStep

\* p is a node of size n if there is any, else the one whose child a block of
\* size n becomes.
Placed(p, D, N, r, size, Sub, n) ==
  /\ p \in Sub[r] /\ p \in D
  /\ size[p] = n \/ (n < size[p] /\ N[p].left = nil) \/ (size[p] < n /\ N[p].right = nil)
  /\ \A a \in D : p \in Sub[N[a].left] => n < size[a]
  /\ \A a \in D : p \in Sub[N[a].right] => size[a] < n
  /\ \A h \in D : size[h] = n => size[p] = n

\* Place comes to that node.
LEMMA PlaceIs ==
  ASSUME NEW D, NEW N, NEW r, NEW size, NEW Sub, Shape(D, N, r, size, Sub), NEW n \in Nat, r # nil
  PROVE  Placed(Place([root |-> r, node |-> N], size, n), D, N, r, size, Sub, n)
<1> DEFINE p == Place([root |-> r, node |-> N], size, n)
<1>1. PICK f : PlaceStep(D, N, size, n, f) /\ p = f[r]
  BY PlaceRecursion
<1> HIDE DEF p
<1> DEFINE Ends(t) == size[t] = n \/ (n < size[t] /\ N[t].left = nil) \/ (size[t] < n /\ N[t].right = nil)
           Aside(t, x) == /\ \A a \in Sub[x] : t \in Sub[N[a].left] => n < size[a]
                          /\ \A a \in Sub[x] : t \in Sub[N[a].right] => size[a] < n
           Good(t, x) == t \in Sub[x] /\ Ends(t) /\ Aside(t, x) /\ \A h \in Sub[x] : size[h] = n => t = h
           S == {x \in D : Good(f[x], x)}
<1>2. Sub[nil] = {} /\ r \in D
  BY DEF Shape, Subtrees, Linked
<1>3. ASSUME NEW x \in D, N[x].left \in S \cup {nil}, N[x].right \in S \cup {nil} PROVE x \in S
  <2>1. /\ Sub[x] = {x} \cup Sub[N[x].left] \cup Sub[N[x].right] /\ Sub[x] \subseteq D
        /\ x \notin Sub[N[x].left] /\ x \notin Sub[N[x].right]
        /\ Sub[N[x].left] \cap Sub[N[x].right] = {}
    BY NodeFacts
  <2>2. /\ \A u \in Sub[N[x].left] : size[u] < size[x]
        /\ \A u \in Sub[N[x].right] : size[x] < size[u]
        /\ \A u \in D : size[u] \in Nat
    BY DEF Shape, Ordered
  <2> DEFINE next == IF n < size[x] THEN N[x].left ELSE N[x].right
  <2>3. CASE size[x] = n
    <3>1. f[x] = x
      BY <1>1, <2>3 DEF PlaceStep
    <3>2. \A h \in Sub[x] : size[h] = n => h = x
      BY <2>1, <2>3, SizesDiffer
    <3>3. ASSUME NEW a \in Sub[x] PROVE x \notin Sub[N[a].left] /\ x \notin Sub[N[a].right]
      BY NotAbove
    <3>. QED
      BY <3>1, <3>2, <3>3, <2>1, <2>3
  <2>4. CASE size[x] # n /\ next = nil
    <3>1. f[x] = x
      BY <1>1, <2>4 DEF PlaceStep
    <3>2. Ends(x)
      BY <2>2, <2>4
    <3>3. \A h \in Sub[x] : size[h] # n
      <4>1. \A h \in Sub[x] : h \in D
        BY <2>1
      <4>. QED
        BY <2>1, <2>2, <2>4, <1>2, <4>1
    <3>4. ASSUME NEW a \in Sub[x] PROVE x \notin Sub[N[a].left] /\ x \notin Sub[N[a].right]
      BY NotAbove
    <3>. QED
      BY <3>1, <3>2, <3>3, <3>4, <2>1
  <2>5. CASE size[x] # n /\ next # nil
    <3>1. f[x] = f[next] /\ next \in S /\ next \in D /\ next \in {N[x].left, N[x].right}
      BY <1>1, <1>3, <2>5 DEF PlaceStep
    <3>2. Good(f[next], next)
      BY <3>1
    <3> DEFINE p2 == f[next]
    <3>3. p2 \in Sub[x] /\ Ends(p2) /\ Sub[next] \subseteq Sub[x]
      BY <3>1, <3>2, <2>1
    <3>4. \A h \in Sub[x] : size[h] = n => p2 = h
      <4>1. \A h \in Sub[x] : size[h] = n => h \in Sub[next]
        <5>1. \A h \in Sub[x] : h \in D
          BY <2>1
        <5>. QED
          BY <2>1, <2>2, <2>5, <5>1
      <4>. QED
        BY <4>1, <3>2
    <3>5. ASSUME NEW a \in Sub[x]
          PROVE  (p2 \in Sub[N[a].left] => n < size[a]) /\ (p2 \in Sub[N[a].right] => size[a] < n)
      <4>1. CASE a \in Sub[next]
        BY <4>1, <3>2
      <4>2. CASE a = x
        <5>1. n < size[x] => p2 \in Sub[N[x].left]
          BY <3>2
        <5>2. ~(n < size[x]) => p2 \in Sub[N[x].right] /\ size[x] < n
          BY <3>2, <2>5, <2>2
        <5>. QED
          BY <4>2, <5>1, <5>2, <2>1
      <4>3. CASE a # x /\ a \notin Sub[next]
        <5>1. PICK c \in {N[x].left, N[x].right} : a \in Sub[c] /\ c # next
          BY <4>3, <2>1
        <5>2. c \in D /\ a \in D
          BY <5>1, <1>2, NodeFacts
        <5>3. Sub[a] \subseteq Sub[c] /\ Sub[c] \cap Sub[next] = {}
          BY <5>1, <5>2, <2>1, <3>1, SubtreeIn
        <5>4. Sub[a] = {a} \cup Sub[N[a].left] \cup Sub[N[a].right]
          BY <5>2, NodeFacts
        <5>. QED
          BY <5>3, <5>4, <3>2
      <4>. QED
        BY <4>1, <4>2, <4>3
    <3>. QED
      BY <3>1, <3>3, <3>4, <3>5
  <2>. QED
    BY <2>3, <2>4, <2>5
<1>4. D \subseteq S
  <2> HIDE DEF S
  <2>1. Linked(D, N, r) /\ Subtrees(D, N, Sub) /\ Ordered(D, N, size, Sub)
    BY DEF Shape
  <2>. QED
    BY <1>3, <2>1, TreeInduction
<1>5. Good(p, r)
  BY <1>1, <1>2, <1>4
<1>6. Sub[r] \subseteq D
  BY <1>2, NodeFacts
<1>7. \A a \in D : a \notin Sub[r] => Sub[N[a].left] = {} /\ Sub[N[a].right] = {}
  BY <1>2 DEF Shape, Parents
<1>8. \A h \in D : size[h] = n => \E k \in Sub[r] : size[k] = n
  BY DEF Shape, Sized
<1>. QED
  BY <1>5, <1>6, <1>7, <1>8 DEF Placed, p

\* Adding q to an empty tree.
LEMMA AddFirst ==
  ASSUME NEW size, NEW q, q # nil, size[q] \in Nat,
         NEW N2, N2 = At(q, [left |-> nil, right |-> nil, parent |-> nil, fwd |-> q, prev |-> q]),
         NEW Sub2, Sub2 = [x \in {q, nil} |-> IF x = q THEN {q} ELSE {}]
  PROVE  Shape({q}, N2, q, size, Sub2) /\ OneRing({q}, N2, size)
<1>1. N2 = [x \in {q} |-> [left |-> nil, right |-> nil, parent |-> nil, fwd |-> q, prev |-> q]]
  BY DEF At
<1>2. /\ N2[q].left = nil /\ N2[q].right = nil /\ N2[q].parent = nil /\ N2[q].fwd = q /\ N2[q].prev = q
      /\ Sub2[nil] = {} /\ Sub2[q] = {q} /\ Sub2 \in [{q} \cup {nil} -> SUBSET {q}]
  BY <1>1
<1>3. Linked({q}, N2, q)
  <2>1. IsFiniteSet({q})
    BY FS_Singleton
  <2>2. N2 \in [{q} -> NodeSet({q})]
    BY <1>1 DEF NodeSet
  <2>. QED
    BY <2>1, <2>2 DEF Linked
<1>4. Subtrees({q}, N2, Sub2) /\ Ordered({q}, N2, size, Sub2) /\ Parents({q}, N2, q, Sub2) /\ Sized({q}, q, size, Sub2)
  BY <1>2 DEF Subtrees, Ordered, Parents, Sized
<1>5. OneRing({q}, N2, size)
  BY <1>2 DEF OneRing
<1>. QED
  BY <1>3, <1>4, <1>5 DEF Shape

\* N2 is N with q on the ring of p.
InRing(N2, D, N, p, q) ==
  /\ N2 \in [D \cup {q} -> NodeSet(D \cup {q})]
  /\ \A x \in D : /\ N2[x].left = N[x].left /\ N2[x].right = N[x].right /\ N2[x].parent = N[x].parent
                  /\ N2[x].fwd = IF x = N[p].prev THEN q ELSE N[x].fwd
                  /\ N2[x].prev = IF x = p THEN q ELSE N[x].prev
  /\ N2[q].left = nil /\ N2[q].right = nil /\ N2[q].parent = nil /\ N2[q].fwd = p /\ N2[q].prev = N[p].prev

\* Adding q to the ring of p, which has its size.
LEMMA AddToRing ==
  ASSUME NEW D, NEW N, NEW r, NEW size, NEW Sub, Shape(D, N, r, size, Sub), OneRing(D, N, size),
         NEW q, q \notin D, q # nil, NEW p \in Sub[r], p \in D, size[p] = size[q],
         NEW N2, InRing(N2, D, N, p, q)
  PROVE  \E Sub2 : Shape(D \cup {q}, N2, r, size, Sub2) /\ OneRing(D \cup {q}, N2, size)
<1>0. /\ N2 \in [D \cup {q} -> NodeSet(D \cup {q})]
      /\ \A x \in D : /\ N2[x].left = N[x].left /\ N2[x].right = N[x].right /\ N2[x].parent = N[x].parent
                      /\ N2[x].fwd = IF x = N[p].prev THEN q ELSE N[x].fwd
                      /\ N2[x].prev = IF x = p THEN q ELSE N[x].prev
      /\ N2[q].left = nil /\ N2[q].right = nil /\ N2[q].parent = nil /\ N2[q].fwd = p /\ N2[q].prev = N[p].prev
  BY DEF InRing
<1> USE <1>0
<1> DEFINE Sub2 == [x \in (D \cup {q}) \cup {nil} |-> IF x = q THEN {q} ELSE Sub[x]]
           E == D \cup {q}
<1>1. Linked(D, N, r) /\ Subtrees(D, N, Sub) /\ Ordered(D, N, size, Sub) /\ Parents(D, N, r, Sub) /\ Sized(D, r, size, Sub)
  BY DEF Shape
<1>2. ASSUME NEW x \in D
      PROVE  /\ N[x].left \in D \cup {nil} /\ N[x].right \in D \cup {nil} /\ N[x].parent \in D \cup {nil}
             /\ N[x].fwd \in D /\ N[x].prev \in D /\ x # nil /\ Sub[x] \subseteq D
  BY NodeFacts
<1>3. /\ Sub2[nil] = {} /\ Sub2[q] = {q} /\ Sub2 \in [E \cup {nil} -> SUBSET E]
      /\ \A x \in D \cup {nil} : Sub2[x] = Sub[x]
  BY <1>1 DEF Subtrees
<1> HIDE DEF Sub2
<1>4. Linked(E, N2, r)
  <2>1. IsFiniteSet(E)
    BY <1>1, FS_AddElement DEF Linked
  <2>. QED
    BY <1>1, <2>1 DEF Linked
<1>5. Subtrees(E, N2, Sub2)
  BY <1>1, <1>2, <1>3 DEF Subtrees
<1>6. Ordered(E, N2, size, Sub2)
  BY <1>1, <1>2, <1>3 DEF Ordered
<1>7. Parents(E, N2, r, Sub2)
  <2>1. r \in D \cup {nil} /\ Sub2[r] = Sub[r]
    BY <1>1, <1>3 DEF Linked
  <2>. QED
    <3>1. \A x \in E : x \in D \/ (N2[x].left = nil /\ N2[x].right = nil /\ N2[x].parent = nil)
      OBVIOUS
    <3>2. ASSUME NEW x \in E, x \notin Sub2[r] PROVE N2[x].parent = nil /\ N2[x].left = nil /\ N2[x].right = nil
      BY <1>1, <2>1, <3>1, <3>2 DEF Parents
    <3>3. ASSUME NEW x \in E, N2[x].parent # nil
          PROVE  N2[N2[x].parent].left = x \/ N2[N2[x].parent].right = x
      <4>1. x \in D /\ N2[x].parent = N[x].parent /\ N[x].parent \in D
        BY <1>2, <3>1, <3>3
      <4>. QED
        BY <1>1, <3>3, <4>1 DEF Parents
    <3>4. ASSUME NEW x \in E
          PROVE  (N2[x].left # nil => N2[N2[x].left].parent = x) /\ (N2[x].right # nil => N2[N2[x].right].parent = x)
      BY <1>1, <1>2, <3>1 DEF Parents
    <3>5. r # nil => N2[r].parent = nil
      BY <1>1, <2>1 DEF Parents
    <3>. QED
      BY <3>2, <3>3, <3>4, <3>5 DEF Parents
<1>8. Sized(E, r, size, Sub2)
  <2>1. Sub2[r] = Sub[r]
    BY <1>1, <1>3 DEF Linked
  <2>. QED
    BY <1>1, <2>1 DEF Sized
<1>9. OneRing(E, N2, size)
  <2>1. N[p].prev \in D /\ N[N[p].prev].fwd = p /\ size[N[p].prev] = size[p]
    <3>1. N[p].prev \in D
      BY <1>2
    <3>. QED
      BY <3>1 DEF OneRing
  <2>2. ASSUME NEW x \in E
        PROVE  N2[N2[x].fwd].prev = x /\ N2[N2[x].prev].fwd = x /\ size[N2[x].fwd] = size[x]
    BY <2>1, <1>2, SMTT(20) DEF OneRing
  <2>3. ASSUME NEW x \in E, NEW S \in SUBSET E, x \in S, \A y \in S : N2[y].fwd \in S,
               NEW y \in E, size[y] = size[x]
        PROVE  y \in S
    <3> DEFINE R == S \ {q}
    <3>1. \A z \in R : N[z].fwd \in R
      <4>1. SUFFICES ASSUME NEW z \in R PROVE N[z].fwd \in S
        BY <1>2
      <4>2. CASE z = N[p].prev
        <5>1. q \in S
          BY <2>3, <4>2
        <5>. QED
          BY <5>1, <2>1, <2>3, <4>2
      <4>3. CASE z # N[p].prev
        BY <4>3, <2>3
      <4>. QED
        BY <4>2, <4>3
    <3>2. PICK z \in R : size[z] = size[x]
      <4>1. CASE x = q
        <5>1. p \in S /\ p # q
          BY <4>1, <2>3
        <5>. QED
          BY <5>1, <4>1
      <4>. QED
        BY <4>1, <2>3
    <3>3. z \in D /\ R \in SUBSET D
      OBVIOUS
    <3>4. \A w \in D : size[w] = size[z] => w \in R
      BY <3>1, <3>3 DEF OneRing
    <3>5. size[x] = size[p] => q \in S
      BY <3>2, <3>4, <2>1, <2>3
    <3>. QED
      BY <3>2, <3>4, <3>5, <2>3
  <2>. QED
    BY <2>2, <2>3 DEF OneRing
<1>. QED
  BY <1>4, <1>5, <1>6, <1>7, <1>8, <1>9 DEF Shape

\* N2 is N with q as a child of p.
AsChild(N2, D, N, size, p, q) ==
  /\ N2 \in [D \cup {q} -> NodeSet(D \cup {q})]
  /\ \A x \in D : /\ N2[x].left = IF x = p /\ size[q] < size[p] THEN q ELSE N[x].left
                  /\ N2[x].right = IF x = p /\ ~(size[q] < size[p]) THEN q ELSE N[x].right
                  /\ N2[x].parent = N[x].parent /\ N2[x].fwd = N[x].fwd /\ N2[x].prev = N[x].prev
  /\ N2[q].left = nil /\ N2[q].right = nil /\ N2[q].parent = p /\ N2[q].fwd = q /\ N2[q].prev = q

\* Adding q as a child of p.
LEMMA AddAsChild ==
  ASSUME NEW D, NEW N, NEW r, NEW size, NEW Sub, Shape(D, N, r, size, Sub), OneRing(D, N, size),
         NEW q, q \notin D, q # nil, size[q] \in Nat, NEW p, Placed(p, D, N, r, size, Sub, size[q]),
         size[p] # size[q], NEW N2, AsChild(N2, D, N, size, p, q)
  PROVE  \E Sub2 : Shape(D \cup {q}, N2, r, size, Sub2) /\ OneRing(D \cup {q}, N2, size)
<1>0. /\ N2 \in [D \cup {q} -> NodeSet(D \cup {q})]
      /\ \A x \in D : /\ N2[x].left = IF x = p /\ size[q] < size[p] THEN q ELSE N[x].left
                      /\ N2[x].right = IF x = p /\ ~(size[q] < size[p]) THEN q ELSE N[x].right
                      /\ N2[x].parent = N[x].parent /\ N2[x].fwd = N[x].fwd /\ N2[x].prev = N[x].prev
      /\ N2[q].left = nil /\ N2[q].right = nil /\ N2[q].parent = p /\ N2[q].fwd = q /\ N2[q].prev = q
  BY DEF AsChild
<1>b. /\ p \in Sub[r] /\ p \in D
      /\ \A h \in D : size[h] # size[q]
      /\ (size[q] < size[p] /\ N[p].left = nil) \/ (size[p] < size[q] /\ N[p].right = nil)
      /\ \A a \in D : p \in Sub[N[a].left] => size[q] < size[a]
      /\ \A a \in D : p \in Sub[N[a].right] => size[a] < size[q]
  BY DEF Placed
<1> USE <1>0, <1>b
<1> DEFINE Sub2 == [x \in (D \cup {q}) \cup {nil} |->
                      IF x = q THEN {q} ELSE IF p \in Sub[x] THEN Sub[x] \cup {q} ELSE Sub[x]]
           E == D \cup {q}
<1>1. Linked(D, N, r) /\ Subtrees(D, N, Sub) /\ Ordered(D, N, size, Sub) /\ Parents(D, N, r, Sub) /\ Sized(D, r, size, Sub)
  BY DEF Shape
<1>2. ASSUME NEW x \in D
      PROVE  /\ N[x].left \in D \cup {nil} /\ N[x].right \in D \cup {nil} /\ N[x].parent \in D \cup {nil}
             /\ N[x].fwd \in D /\ N[x].prev \in D /\ x # nil /\ Sub[x] \subseteq D /\ x \in Sub[x]
             /\ Sub[x] = {x} \cup Sub[N[x].left] \cup Sub[N[x].right] /\ size[x] \in Nat
  BY NodeFacts
<1>3. /\ Sub2[nil] = {} /\ Sub2[q] = {q} /\ Sub2 \in [E \cup {nil} -> SUBSET E]
      /\ \A x \in D \cup {nil} : Sub2[x] = IF p \in Sub[x] THEN Sub[x] \cup {q} ELSE Sub[x]
  BY <1>1 DEF Subtrees
<1> HIDE DEF Sub2
<1>4. Linked(E, N2, r)
  <2>1. IsFiniteSet(E)
    BY <1>1, FS_AddElement DEF Linked
  <2>. QED
    BY <1>1, <2>1 DEF Linked
<1>5. /\ size[q] < size[p] => N[p].left = nil /\ N2[p].left = q /\ N2[p].right = N[p].right
      /\ ~(size[q] < size[p]) => size[p] < size[q] /\ N[p].right = nil /\ N2[p].right = q /\ N2[p].left = N[p].left
      /\ p \notin Sub[N[p].left] /\ p \notin Sub[N[p].right] /\ Sub[nil] = {}
      /\ \A x \in D : x # p => N2[x].left = N[x].left /\ N2[x].right = N[x].right
  <2>1. p \notin Sub[N[p].left] /\ p \notin Sub[N[p].right]
    BY NodeFacts
  <2>. QED
    BY <1>1, <1>2, <2>1 DEF Subtrees
<1>a. ASSUME NEW c \in D \cup {nil}, NEW y
      PROVE  y \in Sub2[c] <=> y \in Sub[c] \/ (y = q /\ p \in Sub[c])
  <2>1. Sub2[c] = IF p \in Sub[c] THEN Sub[c] \cup {q} ELSE Sub[c]
    BY <1>3
  <2>. QED
    BY <2>1
<1>6. Subtrees(E, N2, Sub2)
  <2>1. ASSUME NEW x \in D, x # p PROVE Sub2[x] = {x} \cup Sub2[N2[x].left] \cup Sub2[N2[x].right]
    <3>1. N2[x].left = N[x].left /\ N2[x].right = N[x].right /\ N[x].left \in D \cup {nil} /\ N[x].right \in D \cup {nil}
      BY <1>2, <1>5, <2>1
    <3>2. Sub[x] = {x} \cup Sub[N[x].left] \cup Sub[N[x].right]
      BY <1>2
    <3>. QED
      BY <1>a, <2>1, <3>1, <3>2
  <2>2. Sub2[p] = {p} \cup Sub2[N2[p].left] \cup Sub2[N2[p].right]
    <3>1. N[p].left \in D \cup {nil} /\ N[p].right \in D \cup {nil} /\ p \in Sub[p]
      BY <1>2
    <3>2. Sub[p] = {p} \cup Sub[N[p].left] \cup Sub[N[p].right]
      BY <1>2
    <3>3. Sub2[p] = Sub[p] \cup {q} /\ Sub2[N[p].left] = Sub[N[p].left] /\ Sub2[N[p].right] = Sub[N[p].right]
      BY <1>3, <1>5, <3>1
    <3>4. CASE size[q] < size[p]
      BY <3>2, <3>3, <3>4, <1>3, <1>5
    <3>5. CASE ~(size[q] < size[p])
      BY <3>2, <3>3, <3>5, <1>3, <1>5
    <3>. QED
      BY <3>4, <3>5
  <2>3. Sub2[q] = {q} \cup Sub2[N2[q].left] \cup Sub2[N2[q].right]
    BY <1>3
  <2>. QED
    BY <1>3, <2>1, <2>2, <2>3 DEF Subtrees
<1>7. Ordered(E, N2, size, Sub2)
  <2>1. ASSUME NEW x \in D, x # p, NEW y \in Sub2[N2[x].left] PROVE size[y] < size[x]
    <3>1. y \in Sub[N[x].left] \/ (y = q /\ p \in Sub[N[x].left])
      <4>1. N2[x].left = N[x].left /\ N[x].left \in D \cup {nil}
        BY <1>2, <1>5, <2>1
      <4>. QED
        BY <1>a, <2>1, <4>1
    <3>. QED
      BY <1>1, <3>1 DEF Ordered
  <2>2. ASSUME NEW x \in D, x # p, NEW y \in Sub2[N2[x].right] PROVE size[x] < size[y]
    <3>1. y \in Sub[N[x].right] \/ (y = q /\ p \in Sub[N[x].right])
      <4>1. N2[x].right = N[x].right /\ N[x].right \in D \cup {nil}
        BY <1>2, <1>5, <2>2
      <4>. QED
        BY <1>a, <2>2, <4>1
    <3>. QED
      BY <1>1, <3>1 DEF Ordered
  <2>0. /\ N[p].left \in D \cup {nil} /\ N[p].right \in D \cup {nil}
        /\ Sub2[N[p].left] = Sub[N[p].left] /\ Sub2[N[p].right] = Sub[N[p].right]
    BY <1>2, <1>3, <1>5, ZenonT(40)
  <2>3. \A y \in Sub2[N2[p].left] : y \in Sub[N[p].left] \/ (y = q /\ size[q] < size[p])
    BY <2>0, <1>3, <1>5
  <2>4. \A y \in Sub2[N2[p].right] : y \in Sub[N[p].right] \/ (y = q /\ size[p] < size[q])
    BY <2>0, <1>3, <1>5
  <2>5. /\ \A y \in Sub2[N2[p].left] : size[y] < size[p]
        /\ \A y \in Sub2[N2[p].right] : size[p] < size[y]
    BY <1>1, <2>3, <2>4 DEF Ordered
  <2>6. Sub2[N2[q].left] = {} /\ Sub2[N2[q].right] = {}
    BY <1>3
  <2>. QED
    BY <1>2, <2>1, <2>2, <2>5, <2>6 DEF Ordered
<1>8. Parents(E, N2, r, Sub2)
  <2>1. r \in D /\ r # q /\ p \in Sub[r] /\ Sub2[r] = Sub[r] \cup {q}
    BY <1>1, <1>3 DEF Linked, Subtrees
  <2>2. ASSUME NEW x \in E
        PROVE  (N2[x].left # nil => N2[N2[x].left].parent = x) /\ (N2[x].right # nil => N2[N2[x].right].parent = x)
    BY <1>1, <1>2, <1>5 DEF Parents
  <2>3. N2[r].parent = nil
    BY <1>1, <1>2, <2>1 DEF Parents
  <2>4. ASSUME NEW x \in E, N2[x].parent # nil
        PROVE  N2[N2[x].parent].left = x \/ N2[N2[x].parent].right = x
    <3>1. CASE x = q
      BY <3>1, <1>5
    <3>2. CASE x \in D
      <4>1. N2[x].parent = N[x].parent /\ N[x].parent \in D
        BY <1>2, <3>2, <2>4
      <4>2. N[N[x].parent].left = x \/ N[N[x].parent].right = x
        BY <1>1, <2>4, <3>2, <4>1 DEF Parents
      <4>. QED
        BY <1>2, <1>5, <3>2, <4>1, <4>2
    <3>. QED
      BY <3>1, <3>2
  <2>5. ASSUME NEW x \in E, x \notin Sub2[r] PROVE N2[x].parent = nil /\ N2[x].left = nil /\ N2[x].right = nil
    BY <1>1, <2>1, <2>5 DEF Parents
  <2>. QED
    BY <2>2, <2>3, <2>4, <2>5 DEF Parents
<1>9. Sized(E, r, size, Sub2)
  <2>1. Sub2[r] = Sub[r] \cup {q}
    BY <1>1, <1>3 DEF Linked, Subtrees
  <2>. QED
    BY <1>1, <2>1 DEF Sized
<1>10. OneRing(E, N2, size)
  <2>1. ASSUME NEW x \in E
        PROVE  N2[N2[x].fwd].prev = x /\ N2[N2[x].prev].fwd = x /\ size[N2[x].fwd] = size[x]
    BY <1>2, SMTT(20) DEF OneRing
  <2>2. ASSUME NEW x \in E, NEW S \in SUBSET E, x \in S, \A y \in S : N2[y].fwd \in S,
               NEW y \in E, size[y] = size[x]
        PROVE  y \in S
    <3>1. CASE x = q \/ y = q
      BY <2>2, <3>1
    <3>2. CASE x # q /\ y # q
      <4> DEFINE R == S \ {q}
      <4>1. \A z \in R : N[z].fwd \in R
        BY <1>2, <2>2
      <4>2. R \in SUBSET D /\ x \in R /\ x \in D /\ y \in D
        BY <2>2, <3>2
      <4> HIDE DEF R
      <4>3. y \in R
        BY <4>1, <4>2, <2>2 DEF OneRing
      <4>. QED
        BY <4>3 DEF R
    <3>. QED
      BY <3>1, <3>2
  <2>. QED
    BY <2>1, <2>2 DEF OneRing
<1>. QED
  BY <1>4, <1>6, <1>7, <1>8, <1>9, <1>10 DEF Shape

\* T is a free tree of nodes of these sizes.
TreeOK(T, size) ==
  /\ T = [root |-> T.root, node |-> T.node]
  /\ \E Sub : Shape(DOMAIN T.node, T.node, T.root, size, Sub)
  /\ OneRing(DOMAIN T.node, T.node, size)

\* Only the sizes of its nodes matter to a tree.
LEMMA TreeSizes ==
  ASSUME NEW T, NEW size, TreeOK(T, size), NEW size2, \A t \in DOMAIN T.node : size2[t] = size[t]
  PROVE  TreeOK(T, size2)
<1> DEFINE D == DOMAIN T.node
<1>1. PICK Sub : Shape(D, T.node, T.root, size, Sub)
  BY DEF TreeOK
<1>2. ASSUME NEW x \in D \cup {nil} PROVE Sub[x] \subseteq D
  BY <1>1 DEF Shape, Subtrees
<1>3. T.root \in D \cup {nil} /\ \A x \in D : T.node[x].left \in D \cup {nil} /\ T.node[x].right \in D \cup {nil} /\ T.node[x].fwd \in D
  BY <1>1, NodeFacts DEF Shape, Linked
<1>4. Ordered(D, T.node, size2, Sub)
  <2>1. Ordered(D, T.node, size, Sub)
    BY <1>1 DEF Shape
  <2>2. \A x \in D : Sub[T.node[x].left] \subseteq D /\ Sub[T.node[x].right] \subseteq D
    BY <1>2, <1>3
  <2>3. \A x \in D : size2[x] = size[x]
    OBVIOUS
  <2> HIDE DEF D
  <2>. QED
    BY <2>1, <2>2, <2>3 DEF Ordered
<1>5. Sized(D, T.root, size2, Sub)
  <2>1. Sized(D, T.root, size, Sub) /\ Sub[T.root] \subseteq D
    BY <1>1, <1>2, <1>3 DEF Shape
  <2>. QED
    BY <2>1 DEF Sized
<1>6. OneRing(D, T.node, size2)
  <2>1. OneRing(D, T.node, size)
    BY DEF TreeOK
  <2>2. \A x \in D : size2[x] = size[x]
    OBVIOUS
  <2> HIDE DEF D
  <2>. QED
    BY <1>3, <2>1, <2>2 DEF OneRing
<1>. QED
  BY <1>1, <1>4, <1>5, <1>6 DEF TreeOK, Shape

\* Making q, with links leaf, a node.
LEMMA NewNode ==
  ASSUME NEW D, NEW N \in [D -> NodeSet(D)], NEW q, q \notin D, NEW leaf \in NodeSet(D \cup {q})
  PROVE  /\ Over(N, At(q, leaf)) \in [D \cup {q} -> NodeSet(D \cup {q})]
         /\ Over(N, At(q, leaf))[q] = leaf
         /\ \A x \in D : Over(N, At(q, leaf))[x] = N[x]
<1>1. Over(N, At(q, leaf)) = [x \in D \cup {q} |-> IF x \in {q} THEN leaf ELSE N[x]]
  BY DEF Over, At
<1>2. \A x \in D : N[x] \in NodeSet(D \cup {q})
  <2>1. NodeSet(D) \subseteq NodeSet(D \cup {q})
    BY DEF NodeSet
  <2>. QED
    BY <2>1
<1>. QED
  BY <1>1, <1>2

\* pooladd makes a free tree with one more node.
LEMMA AddShape ==
  ASSUME NEW D, NEW N, NEW r, NEW size, NEW Sub, Shape(D, N, r, size, Sub), OneRing(D, N, size),
         NEW q, q \notin D, q # nil, size[q] \in Nat
  PROVE  \E N2, r2, Sub2 : /\ PoolAdd([root |-> r, node |-> N], size, q) = [root |-> r2, node |-> N2]
                           /\ Shape(D \cup {q}, N2, r2, size, Sub2) /\ OneRing(D \cup {q}, N2, size)
<1> DEFINE E == D \cup {q}
           T == [root |-> r, node |-> N]
<1>2. N \in [D -> NodeSet(D)] /\ r \in D \cup {nil} /\ nil \notin D /\ Sub[nil] = {}
  BY DEF Shape, Linked, Subtrees
<1>3. CASE r = nil
  <2>1. D = {}
    BY <1>2, <1>3 DEF Shape, Sized
  <2> DEFINE N2 == At(q, [left |-> nil, right |-> nil, parent |-> nil, fwd |-> q, prev |-> q])
  <2>2. PoolAdd(T, size, q) = [root |-> q, node |-> N2]
    BY <1>3 DEF PoolAdd
  <2>3. \E Sub2 : Sub2 = [x \in {q, nil} |-> IF x = q THEN {q} ELSE {}]
    OBVIOUS
  <2> HIDE DEF N2
  <2>4. (\E Sub2 : Shape({q}, N2, q, size, Sub2)) /\ OneRing({q}, N2, size)
    BY <2>3, AddFirst DEF N2
  <2>5. D \cup {q} = {q}
    BY <2>1
  <2>. QED
    BY <2>2, <2>4, <2>5
<1>4. CASE r # nil
  <2>0. PICK p : p = Place(T, size, size[q])
    OBVIOUS
  <2>a. Placed(p, D, N, r, size, Sub, size[q])
    BY <2>0, <1>4, PlaceIs
  <2>1. p \in Sub[r] /\ p \in D
    BY <2>a DEF Placed
  <2>2. N[p].prev \in D /\ size[p] \in Nat /\ r \in D
    BY <1>2, <1>4, <2>1, NodeFacts
  <2>3. CASE size[p] = size[q]
    <3> DEFINE last == N[p].prev
               leaf == [left |-> nil, right |-> nil, parent |-> nil, fwd |-> p, prev |-> last]
               M1 == Over(N, At(q, leaf))
               N2 == [M1 EXCEPT ![last].fwd = q, ![p].prev = q]
    <3>1. PoolAdd(T, size, q) = [root |-> r, node |-> N2]
      <4> DEFINE L == [left |-> nil, right |-> nil, parent |-> nil, fwd |-> q, prev |-> q]
                 L2 == [L EXCEPT !.prev = last, !.fwd = p]
                 M2 == [Over(N, At(q, L2)) EXCEPT ![last].fwd = q, ![p].prev = q]
      <4>1. T.node = N /\ T.root = r
        OBVIOUS
      <4>2. L2 = leaf
        <5> DEFINE R == [left : {nil}, right : {nil}, parent : {nil}, fwd : {p}, prev : {last}]
        <5>1. leaf \in R
          OBVIOUS
        <5>2. L2 \in R
          OBVIOUS
        <5>3. \A x, y \in R : x = y
          OBVIOUS
        <5> HIDE DEF R, leaf, L2
        <5>. QED
          BY <5>1, <5>2, <5>3
      <4>3. PoolAdd(T, size, q) = [T EXCEPT !.node = M2]
        <5> HIDE DEF T
        <5>. QED
          BY <1>4, <2>0, <2>3, <4>1, Zenon DEF PoolAdd
      <4>4. M2 = N2
        BY <4>2
      <4> HIDE DEF M2, N2
      <4>. QED
        BY <4>3, <4>4
    <3>2. leaf \in NodeSet(E)
      BY <2>1, <2>2 DEF NodeSet
    <3>3. M1 \in [E -> NodeSet(E)] /\ M1[q] = leaf /\ \A x \in D : M1[x] = N[x]
      <4> HIDE DEF leaf
      <4>1. Over(N, At(q, leaf)) \in [D \cup {q} -> NodeSet(D \cup {q})]
        BY <1>2, <3>2, NewNode
      <4>2. Over(N, At(q, leaf))[q] = leaf
        BY <1>2, <3>2, NewNode
      <4>3. \A x \in D : Over(N, At(q, leaf))[x] = N[x]
        BY <1>2, <3>2, NewNode
      <4>. QED
        BY <4>1, <4>2, <4>3
    <3> HIDE DEF M1
    <3>4. N2 \in [E -> NodeSet(E)]
      BY <2>1, <2>2, <3>3 DEF NodeSet
    <3>5. ASSUME NEW x \in D
          PROVE  /\ N2[x].left = N[x].left /\ N2[x].right = N[x].right /\ N2[x].parent = N[x].parent
                 /\ N2[x].fwd = IF x = N[p].prev THEN q ELSE N[x].fwd
                 /\ N2[x].prev = IF x = p THEN q ELSE N[x].prev
      <4>1. M1[x] \in NodeSet(E) /\ M1[p] \in NodeSet(E) /\ M1[last] \in NodeSet(E)
        BY <2>1, <2>2, <3>3
      <4>. QED
        BY <2>1, <2>2, <3>3, <4>1 DEF NodeSet
    <3>6. N2[q].left = nil /\ N2[q].right = nil /\ N2[q].parent = nil /\ N2[q].fwd = p /\ N2[q].prev = N[p].prev
      BY <2>1, <2>2, <3>3
    <3> HIDE DEF N2
    <3>7. InRing(N2, D, N, p, q)
      BY <3>4, <3>5, <3>6 DEF InRing
    <3>8. \E Sub2 : Shape(D \cup {q}, N2, r, size, Sub2) /\ OneRing(D \cup {q}, N2, size)
      BY <2>1, <2>3, <3>7, AddToRing
    <3>. QED
      BY <3>1, <3>8
  <2>4. CASE size[p] # size[q]
    <3> DEFINE leaf == [left |-> nil, right |-> nil, parent |-> p, fwd |-> q, prev |-> q]
               M1 == Over(N, At(q, leaf))
               N2 == IF size[q] < size[p] THEN [M1 EXCEPT ![p].left = q] ELSE [M1 EXCEPT ![p].right = q]
    <3>1. PoolAdd(T, size, q) = [root |-> r, node |-> N2]
      BY <1>4, <2>0, <2>4 DEF PoolAdd
    <3>2. leaf \in NodeSet(E)
      BY <2>1, <2>2 DEF NodeSet
    <3>3. M1 \in [E -> NodeSet(E)] /\ M1[q] = leaf /\ \A x \in D : M1[x] = N[x]
      <4> HIDE DEF leaf
      <4>1. Over(N, At(q, leaf)) \in [D \cup {q} -> NodeSet(D \cup {q})]
        BY <1>2, <3>2, NewNode
      <4>2. Over(N, At(q, leaf))[q] = leaf
        BY <1>2, <3>2, NewNode
      <4>3. \A x \in D : Over(N, At(q, leaf))[x] = N[x]
        BY <1>2, <3>2, NewNode
      <4>. QED
        BY <4>1, <4>2, <4>3
    <3> HIDE DEF M1
    <3>4. N2 \in [E -> NodeSet(E)]
      BY <2>1, <3>3 DEF NodeSet
    <3>5. \A x \in D : /\ N2[x].left = IF x = p /\ size[q] < size[p] THEN q ELSE N[x].left
                       /\ N2[x].right = IF x = p /\ ~(size[q] < size[p]) THEN q ELSE N[x].right
                       /\ N2[x].parent = N[x].parent /\ N2[x].fwd = N[x].fwd /\ N2[x].prev = N[x].prev
      BY <1>2, <2>1, <3>3 DEF NodeSet
    <3>6. N2[q].left = nil /\ N2[q].right = nil /\ N2[q].parent = p /\ N2[q].fwd = q /\ N2[q].prev = q
      BY <2>1, <3>3
    <3> HIDE DEF N2
    <3>7. AsChild(N2, D, N, size, p, q)
      BY <3>4, <3>5, <3>6 DEF AsChild
    <3>8. \E Sub2 : Shape(D \cup {q}, N2, r, size, Sub2) /\ OneRing(D \cup {q}, N2, size)
      BY <2>a, <2>4, <3>7, AddAsChild
    <3>. QED
      BY <3>1, <3>8
  <2>. QED
    BY <2>3, <2>4
<1>. QED
  BY <1>3, <1>4

\* The same for a tree T.
LEMMA AddKeeps ==
  ASSUME NEW T, NEW size, TreeOK(T, size), NEW q, q \notin DOMAIN T.node, q # nil, size[q] \in Nat
  PROVE  TreeOK(PoolAdd(T, size, q), size) /\ DOMAIN PoolAdd(T, size, q).node = DOMAIN T.node \cup {q}
<1>1. PICK D, N, r, Sub : /\ T = [root |-> r, node |-> N] /\ D = DOMAIN N
                          /\ Shape(D, N, r, size, Sub) /\ OneRing(D, N, size)
  BY DEF TreeOK
<1>2. PICK N2, r2, Sub2 : /\ PoolAdd(T, size, q) = [root |-> r2, node |-> N2]
                          /\ Shape(D \cup {q}, N2, r2, size, Sub2) /\ OneRing(D \cup {q}, N2, size)
  BY <1>1, AddShape
<1>3. DOMAIN N2 = D \cup {q}
  BY <1>2 DEF Shape, Linked
<1>. QED
  BY <1>1, <1>2, <1>3 DEF TreeOK

\* N2 is N with the nodes W, h at their root, where the subtree of t was.
Grafted(D, N, r, size, Sub, t, h, W, N2, r2, Sub2) ==
  /\ Sub[t] \ {t} \subseteq W /\ W \subseteq D \ {t} /\ W \cap Sub[r] \subseteq Sub[t]
  /\ h \in W \cup {nil} /\ (h = nil => W = {})
  /\ r2 = IF N[t].parent = nil THEN h ELSE r
  /\ N2 \in [D \ {t} -> NodeSet(D \ {t})]
  /\ \A x \in (D \ {t}) \ W :
       /\ N2[x].left = IF N[x].left = t THEN h ELSE N[x].left
       /\ N2[x].right = IF N[x].right = t THEN h ELSE N[x].right
       /\ N2[x].parent = N[x].parent
  /\ h # nil => N2[h].parent = N[t].parent

\* The nodes W are a tree with root h.
Within(size, h, W, N2, Sub2) ==
  /\ h # nil => Sub2[h] = W
  /\ \A x \in W :
       /\ N2[x].left \in W \cup {nil} /\ N2[x].right \in W \cup {nil}
       /\ Sub2[x] = {x} \cup Sub2[N2[x].left] \cup Sub2[N2[x].right]
       /\ \A q \in Sub2[N2[x].left] : size[q] < size[x]
       /\ \A q \in Sub2[N2[x].right] : size[x] < size[q]
       /\ N2[x].left # nil => N2[N2[x].left].parent = x
       /\ N2[x].right # nil => N2[N2[x].right].parent = x
       /\ x # h => N2[x].parent \in W /\ (N2[N2[x].parent].left = x \/ N2[N2[x].parent].right = x)

\* The sizes of the nodes W.
SameSizes(D, size, Sub, t, W) ==
  /\ \A w \in W : \E v \in Sub[t] : size[v] = size[w]
  /\ \A x \in D \ {t} : size[x] = size[t] => \E w \in W : size[w] = size[t]

\* The rest of the tree does not mind what is put where t was.
LEMMA GraftKeeps ==
  ASSUME NEW D, NEW N, NEW r, NEW size, NEW Sub, Shape(D, N, r, size, Sub),
         NEW t \in D, t \in Sub[r], NEW h, NEW W, NEW N2, NEW r2, NEW Sub2,
         Grafted(D, N, r, size, Sub, t, h, W, N2, r2, Sub2),
         Sub2 \in [(D \ {t}) \cup {nil} -> SUBSET (D \ {t})], Sub2[nil] = {},
         \A x \in (D \ {t}) \ W : Sub2[x] = IF t \in Sub[x] THEN (Sub[x] \ Sub[t]) \cup W ELSE Sub[x],
         Within(size, h, W, N2, Sub2), SameSizes(D, size, Sub, t, W)
  PROVE  Shape(D \ {t}, N2, r2, size, Sub2)
<1> DEFINE s == N[t].parent
           E == D \ {t}
           Out == E \ W
<1>1. Linked(D, N, r) /\ Subtrees(D, N, Sub) /\ Ordered(D, N, size, Sub) /\ Parents(D, N, r, Sub) /\ Sized(D, r, size, Sub)
  BY DEF Shape
<1>2. /\ Sub[t] \ {t} \subseteq W /\ W \subseteq E /\ W \cap Sub[r] \subseteq Sub[t]
      /\ h \in W \cup {nil} /\ (h = nil => W = {})
      /\ r2 = IF s = nil THEN h ELSE r
      /\ N2 \in [E -> NodeSet(E)]
      /\ h # nil => N2[h].parent = s
  BY DEF Grafted
<1>3. ASSUME NEW x \in Out
      PROVE  /\ N2[x].left = IF N[x].left = t THEN h ELSE N[x].left
             /\ N2[x].right = IF N[x].right = t THEN h ELSE N[x].right
             /\ N2[x].parent = N[x].parent
             /\ Sub2[x] = IF t \in Sub[x] THEN (Sub[x] \ Sub[t]) \cup W ELSE Sub[x]
  BY DEF Grafted
<1>4. /\ Sub[nil] = {} /\ nil \notin D /\ r \in D /\ r # nil /\ Sub2[h] = W
  <2>1. Sub[nil] = {} /\ nil \notin D /\ r \in D \cup {nil}
    BY <1>1 DEF Linked, Subtrees
  <2>2. Sub2[h] = W
    BY <1>2 DEF Within
  <2>. QED
    BY <2>1, <2>2
<1>5. ASSUME NEW x \in Out
      PROVE  /\ x \notin Sub[t] /\ x \in D /\ x # t /\ x \notin W /\ x # nil
             /\ N[x].left \in Out \cup {nil, t} /\ N[x].right \in Out \cup {nil, t}
             /\ N[x].left = t => s = x
             /\ N[x].right = t => s = x
             /\ Sub[x] = {x} \cup Sub[N[x].left] \cup Sub[N[x].right]
             /\ Sub[N[x].left] \cap Sub[N[x].right] = {}
  <2>1. x \notin Sub[t] /\ x \in D /\ x # t /\ x \notin W /\ x # nil
    BY <1>2, <1>4
  <2>2. ASSUME NEW c \in {N[x].left, N[x].right}, c # nil PROVE c \in Out \cup {t} /\ (c = t => s = x)
    <3>1. c \in D /\ N[c].parent = x
      BY <1>1, <2>1, <2>2, NodeFacts DEF Parents
    <3>2. CASE c \in W
      <4>1. c \in Sub[r]
        BY <1>1, <2>1, <3>1 DEF Parents
      <4>2. c \in Sub[t] /\ c # t
        BY <1>2, <3>2, <4>1
      <4>. QED
        BY <2>1, <3>1, <4>2, ParentIn
    <3>. QED
      BY <3>1, <3>2
  <2>3. N[x].left \in D \cup {nil} /\ N[x].right \in D \cup {nil} /\ Sub[x] = {x} \cup Sub[N[x].left] \cup Sub[N[x].right]
        /\ Sub[N[x].left] \cap Sub[N[x].right] = {}
    BY <2>1, NodeFacts
  <2>4. N[x].left \in Out \cup {nil, t} /\ (N[x].left = t => s = x)
    <3>1. N[x].left # nil => N[x].left \in Out \cup {t} /\ (N[x].left = t => s = x)
      BY <2>2
    <3>. QED
      BY <1>4, <3>1
  <2>5. N[x].right \in Out \cup {nil, t} /\ (N[x].right = t => s = x)
    <3>1. N[x].right # nil => N[x].right \in Out \cup {t} /\ (N[x].right = t => s = x)
      BY <2>2
    <3>. QED
      BY <1>4, <3>1
  <2>. QED
    BY <2>1, <2>3, <2>4, <2>5
<1>6. t \in Sub[t] /\ Sub[t] \subseteq D
  BY NodeFacts
<1>7. s # nil => s \in Out /\ s \in Sub[r] /\ (N[s].left = t \/ N[s].right = t)
  <2>1. SUFFICES ASSUME s # nil PROVE s \in Out /\ s \in Sub[r] /\ (N[s].left = t \/ N[s].right = t)
    OBVIOUS
  <2>2. s \in D /\ (N[s].left = t \/ N[s].right = t)
    BY <1>1, <2>1, NodeFacts DEF Parents
  <2>3. t # r
    BY <1>1, <1>4, <2>1 DEF Parents
  <2>4. s \in Sub[r]
    BY <1>4, <2>3, ParentIn
  <2>5. s \notin Sub[t]
    BY <1>6, <2>2, NotAbove
  <2>. QED
    BY <1>2, <1>6, <2>2, <2>4, <2>5
<1>8. s = nil => t = r
  BY <1>4, ParentIn
<1>9. s # nil => r \in Out
  <2>1. SUFFICES ASSUME s # nil PROVE r \in Out
    OBVIOUS
  <2>2. r # t
    BY <1>1, <1>4, <2>1 DEF Parents
  <2>3. r \notin Sub[t]
    BY <1>1, <1>4, <2>2, ParentIn DEF Parents
  <2>4. r \in Sub[r]
    BY <1>4, NodeFacts
  <2>. QED
    BY <1>2, <1>4, <2>2, <2>3, <2>4
<1>10. Sub2[r2] = (Sub[r] \ Sub[t]) \cup W /\ r2 \in E \cup {nil}
  <2>1. CASE s = nil
    BY <1>2, <1>4, <1>8, <2>1
  <2>2. CASE s # nil
    BY <1>2, <1>3, <1>9, <2>2
  <2>. QED
    BY <2>1, <2>2
<1> HIDE DEF s
<1>11. Linked(E, N2, r2)
  <2>1. IsFiniteSet(E)
    BY <1>1, FS_RemoveElement DEF Linked
  <2>. QED
    BY <1>2, <1>4, <1>10, <2>1 DEF Linked
\* Below a node outside: where t was below a child, W is now.
<1>12. ASSUME NEW x \in Out, NEW c \in {N[x].left, N[x].right}, NEW c2, c2 = IF c = t THEN h ELSE c
       PROVE  Sub2[c2] = IF t \in Sub[c] THEN (Sub[c] \ Sub[t]) \cup W ELSE Sub[c]
  <2>1. c \in Out \cup {nil, t}
    BY <1>5
  <2>2. CASE c = t
    BY <1>4, <1>6, <1>12, <2>2
  <2>3. CASE c = nil
    BY <1>4, <1>12, <2>3
  <2>4. CASE c \in Out
    BY <1>3, <1>12, <2>4
  <2>. QED
    BY <2>1, <2>2, <2>3, <2>4
<1>13. ASSUME NEW x \in Out, NEW c \in {N[x].left, N[x].right}, t \in Sub[c] PROVE Sub[t] \subseteq Sub[c]
  <2>1. c \in D
    BY <1>4, <1>5, <1>13
  <2>. QED
    BY <1>13, <2>1, SubtreeIn
<1>14. Subtrees(E, N2, Sub2)
  <2>1. ASSUME NEW x \in Out PROVE Sub2[x] = {x} \cup Sub2[N2[x].left] \cup Sub2[N2[x].right]
    <3>1. PICK l, m : l = N[x].left /\ m = N[x].right
      OBVIOUS
    <3>a. N2[x].left = (IF l = t THEN h ELSE l) /\ N2[x].right = (IF m = t THEN h ELSE m)
      BY <1>3, <3>1
    <3>b. Sub2[N2[x].left] = IF t \in Sub[l] THEN (Sub[l] \ Sub[t]) \cup W ELSE Sub[l]
      BY <1>12, <3>1, <3>a
    <3>c. Sub2[N2[x].right] = IF t \in Sub[m] THEN (Sub[m] \ Sub[t]) \cup W ELSE Sub[m]
      BY <1>12, <3>1, <3>a
    <3>2. /\ Sub2[N2[x].left] = IF t \in Sub[l] THEN (Sub[l] \ Sub[t]) \cup W ELSE Sub[l]
          /\ Sub2[N2[x].right] = IF t \in Sub[m] THEN (Sub[m] \ Sub[t]) \cup W ELSE Sub[m]
      BY <3>b, <3>c
    <3>3. Sub[x] = {x} \cup Sub[l] \cup Sub[m] /\ Sub[l] \cap Sub[m] = {} /\ x \notin Sub[t] /\ x # t
      BY <1>5, <3>1
    <3>4. (t \in Sub[l] => Sub[t] \subseteq Sub[l]) /\ (t \in Sub[m] => Sub[t] \subseteq Sub[m])
      BY <1>13, <3>1
    <3>5. Sub2[x] = IF t \in Sub[x] THEN (Sub[x] \ Sub[t]) \cup W ELSE Sub[x]
      BY <1>3
    <3>6. CASE t \in Sub[l]
      BY <3>2, <3>3, <3>4, <3>5, <3>6
    <3>7. CASE t \in Sub[m]
      BY <3>2, <3>3, <3>4, <3>5, <3>7
    <3>8. CASE t \notin Sub[l] /\ t \notin Sub[m]
      BY <3>2, <3>3, <3>5, <3>8
    <3>. QED
      BY <3>6, <3>7, <3>8
  <2>2. ASSUME NEW x \in W PROVE Sub2[x] = {x} \cup Sub2[N2[x].left] \cup Sub2[N2[x].right]
    BY DEF Within
  <2>. QED
    BY <2>1, <2>2 DEF Subtrees
<1>15. Ordered(E, N2, size, Sub2)
  <2>1. ASSUME NEW x \in Out, NEW c \in {N[x].left, N[x].right}, NEW y,
               y \in (IF t \in Sub[c] THEN (Sub[c] \ Sub[t]) \cup W ELSE Sub[c])
        PROVE  \E z \in Sub[c] : size[z] = size[y]
    <3>1. CASE y \in Sub[c]
      BY <3>1
    <3>2. CASE y \in W /\ t \in Sub[c]
      <4>1. PICK z \in Sub[t] : size[z] = size[y]
        BY <3>2 DEF SameSizes
      <4>. QED
        BY <1>13, <3>2, <4>1
    <3>. QED
      BY <2>1, <3>1, <3>2
  <2>2. ASSUME NEW x \in Out, NEW y \in Sub2[N2[x].left] PROVE size[y] < size[x]
    <3>1. y \in (IF t \in Sub[N[x].left] THEN (Sub[N[x].left] \ Sub[t]) \cup W ELSE Sub[N[x].left])
      BY <1>3, <1>12, <2>2
    <3>2. \E z \in Sub[N[x].left] : size[z] = size[y]
      BY <2>1, <3>1
    <3>. QED
      BY <1>1, <1>5, <3>2 DEF Ordered
  <2>3. ASSUME NEW x \in Out, NEW y \in Sub2[N2[x].right] PROVE size[x] < size[y]
    <3>1. y \in (IF t \in Sub[N[x].right] THEN (Sub[N[x].right] \ Sub[t]) \cup W ELSE Sub[N[x].right])
      BY <1>3, <1>12, <2>3
    <3>2. \E z \in Sub[N[x].right] : size[z] = size[y]
      BY <2>1, <3>1
    <3>. QED
      BY <1>1, <1>5, <3>2 DEF Ordered
  <2>4. \A x \in W : /\ \A q \in Sub2[N2[x].left] : size[q] < size[x]
                     /\ \A q \in Sub2[N2[x].right] : size[x] < size[q]
    BY DEF Within
  <2>5. \A x \in E : size[x] \in Nat
    BY <1>1 DEF Ordered
  <2>. QED
    BY <2>2, <2>3, <2>4, <2>5 DEF Ordered
<1>16. Parents(E, N2, r2, Sub2)
  <2>1. ASSUME NEW x \in Out, NEW c \in {N[x].left, N[x].right}, NEW c2, c2 = IF c = t THEN h ELSE c, c2 # nil
        PROVE  N2[c2].parent = x
    <3>1. CASE c = t
      BY <1>2, <1>5, <2>1, <3>1
    <3>2. CASE c # t
      <4>1. c \in Out /\ N[c].parent = x
        BY <1>1, <1>5, <2>1, <3>2 DEF Parents
      <4>. QED
        BY <1>3, <2>1, <3>2, <4>1
    <3>. QED
      BY <3>1, <3>2
  <2>2. ASSUME NEW x \in E
        PROVE  (N2[x].left # nil => N2[N2[x].left].parent = x) /\ (N2[x].right # nil => N2[N2[x].right].parent = x)
    <3>1. CASE x \in Out
      BY <1>3, <2>1, <3>1
    <3>2. CASE x \in W
      BY <3>2 DEF Within
    <3>. QED
      BY <3>1, <3>2
  <2>3. r2 # nil => N2[r2].parent = nil
    <3>1. CASE s = nil
      BY <1>2, <3>1
    <3>2. CASE s # nil
      BY <1>1, <1>2, <1>3, <1>4, <1>9, <3>2 DEF Parents
    <3>. QED
      BY <3>1, <3>2
  <2>4. ASSUME NEW x \in E, N2[x].parent # nil PROVE N2[N2[x].parent].left = x \/ N2[N2[x].parent].right = x
    <3>1. CASE x \in W /\ x # h
      BY <3>1 DEF Within
    <3>2. CASE x = h
      <4>1. N2[x].parent = s /\ s # nil
        BY <1>2, <1>4, <2>4, <3>2
      <4>2. s \in Out /\ (N[s].left = t \/ N[s].right = t)
        BY <1>7, <4>1
      <4>. QED
        BY <1>3, <3>2, <4>1, <4>2
    <3>3. CASE x \in Out
      <4>1. PICK y : y = N[x].parent /\ y = N2[x].parent
        BY <1>3, <3>3
      <4>2. y \in D /\ y # nil /\ (N[y].left = x \/ N[y].right = x) /\ x # t /\ x # nil
        <5>1. y \in D /\ y # nil /\ x \in D /\ x # t /\ x # nil
          <6>1. x \in D /\ x # t /\ x # nil /\ y # nil
            BY <1>5, <2>4, <3>3, <4>1
          <6>2. N[x].parent \in D \cup {nil}
            BY <6>1, NodeFacts
          <6>. QED
            BY <4>1, <6>1, <6>2
        <5>. QED
          BY <1>1, <4>1, <5>1 DEF Parents
      <4>3. y \in Sub[r] /\ y \notin Sub[t]
        <5>1. y \in Sub[r]
          BY <1>1, <4>2 DEF Parents
        <5>2. Sub[x] \subseteq Sub[y] /\ x \in Sub[x]
          BY <1>5, <3>3, <4>2, NodeFacts
        <5>3. y \in Sub[t] => Sub[y] \subseteq Sub[t]
          BY SubtreeIn
        <5>. QED
          BY <1>5, <3>3, <5>1, <5>2, <5>3
      <4>4. y \in Out
        BY <1>2, <1>6, <4>2, <4>3
      <4>. QED
        BY <1>3, <4>1, <4>2, <4>4
    <3>. QED
      BY <1>2, <3>1, <3>2, <3>3
  <2>5. ASSUME NEW x \in E, x \notin Sub2[r2] PROVE N2[x].parent = nil /\ N2[x].left = nil /\ N2[x].right = nil
    <3>1. x \in Out /\ x \notin Sub[r]
      BY <1>5, <1>10, <2>5
    <3>2. N[x].parent = nil /\ N[x].left = nil /\ N[x].right = nil
      BY <1>1, <3>1 DEF Parents
    <3>. QED
      BY <1>3, <1>4, <3>1, <3>2
  <2>. QED
    BY <2>2, <2>3, <2>4, <2>5 DEF Parents
<1>17. Sized(E, r2, size, Sub2)
  <2>1. ASSUME NEW x \in E PROVE \E v \in Sub2[r2] : size[v] = size[x]
    <3>1. PICK v \in Sub[r] : size[v] = size[x]
      BY <1>1 DEF Sized
    <3>2. CASE v = t
      BY <1>10, <3>1, <3>2 DEF SameSizes
    <3>3. CASE v # t
      BY <1>2, <1>10, <3>1, <3>3
    <3>. QED
      BY <3>2, <3>3
  <2>. QED
    BY <2>1 DEF Sized
<1>. QED
  BY <1>11, <1>14, <1>15, <1>16, <1>17 DEF Shape

\* A tree without a block that is only on a ring.
LEMMA RingMemberGone ==
  ASSUME NEW D, NEW N, NEW r, NEW size, NEW Sub, Shape(D, N, r, size, Sub), OneRing(D, N, size),
         NEW t \in D, t \notin Sub[r], NEW N2 \in [D \ {t} -> NodeSet(D \ {t})],
         \A x \in D \ {t} : N2[x].left = N[x].left /\ N2[x].right = N[x].right /\ N2[x].parent = N[x].parent
  PROVE  \E Sub2 : Shape(D \ {t}, N2, r, size, Sub2)
<1> DEFINE Sub2 == [x \in (D \ {t}) \cup {nil} |-> Sub[x]]
           E == D \ {t}
<1>1. Linked(D, N, r) /\ Subtrees(D, N, Sub) /\ Ordered(D, N, size, Sub) /\ Parents(D, N, r, Sub) /\ Sized(D, r, size, Sub)
  BY DEF Shape
<1>2. N[t].parent = nil /\ r \in D \cup {nil} /\ nil \notin D /\ Sub[nil] = {}
  BY <1>1 DEF Linked, Subtrees, Parents
<1>3. ASSUME NEW x \in E
      PROVE  /\ t \notin Sub[x] /\ Sub[x] \subseteq E
             /\ N[x].left \in E \cup {nil} /\ N[x].right \in E \cup {nil} /\ N[x].parent \in D \cup {nil}
             /\ x \in D /\ x # t
  <2>1. t \notin Sub[x]
    BY <1>2, ParentIn
  <2>2. Sub[x] \subseteq D /\ N[x].left \in D \cup {nil} /\ N[x].right \in D \cup {nil} /\ N[x].parent \in D \cup {nil}
    BY NodeFacts
  <2>3. N[x].left # t /\ N[x].right # t
    BY <1>1, <1>2 DEF Parents
  <2>. QED
    BY <2>1, <2>2, <2>3
<1>4. r \in E \cup {nil}
  <2>1. r # t
    BY <1>2, NodeFacts
  <2>. QED
    BY <1>2, <2>1
<1>5. /\ Sub2[nil] = {} /\ Sub2 \in [E \cup {nil} -> SUBSET E] /\ Sub2[r] = Sub[r]
      /\ \A x \in E \cup {nil} : Sub2[x] = Sub[x]
  BY <1>2, <1>3, <1>4
<1> HIDE DEF Sub2
<1>6. Linked(E, N2, r)
  <2>1. IsFiniteSet(E)
    BY <1>1, FS_RemoveElement DEF Linked
  <2>. QED
    BY <1>2, <1>4, <2>1 DEF Linked
<1>7. Subtrees(E, N2, Sub2)
  <2>1. ASSUME NEW x \in E PROVE Sub2[x] = {x} \cup Sub2[N2[x].left] \cup Sub2[N2[x].right]
    <3>1. Sub[x] = {x} \cup Sub[N[x].left] \cup Sub[N[x].right]
      BY <1>1, <1>3 DEF Subtrees
    <3>. QED
      BY <1>3, <1>5, <3>1
  <2>. QED
    BY <1>5, <2>1 DEF Subtrees
<1>8. Ordered(E, N2, size, Sub2)
  BY <1>1, <1>3, <1>5 DEF Ordered
<1>9. Parents(E, N2, r, Sub2)
  <2>1. ASSUME NEW x \in E, N2[x].parent # nil PROVE N2[N2[x].parent].left = x \/ N2[N2[x].parent].right = x
    <3>1. PICK y : y = N[x].parent /\ y = N2[x].parent
      OBVIOUS
    <3>2. y \in D /\ (N[y].left = x \/ N[y].right = x)
      BY <1>1, <1>3, <2>1, <3>1 DEF Parents
    <3>3. y # t
      <4>1. x # nil
        BY <1>2, <1>3
      <4>2. N[t].left = nil /\ N[t].right = nil
        BY <1>1 DEF Parents
      <4>. QED
        BY <3>2, <4>1, <4>2
    <3>. QED
      BY <3>1, <3>2, <3>3
  <2>2. ASSUME NEW x \in E
        PROVE  (N2[x].left # nil => N2[N2[x].left].parent = x) /\ (N2[x].right # nil => N2[N2[x].right].parent = x)
    BY <1>1, <1>3 DEF Parents
  <2>3. r # nil => N2[r].parent = nil
    BY <1>1, <1>4 DEF Parents
  <2>4. ASSUME NEW x \in E, x \notin Sub2[r] PROVE N2[x].parent = nil /\ N2[x].left = nil /\ N2[x].right = nil
    BY <1>1, <1>3, <1>5, <2>4 DEF Parents
  <2>. QED
    BY <2>1, <2>2, <2>3, <2>4 DEF Parents
<1>10. Sized(E, r, size, Sub2)
  BY <1>1, <1>5 DEF Sized
<1>. QED
  BY <1>6, <1>7, <1>8, <1>9, <1>10 DEF Shape

\* A ring without t.
LEMMA RingWithout ==
  ASSUME NEW D, NEW N \in [D -> NodeSet(D)], NEW size, OneRing(D, N, size), NEW t \in D, NEW N2,
         \A x \in D \ {t} : /\ N2[x].fwd = IF N[x].fwd = t THEN N[t].fwd ELSE N[x].fwd
                            /\ N2[x].prev = IF N[x].prev = t THEN N[t].prev ELSE N[x].prev
  PROVE  OneRing(D \ {t}, N2, size)
<1> DEFINE E == D \ {t}
<1>1. ASSUME NEW x \in D
      PROVE  /\ N[x].fwd \in D /\ N[x].prev \in D /\ N[N[x].fwd].prev = x /\ N[N[x].prev].fwd = x
             /\ size[N[x].fwd] = size[x]
  <2>1. N[x] \in NodeSet(D)
    OBVIOUS
  <2>. QED
    BY <2>1 DEF OneRing, NodeSet
<1>2. ASSUME NEW x \in E PROVE N2[x].fwd \in E /\ N2[x].prev \in E /\ size[N2[x].fwd] = size[x]
  BY <1>1
<1>3. ASSUME NEW x \in E PROVE N2[N2[x].fwd].prev = x /\ N2[N2[x].prev].fwd = x
  BY <1>1, <1>2
<1>4. ASSUME NEW x \in E, NEW S \in SUBSET E, x \in S, \A y \in S : N2[y].fwd \in S,
             NEW y \in E, size[y] = size[x]
      PROVE  y \in S
  <2>1. CASE \E z \in S : N[z].fwd = t
    <3> DEFINE R == S \cup {t}
    <3>1. \A z \in R : N[z].fwd \in R
      <4>1. N[t].fwd \in R
        BY <1>4, <2>1
      <4>2. \A z \in S : N[z].fwd \in R
        BY <1>4
      <4>. QED
        BY <4>1, <4>2
    <3>2. R \in SUBSET D /\ x \in R /\ x \in D /\ y \in D /\ y # t
      BY <1>4
    <3> HIDE DEF R
    <3>3. y \in R
      BY <1>4, <3>1, <3>2 DEF OneRing
    <3>. QED
      BY <3>2, <3>3 DEF R
  <2>2. CASE ~(\E z \in S : N[z].fwd = t)
    <3>1. \A z \in S : N[z].fwd \in S
      BY <1>4, <2>2
    <3>2. S \in SUBSET D /\ x \in D /\ y \in D
      OBVIOUS
    <3>. QED
      BY <1>4, <3>1, <3>2 DEF OneRing
  <2>. QED
    BY <2>1, <2>2
<1>. QED
  BY <1>2, <1>3, <1>4 DEF OneRing

\* N2 is N with h, of t's ring, in t's place.
ByRing(D, N, t, h, N2) ==
  /\ N2 \in [D \ {t} -> NodeSet(D \ {t})]
  /\ \A x \in D \ {t} :
       /\ N2[x].left = IF x = h THEN N[t].left ELSE IF N[x].left = t THEN h ELSE N[x].left
       /\ N2[x].right = IF x = h THEN N[t].right ELSE IF N[x].right = t THEN h ELSE N[x].right
       /\ N2[x].parent = IF x = h THEN N[t].parent ELSE IF N[x].parent = t THEN h ELSE N[x].parent

\* The next on its ring takes the place of a node.
LEMMA RingTakesPlace ==
  ASSUME NEW D, NEW N, NEW r, NEW size, NEW Sub, Shape(D, N, r, size, Sub), OneRing(D, N, size),
         NEW t \in D, t \in Sub[r], NEW h, h = N[t].fwd, h # t, NEW N2, ByRing(D, N, t, h, N2)
  PROVE  \E Sub2 : Shape(D \ {t}, N2, IF N[t].parent = nil THEN h ELSE r, size, Sub2)
<1> DEFINE W == (Sub[t] \ {t}) \cup {h}
           E == D \ {t}
           Sub2 == [x \in E \cup {nil} |-> IF x = h THEN W
                                           ELSE IF t \in Sub[x] THEN (Sub[x] \ Sub[t]) \cup W ELSE Sub[x]]
           r2 == IF N[t].parent = nil THEN h ELSE r
<1>1. Linked(D, N, r) /\ Subtrees(D, N, Sub) /\ Ordered(D, N, size, Sub) /\ Parents(D, N, r, Sub) /\ Sized(D, r, size, Sub)
  BY DEF Shape
<1>2. /\ h \in D /\ h \in E /\ h # nil /\ size[h] = size[t] /\ nil \notin D /\ Sub[nil] = {} /\ r \in D /\ r # nil
      /\ Sub[t] \subseteq D /\ t \in Sub[t] /\ Sub[t] = {t} \cup Sub[N[t].left] \cup Sub[N[t].right]
      /\ t \notin Sub[N[t].left] /\ t \notin Sub[N[t].right]
      /\ N[t].left \in D \cup {nil} /\ N[t].right \in D \cup {nil}
  <2>1. nil \notin D /\ Sub[nil] = {} /\ r \in D \cup {nil}
    BY <1>1 DEF Linked, Subtrees
  <2>2. h \in D /\ size[h] = size[t]
    BY NodeFacts DEF OneRing
  <2>. QED
    BY <2>1, <2>2, NodeFacts
<1>3. h \notin Sub[r]
  BY <1>2, SizesDiffer
<1>4. N[h].parent = nil /\ N[h].left = nil /\ N[h].right = nil
  BY <1>1, <1>2, <1>3 DEF Parents
<1>5. h \notin Sub[t] /\ Sub[t] \subseteq Sub[r]
  BY <1>2, <1>3, SubtreeIn
<1>6. ASSUME NEW x \in E
      PROVE  /\ N2[x].left = IF x = h THEN N[t].left ELSE IF N[x].left = t THEN h ELSE N[x].left
             /\ N2[x].right = IF x = h THEN N[t].right ELSE IF N[x].right = t THEN h ELSE N[x].right
             /\ N2[x].parent = IF x = h THEN N[t].parent ELSE IF N[x].parent = t THEN h ELSE N[x].parent
  BY DEF ByRing
<1>7. ASSUME NEW x \in Sub[t], x # t
      PROVE  /\ x \in E /\ x # h /\ x # nil /\ t \notin Sub[x] /\ Sub[x] \subseteq Sub[t] \ {t}
             /\ N[x].left # t /\ N[x].right # t /\ N[x].parent \in Sub[t]
             /\ N[x].left \in (Sub[t] \ {t}) \cup {nil} /\ N[x].right \in (Sub[t] \ {t}) \cup {nil}
             /\ Sub[x] = {x} \cup Sub[N[x].left] \cup Sub[N[x].right]
  <2>1. x \in E /\ x # h /\ x # nil /\ x \in D
    BY <1>2, <1>5, <1>7
  <2>2. /\ Sub[x] = {x} \cup Sub[N[x].left] \cup Sub[N[x].right] /\ Sub[x] \subseteq Sub[t]
        /\ N[x].left \in D \cup {nil} /\ N[x].right \in D \cup {nil}
    BY <2>1, SubtreeIn, NodeFacts
  <2>3. N[x].parent \in Sub[t]
    BY <1>7, ParentIn
  <2>4. t \notin Sub[N[x].left] /\ t \notin Sub[N[x].right]
    BY NotAbove
  <2>5. \A c \in D : c \in Sub[c]
    BY NodeFacts
  <2>6. t \notin Sub[x]
    BY <1>7, <2>2, <2>4
  <2>. QED
    BY <1>2, <2>1, <2>2, <2>3, <2>4, <2>5, <2>6
<1>8. /\ Sub2[nil] = {} /\ Sub2[h] = W /\ \A x \in Sub[t] \ {t} : Sub2[x] = Sub[x]
      /\ \A x \in E \ W : Sub2[x] = IF t \in Sub[x] THEN (Sub[x] \ Sub[t]) \cup W ELSE Sub[x]
  <2>1. nil \notin E
    BY <1>2
  <2>2. \A x \in Sub[t] \ {t} : x \in E /\ x # h /\ t \notin Sub[x]
    BY <1>7
  <2>. QED
    BY <1>2, <2>1, <2>2
<1>9. Sub2 \in [E \cup {nil} -> SUBSET E]
  <2>1. \A x \in D : Sub[x] \subseteq D
    BY NodeFacts
  <2>2. W \subseteq E
    BY <1>2
  <2>3. \A x \in E \cup {nil} : Sub[x] \subseteq D
    BY <1>2, <2>1
  <2>. QED
    BY <1>2, <2>2, <2>3
<1> HIDE DEF Sub2
<1>10. Grafted(D, N, r, size, Sub, t, h, W, N2, r2, Sub2)
  <2>1. W \cap Sub[r] \subseteq Sub[t] /\ W \subseteq E
    BY <1>2, <1>3
  <2>2. N2 \in [E -> NodeSet(E)]
    BY DEF ByRing
  <2>3. ASSUME NEW x \in E \ W
        PROVE  /\ N2[x].left = IF N[x].left = t THEN h ELSE N[x].left
               /\ N2[x].right = IF N[x].right = t THEN h ELSE N[x].right
               /\ N2[x].parent = N[x].parent
    <3>1. N[x].parent # t
      <4>1. x \in D /\ x \notin Sub[t] /\ x # nil
        BY <1>2
      <4>2. N[x].parent = t => N[t].left = x \/ N[t].right = x
        BY <1>1, <1>2, <4>1 DEF Parents
      <4>3. x \in Sub[x]
        BY <4>1, NodeFacts
      <4>. QED
        BY <1>2, <4>1, <4>2, <4>3
    <3>. QED
      BY <1>6, <3>1
  <2>. QED
    BY <1>2, <1>6, <2>1, <2>2, <2>3 DEF Grafted
<1>11. Within(size, h, W, N2, Sub2)
  <2>1. N2[h].left = N[t].left /\ N2[h].right = N[t].right
    BY <1>2, <1>6
  <2>2. \A c \in {N[t].left, N[t].right} : c = nil \/ (c \in Sub[t] /\ c # t /\ N[c].parent = t)
    <3>1. \A c \in D : c \in Sub[c]
      BY NodeFacts
    <3>. QED
      BY <1>1, <1>2, <3>1 DEF Parents
  <2>3. ASSUME NEW c \in {N[t].left, N[t].right}
        PROVE  Sub2[c] = Sub[c] /\ c \in W \cup {nil} /\ (c # nil => N2[c].parent = h)
    <3>1. CASE c = nil
      BY <1>2, <1>8, <3>1
    <3>2. CASE c # nil
      <4>1. c \in Sub[t] /\ c # t /\ N[c].parent = t
        BY <2>2, <3>2
      <4>2. c \in E /\ c # h
        BY <1>7, <4>1
      <4>. QED
        BY <1>6, <1>8, <4>1, <4>2
    <3>. QED
      BY <3>1, <3>2
  <2>4. /\ Sub2[h] = {h} \cup Sub2[N2[h].left] \cup Sub2[N2[h].right]
        /\ N2[h].left \in W \cup {nil} /\ N2[h].right \in W \cup {nil}
        /\ N2[h].left # nil => N2[N2[h].left].parent = h
        /\ N2[h].right # nil => N2[N2[h].right].parent = h
    BY <1>2, <1>8, <2>1, <2>3
  <2>5. /\ \A q \in Sub2[N2[h].left] : size[q] < size[h]
        /\ \A q \in Sub2[N2[h].right] : size[h] < size[q]
    BY <1>1, <1>2, <2>1, <2>3 DEF Ordered
  <2>6. ASSUME NEW x \in Sub[t], x # t
        PROVE  /\ N2[x].left = N[x].left /\ N2[x].right = N[x].right
               /\ N2[x].parent = IF N[x].parent = t THEN h ELSE N[x].parent
               /\ Sub2[x] = Sub[x] /\ Sub2[N[x].left] = Sub[N[x].left] /\ Sub2[N[x].right] = Sub[N[x].right]
    <3>1. /\ x \in E /\ x # h /\ N[x].left # t /\ N[x].right # t
          /\ N[x].left \in (Sub[t] \ {t}) \cup {nil} /\ N[x].right \in (Sub[t] \ {t}) \cup {nil}
      BY <1>7, <2>6
    <3>2. \A c \in (Sub[t] \ {t}) \cup {nil} : Sub2[c] = Sub[c]
      BY <1>2, <1>8
    <3>3. Sub2[x] = Sub[x] /\ Sub2[N[x].left] = Sub[N[x].left] /\ Sub2[N[x].right] = Sub[N[x].right]
      BY <2>6, <3>1, <3>2
    <3>. QED
      BY <1>6, <3>1, <3>3
  <2>7. ASSUME NEW x \in Sub[t], x # t
        PROVE  /\ N2[x].left # nil => N2[N2[x].left].parent = x
               /\ N2[x].right # nil => N2[N2[x].right].parent = x
    <3>1. x \in D /\ N[x].left \in (Sub[t] \ {t}) \cup {nil} /\ N[x].right \in (Sub[t] \ {t}) \cup {nil}
      BY <1>2, <1>7, <2>7
    <3>. QED
      BY <1>1, <2>6, <2>7, <3>1 DEF Parents
  <2>8. ASSUME NEW x \in Sub[t], x # t
        PROVE  N2[x].parent \in W /\ (N2[N2[x].parent].left = x \/ N2[N2[x].parent].right = x)
    <3>0. PICK y : y = N[x].parent
      OBVIOUS
    <3>1. y \in Sub[t] /\ x \in D /\ (N[y].left = x \/ N[y].right = x)
      BY <1>1, <1>2, <1>7, <2>8, <3>0 DEF Parents
    <3>2. CASE y = t
      BY <2>1, <2>6, <2>8, <3>0, <3>1, <3>2
    <3>3. CASE y # t
      <4>1. N2[x].parent = y /\ N2[y].left = N[y].left /\ N2[y].right = N[y].right
        BY <2>6, <2>8, <3>0, <3>1, <3>3
      <4>. QED
        BY <3>1, <3>3, <4>1
    <3>. QED
      BY <3>2, <3>3
  <2>9. ASSUME NEW x \in Sub[t], x # t
        PROVE  /\ N2[x].left \in W \cup {nil} /\ N2[x].right \in W \cup {nil}
               /\ Sub2[x] = {x} \cup Sub2[N2[x].left] \cup Sub2[N2[x].right]
               /\ \A q \in Sub2[N2[x].left] : size[q] < size[x]
               /\ \A q \in Sub2[N2[x].right] : size[x] < size[q]
    <3>1. x \in D /\ Sub[x] = {x} \cup Sub[N[x].left] \cup Sub[N[x].right]
          /\ N[x].left \in (Sub[t] \ {t}) \cup {nil} /\ N[x].right \in (Sub[t] \ {t}) \cup {nil}
      BY <1>2, <1>7, <2>9
    <3>. QED
      BY <1>1, <2>6, <2>9, <3>1 DEF Ordered
  <2>. QED
    BY <1>8, <2>4, <2>5, <2>7, <2>8, <2>9 DEF Within
<1>12. SameSizes(D, size, Sub, t, W)
  BY <1>2 DEF SameSizes
<1> HIDE DEF W, r2
<1>13. Shape(D \ {t}, N2, r2, size, Sub2)
  BY <1>8, <1>9, <1>10, <1>11, <1>12, GraftKeeps
<1>. QED
  BY <1>13 DEF r2

\* N2 is N with c, which may be nil, in t's place.
ByChild(D, N, t, c, N2) ==
  /\ N2 \in [D \ {t} -> NodeSet(D \ {t})]
  /\ \A x \in D \ {t} :
       /\ N2[x].left = IF N[x].left = t THEN c ELSE N[x].left
       /\ N2[x].right = IF N[x].right = t THEN c ELSE N[x].right
       /\ N2[x].parent = IF x = c THEN N[t].parent ELSE N[x].parent

\* Of a ring of one nothing else has the size.
LEMMA AloneInSize ==
  ASSUME NEW D, NEW N \in [D -> NodeSet(D)], NEW size, OneRing(D, N, size), NEW t \in D, N[t].fwd = t,
         NEW x \in D, size[x] = size[t]
  PROVE  x = t
<1>1. {t} \in SUBSET D /\ t \in {t} /\ \A q \in {t} : N[q].fwd \in {t}
  OBVIOUS
<1>2. x \in {t}
  BY <1>1 DEF OneRing
<1>. QED
  BY <1>2

\* The only child of a node takes its place.
LEMMA ChildTakesPlace ==
  ASSUME NEW D, NEW N, NEW r, NEW size, NEW Sub, Shape(D, N, r, size, Sub), OneRing(D, N, size),
         NEW t \in D, t \in Sub[r], N[t].fwd = t, NEW c,
         (N[t].left = nil /\ c = N[t].right) \/ (N[t].right = nil /\ c = N[t].left),
         NEW N2, ByChild(D, N, t, c, N2)
  PROVE  \E Sub2 : Shape(D \ {t}, N2, IF N[t].parent = nil THEN c ELSE r, size, Sub2)
<1> DEFINE W == Sub[t] \ {t}
           E == D \ {t}
           Sub2 == [x \in E \cup {nil} |-> IF t \in Sub[x] THEN (Sub[x] \ Sub[t]) \cup W ELSE Sub[x]]
           r2 == IF N[t].parent = nil THEN c ELSE r
<1>1. Linked(D, N, r) /\ Subtrees(D, N, Sub) /\ Ordered(D, N, size, Sub) /\ Parents(D, N, r, Sub) /\ Sized(D, r, size, Sub)
  BY DEF Shape
<1>2. /\ nil \notin D /\ Sub[nil] = {} /\ r \in D /\ r # nil
      /\ Sub[t] \subseteq D /\ t \in Sub[t] /\ Sub[t] = {t} \cup Sub[N[t].left] \cup Sub[N[t].right]
      /\ t \notin Sub[N[t].left] /\ t \notin Sub[N[t].right]
      /\ N[t].left \in D \cup {nil} /\ N[t].right \in D \cup {nil}
  <2>1. nil \notin D /\ Sub[nil] = {} /\ r \in D \cup {nil}
    BY <1>1 DEF Linked, Subtrees
  <2>. QED
    BY <2>1, NodeFacts
<1>3. /\ c \in W \cup {nil} /\ W = Sub[c] /\ W \subseteq E
      /\ c # nil => N[c].parent = t
  <2>1. W = Sub[c] /\ c \in D \cup {nil}
    BY <1>2
  <2>2. c # nil => c \in Sub[c] /\ N[c].parent = t
    BY <1>1, <2>1, NodeFacts DEF Parents
  <2>. QED
    BY <1>2, <2>1, <2>2
<1>4. ASSUME NEW x \in E
      PROVE  /\ N2[x].left = IF N[x].left = t THEN c ELSE N[x].left
             /\ N2[x].right = IF N[x].right = t THEN c ELSE N[x].right
             /\ N2[x].parent = IF x = c THEN N[t].parent ELSE N[x].parent
  BY DEF ByChild
<1>5. ASSUME NEW x \in W
      PROVE  /\ x \in E /\ x \in D /\ x # nil /\ t \notin Sub[x]
             /\ N[x].left # t /\ N[x].right # t /\ (x # c => N[x].parent \in W)
             /\ N[x].left \in W \cup {nil} /\ N[x].right \in W \cup {nil}
             /\ Sub[x] = {x} \cup Sub[N[x].left] \cup Sub[N[x].right]
  <2>1. x \in E /\ x \in D /\ x # nil /\ x \in Sub[c] /\ c \in D /\ t \notin Sub[c]
    BY <1>2, <1>3
  <2>2. /\ Sub[x] = {x} \cup Sub[N[x].left] \cup Sub[N[x].right] /\ Sub[x] \subseteq Sub[c]
        /\ N[x].left \in D \cup {nil} /\ N[x].right \in D \cup {nil}
    BY <2>1, SubtreeIn, NodeFacts
  <2>3. x # c => N[x].parent \in Sub[c]
    BY <2>1, ParentIn
  <2>4. \A y \in D : y \in Sub[y]
    BY NodeFacts
  <2>. QED
    BY <1>2, <1>3, <2>1, <2>2, <2>3, <2>4
<1>6. /\ Sub2[nil] = {} /\ Sub2[c] = W /\ \A x \in W : Sub2[x] = Sub[x]
      /\ \A x \in E \ W : Sub2[x] = IF t \in Sub[x] THEN (Sub[x] \ Sub[t]) \cup W ELSE Sub[x]
  <2>1. \A x \in W : Sub2[x] = Sub[x]
    BY <1>5
  <2>2. Sub2[nil] = {}
    BY <1>2
  <2>3. Sub2[c] = W
    BY <1>3, <2>1, <2>2, <1>2
  <2>. QED
    BY <2>1, <2>2, <2>3
<1>7. Sub2 \in [E \cup {nil} -> SUBSET E]
  <2>1. \A x \in E \cup {nil} : Sub[x] \subseteq D
    BY <1>2, NodeFacts
  <2>. QED
    BY <1>2, <1>3, <2>1
<1> HIDE DEF Sub2
<1>8. Grafted(D, N, r, size, Sub, t, c, W, N2, r2, Sub2)
  <2>1. N2 \in [E -> NodeSet(E)]
    BY DEF ByChild
  <2>2. c = nil => W = {}
    BY <1>2, <1>3
  <2>3. \A x \in E \ W : x # c
    BY <1>2, <1>3
  <2>. QED
    BY <1>2, <1>3, <1>4, <2>1, <2>2, <2>3 DEF Grafted
<1>9. Within(size, c, W, N2, Sub2)
  <2>1. ASSUME NEW x \in W
        PROVE  /\ N2[x].left = N[x].left /\ N2[x].right = N[x].right
               /\ x # c => N2[x].parent = N[x].parent
               /\ Sub2[x] = Sub[x] /\ Sub2[N[x].left] = Sub[N[x].left] /\ Sub2[N[x].right] = Sub[N[x].right]
    BY <1>2, <1>4, <1>5, <1>6
  <2>2. ASSUME NEW x \in W, NEW y \in {N[x].left, N[x].right}, y # nil PROVE N2[y].parent = x
    <3>1. y \in W /\ N[y].parent = x /\ x # t
      BY <1>1, <1>5, <2>2 DEF Parents
    <3>2. y # c
      BY <1>2, <1>3, <3>1
    <3>. QED
      BY <2>1, <3>1, <3>2
  <2>3. ASSUME NEW x \in W, x # c
        PROVE  N2[x].parent \in W /\ (N2[N2[x].parent].left = x \/ N2[N2[x].parent].right = x)
    <3>0. PICK y : y = N[x].parent
      OBVIOUS
    <3>1. y \in W /\ y # nil /\ x \in D /\ (N[y].left = x \/ N[y].right = x)
      BY <1>1, <1>5, <2>3, <3>0 DEF Parents
    <3>. QED
      BY <2>1, <2>3, <3>0, <3>1
  <2>4. ASSUME NEW x \in W
        PROVE  /\ N2[x].left \in W \cup {nil} /\ N2[x].right \in W \cup {nil}
               /\ Sub2[x] = {x} \cup Sub2[N2[x].left] \cup Sub2[N2[x].right]
               /\ \A q \in Sub2[N2[x].left] : size[q] < size[x]
               /\ \A q \in Sub2[N2[x].right] : size[x] < size[q]
    <3>1. x \in D /\ Sub[x] = {x} \cup Sub[N[x].left] \cup Sub[N[x].right]
          /\ N[x].left \in W \cup {nil} /\ N[x].right \in W \cup {nil}
      BY <1>5
    <3>. QED
      BY <1>1, <2>1, <3>1 DEF Ordered
  <2>5. ASSUME NEW x \in W
        PROVE  /\ N2[x].left # nil => N2[N2[x].left].parent = x
               /\ N2[x].right # nil => N2[N2[x].right].parent = x
    BY <2>1, <2>2
  <2> HIDE DEF W
  <2>. QED
    BY <1>6, <2>3, <2>4, <2>5 DEF Within
<1>10. SameSizes(D, size, Sub, t, W)
  <2>1. \A x \in E : size[x] # size[t]
    BY <1>1, AloneInSize DEF Linked
  <2>. QED
    BY <2>1 DEF SameSizes
<1> HIDE DEF W, r2
<1>11. Shape(D \ {t}, N2, r2, size, Sub2)
  BY <1>6, <1>7, <1>8, <1>9, <1>10, GraftKeeps
<1>. QED
  BY <1>11 DEF r2

\* Leftmost is what its recursion says.
LEMMA LeftmostRecursion ==
  ASSUME NEW D, NEW N, NEW r, NEW size, NEW Sub, Shape(D, N, r, size, Sub), NEW b
  PROVE  \E f : /\ \A t \in D : f[t] = IF N[t].left = nil THEN t ELSE f[N[t].left]
                /\ Leftmost(N, b) = f[b]
<1> DEFINE E == D \cup {nil}
           body(t, g) == IF t = nil THEN nil ELSE IF N[t].left = nil THEN t ELSE g[N[t].left]
           step == [t \in E |-> [g \in [E -> E] |-> body(t, g)]]
<1>1. ASSUME NEW t \in D PROVE N[t].left \in E
  BY NodeFacts
<1>2. step \in [E -> [[E -> E] -> E]]
  BY <1>1
<1>3. FromChildren(E, N, E, step)
  BY DEF FromChildren
<1>4. \A t \in E : \A g \in [E -> E] : step[t][g] = body(t, g)
  OBVIOUS
<1>5. E # {} /\ E = D \cup {nil}
  OBVIOUS
<1> HIDE DEF step, E
<1>6. PICK f \in [E -> E] : Solves(f, E, step)
  BY <1>2, <1>3, <1>5, TreeRecursion
<1> USE DEF E
<1>7. \A t \in E : f[t] = body(t, f)
  BY <1>4, <1>6 DEF Solves
<1> DEFINE Down[t \in D] == IF N[t].left = nil THEN t ELSE Down[N[t].left]
           g == [t \in D |-> f[t]]
<1>8. Down = [t \in D |-> IF N[t].left = nil THEN t ELSE Down[N[t].left]]
  <2>1. ASSUME NEW t \in D PROVE g[t] = IF N[t].left = nil THEN t ELSE g[N[t].left]
    <3>1. t # nil
      BY DEF Shape, Linked
    <3>2. N[t].left # nil => N[t].left \in D
      BY <1>1
    <3>. QED
      BY <1>7, <3>1, <3>2
  <2>2. g = [t \in D |-> IF N[t].left = nil THEN t ELSE g[N[t].left]]
    BY <2>1
  <2> HIDE DEF g
  <2>. QED
    BY <2>2
<1>9. Leftmost(N, b) = Down[b]
  <2>1. DOMAIN N = D
    BY DEF Shape, Linked
  <2>. QED
    BY <2>1 DEF Leftmost
<1> HIDE DEF Down
<1>. QED
  BY <1>8, <1>9

\* m is the node with the smallest size of a subtree.
IsFirst(m, D, N, size, Sub, b) ==
  /\ m \in Sub[b] /\ m \in D /\ N[m].left = nil
  /\ \A x \in Sub[b] \ {m} : size[m] < size[x]
  /\ m # b => N[m].parent \in Sub[b] /\ N[m].parent \in D /\ N[m].parent # m /\ N[N[m].parent].left = m

\* Leftmost comes to that node.
LEMMA LeftmostIs ==
  ASSUME NEW D, NEW N, NEW r, NEW size, NEW Sub, Shape(D, N, r, size, Sub), NEW b \in D
  PROVE  IsFirst(Leftmost(N, b), D, N, size, Sub, b)
<1>1. PICK f : /\ \A t \in D : f[t] = IF N[t].left = nil THEN t ELSE f[N[t].left]
               /\ Leftmost(N, b) = f[b]
  BY LeftmostRecursion
<1> DEFINE S == {x \in D : IsFirst(f[x], D, N, size, Sub, x)}
<1>2. Sub[nil] = {} /\ nil \notin D
  BY DEF Shape, Subtrees, Linked
<1>3. ASSUME NEW x \in D, N[x].left \in S \cup {nil}, N[x].right \in S \cup {nil} PROVE x \in S
  <2>1. /\ Sub[x] = {x} \cup Sub[N[x].left] \cup Sub[N[x].right] /\ Sub[x] \subseteq D
        /\ x \notin Sub[N[x].left] /\ x \notin Sub[N[x].right]
    BY NodeFacts
  <2>2. /\ \A u \in Sub[N[x].left] : size[u] < size[x]
        /\ \A u \in Sub[N[x].right] : size[x] < size[u]
        /\ \A u \in D : size[u] \in Nat
    BY DEF Shape, Ordered
  <2>3. CASE N[x].left = nil
    <3>1. f[x] = x
      BY <1>1, <2>3
    <3>2. \A u \in Sub[x] \ {x} : size[x] < size[u]
      BY <1>2, <2>1, <2>2, <2>3
    <3>. QED
      BY <2>1, <2>3, <3>1, <3>2 DEF IsFirst
  <2>4. CASE N[x].left # nil
    <3>0. PICK l : l = N[x].left
      OBVIOUS
    <3>1. f[x] = f[l] /\ l \in D /\ IsFirst(f[l], D, N, size, Sub, l)
      BY <1>1, <1>3, <2>4, <3>0
    <3>2. PICK m : m = f[l]
      OBVIOUS
    <3>3. /\ m \in Sub[l] /\ m \in D /\ N[m].left = nil
          /\ \A u \in Sub[l] \ {m} : size[m] < size[u]
          /\ m # l => N[m].parent \in Sub[l] /\ N[m].parent \in D /\ N[m].parent # m /\ N[N[m].parent].left = m
      BY <3>1, <3>2 DEF IsFirst
    <3>4. m \in Sub[x] /\ m # x /\ size[m] < size[x] /\ Sub[l] \subseteq Sub[x]
      BY <2>1, <2>2, <3>0, <3>3
    <3>5. ASSUME NEW u \in Sub[x] \ {m} PROVE size[m] < size[u]
      <4>1. u \in D /\ m \in D /\ x \in D
        BY <2>1, <3>3
      <4>2. CASE u \in Sub[l]
        BY <3>3, <4>2
      <4>3. CASE u = x
        BY <3>4, <4>3
      <4>4. CASE u \in Sub[N[x].right]
        <5>1. size[x] < size[u]
          BY <2>2, <4>4
        <5>2. size[x] \in Nat /\ size[u] \in Nat /\ size[m] \in Nat
          BY <2>2, <4>1
        <5>. QED
          BY <3>4, <5>1, <5>2
      <4>. QED
        BY <2>1, <3>0, <4>2, <4>3, <4>4
    <3>6. N[m].parent \in Sub[x] /\ N[m].parent \in D /\ N[m].parent # m /\ N[N[m].parent].left = m
      <4>1. CASE m = l
        <5>1. N[l].parent = x
          BY <2>4, <3>0 DEF Shape, Parents
        <5>. QED
          BY <2>1, <3>0, <3>4, <4>1, <5>1
      <4>2. CASE m # l
        BY <3>3, <3>4, <4>2
      <4>. QED
        BY <4>1, <4>2
    <3>7. IsFirst(m, D, N, size, Sub, x)
      BY <3>3, <3>4, <3>5, <3>6 DEF IsFirst
    <3>. QED
      BY <3>1, <3>2, <3>7
  <2>. QED
    BY <2>3, <2>4
<1>4. D \subseteq S
  <2> HIDE DEF S
  <2>1. Linked(D, N, r) /\ Subtrees(D, N, Sub) /\ Ordered(D, N, size, Sub)
    BY DEF Shape
  <2>. QED
    BY <1>3, <2>1, TreeInduction
<1>. QED
  BY <1>1, <1>4

\* N2 is N with m, the first after t, in t's place.
ByNext(D, N, t, m, N2) ==
  /\ N2 \in [D \ {t} -> NodeSet(D \ {t})]
  /\ \A x \in D \ {t} :
       /\ N2[x].left = IF x = m THEN N[t].left
                       ELSE IF N[x].left = m THEN N[m].right
                       ELSE IF N[x].left = t THEN m ELSE N[x].left
       /\ N2[x].right = IF x = m THEN IF N[t].right = m THEN N[m].right ELSE N[t].right
                        ELSE IF N[x].right = t THEN m ELSE N[x].right
       /\ N2[x].parent = IF x = m THEN N[t].parent
                         ELSE IF N[x].parent = t THEN m
                         ELSE IF N[x].parent = m /\ N[m].parent # t THEN N[m].parent ELSE N[x].parent

\* What is below one child of a node is not below the other.
LEMMA ChildrenApart ==
  ASSUME NEW D, NEW N, NEW r, NEW size, NEW Sub, Shape(D, N, r, size, Sub), NEW t \in D
  PROVE  /\ t \notin Sub[N[t].left] /\ t \notin Sub[N[t].right]
         /\ \A x : ~(x \in Sub[N[t].left] /\ x \in Sub[N[t].right])
<1>1. /\ t \notin Sub[N[t].left] /\ t \notin Sub[N[t].right]
      /\ Sub[N[t].left] \cap Sub[N[t].right] = {}
  BY NodeFacts
<1>. QED
  BY <1>1

\* What there is to know of the first node after t, whose children are l and R.
NextFacts(D, N, Sub, t, m, l, R) ==
  /\ l = N[t].left /\ R = N[t].right /\ l \in D /\ R \in D /\ l # m /\ l # R /\ m \in D /\ m # t
  /\ m \in Sub[R] /\ m \notin Sub[l] /\ N[m].left = nil
  /\ N[l].parent = t /\ N[R].parent = t
  /\ m = R => N[m].parent = t
  /\ m # R => /\ N[m].parent \in Sub[R] /\ N[m].parent \in D /\ N[m].parent # m /\ N[m].parent # t
              /\ N[N[m].parent].left = m
  /\ Sub[m] = {m} \cup Sub[N[m].right] /\ m \notin Sub[N[m].right]
  /\ N[m].right \in D \cup {nil}
  /\ N[m].right # nil => N[N[m].right].parent = m /\ N[m].right \in Sub[m] /\ N[m].right # m
  /\ Sub[m] \subseteq Sub[R]

\* A node with two children has that one after it.
LEMMA NextIs ==
  ASSUME NEW D, NEW N, NEW r, NEW size, NEW Sub, Shape(D, N, r, size, Sub),
         NEW t \in D, N[t].left # nil, N[t].right # nil, NEW m, IsFirst(m, D, N, size, Sub, N[t].right)
  PROVE  NextFacts(D, N, Sub, t, m, N[t].left, N[t].right)
<1>0. PICK l, R : l = N[t].left /\ R = N[t].right
  OBVIOUS
<1>1. /\ l \in D /\ R \in D /\ Sub[l] \cap Sub[R] = {} /\ t \notin Sub[R] /\ t \notin Sub[l]
      /\ Sub[R] \subseteq D
  <2>1. l \in D /\ R \in D
    BY <1>0, NodeFacts
  <2>2. /\ t \notin Sub[N[t].left] /\ t \notin Sub[N[t].right]
        /\ \A x : ~(x \in Sub[N[t].left] /\ x \in Sub[N[t].right])
    BY ChildrenApart
  <2>3. Sub[R] \subseteq D
    BY <2>1, NodeFacts
  <2>. QED
    BY <1>0, <2>1, <2>2, <2>3
<1>2. N[l].parent = t /\ N[R].parent = t
  BY <1>0 DEF Shape, Parents
<1>3. /\ m \in Sub[R] /\ m \in D /\ N[m].left = nil
      /\ m # R => N[m].parent \in Sub[R] /\ N[m].parent \in D /\ N[m].parent # m /\ N[N[m].parent].left = m
  BY <1>0 DEF IsFirst
<1>4. l \in Sub[l] /\ R \in Sub[R]
  BY <1>1, NodeFacts
<1>5. /\ Sub[m] = {m} \cup Sub[N[m].left] \cup Sub[N[m].right] /\ m \notin Sub[N[m].right]
      /\ N[m].right \in D \cup {nil}
  BY <1>3, NodeFacts
<1>6. Sub[nil] = {} /\ Sub[m] \subseteq Sub[R]
  BY <1>1, <1>3, SubtreeIn DEF Shape, Subtrees
<1>7. N[m].right # nil => N[N[m].right].parent = m /\ N[m].right \in Sub[m] /\ N[m].right # m
  <2>1. N[m].right # nil => N[N[m].right].parent = m
    BY <1>3 DEF Shape, Parents
  <2>2. N[m].right # nil => N[m].right \in Sub[N[m].right]
    BY <1>5, NodeFacts
  <2>. QED
    BY <2>1, <2>2, <1>5
<1>. QED
  BY <1>0, <1>1, <1>2, <1>3, <1>4, <1>5, <1>6, <1>7 DEF NextFacts

\* The first node after a node with two children takes its place.
LEMMA NextTakesPlace ==
  ASSUME NEW D, NEW N, NEW r, NEW size, NEW Sub, Shape(D, N, r, size, Sub), OneRing(D, N, size),
         NEW t \in D, t \in Sub[r], N[t].fwd = t, N[t].left # nil, N[t].right # nil,
         NEW m, IsFirst(m, D, N, size, Sub, N[t].right),
         NEW N2, ByNext(D, N, t, m, N2)
  PROVE  \E Sub2 : Shape(D \ {t}, N2, IF N[t].parent = nil THEN m ELSE r, size, Sub2)
<1> DEFINE W == Sub[t] \ {t}
           E == D \ {t}
           Sub2 == [x \in E \cup {nil} |->
                      IF x = m THEN W ELSE IF x \in W THEN Sub[x] \ {m}
                      ELSE IF t \in Sub[x] THEN (Sub[x] \ Sub[t]) \cup W ELSE Sub[x]]
           r2 == IF N[t].parent = nil THEN m ELSE r
<1>1. Linked(D, N, r) /\ Subtrees(D, N, Sub) /\ Ordered(D, N, size, Sub) /\ Parents(D, N, r, Sub) /\ Sized(D, r, size, Sub)
  BY DEF Shape
<1>0. PICK l, R : l = N[t].left /\ R = N[t].right
  OBVIOUS
<1>2. /\ nil \notin D /\ Sub[nil] = {} /\ r \in D /\ r # nil
      /\ Sub[t] \subseteq D /\ t \in Sub[t] /\ Sub[t] = {t} \cup Sub[l] \cup Sub[R]
      /\ t \notin Sub[l] /\ t \notin Sub[R] /\ Sub[l] \cap Sub[R] = {}
  <2>1. nil \notin D /\ Sub[nil] = {} /\ r \in D \cup {nil}
    BY <1>1 DEF Linked, Subtrees
  <2>. QED
    BY <1>0, <2>1, NodeFacts
<1>3. /\ l \in D /\ R \in D /\ l # m /\ l # R /\ m \in D /\ m # t
      /\ m \in Sub[R] /\ m \notin Sub[l] /\ N[m].left = nil
      /\ N[l].parent = t /\ N[R].parent = t
      /\ m = R => N[m].parent = t
      /\ m # R => /\ N[m].parent \in Sub[R] /\ N[m].parent \in D /\ N[m].parent # m /\ N[m].parent # t
                  /\ N[N[m].parent].left = m
      /\ Sub[m] = {m} \cup Sub[N[m].right] /\ m \notin Sub[N[m].right]
      /\ N[m].right \in D \cup {nil}
      /\ N[m].right # nil => N[N[m].right].parent = m /\ N[m].right \in Sub[m] /\ N[m].right # m
      /\ Sub[m] \subseteq Sub[R]
  BY <1>0, NextIs DEF NextFacts
<1>4. ASSUME NEW x \in E
      PROVE  /\ N2[x].left = IF x = m THEN l
                             ELSE IF N[x].left = m THEN N[m].right
                             ELSE IF N[x].left = t THEN m ELSE N[x].left
             /\ N2[x].right = IF x = m THEN IF R = m THEN N[m].right ELSE R
                              ELSE IF N[x].right = t THEN m ELSE N[x].right
             /\ N2[x].parent = IF x = m THEN N[t].parent
                               ELSE IF N[x].parent = t THEN m
                               ELSE IF N[x].parent = m /\ N[m].parent # t THEN N[m].parent ELSE N[x].parent
  BY <1>0 DEF ByNext
<1>5. ASSUME NEW x \in W
      PROVE  /\ x \in E /\ x \in D /\ x # nil /\ t \notin Sub[x] /\ x # t
             /\ N[x].left # t /\ N[x].right # t /\ N[x].parent \in Sub[t]
             /\ N[x].left \in W \cup {nil} /\ N[x].right \in W \cup {nil}
             /\ Sub[x] = {x} \cup Sub[N[x].left] \cup Sub[N[x].right]
             /\ x \notin Sub[N[x].left] /\ x \notin Sub[N[x].right]
             /\ Sub[N[x].left] \cap Sub[N[x].right] = {}
  <2>1. x \in E /\ x \in D /\ x # nil /\ x # t
    BY <1>2
  <2>2. /\ Sub[x] = {x} \cup Sub[N[x].left] \cup Sub[N[x].right] /\ Sub[x] \subseteq Sub[t]
        /\ N[x].left \in D \cup {nil} /\ N[x].right \in D \cup {nil}
        /\ x \notin Sub[N[x].left] /\ x \notin Sub[N[x].right]
        /\ Sub[N[x].left] \cap Sub[N[x].right] = {}
    <3>1. Sub[x] \subseteq Sub[t]
      BY SubtreeIn
    <3>2. ASSUME NEW y \in D
          PROVE  /\ Sub[y] = {y} \cup Sub[N[y].left] \cup Sub[N[y].right]
                 /\ N[y].left \in D \cup {nil} /\ N[y].right \in D \cup {nil}
      BY NodeFacts
    <3>3. ASSUME NEW y \in D
          PROVE  /\ y \notin Sub[N[y].left] /\ y \notin Sub[N[y].right]
                 /\ \A z : ~(z \in Sub[N[y].left] /\ z \in Sub[N[y].right])
      BY ChildrenApart
    <3>. QED
      BY <2>1, <3>1, <3>2, <3>3
  <2>3. N[x].parent \in Sub[t]
    BY <2>1, ParentIn
  <2>4. \A y \in D : y \in Sub[y]
    BY NodeFacts
  <2>5. t \notin Sub[N[x].left] /\ t \notin Sub[N[x].right]
    BY NotAbove
  <2>. QED
    BY <1>2, <2>1, <2>2, <2>3, <2>4, <2>5
<1>6. /\ Sub2[nil] = {} /\ Sub2[m] = W /\ \A x \in W \ {m} : Sub2[x] = Sub[x] \ {m}
      /\ \A x \in E \ W : Sub2[x] = IF t \in Sub[x] THEN (Sub[x] \ Sub[t]) \cup W ELSE Sub[x]
      /\ m \in W
  <2>1. m \in W /\ nil \notin W /\ m # nil
    BY <1>2, <1>3
  <2>2. W \subseteq E
    BY <1>2
  <2>. QED
    BY <1>2, <2>1, <2>2
<1>7. Sub2 \in [E \cup {nil} -> SUBSET E]
  <2>1. \A x \in E \cup {nil} : Sub[x] \subseteq D
    BY <1>2, NodeFacts
  <2>2. \A x \in W : t \notin Sub[x]
    BY <1>5
  <2>. QED
    BY <1>2, <2>1, <2>2
<1> HIDE DEF Sub2
<1>8. Grafted(D, N, r, size, Sub, t, m, W, N2, r2, Sub2)
  <2>1. N2 \in [E -> NodeSet(E)]
    BY DEF ByNext
  <2>2. ASSUME NEW x \in E \ W
        PROVE  x # m /\ N[x].left # m /\ N[x].parent # t /\ N[x].parent # m
    <3>1. x \in D /\ x \notin Sub[t] /\ x # nil /\ x # m
      BY <1>2, <1>6
    <3>2. N[x].left = m => N[m].parent = x
      BY <1>1, <1>2, <1>3, <3>1 DEF Parents
    <3>3. N[m].parent \in Sub[t]
      BY <1>5, <1>6
    <3>4. ASSUME NEW y \in Sub[t], N[x].parent = y PROVE FALSE
      <4>1. y \in D /\ y # nil /\ (N[y].left = x \/ N[y].right = x)
        BY <1>1, <1>2, <3>1, <3>4 DEF Parents
      <4>2. x \in Sub[y]
        BY <3>1, <4>1, NodeFacts
      <4>. QED
        BY <3>1, <3>4, <4>1, <4>2, SubtreeIn
    <3>. QED
      BY <1>2, <1>6, <3>1, <3>2, <3>3, <3>4
  <2>3. ASSUME NEW x \in E \ W
        PROVE  /\ N2[x].left = IF N[x].left = t THEN m ELSE N[x].left
               /\ N2[x].right = IF N[x].right = t THEN m ELSE N[x].right
               /\ N2[x].parent = N[x].parent
    <3>1. x # m /\ N[x].left # m /\ N[x].parent # t /\ N[x].parent # m
      BY <2>2
    <3>. QED
      BY <1>4, <3>1
  <2>4. N2[m].parent = N[t].parent
    BY <1>3, <1>4
  <2>. QED
    BY <1>2, <1>3, <1>6, <2>1, <2>3, <2>4 DEF Grafted
\* The nodes below t, but for m: their subtrees lose m.
<1>9. ASSUME NEW x \in W, x # m
      PROVE  /\ N2[x].left = IF N[x].left = m THEN N[m].right ELSE N[x].left
             /\ N2[x].right = N[x].right /\ N[x].right # m
             /\ N[x].left = m => N[m].parent = x
             /\ N2[x].parent = IF N[x].parent = t THEN m
                               ELSE IF N[x].parent = m /\ N[m].parent # t THEN N[m].parent ELSE N[x].parent
  <2>1. N[x].right # m
    <3>1. SUFFICES ASSUME N[x].right = m PROVE FALSE
      OBVIOUS
    <3>2. N[m].parent = x
      BY <1>1, <1>2, <1>3, <1>5, <3>1 DEF Parents
    <3>3. m # R /\ N[x].left = m
      BY <1>3, <1>5, <3>2
    <3>4. m \in Sub[m]
      BY <1>3
    <3>. QED
      BY <1>5, <3>1, <3>3, <3>4
  <2>2. N[x].left = m => N[m].parent = x
    BY <1>1, <1>2, <1>3, <1>5 DEF Parents
  <2>. QED
    BY <1>4, <1>5, <1>9, <2>1, <2>2
<1>10. ASSUME NEW c \in W \cup {nil}, c # m PROVE Sub2[c] = Sub[c] \ {m}
  BY <1>2, <1>6, <1>10
<1>11. ASSUME NEW x \in W, x # m
       PROVE  Sub2[N2[x].left] = Sub[N[x].left] \ {m} /\ Sub2[N2[x].right] = Sub[N[x].right] \ {m}
              /\ N2[x].left \in W \cup {nil} /\ N2[x].right \in W \cup {nil}
  <2>1. Sub2[N[x].right] = Sub[N[x].right] \ {m}
    BY <1>5, <1>9, <1>10, <1>11
  <2>2. N[m].right \in W \cup {nil} /\ N[m].right # m /\ Sub2[N[m].right] = Sub[m] \ {m}
    <3>1. N[m].right \in W \cup {nil} /\ N[m].right # m
      BY <1>2, <1>3, <1>5, <1>6
    <3>2. Sub2[N[m].right] = Sub[N[m].right] \ {m}
      BY <1>10, <3>1
    <3>. QED
      BY <1>3, <3>1, <3>2
  <2>3. Sub2[N2[x].left] = Sub[N[x].left] \ {m}
    <3>1. CASE N[x].left = m
      BY <1>9, <1>11, <2>2, <3>1
    <3>2. CASE N[x].left # m
      BY <1>5, <1>9, <1>10, <1>11, <3>2
    <3>. QED
      BY <3>1, <3>2
  <2>. QED
    BY <1>5, <1>9, <1>11, <2>1, <2>2, <2>3
<1>12. PICK R2 : R2 = IF R = m THEN N[m].right ELSE R
  OBVIOUS
<1>13. /\ N2[m].left = l /\ N2[m].right = R2 /\ Sub2[l] = Sub[l] /\ Sub2[R2] = Sub[R] \ {m}
       /\ l \in W /\ R2 \in W \cup {nil} /\ l # m /\ R2 # m
  <2>1. l \in W /\ R \in W
    <3>1. l \in Sub[l] /\ R \in Sub[R]
      BY <1>3, NodeFacts
    <3>. QED
      BY <1>2, <3>1
  <2>2. N[m].right \in W \cup {nil} /\ N[m].right # m
    BY <1>2, <1>3, <1>5, <1>6
  <2>3. N2[m].left = l /\ N2[m].right = R2
    BY <1>3, <1>4, <1>12
  <2>4. Sub2[l] = Sub[l]
    <3>1. l # m /\ m \notin Sub[l]
      BY <1>3
    <3>2. Sub2[l] = Sub[l] \ {m}
      BY <1>10, <2>1, <3>1
    <3>. QED
      BY <3>1, <3>2
  <2>5. Sub2[R2] = Sub[R] \ {m}
    <3>1. CASE R = m
      BY <1>3, <1>10, <1>12, <2>2, <3>1
    <3>2. CASE R # m
      BY <1>10, <1>12, <2>1, <3>2
    <3>. QED
      BY <3>1, <3>2
  <2>. QED
    BY <1>3, <1>12, <2>1, <2>2, <2>3, <2>4, <2>5
<1>14. Within(size, m, W, N2, Sub2)
  <2>1. /\ Sub2[m] = {m} \cup Sub2[N2[m].left] \cup Sub2[N2[m].right]
        /\ N2[m].left \in W \cup {nil} /\ N2[m].right \in W \cup {nil}
    BY <1>2, <1>3, <1>6, <1>13
  <2>2. /\ \A q \in Sub2[N2[m].left] : size[q] < size[m]
        /\ \A q \in Sub2[N2[m].right] : size[m] < size[q]
    <3>1. \A q \in Sub[R] \ {m} : size[m] < size[q]
      BY <1>0 DEF IsFirst
    <3>2. ASSUME NEW q \in Sub[l] PROVE size[q] < size[m]
      <4>1. size[q] < size[t] /\ size[t] < size[m]
        BY <1>0, <1>1, <1>3 DEF Ordered
      <4>2. q \in D
        BY <1>2
      <4>3. size[q] \in Nat /\ size[t] \in Nat /\ size[m] \in Nat
        BY <1>1, <1>3, <4>2 DEF Ordered
      <4>. QED
        BY <4>1, <4>3
    <3>. QED
      BY <1>13, <3>1, <3>2
  <2>3. N2[l].parent = m /\ (R2 # nil => N2[R2].parent = m)
    <3>1. N2[l].parent = m
      BY <1>3, <1>9, <1>13
    <3>2. R2 # nil => N2[R2].parent = m
      <4>1. CASE R = m
        <5>1. N[m].parent = t /\ R2 = N[m].right
          BY <1>3, <1>12, <4>1
        <5>2. R2 # nil => N[R2].parent = m /\ R2 \in W /\ R2 # m
          BY <1>3, <1>13, <5>1
        <5>. QED
          BY <1>9, <1>3, <5>1, <5>2
      <4>2. CASE R # m
        BY <1>3, <1>9, <1>12, <1>13, <1>2, <4>2
      <4>. QED
        BY <4>1, <4>2
    <3>. QED
      BY <3>1, <3>2
  <2>4. ASSUME NEW x \in W, x # m
        PROVE  /\ N2[x].left # nil => N2[N2[x].left].parent = x
               /\ N2[x].right # nil => N2[N2[x].right].parent = x
    <3>1. ASSUME NEW c \in W, c # m, N[c].parent = x PROVE N2[c].parent = x
      BY <1>5, <1>9, <2>4, <3>1
    <3>2. N2[x].right # nil => N2[N2[x].right].parent = x
      <4>1. SUFFICES ASSUME N2[x].right # nil PROVE N2[N2[x].right].parent = x
        OBVIOUS
      <4>2. N2[x].right = N[x].right /\ N[x].right # m /\ N[x].right \in W
        BY <1>5, <1>9, <2>4, <4>1
      <4>3. N[N[x].right].parent = x
        BY <1>1, <1>5, <4>1, <4>2 DEF Parents
      <4>. QED
        BY <3>1, <4>2, <4>3
    <3>3. N2[x].left # nil => N2[N2[x].left].parent = x
      <4>1. SUFFICES ASSUME N2[x].left # nil PROVE N2[N2[x].left].parent = x
        OBVIOUS
      <4>2. CASE N[x].left = m
        <5>1. PICK c : c = N[m].right
          OBVIOUS
        <5>2. N2[x].left = c /\ c # nil /\ N[c].parent = m /\ c \in W /\ c # m /\ N[m].parent = x
          <6>1. N2[x].left = c /\ c # nil /\ N[m].parent = x
            BY <1>9, <2>4, <4>1, <4>2, <5>1
          <6>2. N[c].parent = m /\ c # m
            BY <1>3, <5>1, <6>1
          <6>3. c \in W
            BY <1>11, <2>4, <6>1
          <6>. QED
            BY <6>1, <6>2, <6>3
        <5>3. x # t /\ m # t
          BY <1>3, <1>5
        <5>. QED
          BY <1>9, <5>2, <5>3
      <4>3. CASE N[x].left # m
        <5>1. N2[x].left = N[x].left /\ N[x].left \in W
          BY <1>5, <1>9, <2>4, <4>1, <4>3
        <5>2. N[N[x].left].parent = x
          BY <1>1, <1>5, <4>1, <5>1 DEF Parents
        <5>. QED
          BY <3>1, <4>3, <5>1, <5>2
      <4>. QED
        BY <4>2, <4>3
    <3>. QED
      BY <3>2, <3>3
  <2>5. ASSUME NEW x \in W, x # m
        PROVE  N2[x].parent \in W /\ (N2[N2[x].parent].left = x \/ N2[N2[x].parent].right = x)
    <3>0. PICK y : y = N[x].parent
      OBVIOUS
    <3>1. y \in Sub[t] /\ y # nil /\ x \in D /\ (N[y].left = x \/ N[y].right = x)
      BY <1>1, <1>2, <1>5, <2>5, <3>0 DEF Parents
    <3>2. CASE y = t
      <4>1. N2[x].parent = m /\ x \in {l, R}
        BY <1>0, <1>9, <2>5, <3>0, <3>1, <3>2
      <4>2. x = R => R2 = R
        BY <1>12, <2>5
      <4>. QED
        BY <1>6, <1>13, <4>1, <4>2
    <3>3. CASE y = m
      <4>1. N[m].right = x
        BY <1>2, <1>3, <1>5, <3>1, <3>3
      <4>2. CASE m = R
        <5>1. N2[x].parent = m /\ R2 = x
          BY <1>3, <1>9, <1>12, <2>5, <3>0, <3>3, <4>1, <4>2
        <5>. QED
          BY <1>6, <1>13, <5>1
      <4>3. CASE m # R
        <5>0. PICK p : p = N[m].parent
          OBVIOUS
        <5>1. N2[x].parent = p /\ p \in W /\ p # m /\ N[p].left = m
          <6>1. N[m].parent \in Sub[R] /\ N[m].parent # m /\ N[m].parent # t /\ N[N[m].parent].left = m
            BY <1>3, <4>3
          <6>2. N2[x].parent = N[m].parent
            BY <1>3, <1>9, <2>5, <3>0, <3>3, <6>1
          <6>. QED
            BY <1>2, <5>0, <6>1, <6>2
        <5>2. N2[p].left = x
          BY <1>9, <4>1, <5>1
        <5>. QED
          BY <5>1, <5>2
      <4>. QED
        BY <4>2, <4>3
    <3>4. CASE y # t /\ y # m
      <4>1. y \in W /\ N2[x].parent = y
        BY <1>9, <2>5, <3>0, <3>1, <3>4
      <4>2. N2[y].right = N[y].right /\ (N[y].left # m => N2[y].left = N[y].left)
        BY <1>9, <3>4, <4>1
      <4>. QED
        BY <2>5, <3>1, <4>1, <4>2
    <3>. QED
      BY <3>2, <3>3, <3>4
  <2>6. ASSUME NEW x \in W, x # m
        PROVE  /\ Sub2[x] = {x} \cup Sub2[N2[x].left] \cup Sub2[N2[x].right]
               /\ \A q \in Sub2[N2[x].left] : size[q] < size[x]
               /\ \A q \in Sub2[N2[x].right] : size[x] < size[q]
    <3>1. Sub2[N2[x].left] = Sub[N[x].left] \ {m} /\ Sub2[N2[x].right] = Sub[N[x].right] \ {m}
      BY <1>11, <2>6
    <3>2. Sub2[x] = Sub[x] \ {m} /\ Sub[x] = {x} \cup Sub[N[x].left] \cup Sub[N[x].right] /\ x \in D
      BY <1>5, <1>6, <2>6
    <3>. QED
      BY <1>1, <2>6, <3>1, <3>2 DEF Ordered
  <2>7. ASSUME NEW x \in W
        PROVE  /\ N2[x].left \in W \cup {nil} /\ N2[x].right \in W \cup {nil}
               /\ Sub2[x] = {x} \cup Sub2[N2[x].left] \cup Sub2[N2[x].right]
               /\ \A q \in Sub2[N2[x].left] : size[q] < size[x]
               /\ \A q \in Sub2[N2[x].right] : size[x] < size[q]
               /\ N2[x].left # nil => N2[N2[x].left].parent = x
               /\ N2[x].right # nil => N2[N2[x].right].parent = x
               /\ x # m => N2[x].parent \in W /\ (N2[N2[x].parent].left = x \/ N2[N2[x].parent].right = x)
    <3>1. CASE x = m
      BY <1>13, <2>1, <2>2, <2>3, <3>1
    <3>2. CASE x # m
      BY <1>11, <2>4, <2>5, <2>6, <3>2
    <3>. QED
      BY <3>1, <3>2
  <2> HIDE DEF W
  <2>. QED
    BY <1>6, <2>7 DEF Within
<1>15. SameSizes(D, size, Sub, t, W)
  <2>1. \A x \in E : size[x] # size[t]
    BY <1>1, AloneInSize DEF Linked
  <2>. QED
    BY <2>1 DEF SameSizes
<1> HIDE DEF W, r2
<1>16. Shape(D \ {t}, N2, r2, size, Sub2)
  BY <1>6, <1>7, <1>8, <1>14, <1>15, GraftKeeps
<1>. QED
  BY <1>16 DEF r2

\* M2 is M but for the links given.
Relinked(M2, M, D) ==
  /\ M2 \in [D -> NodeSet(D)]
  /\ \A x \in D : M2[x].fwd = M[x].fwd /\ M2[x].prev = M[x].prev

\* Child on the left.
LEMMA ChildLeft ==
  ASSUME NEW D, nil \notin D, NEW M \in [D -> NodeSet(D)], NEW f \in D, NEW c \in D \cup {nil}
  PROVE  /\ Relinked(Child(M, f, "left", c), M, D)
         /\ \A x \in D : /\ Child(M, f, "left", c)[x].left = IF x = f THEN c ELSE M[x].left
                         /\ Child(M, f, "left", c)[x].right = M[x].right
                         /\ Child(M, f, "left", c)[x].parent = IF x = c THEN f ELSE M[x].parent
<1> DEFINE L == [M EXCEPT ![f].left = c]
           C == IF c = nil THEN L ELSE [L EXCEPT ![c].parent = f]
<1>1. Child(M, f, "left", c) = C
  BY DEF Child
<1>2. L \in [D -> NodeSet(D)]
  BY DEF NodeSet
<1>3. ASSUME NEW x \in D
      PROVE  /\ L[x].left = IF x = f THEN c ELSE M[x].left
             /\ L[x].right = M[x].right /\ L[x].parent = M[x].parent
             /\ L[x].fwd = M[x].fwd /\ L[x].prev = M[x].prev
  <2>1. M[x] \in NodeSet(D)
    OBVIOUS
  <2>. QED
    BY <2>1 DEF NodeSet
<1> HIDE DEF L
<1>4. C \in [D -> NodeSet(D)]
  BY <1>2 DEF NodeSet
<1>5. ASSUME NEW x \in D
      PROVE  /\ C[x].left = L[x].left /\ C[x].right = L[x].right
             /\ C[x].parent = IF x = c THEN f ELSE L[x].parent
             /\ C[x].fwd = L[x].fwd /\ C[x].prev = L[x].prev
  <2>1. L[x] \in NodeSet(D)
    BY <1>2
  <2>. QED
    BY <1>2, <2>1 DEF NodeSet
<1> HIDE DEF C
<1>. QED
  BY <1>1, <1>3, <1>4, <1>5 DEF Relinked

\* Child on the right.
LEMMA ChildRight ==
  ASSUME NEW D, nil \notin D, NEW M \in [D -> NodeSet(D)], NEW f \in D, NEW c \in D \cup {nil}
  PROVE  /\ Relinked(Child(M, f, "right", c), M, D)
         /\ \A x \in D : /\ Child(M, f, "right", c)[x].right = IF x = f THEN c ELSE M[x].right
                         /\ Child(M, f, "right", c)[x].left = M[x].left
                         /\ Child(M, f, "right", c)[x].parent = IF x = c THEN f ELSE M[x].parent
<1> DEFINE L == [M EXCEPT ![f].right = c]
           C == IF c = nil THEN L ELSE [L EXCEPT ![c].parent = f]
<1>1. Child(M, f, "right", c) = C
  BY DEF Child
<1>2. L \in [D -> NodeSet(D)]
  BY DEF NodeSet
<1>3. ASSUME NEW x \in D
      PROVE  /\ L[x].right = IF x = f THEN c ELSE M[x].right
             /\ L[x].left = M[x].left /\ L[x].parent = M[x].parent
             /\ L[x].fwd = M[x].fwd /\ L[x].prev = M[x].prev
  <2>1. M[x] \in NodeSet(D)
    OBVIOUS
  <2>. QED
    BY <2>1 DEF NodeSet
<1> HIDE DEF L
<1>4. C \in [D -> NodeSet(D)]
  BY <1>2 DEF NodeSet
<1>5. ASSUME NEW x \in D
      PROVE  /\ C[x].left = L[x].left /\ C[x].right = L[x].right
             /\ C[x].parent = IF x = c THEN f ELSE L[x].parent
             /\ C[x].fwd = L[x].fwd /\ C[x].prev = L[x].prev
  <2>1. L[x] \in NodeSet(D)
    BY <1>2
  <2>. QED
    BY <1>2, <2>1 DEF NodeSet
<1> HIDE DEF C
<1>. QED
  BY <1>1, <1>3, <1>4, <1>5 DEF Relinked

\* A ring without t, in place.
LEMMA UnringIs ==
  ASSUME NEW D, NEW M \in [D -> NodeSet(D)], NEW t \in D
  PROVE  /\ Unring(M, t) \in [D -> NodeSet(D)]
         /\ \A x \in D : /\ Unring(M, t)[x].left = M[x].left /\ Unring(M, t)[x].right = M[x].right
                         /\ Unring(M, t)[x].parent = M[x].parent
                         /\ Unring(M, t)[x].fwd = IF x = M[t].prev THEN M[t].fwd ELSE M[x].fwd
                         /\ Unring(M, t)[x].prev = IF x = M[t].fwd THEN M[t].prev ELSE M[x].prev
<1>1. PICK a, b : a = M[t].prev /\ b = M[t].fwd
  OBVIOUS
<1>2. a \in D /\ b \in D
  BY <1>1 DEF NodeSet
<1> DEFINE L == [M EXCEPT ![a].fwd = b]
           C == [L EXCEPT ![b].prev = a]
<1>3. Unring(M, t) = C
  BY <1>1 DEF Unring
<1>4. L \in [D -> NodeSet(D)]
  BY <1>2 DEF NodeSet
<1>5. ASSUME NEW x \in D
      PROVE  /\ L[x].left = M[x].left /\ L[x].right = M[x].right /\ L[x].parent = M[x].parent
             /\ L[x].fwd = (IF x = a THEN b ELSE M[x].fwd) /\ L[x].prev = M[x].prev
  <2>1. M[x] \in NodeSet(D)
    OBVIOUS
  <2>. QED
    BY <1>2, <2>1 DEF NodeSet
<1> HIDE DEF L
<1>6. C \in [D -> NodeSet(D)]
  BY <1>2, <1>4 DEF NodeSet
<1>7. ASSUME NEW x \in D
      PROVE  /\ C[x].left = L[x].left /\ C[x].right = L[x].right /\ C[x].parent = L[x].parent
             /\ C[x].fwd = L[x].fwd /\ C[x].prev = IF x = b THEN a ELSE L[x].prev
  <2>1. L[x] \in NodeSet(D)
    BY <1>4
  <2>. QED
    BY <1>2, <1>4, <2>1 DEF NodeSet
<1> HIDE DEF C
<1>. QED
  BY <1>1, <1>3, <1>5, <1>6, <1>7

\* The tree U is M with f where t hung from s.
HangsAs(U, D, M, r, t, f, s) ==
  \E M2 : /\ U = [root |-> IF s = nil THEN f ELSE r, node |-> M2]
          /\ Relinked(M2, M, D)
          /\ \A x \in D :
               /\ M2[x].left = IF x = s /\ M[s].left = t THEN f ELSE M[x].left
               /\ M2[x].right = IF x = s /\ M[s].left # t THEN f ELSE M[x].right
               /\ M2[x].parent = IF x = f THEN s ELSE M[x].parent

\* Hang does that.
LEMMA HangIs ==
  ASSUME NEW D, nil \notin D, NEW M \in [D -> NodeSet(D)], NEW t \in D, NEW f \in D \cup {nil}, NEW r,
         NEW s, s = M[t].parent
  PROVE  HangsAs(Hang([root |-> r, node |-> M], t, f), D, M, r, t, f, s)
<1>1. s \in D \cup {nil}
  BY DEF NodeSet
<1> DEFINE L == IF f = nil THEN M ELSE [M EXCEPT ![f].parent = s]
           K == IF L[s].left = t THEN [L EXCEPT ![s].left = f] ELSE [L EXCEPT ![s].right = f]
           C == IF s = nil THEN L ELSE K
           T == [root |-> r, node |-> M]
           U == [root |-> IF s = nil THEN f ELSE r, node |-> C]
<1>2. Hang(T, t, f) = U
  <2>1. T.node = M /\ T.root = r
    OBVIOUS
  <2>2. ASSUME NEW Z PROVE [T EXCEPT !.node = Z] = [root |-> r, node |-> Z]
    OBVIOUS
  <2>3. Hang(T, t, f) = IF s = nil THEN [root |-> f, node |-> L] ELSE [T EXCEPT !.node = K]
    <3> HIDE DEF T
    <3> DEFINE z == T.node[t].parent
               L1 == IF f = nil THEN T.node ELSE [T.node EXCEPT ![f].parent = z]
               K1 == IF L1[z].left = t THEN [L1 EXCEPT ![z].left = f] ELSE [L1 EXCEPT ![z].right = f]
    <3>1. Hang(T, t, f) = IF z = nil THEN [root |-> f, node |-> L1] ELSE [T EXCEPT !.node = K1]
      BY DEF Hang
    <3>2. z = s /\ T.node = M
      BY <2>1
    <3>3. L1 = L
      <4> HIDE DEF z
      <4>. QED
        BY <3>2
    <3>4. K1 = K
      <4> HIDE DEF z, L1, L
      <4>. QED
        BY <3>2, <3>3
    <3> HIDE DEF L, K, L1, K1, z
    <3>. QED
      BY <3>1, <3>2, <3>3, <3>4
  <2>4. CASE s = nil
    <3> HIDE DEF L
    <3>. QED
      BY <2>3, <2>4
  <2>5. CASE s # nil
    <3>1. C = K
      BY <2>5
    <3> HIDE DEF C, K, T
    <3>. QED
      BY <2>2, <2>3, <2>5, <3>1
  <2>. QED
    BY <2>4, <2>5
<1>3. L \in [D -> NodeSet(D)]
  BY <1>1 DEF NodeSet
<1>4. ASSUME NEW x \in D
      PROVE  /\ L[x].left = M[x].left /\ L[x].right = M[x].right
             /\ L[x].parent = IF x = f THEN s ELSE M[x].parent
             /\ L[x].fwd = M[x].fwd /\ L[x].prev = M[x].prev
  <2>1. M[x] \in NodeSet(D)
    OBVIOUS
  <2>. QED
    BY <1>1, <2>1 DEF NodeSet
<1> HIDE DEF L
<1>5. C \in [D -> NodeSet(D)]
  BY <1>1, <1>3 DEF NodeSet
<1>6. ASSUME NEW x \in D
      PROVE  /\ C[x].left = IF x = s /\ L[s].left = t THEN f ELSE L[x].left
             /\ C[x].right = IF x = s /\ L[s].left # t THEN f ELSE L[x].right
             /\ C[x].parent = L[x].parent /\ C[x].fwd = L[x].fwd /\ C[x].prev = L[x].prev
  <2>1. L[x] \in NodeSet(D)
    BY <1>3
  <2>2. x = s => s # nil
    OBVIOUS
  <2>3. CASE s = nil
    BY <2>2, <2>3
  <2>4. CASE s # nil
    BY <1>1, <1>3, <2>1, <2>4 DEF NodeSet
  <2>. QED
    BY <2>3, <2>4
<1> HIDE DEF C
<1>7. Relinked(C, M, D)
  BY <1>4, <1>5, <1>6 DEF Relinked
<1>8. \A x \in D :
        /\ C[x].left = IF x = s /\ M[s].left = t THEN f ELSE M[x].left
        /\ C[x].right = IF x = s /\ M[s].left # t THEN f ELSE M[x].right
        /\ C[x].parent = IF x = f THEN s ELSE M[x].parent
  BY <1>4, <1>6
<1>. QED
  BY <1>2, <1>7, <1>8 DEF HangsAs

\* Where the node t hangs from s.
HangsFrom(D, N, Sub, t, s) ==
  /\ s = N[t].parent /\ s \in D \cup {nil} /\ s \notin Sub[t] /\ t # nil /\ s # t
  /\ \A x \in D : (N[x].left = t) <=> (x = s /\ N[s].left = t)
  /\ \A x \in D : (N[x].right = t) <=> (x = s /\ N[s].left # t)
  /\ \A x \in D : (N[x].parent = t) <=> (x = N[t].left \/ x = N[t].right)

\* Each node of the tree hangs from its parent, and is the parent of its children only.
LEMMA Hanging ==
  ASSUME NEW D, NEW N, NEW r, NEW size, NEW Sub, Shape(D, N, r, size, Sub), NEW t \in D
  PROVE  HangsFrom(D, N, Sub, t, N[t].parent)
<1>1. PICK s : s = N[t].parent
  OBVIOUS
<1>2. Parents(D, N, r, Sub) /\ nil \notin D
  BY DEF Shape, Linked
<1>3. s \in D \cup {nil} /\ t # nil /\ t \in Sub[t] /\ Sub[t] \subseteq D
  BY <1>1, NodeFacts
<1>4. ASSUME NEW x \in D, N[x].left = t PROVE x = s
  BY <1>1, <1>2, <1>3, <1>4 DEF Parents
<1>5. ASSUME NEW x \in D, N[x].right = t PROVE x = s /\ N[s].left # t
  <2>1. x = s
    BY <1>1, <1>2, <1>3, <1>5 DEF Parents
  <2>2. ~(t \in Sub[N[x].left] /\ t \in Sub[N[x].right])
    BY ChildrenApart
  <2>. QED
    BY <1>3, <1>5, <2>1, <2>2
<1>6. s \in D => N[s].left = t \/ N[s].right = t
  BY <1>1, <1>2 DEF Parents
<1>7. s \notin Sub[t] /\ s # t
  <2>1. ASSUME NEW a \in Sub[t] PROVE t \notin Sub[N[a].left] /\ t \notin Sub[N[a].right]
    BY NotAbove
  <2>2. s # nil => s \in D
    BY <1>3
  <2>3. s \notin Sub[t]
    BY <1>2, <1>3, <1>6, <2>1, <2>2
  <2>. QED
    BY <1>3, <2>3
<1>8. ASSUME NEW x \in D PROVE (N[x].parent = t) <=> (x = N[t].left \/ x = N[t].right)
  BY <1>2, <1>3 DEF Parents
<1>. QED
  BY <1>1, <1>3, <1>4, <1>5, <1>6, <1>7, <1>8 DEF HangsFrom

\* What the last step of pooldel needs of the links M it finds: f is to hang
\* where t did, and only that and f's parent still name t.
ReadyToHang(D, N, M, t, f) ==
  /\ M \in [D -> NodeSet(D)] /\ f \in (D \ {t}) \cup {nil}
  /\ M[t].parent = N[t].parent
  /\ \A x \in D : x = N[t].parent => (M[x].left = t <=> N[x].left = t)
  /\ \A x \in D \ {t} : /\ M[x].left = t => N[x].left = t
                        /\ M[x].right = t => N[x].right = t
                        /\ M[x].parent = t => x = f
                        /\ M[x].fwd # t /\ M[x].prev # t

\* What it leaves.
Hung(D, N, M, t, f, N2) ==
  /\ N2 \in [D \ {t} -> NodeSet(D \ {t})]
  /\ \A x \in D \ {t} : /\ N2[x].left = IF N[x].left = t THEN f ELSE M[x].left
                        /\ N2[x].right = IF N[x].right = t THEN f ELSE M[x].right
                        /\ N2[x].parent = IF x = f THEN N[t].parent ELSE M[x].parent
                        /\ N2[x].fwd = M[x].fwd /\ N2[x].prev = M[x].prev

\* What pooldel does to the tree U after the last case it distinguishes.
Cut(U, t) == [U EXCEPT !.node = Forget(U.node, {t})]

\* The tree V is M with f where t hung, and without t.
HungAs(V, D, N, M, r, t, f) ==
  \E N2 : V = [root |-> IF N[t].parent = nil THEN f ELSE r, node |-> N2] /\ Hung(D, N, M, t, f, N2)

\* Hanging f for t and forgetting t leaves such a tree.
LEMMA HangDel ==
  ASSUME NEW D, NEW N, NEW r, NEW size, NEW Sub, Shape(D, N, r, size, Sub), NEW t \in D,
         NEW M, NEW f, ReadyToHang(D, N, M, t, f)
  PROVE  HungAs(Cut(Hang([root |-> r, node |-> M], t, f), t), D, N, M, r, t, f)
<1>a. PICK After : After = Hang([root |-> r, node |-> M], t, f)
  OBVIOUS
<1>0. PICK s : s = N[t].parent
  OBVIOUS
<1>1. /\ s \in D \cup {nil} /\ t # nil /\ s # t
      /\ \A x \in D : (N[x].left = t) <=> (x = s /\ N[s].left = t)
      /\ \A x \in D : (N[x].right = t) <=> (x = s /\ N[s].left # t)
  BY <1>0, Hanging DEF HangsFrom
<1>2. nil \notin D
  BY DEF Shape, Linked
<1>3. /\ M \in [D -> NodeSet(D)] /\ f \in D \cup {nil} /\ f # t /\ s = M[t].parent
      /\ \A x \in D : x = s => (M[x].left = t <=> N[x].left = t)
      /\ \A x \in D \ {t} : /\ M[x].left = t => N[x].left = t
                            /\ M[x].right = t => N[x].right = t
                            /\ M[x].parent = t => x = f
                            /\ M[x].fwd # t /\ M[x].prev # t
  BY <1>0, <1>1 DEF ReadyToHang
<1>4. PICK M2 : /\ After = [root |-> IF s = nil THEN f ELSE r, node |-> M2]
                /\ Relinked(M2, M, D)
                /\ \A x \in D :
                     /\ M2[x].left = IF x = s /\ M[s].left = t THEN f ELSE M[x].left
                     /\ M2[x].right = IF x = s /\ M[s].left # t THEN f ELSE M[x].right
                     /\ M2[x].parent = IF x = f THEN s ELSE M[x].parent
  <2>1. M \in [D -> NodeSet(D)] /\ f \in D \cup {nil} /\ s = M[t].parent
    BY <1>3
  <2>2. HangsAs(Hang([root |-> r, node |-> M], t, f), D, M, r, t, f, s)
    BY <1>2, <2>1, HangIs
  <2>. QED
    BY <1>a, <2>2 DEF HangsAs
<1>5. M2 \in [D -> NodeSet(D)] /\ \A x \in D : M2[x].fwd = M[x].fwd /\ M2[x].prev = M[x].prev
  BY <1>4 DEF Relinked
<1> DEFINE N2 == [x \in D \ {t} |-> M2[x]]
<1>6. Cut(After, t) = [root |-> IF s = nil THEN f ELSE r, node |-> N2]
  <2>1. Forget(M2, {t}) = N2
    BY <1>5 DEF Forget
  <2> HIDE DEF N2
  <2>2. PICK r2 : r2 = IF s = nil THEN f ELSE r
    OBVIOUS
  <2>3. After = [root |-> r2, node |-> M2]
    BY <1>4, <2>2
  <2>4. After.node = M2
    BY <2>3
  <2>5. [After EXCEPT !.node = N2] = [root |-> r2, node |-> N2]
    BY <2>3
  <2>. QED
    BY <2>1, <2>2, <2>4, <2>5 DEF Cut
<1>7. ASSUME NEW x \in D, x # t
      PROVE  /\ M2[x].left = IF N[x].left = t THEN f ELSE M[x].left
             /\ M2[x].right = IF N[x].right = t THEN f ELSE M[x].right
             /\ M2[x].parent = IF x = f THEN s ELSE M[x].parent
             /\ M2[x].fwd = M[x].fwd /\ M2[x].prev = M[x].prev
  BY <1>1, <1>3, <1>4, <1>5, <1>7
<1>8. ASSUME NEW x \in D, x # t PROVE M2[x] \in NodeSet(D \ {t})
  <2>1. M2[x] \in NodeSet(D)
    BY <1>5
  <2>2. /\ M2[x].left # t /\ M2[x].right # t /\ M2[x].parent # t
        /\ M2[x].fwd # t /\ M2[x].prev # t
    BY <1>1, <1>3, <1>7, <1>8
  <2>. QED
    BY <2>1, <2>2 DEF NodeSet
<1>9. Hung(D, N, M, t, f, N2)
  <2>1. N2 \in [D \ {t} -> NodeSet(D \ {t})]
    BY <1>8
  <2>2. ASSUME NEW x \in D \ {t} PROVE N2[x] = M2[x]
    OBVIOUS
  <2> HIDE DEF N2
  <2>. QED
    BY <1>0, <1>7, <2>1, <2>2, ZenonT(40) DEF Hung
<1> HIDE DEF N2
<1>. QED
  BY <1>0, <1>a, <1>6, <1>9 DEF HungAs

\* Who is next to t on its ring.
LEMMA RingNext ==
  ASSUME NEW D, NEW N \in [D -> NodeSet(D)], NEW size, OneRing(D, N, size), NEW t \in D
  PROVE  /\ \A x \in D : (N[x].fwd = t) <=> (x = N[t].prev)
         /\ \A x \in D : (N[x].prev = t) <=> (x = N[t].fwd)
         /\ (N[t].fwd = t) <=> (N[t].prev = t)
         /\ N[t].fwd \in D /\ N[t].prev \in D
<1>1. \A x \in D : N[N[x].fwd].prev = x /\ N[N[x].prev].fwd = x
  BY DEF OneRing
<1>2. N[t].fwd \in D /\ N[t].prev \in D
  BY DEF NodeSet
<1>. QED
  BY <1>1, <1>2

\* U is a free tree with the nodes D and a root.
IsTree(U, D, size) ==
  \E N2, r2, Sub2 : /\ U = [root |-> r2, node |-> N2]
                    /\ Shape(D, N2, r2, size, Sub2) /\ OneRing(D, N2, size)

\* It keeps the root.
LEMMA CutRoot ==
  ASSUME NEW U, NEW t, NEW r, NEW M, U = [root |-> r, node |-> M]
  PROVE  Cut(U, t) = [root |-> r, node |-> Forget(M, {t})]
<1>1. U.node = M
  OBVIOUS
<1>. QED
  BY <1>1 DEF Cut

\* A block that is only on a ring.
LEMMA DelMember ==
  ASSUME NEW D, NEW N, NEW r, NEW size, NEW Sub, Shape(D, N, r, size, Sub), OneRing(D, N, size),
         NEW t \in D, t \notin Sub[r]
  PROVE  IsTree(Cut([root |-> r, node |-> Unring(N, t)], t), D \ {t}, size)
<1> DEFINE N2 == Forget(Unring(N, t), {t})
<1>1. N \in [D -> NodeSet(D)] /\ nil \notin D
  BY DEF Shape, Linked
<1>2. Cut([root |-> r, node |-> Unring(N, t)], t) = [root |-> r, node |-> N2]
  BY CutRoot
<1>3. PICK M : M = Unring(N, t)
  OBVIOUS
<1>4. /\ M \in [D -> NodeSet(D)]
      /\ \A x \in D : /\ M[x].left = N[x].left /\ M[x].right = N[x].right /\ M[x].parent = N[x].parent
                      /\ M[x].fwd = IF x = N[t].prev THEN N[t].fwd ELSE N[x].fwd
                      /\ M[x].prev = IF x = N[t].fwd THEN N[t].prev ELSE N[x].prev
  BY <1>1, <1>3, UnringIs
<1>5. N2 = [x \in D \ {t} |-> M[x]]
  BY <1>3, <1>4 DEF Forget
<1>6. N[t].fwd # t
  <2>1. SUFFICES ASSUME N[t].fwd = t PROVE FALSE
    OBVIOUS
  <2>2. PICK h \in Sub[r] : size[h] = size[t]
    BY DEF Shape, Sized
  <2>3. h \in D
    BY DEF Shape, Subtrees, Linked
  <2>4. h = t
    BY <1>1, <2>1, <2>2, <2>3, AloneInSize
  <2>. QED
    BY <2>2, <2>4
<1>7. /\ \A x \in D : (N[x].fwd = t) <=> (x = N[t].prev)
      /\ \A x \in D : (N[x].prev = t) <=> (x = N[t].fwd)
      /\ N[t].prev # t
  BY <1>1, <1>6, RingNext
<1>8. N[t].left = nil /\ N[t].right = nil /\ N[t].parent = nil
  BY DEF Shape, Parents
<1>9. /\ \A x \in D : (N[x].left = t) <=> (x = N[t].parent /\ N[N[t].parent].left = t)
      /\ \A x \in D : (N[x].right = t) <=> (x = N[t].parent /\ N[N[t].parent].left # t)
      /\ \A x \in D : (N[x].parent = t) <=> (x = N[t].left \/ x = N[t].right)
  BY Hanging DEF HangsFrom
<1>10. ASSUME NEW x \in D, x # t PROVE M[x] \in NodeSet(D \ {t})
  <2>1. M[x] \in NodeSet(D)
    BY <1>4
  <2>2. M[x].left # t /\ M[x].right # t /\ M[x].parent # t /\ M[x].fwd # t /\ M[x].prev # t
    BY <1>1, <1>4, <1>6, <1>7, <1>8, <1>9, <1>10
  <2>. QED
    BY <2>1, <2>2 DEF NodeSet
<1> HIDE DEF N2
<1>11. /\ N2 \in [D \ {t} -> NodeSet(D \ {t})]
       /\ \A x \in D \ {t} : N2[x].left = N[x].left /\ N2[x].right = N[x].right /\ N2[x].parent = N[x].parent
       /\ \A x \in D \ {t} : /\ N2[x].fwd = IF N[x].fwd = t THEN N[t].fwd ELSE N[x].fwd
                             /\ N2[x].prev = IF N[x].prev = t THEN N[t].prev ELSE N[x].prev
  BY <1>4, <1>5, <1>7, <1>10
<1>12. OneRing(D \ {t}, N2, size)
  BY <1>1, <1>11, RingWithout
<1>13. \E Sub2 : Shape(D \ {t}, N2, r, size, Sub2)
  BY <1>11, RingMemberGone
<1>. QED
  BY <1>2, <1>12, <1>13 DEF IsTree

\* A node with others on its ring: the next takes its place.
LEMMA DelHead ==
  ASSUME NEW D, NEW N, NEW r, NEW size, NEW Sub, Shape(D, N, r, size, Sub), OneRing(D, N, size),
         NEW t \in D, t \in Sub[r], NEW h, h = N[t].fwd, h # t,
         NEW A, A = Child(Child(N, h, "left", N[t].left), h, "right", N[t].right)
  PROVE  IsTree(Cut(Hang([root |-> r, node |-> Unring(A, t)], t, h), t), D \ {t}, size)
<1>1. N \in [D -> NodeSet(D)] /\ nil \notin D /\ Parents(D, N, r, Sub)
  BY DEF Shape, Linked
<1>2. /\ \A x \in D : (N[x].fwd = t) <=> (x = N[t].prev)
      /\ \A x \in D : (N[x].prev = t) <=> (x = N[t].fwd)
      /\ N[t].prev # t /\ h \in D /\ N[t].prev \in D
  BY <1>1, RingNext
<1>3. h \notin Sub[r] /\ N[h].left = nil /\ N[h].right = nil /\ N[h].parent = nil
  <2>1. size[h] = size[t]
    BY DEF OneRing
  <2>2. r \in D
    BY DEF Shape, Linked, Subtrees
  <2>3. h \notin Sub[r]
    BY <2>1, <2>2, SizesDiffer
  <2>. QED
    BY <1>1, <1>2, <2>3 DEF Parents
<1>0. PICK s : s = N[t].parent
  OBVIOUS
<1>4. /\ s \in D \cup {nil} /\ s \notin Sub[t] /\ t # nil /\ s # t
      /\ \A x \in D : (N[x].left = t) <=> (x = s /\ N[s].left = t)
      /\ \A x \in D : (N[x].right = t) <=> (x = s /\ N[s].left # t)
      /\ \A x \in D : (N[x].parent = t) <=> (x = N[t].left \/ x = N[t].right)
  BY <1>0, Hanging DEF HangsFrom
<1>5. s # h
  BY <1>2, <1>3, <1>4
<1>6. PICK l, R : l = N[t].left /\ R = N[t].right
  OBVIOUS
<1>7. l \in D \cup {nil} /\ R \in D \cup {nil} /\ l # t /\ R # t
  <2>1. l \in D \cup {nil} /\ R \in D \cup {nil}
    BY <1>6, NodeFacts
  <2>2. t \in Sub[t]
    BY NodeFacts
  <2>3. t \notin Sub[l] /\ t \notin Sub[R]
    BY <1>6, ChildrenApart
  <2>. QED
    BY <2>1, <2>2, <2>3
<1>8. PICK A1 : A1 = Child(N, h, "left", l)
  OBVIOUS
<1>9. Relinked(A1, N, D) /\ \A x \in D : /\ A1[x].left = IF x = h THEN l ELSE N[x].left
                                        /\ A1[x].right = N[x].right
                                        /\ A1[x].parent = IF x = l THEN h ELSE N[x].parent
  BY <1>1, <1>2, <1>7, <1>8, ChildLeft
<1>10. A1 \in [D -> NodeSet(D)] /\ \A x \in D : A1[x].fwd = N[x].fwd /\ A1[x].prev = N[x].prev
  BY <1>9 DEF Relinked
<1>11. A = Child(A1, h, "right", R)
  BY <1>6, <1>8
<1>12. Relinked(A, A1, D) /\ \A x \in D : /\ A[x].right = IF x = h THEN R ELSE A1[x].right
                                         /\ A[x].left = A1[x].left
                                         /\ A[x].parent = IF x = R THEN h ELSE A1[x].parent
  BY <1>1, <1>2, <1>7, <1>10, <1>11, ChildRight
<1>13. A \in [D -> NodeSet(D)] /\ \A x \in D : A[x].fwd = A1[x].fwd /\ A[x].prev = A1[x].prev
  BY <1>12 DEF Relinked
<1>14. PICK M : M = Unring(A, t)
  OBVIOUS
<1>15. /\ M \in [D -> NodeSet(D)]
       /\ \A x \in D : /\ M[x].left = A[x].left /\ M[x].right = A[x].right /\ M[x].parent = A[x].parent
                       /\ M[x].fwd = IF x = A[t].prev THEN A[t].fwd ELSE A[x].fwd
                       /\ M[x].prev = IF x = A[t].fwd THEN A[t].prev ELSE A[x].prev
  BY <1>13, <1>14, UnringIs, SMTT(20)
<1>16. ASSUME NEW x \in D
       PROVE  /\ M[x].left = IF x = h THEN l ELSE N[x].left
              /\ M[x].right = IF x = h THEN R ELSE N[x].right
              /\ M[x].parent = IF x = R \/ x = l THEN h ELSE N[x].parent
              /\ M[x].fwd = IF x = N[t].prev THEN h ELSE N[x].fwd
              /\ M[x].prev = IF x = h THEN N[t].prev ELSE N[x].prev
  <2>1. M[x].left = IF x = h THEN l ELSE N[x].left
    BY <1>9, <1>12, <1>15, SMTT(20)
  <2>2. M[x].right = IF x = h THEN R ELSE N[x].right
    BY <1>9, <1>12, <1>15, SMTT(20)
  <2>3. M[x].parent = IF x = R \/ x = l THEN h ELSE N[x].parent
    BY <1>9, <1>12, <1>15, SMTT(20)
  <2>4. A[t].prev = N[t].prev /\ A[t].fwd = h /\ A[x].fwd = N[x].fwd /\ A[x].prev = N[x].prev
    BY <1>10, <1>13
  <2>5. M[x].fwd = (IF x = A[t].prev THEN A[t].fwd ELSE A[x].fwd) /\ M[x].prev = (IF x = A[t].fwd THEN A[t].prev ELSE A[x].prev)
    BY <1>15, SMTT(20)
  <2>6. M[x].fwd = (IF x = N[t].prev THEN h ELSE N[x].fwd)
    BY <2>4, <2>5
  <2>7. M[x].prev = (IF x = h THEN N[t].prev ELSE N[x].prev)
    BY <2>4, <2>5
  <2>. QED
    BY <2>1, <2>2, <2>3, <2>6, <2>7
<1>17. ReadyToHang(D, N, M, t, h)
  <2>1. M[t].parent = s
    BY <1>0, <1>7, <1>16
  <2>2. \A x \in D : x = s => (M[x].left = t <=> N[x].left = t)
    BY <1>5, <1>16
  <2>3. ASSUME NEW x \in D, x # t
        PROVE  /\ M[x].left = t => N[x].left = t
               /\ M[x].right = t => N[x].right = t
               /\ M[x].parent = t => x = h
               /\ M[x].fwd # t /\ M[x].prev # t
    <3>1. (M[x].left = t => N[x].left = t) /\ (M[x].right = t => N[x].right = t)
      BY <1>7, <1>16
    <3>2. M[x].parent # t
      BY <1>4, <1>6, <1>16
    <3>3. M[x].fwd # t /\ M[x].prev # t
      BY <1>2, <1>16
    <3>. QED
      BY <3>1, <3>2, <3>3
  <2>. QED
    BY <1>0, <1>2, <1>15, <2>1, <2>2, <2>3 DEF ReadyToHang
<1>18. PICK U : U = Cut(Hang([root |-> r, node |-> M], t, h), t)
  OBVIOUS
<1>19. PICK N2 : /\ U = [root |-> IF N[t].parent = nil THEN h ELSE r, node |-> N2]
                 /\ Hung(D, N, M, t, h, N2)
  <2>1. HungAs(Cut(Hang([root |-> r, node |-> M], t, h), t), D, N, M, r, t, h)
    BY <1>17, HangDel
  <2>. QED
    BY <1>18, <2>1 DEF HungAs
<1>20. /\ N2 \in [D \ {t} -> NodeSet(D \ {t})]
       /\ \A x \in D \ {t} : /\ N2[x].left = IF N[x].left = t THEN h ELSE M[x].left
                             /\ N2[x].right = IF N[x].right = t THEN h ELSE M[x].right
                             /\ N2[x].parent = IF x = h THEN N[t].parent ELSE M[x].parent
                             /\ N2[x].fwd = M[x].fwd /\ N2[x].prev = M[x].prev
  BY <1>19 DEF Hung
<1>21. ByRing(D, N, t, h, N2)
  <2>1. ASSUME NEW x \in D \ {t}
        PROVE  /\ N2[x].left = IF x = h THEN N[t].left ELSE IF N[x].left = t THEN h ELSE N[x].left
               /\ N2[x].right = IF x = h THEN N[t].right ELSE IF N[x].right = t THEN h ELSE N[x].right
               /\ N2[x].parent = IF x = h THEN N[t].parent ELSE IF N[x].parent = t THEN h ELSE N[x].parent
    <3>1. N2[x].left = IF x = h THEN N[t].left ELSE IF N[x].left = t THEN h ELSE N[x].left
      BY <1>3, <1>4, <1>6, <1>16, <1>20
    <3>2. N2[x].right = IF x = h THEN N[t].right ELSE IF N[x].right = t THEN h ELSE N[x].right
      BY <1>3, <1>4, <1>6, <1>16, <1>20
    <3>3. N2[x].parent = IF x = h THEN N[t].parent ELSE IF N[x].parent = t THEN h ELSE N[x].parent
      BY <1>4, <1>6, <1>16, <1>20
    <3>. QED
      BY <3>1, <3>2, <3>3
  <2>. QED
    BY <1>20, <2>1 DEF ByRing
<1>22. \E Sub2 : Shape(D \ {t}, N2, IF N[t].parent = nil THEN h ELSE r, size, Sub2)
  BY <1>21, RingTakesPlace
<1>23. OneRing(D \ {t}, N2, size)
  <2>1. \A x \in D \ {t} : /\ N2[x].fwd = IF N[x].fwd = t THEN N[t].fwd ELSE N[x].fwd
                           /\ N2[x].prev = IF N[x].prev = t THEN N[t].prev ELSE N[x].prev
    BY <1>2, <1>16, <1>20
  <2>. QED
    BY <1>1, <2>1, RingWithout
<1>. QED
  BY <1>14, <1>18, <1>19, <1>22, <1>23 DEF IsTree

\* Who is alone on a ring is next to no other.
LEMMA AloneApart ==
  ASSUME NEW D, NEW N \in [D -> NodeSet(D)], NEW size, OneRing(D, N, size), NEW t \in D, N[t].fwd = t
  PROVE  \A x \in D \ {t} : N[x].fwd # t /\ N[x].prev # t
<1>1. /\ \A x \in D : (N[x].fwd = t) <=> (x = N[t].prev)
      /\ \A x \in D : (N[x].prev = t) <=> (x = N[t].fwd)
      /\ N[t].prev = t
  BY RingNext
<1>. QED
  BY <1>1

\* Around a ring of one nothing changes.
LEMMA AloneGone ==
  ASSUME NEW D, NEW N \in [D -> NodeSet(D)], NEW size, OneRing(D, N, size), NEW t \in D, N[t].fwd = t, NEW N2,
         \A x \in D \ {t} : N2[x].fwd = N[x].fwd /\ N2[x].prev = N[x].prev
  PROVE  OneRing(D \ {t}, N2, size)
<1>2. \A x \in D \ {t} : N[x].fwd # t /\ N[x].prev # t
  BY AloneApart
<1>3. \A x \in D \ {t} : /\ N2[x].fwd = IF N[x].fwd = t THEN N[t].fwd ELSE N[x].fwd
                         /\ N2[x].prev = IF N[x].prev = t THEN N[t].prev ELSE N[x].prev
  BY <1>2
<1>. QED
  BY <1>2, <1>3, RingWithout

\* A node with at most one child, which takes its place.
LEMMA DelLeaf ==
  ASSUME NEW D, NEW N, NEW r, NEW size, NEW Sub, Shape(D, N, r, size, Sub), OneRing(D, N, size),
         NEW t \in D, t \in Sub[r], N[t].fwd = t, NEW c,
         (N[t].left = nil /\ c = N[t].right) \/ (N[t].right = nil /\ c = N[t].left)
  PROVE  IsTree(Cut(Hang([root |-> r, node |-> N], t, c), t), D \ {t}, size)
<1>1. N \in [D -> NodeSet(D)] /\ nil \notin D
  BY DEF Shape, Linked
<1>0. PICK s : s = N[t].parent
  OBVIOUS
<1>2. /\ s \in D \cup {nil} /\ s \notin Sub[t] /\ t # nil /\ s # t
      /\ \A x \in D : (N[x].left = t) <=> (x = s /\ N[s].left = t)
      /\ \A x \in D : (N[x].right = t) <=> (x = s /\ N[s].left # t)
      /\ \A x \in D : (N[x].parent = t) <=> (x = N[t].left \/ x = N[t].right)
  BY <1>0, Hanging DEF HangsFrom
<1>3. c \in (D \ {t}) \cup {nil} /\ \A x \in D : N[x].parent = t => x = c
  <2>1. N[t].left \in D \cup {nil} /\ N[t].right \in D \cup {nil}
    BY NodeFacts
  <2>2. t \in Sub[t]
    BY NodeFacts
  <2>3. t \notin Sub[N[t].left] /\ t \notin Sub[N[t].right]
    BY ChildrenApart
  <2>4. c \in D \cup {nil} /\ c # t
    BY <2>1, <2>2, <2>3
  <2>5. ASSUME NEW x \in D, N[x].parent = t PROVE x = c
    BY <1>1, <1>2, <2>5
  <2>. QED
    BY <2>4, <2>5
<1>4. \A x \in D \ {t} : N[x].fwd # t /\ N[x].prev # t
  BY <1>1, AloneApart
<1>5. ReadyToHang(D, N, N, t, c)
  BY <1>1, <1>3, <1>4 DEF ReadyToHang
<1>6. PICK U : U = Cut(Hang([root |-> r, node |-> N], t, c), t)
  OBVIOUS
<1>7. PICK N2 : U = [root |-> IF N[t].parent = nil THEN c ELSE r, node |-> N2] /\ Hung(D, N, N, t, c, N2)
  <2>1. HungAs(Cut(Hang([root |-> r, node |-> N], t, c), t), D, N, N, r, t, c)
    BY <1>5, HangDel
  <2>. QED
    BY <1>6, <2>1 DEF HungAs
<1>8. ByChild(D, N, t, c, N2)
  BY <1>7 DEF ByChild, Hung
<1>9. \E Sub2 : Shape(D \ {t}, N2, IF N[t].parent = nil THEN c ELSE r, size, Sub2)
  BY <1>8, ChildTakesPlace
<1>10. OneRing(D \ {t}, N2, size)
  <2>1. \A x \in D \ {t} : N2[x].fwd = N[x].fwd /\ N2[x].prev = N[x].prev
    BY <1>7 DEF Hung
  <2>. QED
    BY <1>1, <2>1, AloneGone
<1>. QED
  BY <1>6, <1>7, <1>9, <1>10 DEF IsTree

\* A node with two children: the first after it takes its place.
LEMMA DelInner ==
  ASSUME NEW D, NEW N, NEW r, NEW size, NEW Sub, Shape(D, N, r, size, Sub), OneRing(D, N, size),
         NEW t \in D, t \in Sub[r], N[t].fwd = t, N[t].left # nil, N[t].right # nil,
         NEW m, IsFirst(m, D, N, size, Sub, N[t].right), NEW f, f = N[m].parent, NEW B,
         B = IF f = t THEN N ELSE Child(Child(N, f, "left", N[m].right), m, "right", N[t].right)
  PROVE  IsTree(Cut(Hang([root |-> r, node |-> Child(B, m, "left", N[t].left)], t, m), t), D \ {t}, size)
<1>1. N \in [D -> NodeSet(D)] /\ nil \notin D /\ Parents(D, N, r, Sub)
  BY DEF Shape, Linked
<1>0. PICK s, l, R : s = N[t].parent /\ l = N[t].left /\ R = N[t].right
  OBVIOUS
<1>2. /\ s \in D \cup {nil} /\ s \notin Sub[t] /\ t # nil /\ s # t
      /\ \A x \in D : (N[x].left = t) <=> (x = s /\ N[s].left = t)
      /\ \A x \in D : (N[x].right = t) <=> (x = s /\ N[s].left # t)
      /\ \A x \in D : (N[x].parent = t) <=> (x = l \/ x = R)
  BY <1>0, Hanging DEF HangsFrom
<1>3. /\ l \in D /\ R \in D /\ l # m /\ l # R /\ m \in D /\ m # t
      /\ m \in Sub[R] /\ m \notin Sub[l] /\ N[m].left = nil
      /\ N[l].parent = t /\ N[R].parent = t
      /\ m = R => f = t
      /\ m # R => /\ f \in Sub[R] /\ f \in D /\ f # m /\ f # t
                  /\ N[f].left = m
      /\ N[m].right \in D \cup {nil}
      /\ N[m].right # nil => N[N[m].right].parent = m /\ N[m].right # m
  BY <1>0, NextIs DEF NextFacts
<1>4. l # t /\ R # t /\ s # m /\ s # f /\ N[m].right # t
  <2>1. t \in Sub[t] /\ Sub[t] = {t} \cup Sub[l] \cup Sub[R]
    BY <1>0, NodeFacts
  <2>2. l \in Sub[l] /\ R \in Sub[R]
    BY <1>3, NodeFacts
  <2>3. t \notin Sub[l] /\ t \notin Sub[R]
    BY <1>0, ChildrenApart
  <2>4. N[m].right # t
    <3>1. SUFFICES ASSUME N[m].right = t PROVE FALSE
      OBVIOUS
    <3>2. m = s
      BY <1>2, <1>3, <3>1
    <3>. QED
      BY <1>2, <1>3, <2>1, <3>2
  <2>. QED
    BY <1>2, <1>3, <2>1, <2>2, <2>3, <2>4
\* Who is m's parent, and who has m as parent.
<1>5. /\ \A x \in D : (N[x].left = m) <=> (m # R /\ x = f)
      /\ \A x \in D : (N[x].parent = m) <=> (x = N[m].right)
  <2>1. HangsFrom(D, N, Sub, m, N[m].parent)
    BY <1>3, Hanging
  <2>2. /\ \A x \in D : (N[x].left = m) <=> (x = f /\ N[f].left = m)
        /\ \A x \in D : (N[x].parent = m) <=> (x = N[m].left \/ x = N[m].right)
    BY <2>1 DEF HangsFrom
  <2>3. ASSUME m = R PROVE N[f].left # m
    BY <1>0, <1>3, <2>3
  <2>. QED
    BY <1>1, <1>3, <2>2, <2>3
<1>6. B \in [D -> NodeSet(D)]
      /\ \A x \in D :
           /\ B[x].left = IF m # R /\ x = f THEN N[m].right ELSE N[x].left
           /\ B[x].right = IF m # R /\ x = m THEN R ELSE N[x].right
           /\ B[x].parent = IF m # R /\ x = R THEN m ELSE IF m # R /\ x = N[m].right THEN f ELSE N[x].parent
           /\ B[x].fwd = N[x].fwd /\ B[x].prev = N[x].prev
  <2>1. CASE m = R
    <3>1. B = N
      BY <1>3, <2>1
    <3>. QED
      BY <1>1, <2>1, <3>1
  <2>2. CASE m # R
    <3>0. f # t /\ f \in D
      BY <1>3, <2>2
    <3>1. PICK A1 : A1 = Child(N, f, "left", N[m].right)
      OBVIOUS
    <3>2. Relinked(A1, N, D) /\ \A x \in D : /\ A1[x].left = IF x = f THEN N[m].right ELSE N[x].left
                                            /\ A1[x].right = N[x].right
                                            /\ A1[x].parent = IF x = N[m].right THEN f ELSE N[x].parent
      <4>1. N[m].right \in D \cup {nil}
        BY <1>3
      <4>. QED
        BY <1>1, <3>0, <3>1, <4>1, ChildLeft
    <3>3. A1 \in [D -> NodeSet(D)] /\ \A x \in D : A1[x].fwd = N[x].fwd /\ A1[x].prev = N[x].prev
      BY <3>2 DEF Relinked
    <3>4. B = Child(A1, m, "right", R)
      BY <1>0, <3>0, <3>1
    <3>5. Relinked(B, A1, D) /\ \A x \in D : /\ B[x].right = IF x = m THEN R ELSE A1[x].right
                                            /\ B[x].left = A1[x].left
                                            /\ B[x].parent = IF x = R THEN m ELSE A1[x].parent
      <4>1. m \in D /\ R \in D \cup {nil}
        BY <1>3
      <4>. QED
        BY <1>1, <3>3, <3>4, <4>1, ChildRight
    <3>6. B \in [D -> NodeSet(D)] /\ \A x \in D : B[x].fwd = A1[x].fwd /\ B[x].prev = A1[x].prev
      BY <3>5 DEF Relinked
    <3>. QED
      BY <2>2, <3>2, <3>3, <3>5, <3>6
  <2>. QED
    BY <2>1, <2>2
<1>7. PICK M : M = Child(B, m, "left", l)
  OBVIOUS
<1>8. Relinked(M, B, D) /\ \A x \in D : /\ M[x].left = IF x = m THEN l ELSE B[x].left
                                       /\ M[x].right = B[x].right
                                       /\ M[x].parent = IF x = l THEN m ELSE B[x].parent
  <2>1. m \in D /\ l \in D \cup {nil}
    BY <1>3
  <2>2. ASSUME NEW L \in [D -> NodeSet(D)]
        PROVE  /\ Relinked(Child(L, m, "left", l), L, D)
               /\ \A x \in D : /\ Child(L, m, "left", l)[x].left = IF x = m THEN l ELSE L[x].left
                               /\ Child(L, m, "left", l)[x].right = L[x].right
                               /\ Child(L, m, "left", l)[x].parent = IF x = l THEN m ELSE L[x].parent
    BY <1>1, <2>1, ChildLeft
  <2>3. B \in [D -> NodeSet(D)]
    BY <1>6
  <2>4. /\ Relinked(Child(B, m, "left", l), B, D)
        /\ \A x \in D : /\ Child(B, m, "left", l)[x].left = IF x = m THEN l ELSE B[x].left
                        /\ Child(B, m, "left", l)[x].right = B[x].right
                        /\ Child(B, m, "left", l)[x].parent = IF x = l THEN m ELSE B[x].parent
    BY <2>2, <2>3
  <2>. QED
    BY <1>7, <2>4
<1>9. M \in [D -> NodeSet(D)] /\ \A x \in D : M[x].fwd = B[x].fwd /\ M[x].prev = B[x].prev
  BY <1>8 DEF Relinked
<1>10. ASSUME NEW x \in D
       PROVE  /\ M[x].left = IF x = m THEN l ELSE IF m # R /\ x = f THEN N[m].right ELSE N[x].left
              /\ M[x].right = IF m # R /\ x = m THEN R ELSE N[x].right
              /\ M[x].parent = IF x = l \/ (m # R /\ x = R) THEN m
                               ELSE IF m # R /\ x = N[m].right THEN f ELSE N[x].parent
              /\ M[x].fwd = N[x].fwd /\ M[x].prev = N[x].prev
  BY <1>6, <1>8, <1>9
<1>11. \A x \in D \ {t} : N[x].fwd # t /\ N[x].prev # t
  BY <1>1, AloneApart
<1>12. ReadyToHang(D, N, M, t, m)
  <2>1. M[t].parent = s
    BY <1>0, <1>4, <1>10
  <2>2. \A x \in D : x = s => (M[x].left = t <=> N[x].left = t)
    BY <1>4, <1>10
  <2>3. ASSUME NEW x \in D, x # t
        PROVE  /\ M[x].left = t => N[x].left = t
               /\ M[x].right = t => N[x].right = t
               /\ M[x].parent = t => x = m
               /\ M[x].fwd # t /\ M[x].prev # t
    <3>1. M[x].left = t => N[x].left = t
      BY <1>4, <1>10
    <3>2. M[x].right = t => N[x].right = t
      BY <1>4, <1>10
    <3>3. M[x].parent = t => x = m
      <4>1. CASE m = R
        BY <1>2, <1>3, <1>10, <4>1
      <4>2. CASE m # R
        BY <1>2, <1>3, <1>10, <4>2
      <4>. QED
        BY <4>1, <4>2
    <3>4. M[x].fwd # t /\ M[x].prev # t
      BY <1>10, <1>11, <2>3
    <3>. QED
      BY <3>1, <3>2, <3>3, <3>4
  <2>4. m \in (D \ {t}) \cup {nil}
    BY <1>3
  <2>. QED
    BY <1>0, <1>9, <2>1, <2>2, <2>3, <2>4 DEF ReadyToHang
<1>13. PICK U : U = Cut(Hang([root |-> r, node |-> M], t, m), t)
  OBVIOUS
<1>14. PICK N2 : U = [root |-> IF N[t].parent = nil THEN m ELSE r, node |-> N2] /\ Hung(D, N, M, t, m, N2)
  <2>1. HungAs(Cut(Hang([root |-> r, node |-> M], t, m), t), D, N, M, r, t, m)
    BY <1>12, HangDel
  <2>. QED
    BY <1>13, <2>1 DEF HungAs
<1>15. /\ N2 \in [D \ {t} -> NodeSet(D \ {t})]
       /\ \A x \in D \ {t} : /\ N2[x].left = IF N[x].left = t THEN m ELSE M[x].left
                             /\ N2[x].right = IF N[x].right = t THEN m ELSE M[x].right
                             /\ N2[x].parent = IF x = m THEN N[t].parent ELSE M[x].parent
                             /\ N2[x].fwd = M[x].fwd /\ N2[x].prev = M[x].prev
  BY <1>14 DEF Hung
<1>16. ByNext(D, N, t, m, N2)
  <2>1. ASSUME NEW x \in D \ {t}
        PROVE  /\ N2[x].left = IF x = m THEN l
                               ELSE IF N[x].left = m THEN N[m].right
                               ELSE IF N[x].left = t THEN m ELSE N[x].left
               /\ N2[x].right = IF x = m THEN IF R = m THEN N[m].right ELSE R
                                ELSE IF N[x].right = t THEN m ELSE N[x].right
               /\ N2[x].parent = IF x = m THEN s
                                 ELSE IF N[x].parent = t THEN m
                                 ELSE IF N[x].parent = m /\ N[m].parent # t THEN N[m].parent ELSE N[x].parent
    <3>0. N[x].left = t => x # m /\ (m # R => x # f)
      BY <1>2, <1>4
    <3>1. N2[x].left = IF x = m THEN l
                       ELSE IF N[x].left = m THEN N[m].right
                       ELSE IF N[x].left = t THEN m ELSE N[x].left
      <4>1. N2[x].left = IF N[x].left = t THEN m ELSE IF x = m THEN l ELSE IF m # R /\ x = f THEN N[m].right ELSE N[x].left
        BY <1>10, <1>15
      <4>2. (N[x].left = m) <=> (m # R /\ x = f)
        BY <1>5
      <4>. QED
        BY <3>0, <4>1, <4>2
    <3>2. N2[x].right = IF x = m THEN IF R = m THEN N[m].right ELSE R
                        ELSE IF N[x].right = t THEN m ELSE N[x].right
      <4>1. N2[x].right = IF N[x].right = t THEN m ELSE IF m # R /\ x = m THEN R ELSE N[x].right
        BY <1>10, <1>15
      <4>2. N[x].right = t => x # m
        BY <1>2, <1>4
      <4>. QED
        BY <4>1, <4>2
    <3>3. N2[x].parent = IF x = m THEN s
                         ELSE IF N[x].parent = t THEN m
                         ELSE IF N[x].parent = m /\ N[m].parent # t THEN N[m].parent ELSE N[x].parent
      <4>1. N2[x].parent = IF x = m THEN s ELSE IF x = l \/ (m # R /\ x = R) THEN m
                           ELSE IF m # R /\ x = N[m].right THEN f ELSE N[x].parent
        BY <1>0, <1>10, <1>15
      <4>2. (N[x].parent = t) <=> (x = l \/ x = R)
        BY <1>2
      <4>3. (N[x].parent = m) <=> (x = N[m].right)
        BY <1>5
      <4>4. (f # t) <=> (m # R)
        BY <1>3
      <4>. QED
        BY <4>1, <4>2, <4>3, <4>4
    <3>. QED
      BY <3>1, <3>2, <3>3
  <2>. QED
    BY <1>0, <1>15, <2>1 DEF ByNext
<1>17. \E Sub2 : Shape(D \ {t}, N2, IF N[t].parent = nil THEN m ELSE r, size, Sub2)
  BY <1>16, NextTakesPlace
<1>18. OneRing(D \ {t}, N2, size)
  <2>1. \A x \in D \ {t} : N2[x].fwd = N[x].fwd /\ N2[x].prev = N[x].prev
    BY <1>10, <1>15
  <2>. QED
    BY <1>1, <2>1, AloneGone
<1>. QED
  BY <1>0, <1>7, <1>13, <1>14, <1>17, <1>18 DEF IsTree

\* pooldel, by its cases.
Takes(V, r, N, t) ==
  /\ N[t].parent = nil /\ r # t => V = [root |-> r, node |-> Unring(N, t)]
  /\ ~(N[t].parent = nil /\ r # t) /\ N[t].fwd # t
       => V = Hang([root |-> r, node |-> Unring(Child(Child(N, N[t].fwd, "left", N[t].left),
                                                      N[t].fwd, "right", N[t].right), t)], t, N[t].fwd)
  /\ ~(N[t].parent = nil /\ r # t) /\ N[t].fwd = t
       => V = Hang([root |-> r, node |-> Replacement(N, t).node], t, Replacement(N, t).rp)

\* It is those cases.
LEMMA DelCases ==
  ASSUME NEW r, NEW N, NEW T, T = [root |-> r, node |-> N], NEW t
  PROVE  \E V : Takes(V, r, N, t) /\ PoolDel(T, t) = Cut(V, t)
<1>1. T.node = N /\ T.root = r
  OBVIOUS
<1>2. ASSUME NEW X PROVE [T EXCEPT !.node = X] = [root |-> r, node |-> X]
  OBVIOUS
<1> DEFINE M == T.node
           n == T.node[t]
           A == [T EXCEPT !.node = Unring(M, t)]
           B == Hang([T EXCEPT !.node = Unring(Child(Child(M, n.fwd, "left", n.left), n.fwd, "right", n.right), t)], t, n.fwd)
           C == Hang([T EXCEPT !.node = Replacement(M, t).node], t, Replacement(M, t).rp)
           After == IF n.parent = nil /\ T.root # t THEN A ELSE IF n.fwd # t THEN B ELSE C
<1>3. PoolDel(T, t) = Cut(After, t)
  BY DEF PoolDel, Cut
<1>4. M = N /\ n = N[t]
  BY <1>1
<1>5. A = [root |-> r, node |-> Unring(N, t)]
  BY <1>2, <1>4
<1>6. B = Hang([root |-> r, node |-> Unring(Child(Child(N, N[t].fwd, "left", N[t].left),
                                                  N[t].fwd, "right", N[t].right), t)], t, N[t].fwd)
  <2> HIDE DEF M, n
  <2>. QED
    BY <1>2, <1>4
<1>7. C = Hang([root |-> r, node |-> Replacement(N, t).node], t, Replacement(N, t).rp)
  <2> HIDE DEF M, n
  <2>. QED
    BY <1>2, <1>4
<1> HIDE DEF A, B, C, M, n
<1>8. After = IF N[t].parent = nil /\ r # t THEN A ELSE IF N[t].fwd # t THEN B ELSE C
  BY <1>1, <1>4
<1> HIDE DEF After
<1>9. Takes(After, r, N, t)
  BY <1>5, <1>6, <1>7, <1>8 DEF Takes
<1>. QED
  BY <1>3, <1>9

\* The node that takes t's place, by its cases.
LEMMA ReplacementIs ==
  ASSUME NEW N, NEW t, NEW m, m = Leftmost(N, N[t].right), NEW f, f = N[m].parent, NEW B,
         B = IF f = t THEN N ELSE Child(Child(N, f, "left", N[m].right), m, "right", N[t].right)
  PROVE  /\ N[t].left = nil => Replacement(N, t) = [rp |-> N[t].right, node |-> N]
         /\ N[t].left # nil /\ N[t].right = nil => Replacement(N, t) = [rp |-> N[t].left, node |-> N]
         /\ N[t].left # nil /\ N[t].right # nil
              => Replacement(N, t) = [rp |-> m, node |-> Child(B, m, "left", N[t].left)]
<1> DEFINE m1 == Leftmost(N, N[t].right)
           f1 == N[m1].parent
           B1 == IF f1 = t THEN N ELSE Child(Child(N, f1, "left", N[m1].right), m1, "right", N[t].right)
           V1 == Child(B1, m1, "left", N[t].left)
<1>1. Replacement(N, t) = IF N[t].left = nil THEN [rp |-> N[t].right, node |-> N]
                          ELSE IF N[t].right = nil THEN [rp |-> N[t].left, node |-> N]
                          ELSE [rp |-> m1, node |-> V1]
  BY Zenon DEF Replacement
<1>2. m1 = m
  OBVIOUS
<1>3. f1 = f
  <2> HIDE DEF m1
  <2>. QED
    BY <1>2
<1>4. B1 = B
  <2> HIDE DEF m1, f1
  <2>. QED
    BY <1>2, <1>3
<1>5. V1 = Child(B, m, "left", N[t].left)
  <2> HIDE DEF m1, f1, B1
  <2>. QED
    BY <1>2, <1>4
<1> HIDE DEF m1, V1
<1>. QED
  BY <1>1, <1>2, <1>5

\* pooldel makes a free tree without t.
LEMMA DelShape ==
  ASSUME NEW D, NEW N, NEW r, NEW size, NEW Sub, Shape(D, N, r, size, Sub), OneRing(D, N, size),
         NEW t \in D
  PROVE  IsTree(PoolDel([root |-> r, node |-> N], t), D \ {t}, size)
<1>0. PICK T : T = [root |-> r, node |-> N]
  OBVIOUS
<1>1. Sub[nil] = {} /\ nil \notin D /\ r \in D \cup {nil} /\ Parents(D, N, r, Sub)
  BY DEF Shape, Subtrees, Linked
<1>2. (N[t].parent = nil /\ r # t) <=> t \notin Sub[r]
  <2>1. ASSUME t \notin Sub[r] PROVE N[t].parent = nil /\ r # t
    <3>1. N[t].parent = nil
      BY <1>1, <2>1 DEF Parents
    <3>2. t \in Sub[t]
      BY NodeFacts
    <3>. QED
      BY <2>1, <3>1, <3>2
  <2>2. ASSUME t \in Sub[r], r # t PROVE N[t].parent # nil
    <3>1. r \in D
      BY <1>1, <2>2
    <3>. QED
      BY <2>2, <3>1, ParentIn
  <2>. QED
    BY <2>1, <2>2
<1>V. PICK V : Takes(V, r, N, t) /\ PoolDel(T, t) = Cut(V, t)
  BY <1>0, DelCases
<1>3. CASE t \notin Sub[r]
  <2>1. PoolDel(T, t) = Cut([root |-> r, node |-> Unring(N, t)], t)
    BY <1>2, <1>3, <1>V DEF Takes
  <2>. QED
    BY <1>0, <1>3, <2>1, DelMember
<1>4. CASE t \in Sub[r] /\ N[t].fwd # t
  <2>0. PICK h, A : h = N[t].fwd /\ A = Child(Child(N, h, "left", N[t].left), h, "right", N[t].right)
    OBVIOUS
  <2>1. PoolDel(T, t) = Cut(Hang([root |-> r, node |-> Unring(Child(Child(N, N[t].fwd, "left", N[t].left),
                                                                    N[t].fwd, "right", N[t].right), t)],
                                 t, N[t].fwd), t)
    BY <1>2, <1>4, <1>V DEF Takes
  <2>2. PoolDel(T, t) = Cut(Hang([root |-> r, node |-> Unring(A, t)], t, h), t)
    BY <2>0, <2>1
  <2>3. IsTree(Cut(Hang([root |-> r, node |-> Unring(A, t)], t, h), t), D \ {t}, size)
    BY <1>4, <2>0, DelHead
  <2>. QED
    BY <1>0, <2>2, <2>3
<1>5. CASE t \in Sub[r] /\ N[t].fwd = t
  <2>0. PICK c, M : c = Replacement(N, t).rp /\ M = Replacement(N, t).node
    OBVIOUS
  <2>1. PoolDel(T, t) = Cut(Hang([root |-> r, node |-> M], t, c), t)
    BY <1>2, <1>5, <1>V, <2>0 DEF Takes
  <2>m. PICK m, f, B : /\ m = Leftmost(N, N[t].right) /\ f = N[m].parent
                       /\ B = IF f = t THEN N
                              ELSE Child(Child(N, f, "left", N[m].right), m, "right", N[t].right)
    OBVIOUS
  <2>2. CASE N[t].left = nil \/ N[t].right = nil
    <3>1. M = N /\ ((N[t].left = nil /\ c = N[t].right) \/ (N[t].right = nil /\ c = N[t].left))
      <4>1. CASE N[t].left = nil
        <5>1. Replacement(N, t) = [rp |-> N[t].right, node |-> N]
          BY <2>m, <4>1, ReplacementIs
        <5>. QED
          BY <2>0, <4>1, <5>1
      <4>2. CASE N[t].left # nil
        <5>1. Replacement(N, t) = [rp |-> N[t].left, node |-> N]
          BY <2>m, <2>2, <4>2, ReplacementIs
        <5>. QED
          BY <2>0, <2>2, <4>2, <5>1
      <4>. QED
        BY <4>1, <4>2
    <3>2. IsTree(Cut(Hang([root |-> r, node |-> N], t, c), t), D \ {t}, size)
      BY <1>5, <3>1, DelLeaf
    <3>. QED
      BY <1>0, <2>1, <3>1, <3>2
  <2>3. CASE N[t].left # nil /\ N[t].right # nil
    <3>1. c = m /\ M = Child(B, m, "left", N[t].left)
      <4>1. Replacement(N, t) = [rp |-> m, node |-> Child(B, m, "left", N[t].left)]
        BY <2>m, <2>3, ReplacementIs
      <4>. QED
        BY <2>0, <4>1
    <3>2. N[t].right \in D
      BY <2>3, NodeFacts
    <3>3. IsFirst(m, D, N, size, Sub, N[t].right)
      BY <2>m, <3>2, LeftmostIs
    <3>4. IsTree(Cut(Hang([root |-> r, node |-> Child(B, m, "left", N[t].left)], t, m), t), D \ {t}, size)
      BY <1>5, <2>m, <2>3, <3>3, DelInner
    <3>. QED
      BY <1>0, <2>1, <3>1, <3>4
  <2>. QED
    BY <2>2, <2>3
<1>. QED
  BY <1>3, <1>4, <1>5

\* The same for a tree T.
LEMMA DelKeeps ==
  ASSUME NEW T, NEW size, TreeOK(T, size), NEW t \in DOMAIN T.node
  PROVE  TreeOK(PoolDel(T, t), size) /\ DOMAIN PoolDel(T, t).node = DOMAIN T.node \ {t}
<1>1. PICK D, N, r, Sub : /\ T = [root |-> r, node |-> N] /\ D = DOMAIN N
                          /\ Shape(D, N, r, size, Sub) /\ OneRing(D, N, size)
  BY DEF TreeOK
<1>2. t \in D /\ DOMAIN T.node = D
  BY <1>1
<1>3. IsTree(PoolDel(T, t), D \ {t}, size)
  BY <1>1, <1>2, DelShape
<1>4. PICK N2, r2, Sub2 : /\ PoolDel(T, t) = [root |-> r2, node |-> N2]
                          /\ Shape(D \ {t}, N2, r2, size, Sub2) /\ OneRing(D \ {t}, N2, size)
  BY <1>3 DEF IsTree
<1>5. DOMAIN N2 = D \ {t}
  BY <1>4 DEF Shape, Linked
<1>. QED
  BY <1>2, <1>4, <1>5 DEF TreeOK

(***************************************************************************)
(* What is read from the free tree of a state.                             *)
(***************************************************************************)
\* Below is the subtrees.
LEMMA BelowIs ==
  ASSUME NEW r, NEW size, NEW Sub, Shape(DOMAIN node, node, r, size, Sub)
  PROVE  \A t \in DOMAIN node \cup {nil} : Below[t] = Sub[t]
<1> DEFINE D == DOMAIN node
           E == D \cup {nil}
           From[t \in E] == IF t = nil THEN {} ELSE {t} \cup From[node[t].left] \cup From[node[t].right]
<1>1. /\ nil \notin D /\ Sub[nil] = {} /\ Sub \in [E -> SUBSET D]
      /\ \A t \in D : Sub[t] = {t} \cup Sub[node[t].left] \cup Sub[node[t].right]
  BY DEF Shape, Linked, Subtrees
<1>2. From = [t \in E |-> IF t = nil THEN {} ELSE {t} \cup From[node[t].left] \cup From[node[t].right]]
  <2>1. ASSUME NEW t \in E
        PROVE  Sub[t] = IF t = nil THEN {} ELSE {t} \cup Sub[node[t].left] \cup Sub[node[t].right]
    BY <1>1
  <2>2. Sub = [t \in E |-> IF t = nil THEN {} ELSE {t} \cup Sub[node[t].left] \cup Sub[node[t].right]]
    <3>1. Sub = [t \in E |-> Sub[t]]
      BY <1>1
    <3>. QED
      BY <2>1, <3>1
  <2>. QED
    BY <2>2
<1>3. Below = From
  BY DEF Below
<1> HIDE DEF From
<1>4. Below[nil] = {} /\ \A t \in D : Below[t] = {t} \cup Below[node[t].left] \cup Below[node[t].right]
  <2>1. \A t \in E : From[t] = IF t = nil THEN {} ELSE {t} \cup From[node[t].left] \cup From[node[t].right]
    BY <1>2
  <2>. QED
    BY <1>1, <1>3, <2>1
<1> DEFINE S == {x \in D : Below[x] = Sub[x]}
<1>5. ASSUME NEW x \in D, node[x].left \in S \cup {nil}, node[x].right \in S \cup {nil} PROVE x \in S
  <2>1. PICK l, R : l = node[x].left /\ R = node[x].right
    OBVIOUS
  <2>2. Below[l] = Sub[l] /\ Below[R] = Sub[R]
    BY <1>1, <1>4, <1>5, <2>1
  <2>3. Below[x] = {x} \cup Below[l] \cup Below[R]
    BY <1>4, <2>1
  <2>4. Sub[x] = {x} \cup Sub[l] \cup Sub[R]
    BY <1>1, <2>1
  <2>. QED
    BY <2>2, <2>3, <2>4
<1>6. Linked(D, node, r) /\ Subtrees(D, node, Sub) /\ Ordered(D, node, size, Sub)
  BY DEF Shape
<1>7. D \subseteq S
  <2> HIDE DEF S, D
  <2>. QED
    BY <1>5, <1>6, TreeInduction
<1>. QED
  BY <1>1, <1>4, <1>7

\* What the descent of Search does at each node.
SearchStep(D, N, size, n, f) ==
  \A t \in D : \A q \in D \cup {nil} :
    f[t][q] = IF size[t] = n THEN N[t].fwd
              ELSE IF n < size[t] THEN f[N[t].left][t] ELSE f[N[t].right][q]

\* u is a smallest node below x of at least n units.
IsLeast(u, x, size, Sub, n) ==
  u \in Sub[x] /\ n <= size[u] /\ \A w \in Sub[x] : n <= size[w] => size[u] <= size[w]

\* The descent from x finds one, or returns what it was given.
FindsLeast(v, q, x, D, size, Sub, n) ==
  \/ v = q /\ \A w \in Sub[x] : size[w] < n
  \/ v \in D /\ \E u \in D : IsLeast(u, x, size, Sub, n) /\ size[v] = size[u]

\* From every node and with every block passed on the way, it does.
LEMMA SearchBest ==
  ASSUME NEW D, NEW N, NEW r, NEW size, NEW Sub, Shape(D, N, r, size, Sub), OneRing(D, N, size), NEW n \in Nat,
         NEW f, SearchStep(D, N, size, n, f), \A q \in D \cup {nil} : f[nil][q] = q
  PROVE  \A x \in D \cup {nil} : \A q \in D \cup {nil} : FindsLeast(f[x][q], q, x, D, size, Sub, n)
<1> DEFINE E == D \cup {nil}
           S == {x \in D : \A q \in E : FindsLeast(f[x][q], q, x, D, size, Sub, n)}
<1>1. Sub[nil] = {} /\ nil \notin D
  BY DEF Shape, Linked, Subtrees
<1>2. \A q \in E : FindsLeast(f[nil][q], q, nil, D, size, Sub, n)
  BY <1>1 DEF FindsLeast
<1>3. ASSUME NEW x \in D, N[x].left \in S \cup {nil}, N[x].right \in S \cup {nil} PROVE x \in S
  <2>0. PICK l, R : l = N[x].left /\ R = N[x].right
    OBVIOUS
  <2>1. /\ \A u \in Sub[l] : size[u] < size[x] /\ size[u] \in Nat
        /\ \A u \in Sub[R] : size[x] < size[u] /\ size[u] \in Nat
        /\ Sub[x] = {x} \cup Sub[l] \cup Sub[R] /\ size[x] \in Nat
    <3>1. Sub[x] = {x} \cup Sub[l] \cup Sub[R] /\ Sub[x] \subseteq D /\ size[x] \in Nat
      BY <2>0, NodeFacts
    <3>2. /\ \A u \in Sub[l] : size[u] < size[x]
          /\ \A u \in Sub[R] : size[x] < size[u]
          /\ \A u \in D : size[u] \in Nat
      BY <2>0 DEF Shape, Ordered
    <3>. QED
      BY <3>1, <3>2
  <2>2. SUFFICES ASSUME NEW q \in E PROVE FindsLeast(f[x][q], q, x, D, size, Sub, n)
    OBVIOUS
  <2>3. f[x][q] = IF size[x] = n THEN N[x].fwd ELSE IF n < size[x] THEN f[l][x] ELSE f[R][q]
    BY <2>0 DEF SearchStep
  <2>4. /\ \A p \in E : FindsLeast(f[l][p], p, l, D, size, Sub, n)
        /\ \A p \in E : FindsLeast(f[R][p], p, R, D, size, Sub, n)
    BY <1>2, <1>3, <2>0
  <2>5. CASE size[x] = n
    <3>1. N[x].fwd \in D /\ size[N[x].fwd] = size[x]
      BY NodeFacts DEF OneRing
    <3>2. IsLeast(x, x, size, Sub, n)
      BY <2>1, <2>5 DEF IsLeast
    <3>. QED
      BY <2>3, <2>5, <3>1, <3>2 DEF FindsLeast
  <2>6. CASE n < size[x]
    <3>1. f[x][q] = f[l][x] /\ FindsLeast(f[l][x], x, l, D, size, Sub, n)
      BY <2>1, <2>3, <2>4, <2>6
    <3>2. CASE f[l][x] = x /\ \A w \in Sub[l] : size[w] < n
      <4>1. IsLeast(x, x, size, Sub, n)
        BY <2>1, <2>6, <3>2 DEF IsLeast
      <4>. QED
        BY <3>1, <3>2, <4>1 DEF FindsLeast
    <3>3. CASE f[l][x] \in D /\ \E u \in D : IsLeast(u, l, size, Sub, n) /\ size[f[l][x]] = size[u]
      <4>1. PICK u \in D : IsLeast(u, l, size, Sub, n) /\ size[f[l][x]] = size[u]
        BY <3>3
      <4>2. IsLeast(u, x, size, Sub, n)
        BY <2>1, <4>1 DEF IsLeast
      <4>. QED
        BY <3>1, <3>3, <4>1, <4>2 DEF FindsLeast
    <3>. QED
      BY <3>1, <3>2, <3>3 DEF FindsLeast
  <2>7. CASE size[x] < n
    <3>1. f[x][q] = f[R][q] /\ FindsLeast(f[R][q], q, R, D, size, Sub, n)
      BY <2>1, <2>3, <2>4, <2>7
    <3>2. CASE f[R][q] = q /\ \A w \in Sub[R] : size[w] < n
      <4>1. \A w \in Sub[x] : size[w] < n
        BY <2>1, <2>7, <3>2
      <4>. QED
        BY <3>1, <3>2, <4>1 DEF FindsLeast
    <3>3. CASE f[R][q] \in D /\ \E u \in D : IsLeast(u, R, size, Sub, n) /\ size[f[R][q]] = size[u]
      <4>1. PICK u \in D : IsLeast(u, R, size, Sub, n) /\ size[f[R][q]] = size[u]
        BY <3>3
      <4>2. IsLeast(u, x, size, Sub, n)
        BY <2>1, <2>7, <4>1 DEF IsLeast
      <4>. QED
        BY <3>1, <3>3, <4>1, <4>2 DEF FindsLeast
    <3>. QED
      BY <3>1, <3>2, <3>3 DEF FindsLeast
  <2>. QED
    BY <2>1, <2>5, <2>6, <2>7
<1>4. D \subseteq S
  <2> HIDE DEF S, E
  <2>1. Linked(D, N, r) /\ Subtrees(D, N, Sub) /\ Ordered(D, N, size, Sub)
    BY DEF Shape
  <2>. QED
    BY <1>3, <2>1, TreeInduction
<1>. QED
  BY <1>2, <1>4

\* Search is what its recursion says.
LEMMA SearchRecursion ==
  ASSUME NEW Sub, Shape(DOMAIN node, node, root, SizeIn(blk), Sub), DOMAIN node \subseteq DOMAIN blk,
         NEW n \in Sizes
  PROVE  \E f : /\ SearchStep(DOMAIN node, node, SizeIn(blk), n, f)
                /\ \A q \in DOMAIN node \cup {nil} : f[nil][q] = q
                /\ Search[n] = f[root][nil]
<1> DEFINE D == DOMAIN node
           E == D \cup {nil}
           F == [E -> E]
           sz(t) == blk[t].size
           at(t, q, g) == IF t = nil THEN q ELSE IF sz(t) = n THEN node[t].fwd
                          ELSE IF n < sz(t) THEN g[node[t].left][t] ELSE g[node[t].right][q]
           step == [t \in E |-> [g \in [E -> F] |-> [q \in E |-> at(t, q, g)]]]
<1>1. ASSUME NEW t \in D
      PROVE node[t].left \in E /\ node[t].right \in E /\ node[t].fwd \in E /\ t # nil /\ SizeIn(blk)[t] = sz(t)
  <2>1. node[t].left \in E /\ node[t].right \in E /\ node[t].fwd \in E /\ t # nil
    BY NodeFacts
  <2>2. SizeIn(blk)[t] = sz(t)
    BY DEF SizeIn
  <2>. QED
    BY <2>1, <2>2
<1>2. step \in [E -> [[E -> F] -> F]]
  <2>1. ASSUME NEW t \in E, NEW g \in [E -> F], NEW q \in E PROVE at(t, q, g) \in E
    BY <1>1
  <2> HIDE DEF at
  <2>. QED
    BY <2>1
<1>3. FromChildren(E, node, F, step)
  <2>1. SUFFICES ASSUME NEW t \in E, NEW g \in [E -> F], NEW h \in [E -> F],
                        t # nil => g[node[t].left] = h[node[t].left] /\ g[node[t].right] = h[node[t].right]
                 PROVE  step[t][g] = step[t][h]
    BY DEF FromChildren
  <2>2. \A q \in E : at(t, q, g) = at(t, q, h)
    BY <2>1
  <2>. HIDE DEF at
  <2>. QED
    BY <2>2
<1>4. \A t \in E : \A g \in [E -> F] : step[t][g] = [q \in E |-> at(t, q, g)]
  OBVIOUS
<1>5. F # {} /\ E = D \cup {nil}
  <2>1. [q \in E |-> q] \in F
    OBVIOUS
  <2>. QED
    BY <2>1
<1> HIDE DEF step, at, E, F
<1>6. PICK f \in [E -> F] : Solves(f, E, step)
  BY <1>2, <1>3, <1>5, TreeRecursion
<1>7. \A t \in E : f[t] = [q \in E |-> at(t, q, f)]
  BY <1>4, <1>6 DEF Solves
<1> DEFINE Down[t \in DOMAIN node \cup {nil}] ==
             [q \in DOMAIN node \cup {nil} |->
                IF t = nil THEN q
                ELSE IF blk[t].size = n THEN node[t].fwd
                ELSE IF n < blk[t].size THEN Down[node[t].left][t]
                ELSE Down[node[t].right][q]]
<1>8. Down = [t \in DOMAIN node \cup {nil} |-> [q \in DOMAIN node \cup {nil} |->
                IF t = nil THEN q
                ELSE IF blk[t].size = n THEN node[t].fwd
                ELSE IF n < blk[t].size THEN Down[node[t].left][t]
                ELSE Down[node[t].right][q]]]
  <2>1. f = [t \in E |-> [q \in E |-> at(t, q, f)]]
    <3>1. f = [t \in E |-> f[t]]
      OBVIOUS
    <3>. QED
      BY <1>7, <3>1
  <2>2. f = [t \in DOMAIN node \cup {nil} |-> [q \in DOMAIN node \cup {nil} |->
                IF t = nil THEN q
                ELSE IF blk[t].size = n THEN node[t].fwd
                ELSE IF n < blk[t].size THEN f[node[t].left][t]
                ELSE f[node[t].right][q]]]
    BY <2>1 DEF at, E
  <2>. QED
    BY <2>2
<1>9. Search[n] = Down[root][nil]
  BY DEF Search
<1> HIDE DEF Down
<1>10. \A t \in E : \A q \in E : Down[t][q] = at(t, q, Down)
  <2>1. ASSUME NEW t \in E
        PROVE  Down[t] = [q \in DOMAIN node \cup {nil} |->
                            IF t = nil THEN q
                            ELSE IF blk[t].size = n THEN node[t].fwd
                            ELSE IF n < blk[t].size THEN Down[node[t].left][t]
                            ELSE Down[node[t].right][q]]
    BY <1>8, Zenon DEF E
  <2>2. ASSUME NEW t \in E, NEW q \in E
        PROVE  Down[t][q] = IF t = nil THEN q
                            ELSE IF blk[t].size = n THEN node[t].fwd
                            ELSE IF n < blk[t].size THEN Down[node[t].left][t]
                            ELSE Down[node[t].right][q]
    <3>1. PICK g : g = Down[t]
      OBVIOUS
    <3>2. g = [y \in DOMAIN node \cup {nil} |->
                            IF t = nil THEN y
                            ELSE IF blk[t].size = n THEN node[t].fwd
                            ELSE IF n < blk[t].size THEN Down[node[t].left][t]
                            ELSE Down[node[t].right][y]]
      BY <2>1, <3>1
    <3>3. g[q] = IF t = nil THEN q
                            ELSE IF blk[t].size = n THEN node[t].fwd
                            ELSE IF n < blk[t].size THEN Down[node[t].left][t]
                            ELSE Down[node[t].right][q]
      BY <3>2, Zenon DEF E
    <3>. QED
      BY <3>1, <3>3
  <2>. QED
    BY <2>2 DEF at
<1>11. SearchStep(D, node, SizeIn(blk), n, Down)
  <2>1. SUFFICES ASSUME NEW t \in D, NEW q \in E
                 PROVE  Down[t][q] = IF SizeIn(blk)[t] = n THEN node[t].fwd
                                     ELSE IF n < SizeIn(blk)[t] THEN Down[node[t].left][t] ELSE Down[node[t].right][q]
    BY DEF SearchStep, E
  <2>. QED
    BY <1>1, <1>10 DEF E, at
<1>12. \A q \in E : Down[nil][q] = q
  BY <1>10 DEF E, at
<1>. QED
  BY <1>9, <1>11, <1>12 DEF E

\* The free tree of a state is one, of the free blocks.
TreeHolds == TreeOK(tree, SizeIn(blk)) /\ DOMAIN node = Is("F")

\* It has its subtrees, and sizes are those of the blocks.
LEMMA TreeState ==
  ASSUME TreeHolds
  PROVE  /\ \E Sub : Shape(DOMAIN node, node, root, SizeIn(blk), Sub)
         /\ OneRing(DOMAIN node, node, SizeIn(blk))
         /\ DOMAIN node \subseteq DOMAIN blk /\ nil \notin DOMAIN node
         /\ \A t \in DOMAIN node : SizeIn(blk)[t] = blk[t].size
<1>1. tree.node = node /\ tree.root = root
  BY DEF tree
<1>2. PICK Sub : Shape(DOMAIN node, node, root, SizeIn(blk), Sub)
  BY <1>1 DEF TreeHolds, TreeOK
<1>3. OneRing(DOMAIN node, node, SizeIn(blk))
  BY <1>1 DEF TreeHolds, TreeOK
<1>4. DOMAIN node \subseteq DOMAIN blk
  BY DEF TreeHolds, Is, Blocks
<1>5. \A t \in DOMAIN node : SizeIn(blk)[t] = blk[t].size
  BY <1>4 DEF SizeIn
<1>6. nil \notin DOMAIN node
  BY <1>2 DEF Shape, Linked
<1>. QED
  BY <1>2, <1>3, <1>4, <1>5, <1>6

\* It is what FreeTreeExact says.
LEMMA TreeExact ==
  ASSUME TreeHolds
  PROVE  FreeTreeExact
<1> DEFINE D == DOMAIN node
           size == SizeIn(blk)
<1>1. PICK Sub : Shape(D, node, root, size, Sub)
  BY TreeState
<1>2. OneRing(D, node, size) /\ nil \notin D /\ \A t \in D : size[t] = blk[t].size
  BY TreeState
<1> HIDE DEF size
<1>3. \A t \in D \cup {nil} : Below[t] = Sub[t]
  BY <1>1, BelowIs
<1>4. root \in D \cup {nil} /\ Sub[nil] = {} /\ Sub \in [D \cup {nil} -> SUBSET D]
  BY <1>1 DEF Shape, Linked, Subtrees
<1>5. Below[root] = Sub[root] /\ Sub[root] \subseteq D
  BY <1>3, <1>4
<1>6. ASSUME NEW t \in Below[root]
      PROVE  /\ \A q \in Below[node[t].left] : blk[q].size < blk[t].size /\ q # t
             /\ \A q \in Below[node[t].right] : blk[q].size > blk[t].size /\ q # t
             /\ \A c \in {node[t].left, node[t].right} \ {nil} : node[c].parent = t
  <2>1. t \in D /\ node[t].left \in D \cup {nil} /\ node[t].right \in D \cup {nil}
    BY <1>1, <1>5, NodeFacts
  <2>2. Below[node[t].left] = Sub[node[t].left] /\ Below[node[t].right] = Sub[node[t].right]
    BY <1>3, <2>1
  <2>3. t \notin Sub[node[t].left] /\ t \notin Sub[node[t].right]
    BY <1>1, <2>1, ChildrenApart
  <2>4. ASSUME NEW q \in Sub[node[t].left] PROVE blk[q].size < blk[t].size
    <3>1. size[q] < size[t] /\ q \in D
      BY <1>1, <1>4, <2>1 DEF Shape, Ordered
    <3>. QED
      BY <1>2, <2>1, <3>1
  <2>5. ASSUME NEW q \in Sub[node[t].right] PROVE blk[q].size > blk[t].size
    <3>1. size[t] < size[q] /\ q \in D
      BY <1>1, <1>4, <2>1 DEF Shape, Ordered
    <3>2. size[t] \in Nat /\ size[q] \in Nat
      BY <1>1, <2>1, <3>1 DEF Shape, Ordered
    <3>. QED
      BY <1>2, <2>1, <3>1, <3>2
  <2>6. \A c \in {node[t].left, node[t].right} \ {nil} : node[c].parent = t
    BY <1>1, <2>1 DEF Shape, Parents
  <2>. QED
    BY <2>2, <2>3, <2>4, <2>5, <2>6
<1>7. root # nil => node[root].parent = nil
  BY <1>1 DEF Shape, Parents
<1>8. ASSUME NEW t \in D
      PROVE  /\ Ring(t) \cap Below[root] # {}
             /\ t \notin Below[root] => node[t].parent = nil
             /\ node[node[t].fwd].prev = t /\ node[t].fwd \in Ring(t)
             /\ \A S \in SUBSET Ring(t) : (S # {} /\ \A q \in S : node[q].fwd \in S) => S = Ring(t)
  <2>1. \A q : q \in Ring(t) <=> q \in D /\ size[q] = size[t]
    BY <1>2 DEF Ring
  <2>2. Ring(t) \cap Below[root] # {}
    <3>1. PICK h \in Sub[root] : size[h] = size[t]
      BY <1>1 DEF Shape, Sized
    <3>. QED
      BY <1>5, <2>1, <3>1
  <2>3. t \notin Below[root] => node[t].parent = nil
    BY <1>1, <1>5 DEF Shape, Parents
  <2>4. node[node[t].fwd].prev = t /\ node[t].fwd \in Ring(t)
    <3>1. node[t].fwd \in D
      BY <1>1, NodeFacts
    <3>2. node[node[t].fwd].prev = t /\ size[node[t].fwd] = size[t]
      BY <1>2 DEF OneRing
    <3>. QED
      BY <2>1, <3>1, <3>2
  <2>5. ASSUME NEW S \in SUBSET Ring(t), S # {}, \A q \in S : node[q].fwd \in S PROVE S = Ring(t)
    <3>1. PICK u \in S : TRUE
      BY <2>5
    <3>2. u \in D /\ size[u] = size[t] /\ S \in SUBSET D
      BY <2>1
    <3>3. \A q \in D : size[q] = size[u] => q \in S
      BY <1>2, <2>5, <3>1, <3>2 DEF OneRing
    <3>. QED
      BY <2>1, <3>2, <3>3
  <2>. QED
    BY <2>2, <2>3, <2>4, <2>5
<1>9. DOMAIN node = Is("F")
  BY DEF TreeHolds
<1>. QED
  BY <1>6, <1>7, <1>8, <1>9 DEF FreeTreeExact

\* Search finds a smallest free block of at least n units, or there is none.
FoundFor(n) ==
  \/ Search[n] = nil /\ \A b \in Is("F") : blk[b].size < n
  \/ Search[n] \in Is("F") /\ n <= blk[Search[n]].size
     /\ \A b \in Is("F") : n <= blk[b].size => blk[Search[n]].size <= blk[b].size

\* The tree of a state gives such a block.
LEMMA SearchIs ==
  ASSUME TreeHolds, NEW n \in Sizes
  PROVE  FoundFor(n)
<1> DEFINE D == DOMAIN node
           size == SizeIn(blk)
<1>0. n \in Nat
  BY PoolAssumption
<1>1. PICK Sub : Shape(D, node, root, size, Sub)
  BY TreeState
<1>2. OneRing(D, node, size) /\ nil \notin D /\ \A t \in D : size[t] = blk[t].size
  BY TreeState
<1>3. PICK f : /\ SearchStep(D, node, size, n, f)
               /\ \A q \in D \cup {nil} : f[nil][q] = q
               /\ Search[n] = f[root][nil]
  BY <1>1, TreeState, SearchRecursion
<1> HIDE DEF size
<1>4. root \in D \cup {nil} /\ Sub[nil] = {} /\ Sub \in [D \cup {nil} -> SUBSET D]
  BY <1>1 DEF Shape, Linked, Subtrees
<1>5. \A x \in D \cup {nil} : \A q \in D \cup {nil} : FindsLeast(f[x][q], q, x, D, size, Sub, n)
  BY <1>0, <1>1, <1>2, <1>3, SearchBest
<1>6. FindsLeast(Search[n], nil, root, D, size, Sub, n)
  BY <1>3, <1>4, <1>5
<1>7. ASSUME NEW b \in D PROVE \E h \in Sub[root] : size[h] = size[b] /\ size[b] \in Nat
  BY <1>1 DEF Shape, Sized, Ordered
<1>8. D = Is("F")
  BY DEF TreeHolds
<1>9. CASE Search[n] = nil /\ \A w \in Sub[root] : size[w] < n
  <2>1. \A b \in D : blk[b].size < n
    BY <1>2, <1>7, <1>9
  <2>. QED
    BY <1>8, <1>9, <2>1 DEF FoundFor
<1>10. CASE Search[n] \in D /\ \E u \in D : IsLeast(u, root, size, Sub, n) /\ size[Search[n]] = size[u]
  <2>1. PICK u \in D : IsLeast(u, root, size, Sub, n) /\ size[Search[n]] = size[u]
    BY <1>10
  <2>2. n <= size[Search[n]] /\ \A b \in D : n <= size[b] => size[Search[n]] <= size[b]
    BY <1>7, <2>1 DEF IsLeast
  <2>. QED
    BY <1>2, <1>8, <1>10, <2>2 DEF FoundFor
<1>. QED
  BY <1>6, <1>9, <1>10 DEF FindsLeast

\* It is what SearchFindsBest says.
LEMMA TreeSearched ==
  ASSUME TreeHolds
  PROVE  SearchFindsBest
<1> DEFINE fit(n) == {blk[b].size : b \in {q \in Is("F") : blk[q].size >= n}}
<1>1. SUFFICES ASSUME NEW n \in Sizes
               PROVE  IF fit(n) = {} THEN Search[n] = nil
                      ELSE Search[n] # nil /\ blk[Search[n]].size = CHOOSE m \in fit(n) : \A k \in fit(n) : m <= k
  BY DEF SearchFindsBest
<1>2. n \in Nat /\ \A b \in Is("F") : blk[b].size \in Nat /\ b # nil
  <2>1. PICK Sub : Shape(DOMAIN node, node, root, SizeIn(blk), Sub)
    BY TreeState
  <2>2. \A t \in DOMAIN node : SizeIn(blk)[t] = blk[t].size /\ t # nil
    BY TreeState
  <2>. QED
    BY <2>1, <2>2, PoolAssumption DEF TreeHolds, Shape, Ordered
<1>3. FoundFor(n)
  BY SearchIs
<1>4. CASE Search[n] = nil /\ \A b \in Is("F") : blk[b].size < n
  <2>1. fit(n) = {}
    BY <1>2, <1>4
  <2>. QED
    BY <1>4, <2>1
<1>5. CASE /\ Search[n] \in Is("F") /\ n <= blk[Search[n]].size
           /\ \A b \in Is("F") : n <= blk[b].size => blk[Search[n]].size <= blk[b].size
  <2> DEFINE s == blk[Search[n]].size
  <2>1. s \in fit(n) /\ s \in Nat
    BY <1>2, <1>5
  <2>2. \A k \in fit(n) : k \in Nat /\ s <= k
    BY <1>2, <1>5
  <2> HIDE DEF fit, s
  <2>3. s = CHOOSE m \in fit(n) : \A k \in fit(n) : m <= k
    <3>1. \A m \in fit(n) : (\A k \in fit(n) : m <= k) => m = s
      BY <2>1, <2>2
    <3>. QED
      BY <2>1, <2>2, <3>1
  <2>. QED
    BY <1>2, <1>5, <2>1, <2>3 DEF s
<1>. QED
  BY <1>3, <1>4, <1>5 DEF FoundFor

-----------------------------------------------------------------------------
(***************************************************************************)
(* The blocks.  B is the headers and tl the tails.                         *)
(***************************************************************************)
Lim(B, c) == c + B[c].csize
Solid(B) == {b \in DOMAIN B : B[b] # EndMark}
With(B, magic) == {b \in Solid(B) : B[b].magic = magic}
Leads(B) == With(B, "E")
InUse(B) == With(B, "A") \cup With(B, "I")

\* A block's header, a leader or an end mark.
Kinds(B) ==
  \A x \in DOMAIN B :
    \/ B[x] \in [magic : {"A", "F", "I"}, size : Nat \ {0}]
    \/ B[x] \in [magic : {"E"}, size : {ldr}, csize : Nat, clink : Nat]
    \/ B[x] = EndMark

\* A block ends where a header or end mark follows, whose tail leads back to
\* it, and none is inside it.
Tiles(B, tl) ==
  /\ DOMAIN tl = DOMAIN B \ Leads(B)
  /\ \A b \in Solid(B) : b + B[b].size \in DOMAIN tl /\ tl[b + B[b].size] = b
  /\ \A x \in DOMAIN tl : tl[x] \in Solid(B) /\ tl[x] + B[tl[x]].size = x
  /\ \A b \in Solid(B) : \A x \in DOMAIN B : x <= b \/ b + B[b].size <= x

\* Arenas end with an end mark, have all blocks and do not overlap.
Bounds(B) ==
  /\ \A c \in Leads(B) : c < Lim(B, c) /\ Lim(B, c) \in DOMAIN B /\ B[Lim(B, c)] = EndMark
  /\ \A x \in DOMAIN B : \E c \in Leads(B) : c <= x /\ x <= Lim(B, c)
  /\ \A x \in DOMAIN B : B[x] = EndMark => \E c \in Leads(B) : x = Lim(B, c)
  /\ \A c, d \in Leads(B) : c < d => Lim(B, c) < d

\* Each leader is linked to the one before it, and ch is the last.
Chained(B, ch) ==
  /\ ch \in Leads(B) \cup {nil}
  /\ \A c \in Leads(B) : c <= ch
  /\ \A c \in Leads(B) : /\ B[c].clink \in Leads(B) \cup {nil} /\ B[c].clink < c
                         /\ \A d \in Leads(B) : d < c => d <= B[c].clink

\* No two free blocks are side by side.
Joined(B) == \A b \in With(B, "F") : B[b + B[b].size].magic # "F"

Laid(B, tl, ch) == Kinds(B) /\ Tiles(B, tl) /\ Bounds(B) /\ Chained(B, ch)

\* What is in memory is below the break.
InMemory(B, top) == top \in Nat \ {0} /\ \A x \in DOMAIN B : x \in Addr /\ x < top

\* The blocks a Proc in the middle of an allocation or a free owns.
Owned(p) == {job[p].old, job[p].block} \ {nil}

JobsOK ==
  /\ job \in [Proc -> [pc : {"idle", "free", "merged", "retry"}, size : Nat, old : Nat, block : Nat]]
  /\ \A p \in Proc :
       /\ Owned(p) \subseteq InUse(blk)
       /\ job[p].pc = "idle" => job[p] = Idle
       /\ job[p].pc = "free" => job[p].old # nil /\ job[p].block = nil
       /\ job[p].pc = "merged" => job[p].block # nil /\ job[p].block # job[p].old /\ job[p].size \in Sizes
       /\ job[p].pc = "retry" => job[p].block = nil /\ job[p].size \in Sizes
  /\ \A p, q \in Proc : p # q => Owned(p) \cap Owned(q) = {}

\* A unit of memory for each one a block of S has.
Units(B, S) == UNION {{b} \X (1 .. B[b].size) : b \in S}
Weight(B, S) == Cardinality(Units(B, S))

Books ==
  /\ cursize = Weight(blk, InUse(blk))
  /\ lost \in Nat
  /\ arenasize = lost + Weight(blk, Solid(blk)) + Cardinality(Leads(blk))
  /\ arenasize <= maxsize /\ maxsize \in Nat

\* The pool, and with it what the Procs are in the middle of.
PoolOK ==
  /\ Laid(blk, tail, chain)
  /\ Joined(blk)
  /\ InMemory(blk, brk)
  /\ Books
  /\ TreeHolds

IInv == PoolOK /\ JobsOK

\* What the fields of a header can be.
Tags(B, x) ==
  /\ B[x].size \in Nat /\ B[x].magic \in {"A", "F", "I", "E"}
  /\ x \in Solid(B) <=> B[x].size > 0
  /\ B[x].size = 0 => B[x] = EndMark /\ B[x].magic = "E"
  /\ x \in Leads(B) <=> x \in Solid(B) /\ B[x].magic = "E"
  /\ x \in Leads(B) => B[x].size = ldr /\ B[x].csize \in Nat /\ B[x].clink \in Nat

\* Those of the headers in memory are.
LEMMA KindFacts ==
  ASSUME NEW B, Kinds(B), NEW x \in DOMAIN B
  PROVE  Tags(B, x)
<1>1. CASE B[x] \in [magic : {"A", "F", "I"}, size : Nat \ {0}]
  <2>1. B[x].magic \in {"A", "F", "I"} /\ B[x].size \in Nat \ {0} /\ B[x] # EndMark
    BY <1>1 DEF EndMark, Header
  <2>. QED
    BY <2>1 DEF Tags, Solid, Leads, With
<1>2. CASE B[x] \in [magic : {"E"}, size : {ldr}, csize : Nat, clink : Nat]
  <2>1. B[x].magic = "E" /\ B[x].size = ldr /\ B[x].csize \in Nat /\ B[x].clink \in Nat /\ ldr = 1
    BY <1>2 DEF ldr
  <2>2. B[x] # EndMark
    BY <2>1 DEF EndMark, Header
  <2>. QED
    BY <2>1, <2>2 DEF Tags, Solid, Leads, With
<1>3. CASE B[x] = EndMark
  <2>1. B[x].magic = "E" /\ B[x].size = 0
    BY <1>3 DEF EndMark, Header
  <2>. QED
    BY <1>3, <2>1 DEF Tags, Solid, Leads, With
<1>. QED
  BY <1>1, <1>2, <1>3 DEF Kinds

\* Which blocks there are, by what their headers hold.
LEMMA BlockFacts ==
  ASSUME NEW B, Kinds(B)
  PROVE  /\ \A b : b \in Solid(B) <=> b \in DOMAIN B /\ B[b].size > 0
         /\ \A b \in DOMAIN B : B[b].size \in Nat
         /\ \A b : b \in Leads(B) <=> b \in Solid(B) /\ B[b].magic = "E"
         /\ \A b : b \in InUse(B) <=> b \in Solid(B) /\ B[b].magic \in {"A", "I"}
         /\ \A b : b \in With(B, "F") <=> b \in Solid(B) /\ B[b].magic = "F"
         /\ \A b \in Leads(B) : B[b].size = ldr /\ B[b].csize \in Nat /\ B[b].clink \in Nat
         /\ \A b \in Solid(B) : B[b].magic \in {"A", "F", "I", "E"}
<1>1. \A b \in DOMAIN B : Tags(B, b)
  BY KindFacts
<1>. QED
  BY <1>1 DEF Tags, Solid, InUse, Leads, With

(***************************************************************************)
(* What blocks weigh.                                                      *)
(***************************************************************************)
\* There are n numbers from 1 to n.
LEMMA CountTo ==
  ASSUME NEW n \in Nat
  PROVE  IsFiniteSet(1 .. n) /\ Cardinality(1 .. n) = n
<1>1. IsFiniteSet(1 .. n) /\ Cardinality(1 .. n) = IF 1 > n THEN 0 ELSE n - 1 + 1
  BY FS_Interval
<1>. QED
  BY <1>1

\* A finite set of blocks weighs a number of units.
LEMMA UnitsFinite ==
  ASSUME NEW B, NEW S, IsFiniteSet(S), \A b \in S : B[b].size \in Nat
  PROVE  IsFiniteSet(Units(B, S)) /\ Weight(B, S) \in Nat
<1> DEFINE U == {{b} \X (1 .. B[b].size) : b \in S}
           f == [b \in S |-> {b} \X (1 .. B[b].size)]
<1>1. IsFiniteSet(U)
  <2>1. f \in Surjection(S, U)
    BY DEF Surjection
  <2>. QED
    BY <2>1, FS_Surjection
<1>2. \A T \in U : IsFiniteSet(T)
  <2>1. ASSUME NEW b \in S PROVE IsFiniteSet({b} \X (1 .. B[b].size))
    <3>1. IsFiniteSet({b}) /\ IsFiniteSet(1 .. B[b].size)
      BY FS_Singleton, CountTo
    <3>. QED
      BY <3>1, FS_Product
  <2>. QED
    BY <2>1
<1>3. IsFiniteSet(UNION U)
  <2> HIDE DEF U
  <2>. QED
    BY <1>1, <1>2, FS_UNION
<1>. QED
  BY <1>3, FS_CardinalityType DEF Units, Weight

\* None weigh nothing.
LEMMA WeightEmpty ==
  ASSUME NEW B
  PROVE  Weight(B, {}) = 0
<1>1. Units(B, {}) = {}
  BY DEF Units
<1>. QED
  BY <1>1, FS_EmptySet DEF Weight

\* One more weighs its size more.
LEMMA WeightAdd ==
  ASSUME NEW B, NEW S, IsFiniteSet(S), \A b \in S : B[b].size \in Nat, NEW x, x \notin S, B[x].size \in Nat
  PROVE  Weight(B, S \cup {x}) = Weight(B, S) + B[x].size
<1> DEFINE X == {x} \X (1 .. B[x].size)
<1>1. Units(B, S \cup {x}) = Units(B, S) \cup X
  BY DEF Units
<1>2. Units(B, S) \cap X = {}
  BY DEF Units
<1>3. IsFiniteSet(X) /\ Cardinality(X) = B[x].size
  <2>1. IsFiniteSet({x}) /\ Cardinality({x}) = 1
    BY FS_Singleton
  <2>2. IsFiniteSet(1 .. B[x].size) /\ Cardinality(1 .. B[x].size) = B[x].size
    BY CountTo
  <2>3. IsFiniteSet(X) /\ Cardinality(X) = Cardinality({x}) * Cardinality(1 .. B[x].size)
    BY <2>1, <2>2, FS_Product
  <2>. QED
    BY <2>1, <2>2, <2>3
<1>4. IsFiniteSet(Units(B, S)) /\ Weight(B, S) \in Nat
  BY UnitsFinite
<1>5. Cardinality(Units(B, S) \cup X) = Cardinality(Units(B, S)) + Cardinality(X) - Cardinality(Units(B, S) \cap X)
  <2> HIDE DEF X
  <2>. QED
    BY <1>3, <1>4, FS_Union
<1>6. Cardinality({}) = 0
  BY FS_EmptySet
<1>7. Cardinality(Units(B, S) \cap X) = 0 /\ Weight(B, S) = Cardinality(Units(B, S))
  BY <1>2, <1>6 DEF Weight
<1>8. Weight(B, S \cup {x}) = Cardinality(Units(B, S) \cup X)
  BY <1>1 DEF Weight
<1>. QED
  BY <1>3, <1>4, <1>5, <1>7, <1>8

\* The weight depends on the sizes alone.
LEMMA WeightSame ==
  ASSUME NEW B, NEW C, NEW S, \A b \in S : B[b].size = C[b].size
  PROVE  Weight(B, S) = Weight(C, S)
<1>1. Units(B, S) = Units(C, S)
  BY DEF Units
<1>. QED
  BY <1>1 DEF Weight

\* Some of the blocks weigh no more than all.
LEMMA WeightSub ==
  ASSUME NEW B, NEW T, IsFiniteSet(T), \A b \in T : B[b].size \in Nat, NEW S \in SUBSET T
  PROVE  Weight(B, S) <= Weight(B, T)
<1>1. Units(B, S) \subseteq Units(B, T)
  BY DEF Units
<1>2. IsFiniteSet(Units(B, T))
  BY UnitsFinite
<1>. QED
  BY <1>1, <1>2, FS_Subset DEF Weight

\* What the model adds up, one block of a set at a time, is its weight.
LEMMA TotalIs ==
  ASSUME NEW S, IsFiniteSet(S), \A b \in S : blk[b].size \in Nat
  PROVE  Total(S) = Weight(blk, S)
<1> DEFINE iter[s \in SUBSET S] ==
             IF s = {} THEN 0
             ELSE LET x == CHOOSE x \in s : TRUE IN blk[x].size + iter[s \ {x}]
           P(i, s) == IF s = {} THEN i = 0
                      ELSE \E x \in s : i = blk[x].size + Weight(blk, s \ {x})
<1>1. Total(S) = iter[S]
  BY DEF Total, MapThenFoldSet
<1>2. ASSUME NEW s \in SUBSET S, NEW x \in s
      PROVE  Weight(blk, s) = blk[x].size + Weight(blk, s \ {x})
  <2>1. IsFiniteSet(s \ {x}) /\ s = (s \ {x}) \cup {x} /\ x \notin s \ {x}
    BY FS_Subset
  <2>2. Weight(blk, s) = Weight(blk, s \ {x}) + blk[x].size
    BY <2>1, WeightAdd
  <2>3. Weight(blk, s \ {x}) \in Nat
    BY <2>1, UnitsFinite
  <2>. QED
    BY <2>2, <2>3
<1> DEFINE w == [s \in SUBSET S |-> Weight(blk, s)]
<1>3. w = [s \in SUBSET S |-> IF s = {} THEN 0
                              ELSE LET x == CHOOSE x \in s : TRUE IN blk[x].size + w[s \ {x}]]
  <2>1. ASSUME NEW s \in SUBSET S
        PROVE  Weight(blk, s) = IF s = {} THEN 0
                                ELSE LET x == CHOOSE x \in s : TRUE IN blk[x].size + w[s \ {x}]
    <3>1. CASE s = {}
      BY <3>1, WeightEmpty
    <3>2. CASE s # {}
      <4>1. PICK x : x = CHOOSE y \in s : TRUE
        OBVIOUS
      <4>2. x \in s
        BY <3>2, <4>1
      <4>3. Weight(blk, s) = blk[x].size + Weight(blk, s \ {x})
        BY <1>2, <4>2
      <4>4. w[s \ {x}] = Weight(blk, s \ {x})
        OBVIOUS
      <4> HIDE DEF w
      <4>. QED
        BY <3>2, <4>1, <4>3, <4>4
    <3>. QED
      BY <3>1, <3>2
  <2>2. ASSUME NEW v, \A s \in SUBSET S : Weight(blk, s) = v[s] PROVE w = [s \in SUBSET S |-> v[s]]
    BY <2>2
  <2>. QED
    BY <2>1
<1>4. iter = [s \in SUBSET S |-> IF s = {} THEN 0
                                 ELSE LET x == CHOOSE x \in s : TRUE IN blk[x].size + iter[s \ {x}]]
  BY <1>3
<1> HIDE DEF iter, w
<1>5. ASSUME NEW s \in SUBSET S
      PROVE  iter[s] = IF s = {} THEN 0
                       ELSE LET x == CHOOSE x \in s : TRUE IN blk[x].size + iter[s \ {x}]
  BY <1>4, Zenon
<1>6. iter[{}] = 0
  BY <1>5, Zenon
<1>7. ASSUME NEW s \in SUBSET S, s # {}
      PROVE  \E x \in s : iter[s] = blk[x].size + iter[s \ {x}]
  <2>1. iter[s] = LET x == CHOOSE x \in s : TRUE IN blk[x].size + iter[s \ {x}]
    BY <1>5, <1>7, Zenon
  <2>2. PICK x : x = CHOOSE y \in s : TRUE
    OBVIOUS
  <2>3. x \in s
    BY <1>7, <2>2
  <2>. QED
    BY <2>1, <2>2, <2>3
<1> DEFINE T == {k \in Nat : \A s \in SUBSET S : Cardinality(s) = k => iter[s] = Weight(blk, s)}
<1>8. 0 \in T
  <2>1. ASSUME NEW s \in SUBSET S, Cardinality(s) = 0 PROVE s = {}
    BY <2>1, FS_EmptySet, FS_Subset
  <2>. QED
    BY <1>6, <2>1, WeightEmpty
<1>9. \A k \in Nat : k \in T => k + 1 \in T
  <2>1. SUFFICES ASSUME NEW k \in Nat, k \in T, NEW s \in SUBSET S, Cardinality(s) = k + 1
                 PROVE  iter[s] = Weight(blk, s)
    OBVIOUS
  <2>2. s # {}
    <3>1. Cardinality({}) = 0
      BY FS_EmptySet
    <3>. QED
      BY <2>1, <3>1
  <2>3. PICK x \in s : iter[s] = blk[x].size + iter[s \ {x}]
    BY <1>7, <2>2
  <2>4. IsFiniteSet(s) /\ Cardinality(s \ {x}) = Cardinality(s) - 1
    <3>1. IsFiniteSet(s)
      BY FS_Subset
    <3>. QED
      BY <3>1, FS_RemoveElement
  <2>5. iter[s \ {x}] = Weight(blk, s \ {x})
    BY <2>1, <2>4
  <2>. QED
    BY <1>2, <2>3, <2>5
<1>10. Cardinality(S) \in T
  <2>1. Cardinality(S) \in Nat
    BY FS_CardinalityType
  <2> HIDE DEF T
  <2>. QED
    BY <1>8, <1>9, <2>1, SetInduction
<1>. QED
  BY <1>1, <1>10

(***************************************************************************)
(* What happens to the blocks.                                             *)
(***************************************************************************)
\* A layout at addresses.
Sound(B, tl, ch) == Laid(B, tl, ch) /\ \A x \in DOMAIN B : x \in Nat \ {0}

\* The leaders of B2 are those of B.
SameLeads(B2, B) ==
  /\ Leads(B2) = Leads(B)
  /\ \A c \in Leads(B) : B2[c].csize = B[c].csize /\ B2[c].clink = B[c].clink

\* What is in B2 is so in B, but at S.
AgreeBut(B2, B, S) == \A x \in DOMAIN B2 : x \notin S => x \in DOMAIN B /\ B2[x] = B[x]

\* A header's fields.
LEMMA HeaderFields ==
  ASSUME NEW m, NEW n
  PROVE  Header(m, n).magic = m /\ Header(m, n).size = n
BY DEF Header

\* A block's header is of the kind Kinds allows.
LEMMA HeaderKind ==
  ASSUME NEW m \in {"A", "F", "I"}, NEW n \in Nat, n > 0
  PROVE  Header(m, n) \in [magic : {"A", "F", "I"}, size : Nat \ {0}]
BY DEF Header

\* Where the leaders are the same, so is the chain.
LEMMA ChainKept ==
  ASSUME NEW B, NEW B2, NEW ch, Chained(B, ch), SameLeads(B2, B)
  PROVE  Chained(B2, ch)
BY DEF Chained, SameLeads

\* The block q has another magic.
Retagged(B2, B, q, m) ==
  /\ DOMAIN B2 = DOMAIN B /\ AgreeBut(B2, B, {q})
  /\ B2[q] = Header(m, B[q].size)

\* It stays where it is, and so do all.
LEMMA RetagLaid ==
  ASSUME NEW B, NEW B2, NEW tl, NEW ch, Sound(B, tl, ch), NEW q \in Solid(B) \ Leads(B),
         NEW m \in {"A", "F", "I"}, Retagged(B2, B, q, m)
  PROVE  /\ Sound(B2, tl, ch) /\ SameLeads(B2, B) /\ Solid(B2) = Solid(B)
         /\ \A x \in DOMAIN B : B2[x].size = B[x].size
<1> USE DEF AgreeBut, Sound
<1>0. Kinds(B) /\ q \in DOMAIN B
  BY DEF Laid, Solid
<1>1. B2[q].magic = m /\ B2[q].size = B[q].size /\ B[q].size \in Nat /\ B[q].size > 0
  BY <1>0, HeaderFields, BlockFacts DEF Retagged
<1>2. Kinds(B2)
  <2>1. B2[q] \in [magic : {"A", "F", "I"}, size : Nat \ {0}]
    BY <1>1, HeaderKind DEF Retagged
  <2>. QED
    BY <1>0, <2>1 DEF Kinds, Retagged
<1>3. \A x \in DOMAIN B : B2[x].size = B[x].size
  BY <1>1 DEF Retagged
<1>4. Solid(B2) = Solid(B)
  <2>1. \A b : b \in Solid(B) <=> b \in DOMAIN B /\ B[b].size > 0
    BY <1>0, BlockFacts
  <2>2. \A b : b \in Solid(B2) <=> b \in DOMAIN B2 /\ B2[b].size > 0
    BY <1>2, BlockFacts
  <2>. QED
    BY <1>3, <2>1, <2>2 DEF Retagged
<1>5. Leads(B2) = Leads(B)
  <2>1. \A b : b \in Leads(B) <=> b \in Solid(B) /\ B[b].magic = "E"
    BY <1>0, BlockFacts
  <2>2. \A b : b \in Leads(B2) <=> b \in Solid(B2) /\ B2[b].magic = "E"
    BY <1>2, BlockFacts
  <2>3. \A b \in Solid(B) : b # q => B2[b] = B[b]
    BY DEF Retagged, Solid
  <2>4. \A b \in Solid(B) : B2[b].magic = "E" <=> B[b].magic = "E"
    <3>1. B2[q].magic # "E" /\ B[q].magic # "E"
      BY <1>1, <2>1
    <3>. QED
      BY <2>3, <3>1
  <2>. QED
    BY <1>4, <2>1, <2>2, <2>4
<1>6. \A c \in Leads(B) : c \in DOMAIN B /\ c # q /\ B2[c] = B[c]
  BY DEF Leads, With, Solid, Retagged
<1>7. SameLeads(B2, B)
  BY <1>5, <1>6 DEF SameLeads
<1>8. Tiles(B2, tl)
  <2>1. Tiles(B, tl) /\ \A b \in Solid(B) : b \in DOMAIN B
    BY DEF Laid, Solid
  <2>. QED
    BY <1>3, <1>4, <1>5, <2>1 DEF Tiles, Retagged
<1>9. Bounds(B2)
  <2>1. Bounds(B) /\ B[q] # EndMark /\ B2[q] # EndMark
    <3>1. EndMark.size = 0
      BY HeaderFields DEF EndMark
    <3>. QED
      BY <1>1, <3>1 DEF Laid, Solid
  <2>2. \A c \in Leads(B) : Lim(B2, c) = Lim(B, c)
    BY <1>6 DEF Lim
  <2>3. \A x \in DOMAIN B : B2[x] = EndMark <=> B[x] = EndMark
    BY <2>1 DEF Retagged
  <2>. QED
    BY <1>5, <2>1, <2>2, <2>3 DEF Bounds, Retagged
<1>10. Chained(B2, ch)
  BY <1>7, ChainKept DEF Laid
<1>. QED
  BY <1>2, <1>3, <1>4, <1>7, <1>8, <1>9, <1>10 DEF Laid, Retagged

\* The block w, which follows u, becomes part of it.
Merged(B2, tl2, B, tl, u, w, m) ==
  /\ DOMAIN B2 = DOMAIN B \ {w} /\ AgreeBut(B2, B, {u})
  /\ B2[u] = Header(m, B[u].size + B[w].size)
  /\ DOMAIN tl2 = DOMAIN tl \ {w} /\ AgreeBut(tl2, tl, {w + B[w].size})
  /\ tl2[w + B[w].size] = u

\* Where two blocks side by side are.
SideBySide(B, tl, u, w, y) ==
  /\ u \in DOMAIN B /\ w \in DOMAIN B /\ y \in DOMAIN B
  /\ u < w /\ w < y /\ w = u + B[u].size /\ y = w + B[w].size
  /\ y \in DOMAIN tl /\ w \in DOMAIN tl /\ tl[y] = w /\ tl[w] = u

\* A block and the one at its end are side by side.
LEMMA SideBySideIs ==
  ASSUME NEW B, NEW tl, NEW ch, Sound(B, tl, ch),
         NEW u \in Solid(B), NEW w \in Solid(B), w = u + B[u].size
  PROVE  SideBySide(B, tl, u, w, w + B[w].size)
<1>1. u \in DOMAIN B /\ w \in DOMAIN B /\ B[u].size \in Nat /\ B[u].size > 0 /\ B[w].size \in Nat /\ B[w].size > 0
  BY BlockFacts DEF Sound, Laid
<1>2. w + B[w].size \in DOMAIN tl /\ tl[w + B[w].size] = w /\ w \in DOMAIN tl /\ tl[w] = u /\ DOMAIN tl \subseteq DOMAIN B
  BY DEF Sound, Laid, Tiles
<1>. QED
  BY <1>1, <1>2 DEF SideBySide, Sound

\* Then only w has gone.
MergeDone(B2, tl2, B, ch, u, w) ==
  /\ Sound(B2, tl2, ch) /\ SameLeads(B2, B) /\ Solid(B2) = Solid(B) \ {w}
  /\ \A x \in DOMAIN B2 : B2[x].size = IF x = u THEN B[u].size + B[w].size ELSE B[x].size

\* The blocks still tile the arenas.
LEMMA MergeLaid ==
  ASSUME NEW B, NEW B2, NEW tl, NEW tl2, NEW ch, Sound(B, tl, ch),
         NEW u \in Solid(B) \ Leads(B), NEW w \in Solid(B) \ Leads(B), w = u + B[u].size,
         NEW m \in {"A", "F", "I"}, Merged(B2, tl2, B, tl, u, w, m)
  PROVE  MergeDone(B2, tl2, B, ch, u, w)
<1> USE DEF AgreeBut
<1>0. Kinds(B) /\ Bounds(B) /\ Chained(B, ch) /\ \A x \in DOMAIN B : x \in Nat \ {0}
  BY DEF Laid, Sound
<1>1. PICK y : y = w + B[w].size /\ SideBySide(B, tl, u, w, y)
  BY SideBySideIs
<1>2. DOMAIN B2 = DOMAIN B \ {w} /\ u \in DOMAIN B2 /\ \A x \in DOMAIN B2 : x # u => B2[x] = B[x]
  BY <1>0, <1>1 DEF Merged, SideBySide
<1>3. B2[u].magic = m /\ B2[u].size = B[u].size + B[w].size /\ B[u].size \in Nat \ {0} /\ B[w].size \in Nat \ {0}
  BY <1>0, HeaderFields, BlockFacts DEF Merged
<1>4. Kinds(B2)
  <2>1. B2[u] \in [magic : {"A", "F", "I"}, size : Nat \ {0}]
    <3>1. PICK s \in Nat : s = B[u].size + B[w].size /\ s > 0
      BY <1>3
    <3>2. B2[u] = Header(m, s)
      BY <3>1 DEF Merged
    <3>. QED
      BY <3>1, <3>2, HeaderKind
  <2>. QED
    BY <1>0, <1>2, <2>1 DEF Kinds
<1>5. \A x \in DOMAIN B2 : B2[x].size = IF x = u THEN B[u].size + B[w].size ELSE B[x].size
  BY <1>2, <1>3
<1>6. Solid(B2) = Solid(B) \ {w}
  <2>1. \A b : b \in Solid(B) <=> b \in DOMAIN B /\ B[b].size > 0
    BY <1>0, BlockFacts
  <2>2. \A b : b \in Solid(B2) <=> b \in DOMAIN B2 /\ B2[b].size > 0
    BY <1>4, BlockFacts
  <2>. QED
    BY <1>2, <1>3, <2>1, <2>2
<1>7. Leads(B2) = Leads(B)
  <2>1. \A b : b \in Leads(B) <=> b \in Solid(B) /\ B[b].magic = "E"
    BY <1>0, BlockFacts
  <2>2. \A b : b \in Leads(B2) <=> b \in Solid(B2) /\ B2[b].magic = "E"
    BY <1>4, BlockFacts
  <2>3. \A b \in Solid(B) : b \in DOMAIN B
    BY DEF Solid
  <2>. QED
    BY <1>2, <1>3, <1>6, <2>1, <2>2, <2>3
<1>8. \A c \in Leads(B) : c \in DOMAIN B2 /\ c # u /\ B2[c] = B[c]
  BY <1>2 DEF Leads, With, Solid
<1>9. SameLeads(B2, B)
  BY <1>7, <1>8 DEF SameLeads
<1>10. DOMAIN tl2 = DOMAIN tl \ {w} /\ tl2[y] = u /\ \A x \in DOMAIN tl2 : x # y => tl2[x] = tl[x]
  BY <1>1 DEF Merged
<1>11. Tiles(B2, tl2)
  <2>1. Tiles(B, tl)
    BY DEF Laid, Sound
  <2>2. DOMAIN tl2 = DOMAIN B2 \ Leads(B2)
    BY <1>2, <1>7, <1>10, <2>1 DEF Tiles
  <2>3. ASSUME NEW b \in Solid(B2)
        PROVE  b + B2[b].size \in DOMAIN tl2 /\ tl2[b + B2[b].size] = b
    <3>1. b \in Solid(B) /\ b # w /\ b \in DOMAIN B2
      BY <1>6 DEF Solid
    <3>2. CASE b = u
      <4>1. b + B2[b].size = y
        BY <1>0, <1>1, <1>3, <3>2 DEF SideBySide
      <4>. QED
        BY <1>0, <1>1, <1>10, <3>2, <4>1 DEF SideBySide
    <3>3. CASE b # u
      <4>1. B2[b].size = B[b].size
        BY <1>2, <3>1, <3>3
      <4>2. b + B[b].size \in DOMAIN tl /\ tl[b + B[b].size] = b
        BY <2>1, <3>1 DEF Tiles
      <4>3. b + B[b].size # w /\ b + B[b].size # y
        BY <1>1, <3>1, <3>3, <4>2 DEF SideBySide
      <4>. QED
        BY <1>10, <4>1, <4>2, <4>3
    <3>. QED
      BY <3>2, <3>3
  <2>4. ASSUME NEW x \in DOMAIN tl2
        PROVE  tl2[x] \in Solid(B2) /\ tl2[x] + B2[tl2[x]].size = x
    <3>1. CASE x = y
      BY <1>0, <1>1, <1>2, <1>3, <1>6, <1>10, <3>1 DEF SideBySide
    <3>2. CASE x # y
      <4>1. x \in DOMAIN tl /\ x # w /\ tl2[x] = tl[x]
        BY <1>10, <3>2
      <4>2. tl[x] \in Solid(B) /\ tl[x] + B[tl[x]].size = x
        BY <2>1, <4>1 DEF Tiles
      <4>3. tl[x] # w /\ tl[x] # u
        BY <1>1, <3>2, <4>1, <4>2 DEF SideBySide
      <4>4. tl[x] \in Solid(B2) /\ tl[x] \in DOMAIN B2
        BY <1>6, <4>2, <4>3 DEF Solid
      <4>. QED
        BY <1>2, <4>1, <4>2, <4>3, <4>4
    <3>. QED
      BY <3>1, <3>2
  <2>5. ASSUME NEW b \in Solid(B2), NEW x \in DOMAIN B2
        PROVE  x <= b \/ b + B2[b].size <= x
    <3>1. b \in Solid(B) /\ x \in DOMAIN B /\ x # w /\ b \in DOMAIN B2
      BY <1>2, <1>6 DEF Solid
    <3>2. x <= b \/ b + B[b].size <= x
      BY <2>1, <3>1 DEF Tiles
    <3>3. CASE b = u
      <4>1. x <= w \/ w + B[w].size <= x
        BY <2>1, <3>1 DEF Tiles
      <4>. QED
        BY <1>0, <1>1, <1>3, <3>1, <3>2, <3>3, <4>1 DEF SideBySide
    <3>4. CASE b # u
      BY <1>2, <3>1, <3>2, <3>4
    <3>. QED
      BY <3>3, <3>4
  <2>. QED
    BY <2>2, <2>3, <2>4, <2>5 DEF Tiles
<1>12. Bounds(B2)
  <2>1. B[u] # EndMark /\ B2[u] # EndMark /\ B[w] # EndMark
    <3>1. EndMark.size = 0
      BY HeaderFields DEF EndMark
    <3>. QED
      BY <1>3, <3>1 DEF Solid
  <2>2. \A c \in Leads(B) : Lim(B2, c) = Lim(B, c)
    BY <1>8 DEF Lim
  <2>3. \A x \in DOMAIN B2 : B2[x] = EndMark <=> B[x] = EndMark
    BY <1>2, <2>1
  <2>4. \A x \in DOMAIN B : B[x] = EndMark => x \in DOMAIN B2
    BY <1>2, <2>1
  <2>5. \A c \in Leads(B2) : c < Lim(B2, c) /\ Lim(B2, c) \in DOMAIN B2 /\ B2[Lim(B2, c)] = EndMark
    BY <1>0, <1>7, <2>2, <2>3, <2>4 DEF Bounds
  <2>6. \A x \in DOMAIN B2 : \E c \in Leads(B2) : c <= x /\ x <= Lim(B2, c)
    BY <1>0, <1>2, <1>7, <2>2 DEF Bounds
  <2>7. \A x \in DOMAIN B2 : B2[x] = EndMark => \E c \in Leads(B2) : x = Lim(B2, c)
    BY <1>0, <1>2, <1>7, <2>2, <2>3 DEF Bounds
  <2>8. \A c, d \in Leads(B2) : c < d => Lim(B2, c) < d
    BY <1>0, <1>7, <2>2 DEF Bounds
  <2>. QED
    BY <2>5, <2>6, <2>7, <2>8 DEF Bounds
<1>13. Chained(B2, ch)
  BY <1>0, <1>9, ChainKept
<1>14. \A x \in DOMAIN B2 : x \in Nat \ {0}
  BY <1>0, <1>2
<1>. QED
  BY <1>4, <1>5, <1>6, <1>9, <1>11, <1>12, <1>13, <1>14 DEF Laid, Sound, MergeDone

\* The block q keeps n of its units, and a free one of k is made of the rest.
Halved(B2, tl2, B, tl, q, n, k) ==
  /\ DOMAIN B2 = DOMAIN B \cup {q + n} /\ AgreeBut(B2, B, {q, q + n})
  /\ B2[q] = Header("A", n) /\ B2[q + n] = Header("F", k)
  /\ DOMAIN tl2 = DOMAIN tl \cup {q + n} /\ AgreeBut(tl2, tl, {q + n, q + n + k})
  /\ tl2[q + n] = q /\ tl2[q + n + k] = q + n

\* Then there is one block more.
HalveDone(B2, tl2, B, ch, w) ==
  /\ Sound(B2, tl2, ch) /\ SameLeads(B2, B)
  /\ Solid(B2) = Solid(B) \cup {w} /\ w \notin DOMAIN B

\* The blocks still tile the arenas.
LEMMA HalveLaid ==
  ASSUME NEW B, NEW B2, NEW tl, NEW tl2, NEW ch, Sound(B, tl, ch),
         NEW q \in Solid(B) \ Leads(B), NEW n \in Nat \ {0}, NEW k \in Nat \ {0}, B[q].size = n + k,
         Halved(B2, tl2, B, tl, q, n, k)
  PROVE  HalveDone(B2, tl2, B, ch, q + n)
<1> USE DEF AgreeBut
<1>0. Kinds(B) /\ Bounds(B) /\ Chained(B, ch) /\ Tiles(B, tl) /\ \A x \in DOMAIN B : x \in Nat \ {0}
  BY DEF Laid, Sound
<1>1. PICK w, y : w = q + n /\ y = q + n + k
  OBVIOUS
<1>2. q \in DOMAIN B /\ w \in Nat \ {0} /\ y \in Nat \ {0} /\ q < w /\ w < y /\ y = q + B[q].size /\ y = w + k
  BY <1>0, <1>1 DEF Solid
<1>3. y \in DOMAIN tl /\ y \in DOMAIN B /\ tl[y] = q
  BY <1>2, <1>0 DEF Tiles
<1>4. w \notin DOMAIN B
  <2>1. SUFFICES ASSUME w \in DOMAIN B PROVE w <= q \/ y <= w
    BY <1>0, <1>2
  <2>. QED
    BY <1>0, <1>2, <2>1 DEF Tiles
<1>5. DOMAIN tl \subseteq DOMAIN B
  BY <1>0 DEF Tiles
<1>6. DOMAIN B2 = DOMAIN B \cup {w} /\ \A x \in DOMAIN B : x # q => B2[x] = B[x]
  <2>1. \A x \in DOMAIN B2 : x \notin {q, w} => x \in DOMAIN B /\ B2[x] = B[x]
    BY <1>1 DEF Halved
  <2>. QED
    BY <1>1, <1>4, <2>1 DEF Halved
<1>7. B2[q].magic = "A" /\ B2[q].size = n /\ B2[w].magic = "F" /\ B2[w].size = k
  BY <1>1, HeaderFields DEF Halved
<1>8. Kinds(B2)
  <2>1. B2[q] \in [magic : {"A", "F", "I"}, size : Nat \ {0}]
    BY HeaderKind DEF Halved
  <2>2. B2[w] \in [magic : {"A", "F", "I"}, size : Nat \ {0}]
    BY <1>1, HeaderKind DEF Halved
  <2>. QED
    BY <1>0, <1>6, <2>1, <2>2 DEF Kinds
<1>9. Solid(B2) = Solid(B) \cup {w}
  <2>1. \A b : b \in Solid(B) <=> b \in DOMAIN B /\ B[b].size > 0
    BY <1>0, BlockFacts
  <2>2. \A b : b \in Solid(B2) <=> b \in DOMAIN B2 /\ B2[b].size > 0
    BY <1>8, BlockFacts
  <2>. QED
    BY <1>2, <1>6, <1>7, <2>1, <2>2
<1>10. Leads(B2) = Leads(B)
  <2>1. \A b : b \in Leads(B) <=> b \in Solid(B) /\ B[b].magic = "E"
    BY <1>0, BlockFacts
  <2>2. \A b : b \in Leads(B2) <=> b \in Solid(B2) /\ B2[b].magic = "E"
    BY <1>8, BlockFacts
  <2>3. \A b \in Solid(B) : b \in DOMAIN B
    BY DEF Solid
  <2>4. \A b \in Solid(B) : B2[b].magic = "E" <=> B[b].magic = "E"
    <3>1. B2[q].magic # "E" /\ B[q].magic # "E"
      BY <1>7, <2>1
    <3>. QED
      BY <1>6, <2>3, <3>1
  <2>5. B2[w].magic # "E" /\ w \notin Solid(B)
    BY <1>4, <1>7, <2>3
  <2>. QED
    BY <1>9, <2>1, <2>2, <2>4, <2>5
<1>11. \A c \in Leads(B) : c \in DOMAIN B /\ c # q /\ B2[c] = B[c]
  BY <1>6 DEF Leads, With, Solid
<1>12. SameLeads(B2, B)
  BY <1>10, <1>11 DEF SameLeads
<1>13. DOMAIN tl2 = DOMAIN tl \cup {w} /\ tl2[w] = q /\ tl2[y] = w /\ \A x \in DOMAIN tl : x # y => tl2[x] = tl[x]
  <2>1. \A x \in DOMAIN tl2 : x \notin {w, y} => x \in DOMAIN tl /\ tl2[x] = tl[x]
    BY <1>1 DEF Halved
  <2>2. w \notin DOMAIN tl
    BY <1>4, <1>5
  <2>3. DOMAIN tl2 = DOMAIN tl \cup {w} /\ tl2[w] = q /\ tl2[y] = w
    BY <1>1 DEF Halved
  <2>. QED
    BY <2>1, <2>2, <2>3
<1>14. Tiles(B2, tl2)
  <2>1. DOMAIN tl2 = DOMAIN B2 \ Leads(B2)
    <3>1. w \notin Leads(B)
      BY <1>4, <1>11
    <3>. QED
      BY <1>0, <1>6, <1>10, <1>13, <3>1 DEF Tiles
  <2>2. ASSUME NEW b \in Solid(B2)
        PROVE  b + B2[b].size \in DOMAIN tl2 /\ tl2[b + B2[b].size] = b
    <3>1. CASE b = q
      BY <1>1, <1>7, <1>13, <3>1
    <3>2. CASE b = w
      BY <1>2, <1>3, <1>7, <1>13, <3>2
    <3>3. CASE b # q /\ b # w
      <4>1. b \in Solid(B) /\ b \in DOMAIN B
        BY <1>9, <3>3 DEF Solid
      <4>2. B2[b].size = B[b].size
        BY <1>6, <3>3, <4>1
      <4>3. b + B[b].size \in DOMAIN tl /\ tl[b + B[b].size] = b
        BY <1>0, <4>1 DEF Tiles
      <4>4. b + B[b].size # y
        BY <1>3, <3>3, <4>3
      <4>. QED
        BY <1>13, <4>2, <4>3, <4>4
    <3>. QED
      BY <3>1, <3>2, <3>3
  <2>3. ASSUME NEW x \in DOMAIN tl2
        PROVE  tl2[x] \in Solid(B2) /\ tl2[x] + B2[tl2[x]].size = x
    <3>1. CASE x = w
      BY <1>1, <1>7, <1>9, <1>13, <3>1
    <3>2. CASE x = y
      BY <1>2, <1>7, <1>9, <1>13, <3>2
    <3>3. CASE x # w /\ x # y
      <4>1. x \in DOMAIN tl /\ tl2[x] = tl[x]
        BY <1>13, <3>3
      <4>2. tl[x] \in Solid(B) /\ tl[x] + B[tl[x]].size = x
        BY <1>0, <4>1 DEF Tiles
      <4>3. tl[x] # q
        BY <1>2, <3>3, <4>2
      <4>4. tl[x] \in Solid(B2) /\ tl[x] \in DOMAIN B
        BY <1>9, <4>2 DEF Solid
      <4>. QED
        BY <1>6, <4>1, <4>2, <4>3, <4>4
    <3>. QED
      BY <3>1, <3>2, <3>3
  <2>4. ASSUME NEW b \in Solid(B2), NEW x \in DOMAIN B2
        PROVE  x <= b \/ b + B2[b].size <= x
    <3>1. \A a \in Solid(B) : \A z \in DOMAIN B : z <= a \/ a + B[a].size <= z
      BY <1>0 DEF Tiles
    <3>2. \A z \in DOMAIN B : z <= q \/ y <= z
      BY <1>2, <3>1
    <3>3. CASE b = q
      BY <1>0, <1>1, <1>2, <1>6, <1>7, <3>2, <3>3
    <3>4. CASE b = w
      BY <1>0, <1>2, <1>6, <1>7, <3>2, <3>4
    <3>5. CASE b # q /\ b # w
      <4>1. b \in Solid(B) /\ b \in DOMAIN B /\ B2[b].size = B[b].size /\ B[b].size \in Nat /\ b \in Nat
        <5>1. b \in Solid(B) /\ b \in DOMAIN B
          BY <1>9, <3>5 DEF Solid
        <5>2. B[b].size \in Nat
          BY <1>0, <5>1, BlockFacts
        <5>. QED
          BY <1>0, <1>6, <3>5, <5>1, <5>2
      <4>2. CASE x \in DOMAIN B
        BY <3>1, <4>1, <4>2
      <4>3. CASE x = w
        <5>1. q <= b \/ b + B[b].size <= q
          BY <1>2, <3>1, <4>1
        <5>2. b <= q \/ y <= b
          BY <3>2, <4>1
        <5>. QED
          BY <1>0, <1>2, <3>5, <4>1, <4>3, <5>1, <5>2
      <4>. QED
        BY <1>6, <4>2, <4>3
    <3>. QED
      BY <3>3, <3>4, <3>5
  <2>. QED
    BY <2>1, <2>2, <2>3, <2>4 DEF Tiles
<1>15. Bounds(B2)
  <2>1. EndMark.size = 0
    BY HeaderFields DEF EndMark
  <2>2. B[q] # EndMark /\ B2[q] # EndMark /\ B2[w] # EndMark
    BY <1>7, <2>1 DEF Solid
  <2>3. \A c \in Leads(B) : Lim(B2, c) = Lim(B, c)
    BY <1>11 DEF Lim
  <2>4. \A x \in DOMAIN B : B2[x] = EndMark <=> B[x] = EndMark
    BY <1>6, <2>2
  <2>5. \A c \in Leads(B2) : c < Lim(B2, c) /\ Lim(B2, c) \in DOMAIN B2 /\ B2[Lim(B2, c)] = EndMark
    BY <1>0, <1>6, <1>10, <2>3, <2>4 DEF Bounds
  <2>6. ASSUME NEW x \in DOMAIN B2 PROVE \E c \in Leads(B2) : c <= x /\ x <= Lim(B2, c)
    <3>1. CASE x \in DOMAIN B
      BY <1>0, <1>10, <2>3, <3>1 DEF Bounds
    <3>2. CASE x = w
      <4>1. PICK c \in Leads(B) : c <= q /\ q <= Lim(B, c)
        BY <1>0, <1>2 DEF Bounds
      <4>2. Lim(B, c) \in DOMAIN B /\ B[Lim(B, c)] = EndMark
        BY <1>0 DEF Bounds
      <4>3. Lim(B, c) # q /\ Lim(B, c) \in Nat /\ c \in Nat
        BY <1>0, <1>11, <2>2, <4>2
      <4>4. y <= Lim(B, c)
        <5>1. \A z \in DOMAIN B : z <= q \/ y <= z
          BY <1>0, <1>2 DEF Tiles
        <5>. QED
          BY <1>0, <1>2, <4>1, <4>2, <4>3, <5>1
      <4>5. c <= w /\ w <= Lim(B, c)
        BY <1>0, <1>2, <4>1, <4>3, <4>4
      <4>. QED
        BY <1>10, <2>3, <3>2, <4>5
    <3>. QED
      BY <1>6, <3>1, <3>2
  <2>7. \A x \in DOMAIN B2 : B2[x] = EndMark => \E c \in Leads(B2) : x = Lim(B2, c)
    BY <1>0, <1>6, <1>10, <2>2, <2>3, <2>4 DEF Bounds
  <2>8. \A c, d \in Leads(B2) : c < d => Lim(B2, c) < d
    BY <1>0, <1>10, <2>3 DEF Bounds
  <2>. QED
    BY <2>5, <2>6, <2>7, <2>8 DEF Bounds
<1>16. Chained(B2, ch)
  BY <1>0, <1>12, ChainKept
<1>17. \A x \in DOMAIN B2 : x \in Nat \ {0}
  BY <1>0, <1>2, <1>6
<1>. QED
  BY <1>1, <1>4, <1>8, <1>9, <1>12, <1>14, <1>15, <1>16, <1>17 DEF Laid, Sound, HalveDone

\* Past all blocks there is an arena at t, whose block has s units.
ArenaMade(B2, tl2, B, tl, t, s, ch) ==
  /\ DOMAIN B2 = DOMAIN B \cup {t, t + ldr, t + ldr + s} /\ AgreeBut(B2, B, {t, t + ldr, t + ldr + s})
  /\ B2[t] = Leader(s + ldr, ch) /\ B2[t + ldr] = Header("A", s) /\ B2[t + ldr + s] = EndMark
  /\ DOMAIN tl2 = DOMAIN tl \cup {t + ldr, t + ldr + s} /\ AgreeBut(tl2, tl, {t + ldr, t + ldr + s})
  /\ tl2[t + ldr] = t /\ tl2[t + ldr + s] = t + ldr

\* It is the last one.
LEMMA ArenaLaid ==
  ASSUME NEW B, NEW B2, NEW tl, NEW tl2, NEW ch, Sound(B, tl, ch),
         NEW t \in Nat \ {0}, \A x \in DOMAIN B : x < t, NEW s \in Nat \ {0},
         ArenaMade(B2, tl2, B, tl, t, s, ch)
  PROVE  /\ Sound(B2, tl2, t) /\ Solid(B2) = Solid(B) \cup {t, t + ldr}
         /\ Leads(B2) = Leads(B) \cup {t}
<1> USE DEF AgreeBut
<1>0. Kinds(B) /\ Bounds(B) /\ Chained(B, ch) /\ Tiles(B, tl) /\ \A x \in DOMAIN B : x \in Nat \ {0}
  BY DEF Laid, Sound
<1>1. PICK b, e : b = t + ldr /\ e = t + ldr + s
  OBVIOUS
<1>2. b \in Nat \ {0} /\ e \in Nat \ {0} /\ t < b /\ b < e /\ b = t + 1 /\ e = b + s
  BY <1>1 DEF ldr
<1>3. DOMAIN tl \subseteq DOMAIN B
  BY <1>0 DEF Tiles
<1>4. DOMAIN B2 = DOMAIN B \cup {t, b, e} /\ \A x \in DOMAIN B : B2[x] = B[x] /\ x # t /\ x # b /\ x # e
  <2>1. \A x \in DOMAIN B : x # t /\ x # b /\ x # e
    BY <1>0, <1>2
  <2>2. \A x \in DOMAIN B2 : x \notin {t, b, e} => x \in DOMAIN B /\ B2[x] = B[x]
    BY <1>1 DEF ArenaMade
  <2>. QED
    BY <1>1, <2>1, <2>2 DEF ArenaMade
<1>5. ch \in Nat /\ (ch \in Leads(B) \cup {nil}) /\ \A c \in Leads(B) : c \in DOMAIN B
  <2>1. ch \in Leads(B) \cup {nil} /\ \A c \in Leads(B) : c \in DOMAIN B
    BY <1>0 DEF Chained, Leads, With, Solid
  <2>. QED
    BY <1>0, <2>1 DEF nil
<1>6. /\ B2[t].magic = "E" /\ B2[t].size = ldr /\ B2[t].csize = s + 1 /\ B2[t].clink = ch
      /\ B2[b].magic = "A" /\ B2[b].size = s
      /\ B2[e] = EndMark /\ B2[e].size = 0 /\ B2[e].magic = "E"
  <2>1. B2[t] = Leader(s + ldr, ch) /\ B2[b] = Header("A", s) /\ B2[e] = EndMark
    BY <1>1 DEF ArenaMade
  <2>2. B2[t].magic = "E" /\ B2[t].size = ldr /\ B2[t].csize = s + 1 /\ B2[t].clink = ch
    BY <2>1 DEF Leader, ldr
  <2>. QED
    BY <2>1, <2>2, HeaderFields DEF EndMark
<1>7. Kinds(B2)
  <2>1. B2[t] \in [magic : {"E"}, size : {ldr}, csize : Nat, clink : Nat]
    <3>1. s + ldr \in Nat
      BY DEF ldr
    <3>. QED
      BY <1>5, <3>1 DEF ArenaMade, Leader
  <2>2. B2[b] \in [magic : {"A", "F", "I"}, size : Nat \ {0}]
    BY <1>1, HeaderKind DEF ArenaMade
  <2>. QED
    BY <1>0, <1>4, <1>6, <2>1, <2>2 DEF Kinds
<1>8. Solid(B2) = Solid(B) \cup {t, b}
  <2>1. \A x : x \in Solid(B) <=> x \in DOMAIN B /\ B[x].size > 0
    BY <1>0, BlockFacts
  <2>2. \A x : x \in Solid(B2) <=> x \in DOMAIN B2 /\ B2[x].size > 0
    BY <1>7, BlockFacts
  <2>. QED
    BY <1>2, <1>4, <1>6, <2>1, <2>2 DEF ldr
<1>9. Leads(B2) = Leads(B) \cup {t}
  <2>1. \A x : x \in Leads(B) <=> x \in Solid(B) /\ B[x].magic = "E"
    BY <1>0, BlockFacts
  <2>2. \A x : x \in Leads(B2) <=> x \in Solid(B2) /\ B2[x].magic = "E"
    BY <1>7, BlockFacts
  <2>3. \A x \in Solid(B) : x \in DOMAIN B
    BY DEF Solid
  <2>4. \A x \in Solid(B) : B2[x].magic = B[x].magic
    BY <1>4, <2>3
  <2>5. B2[t].magic = "E" /\ B2[b].magic # "E"
    BY <1>6
  <2>. QED
    BY <1>8, <2>1, <2>2, <2>4, <2>5
<1>10. Lim(B2, t) = e /\ \A c \in Leads(B) : Lim(B2, c) = Lim(B, c) /\ B2[c] = B[c]
  BY <1>2, <1>4, <1>5, <1>6 DEF Lim
<1>11. DOMAIN tl2 = DOMAIN tl \cup {b, e} /\ tl2[b] = t /\ tl2[e] = b /\ \A x \in DOMAIN tl : x # b /\ x # e /\ tl2[x] = tl[x]
  <2>1. \A x \in DOMAIN tl2 : x \notin {b, e} => x \in DOMAIN tl /\ tl2[x] = tl[x]
    BY <1>1 DEF ArenaMade
  <2>2. DOMAIN tl2 = DOMAIN tl \cup {b, e} /\ tl2[b] = t /\ tl2[e] = b
    BY <1>1 DEF ArenaMade
  <2>. QED
    BY <1>3, <1>4, <2>1, <2>2
<1>12. Tiles(B2, tl2)
  <2>1. DOMAIN tl2 = DOMAIN B2 \ Leads(B2)
    <3>1. b \notin Leads(B) /\ e \notin Leads(B) /\ t \notin DOMAIN tl /\ b # t /\ e # t
      BY <1>2, <1>3, <1>4, <1>5
    <3>. QED
      BY <1>0, <1>4, <1>9, <1>11, <3>1 DEF Tiles
  <2>2. ASSUME NEW x \in Solid(B2)
        PROVE  x + B2[x].size \in DOMAIN tl2 /\ tl2[x + B2[x].size] = x
    <3>1. CASE x = t
      BY <1>2, <1>6, <1>11, <3>1 DEF ldr
    <3>2. CASE x = b
      BY <1>2, <1>6, <1>11, <3>2
    <3>3. CASE x # t /\ x # b
      <4>1. x \in Solid(B) /\ x \in DOMAIN B
        BY <1>8, <3>3 DEF Solid
      <4>2. x + B[x].size \in DOMAIN tl /\ tl[x + B[x].size] = x
        BY <1>0, <4>1 DEF Tiles
      <4>. QED
        BY <1>4, <1>11, <4>1, <4>2
    <3>. QED
      BY <3>1, <3>2, <3>3
  <2>3. ASSUME NEW x \in DOMAIN tl2
        PROVE  tl2[x] \in Solid(B2) /\ tl2[x] + B2[tl2[x]].size = x
    <3>1. CASE x = b
      BY <1>2, <1>6, <1>8, <1>11, <3>1 DEF ldr
    <3>2. CASE x = e
      BY <1>2, <1>6, <1>8, <1>11, <3>2
    <3>3. CASE x # b /\ x # e
      <4>1. x \in DOMAIN tl /\ tl2[x] = tl[x]
        BY <1>11, <3>3
      <4>2. tl[x] \in Solid(B) /\ tl[x] + B[tl[x]].size = x
        BY <1>0, <4>1 DEF Tiles
      <4>3. tl[x] \in Solid(B2) /\ tl[x] \in DOMAIN B
        BY <1>8, <4>2 DEF Solid
      <4>. QED
        BY <1>4, <4>1, <4>2, <4>3
    <3>. QED
      BY <3>1, <3>2, <3>3
  <2>4. ASSUME NEW x \in Solid(B2), NEW z \in DOMAIN B2
        PROVE  z <= x \/ x + B2[x].size <= z
    <3>1. CASE x = t
      BY <1>0, <1>2, <1>4, <1>6, <3>1 DEF ldr
    <3>2. CASE x = b
      BY <1>0, <1>2, <1>4, <1>6, <3>2
    <3>3. CASE x # t /\ x # b
      <4>1. x \in Solid(B) /\ x \in DOMAIN B
        BY <1>8, <3>3 DEF Solid
      <4>2. x + B[x].size \in DOMAIN B /\ B2[x].size = B[x].size
        BY <1>0, <1>3, <1>4, <4>1 DEF Tiles
      <4>3. CASE z \in DOMAIN B
        BY <1>0, <4>1, <4>2, <4>3 DEF Tiles
      <4>4. CASE z \notin DOMAIN B
        <5>1. t <= z /\ x + B[x].size < t /\ z \in Nat /\ x + B[x].size \in Nat
          BY <1>0, <1>2, <1>4, <4>2, <4>4
        <5>. QED
          BY <4>2, <5>1
      <4>. QED
        BY <4>3, <4>4
    <3>. QED
      BY <3>1, <3>2, <3>3
  <2>. QED
    BY <2>1, <2>2, <2>3, <2>4 DEF Tiles
<1>13. Bounds(B2)
  <2>1. B2[t] # EndMark /\ B2[b] # EndMark
    <3>1. EndMark.size = 0
      BY HeaderFields DEF EndMark
    <3>. QED
      BY <1>6, <3>1 DEF ldr
  <2>2. \A c \in Leads(B) : c < Lim(B, c) /\ Lim(B, c) \in DOMAIN B /\ B[Lim(B, c)] = EndMark
    BY <1>0 DEF Bounds
  <2>3. \A c \in Leads(B2) : c < Lim(B2, c) /\ Lim(B2, c) \in DOMAIN B2 /\ B2[Lim(B2, c)] = EndMark
    BY <1>2, <1>4, <1>6, <1>9, <1>10, <2>2
  <2>4. \A x \in DOMAIN B2 : \E c \in Leads(B2) : c <= x /\ x <= Lim(B2, c)
    <3>1. \A x \in {t, b, e} : t <= x /\ x <= e
      BY <1>2
    <3>2. \A x \in DOMAIN B : \E c \in Leads(B) : c <= x /\ x <= Lim(B, c)
      BY <1>0 DEF Bounds
    <3>. QED
      BY <1>4, <1>9, <1>10, <3>1, <3>2
  <2>5. \A x \in DOMAIN B2 : B2[x] = EndMark => \E c \in Leads(B2) : x = Lim(B2, c)
    <3>1. \A x \in DOMAIN B : B[x] = EndMark => \E c \in Leads(B) : x = Lim(B, c)
      BY <1>0 DEF Bounds
    <3>. QED
      BY <1>4, <1>9, <1>10, <2>1, <3>1
  <2>6. \A c, d \in Leads(B2) : c < d => Lim(B2, c) < d
    <3>1. \A c, d \in Leads(B) : c < d => Lim(B, c) < d
      BY <1>0 DEF Bounds
    <3>2. \A c \in Leads(B) : c < t /\ Lim(B, c) < t /\ c \in Nat
      BY <1>0, <1>5, <2>2
    <3>. QED
      BY <1>9, <1>10, <3>1, <3>2
  <2>. QED
    BY <2>3, <2>4, <2>5, <2>6 DEF Bounds
<1>14. Chained(B2, t)
  <2>1. \A c \in Leads(B) : c < t /\ c \in Nat /\ c <= ch
    BY <1>0, <1>5 DEF Chained
  <2>2. ch < t
    BY <1>5, <2>1 DEF nil
  <2>3. \A c \in Leads(B) : /\ B[c].clink \in Leads(B) \cup {nil} /\ B[c].clink < c
                            /\ \A d \in Leads(B) : d < c => d <= B[c].clink
    BY <1>0 DEF Chained
  <2>4. \A c \in Leads(B2) : c <= t
    BY <1>9, <2>1
  <2>5. ASSUME NEW c \in Leads(B2)
        PROVE  /\ B2[c].clink \in Leads(B2) \cup {nil} /\ B2[c].clink < c
               /\ \A d \in Leads(B2) : d < c => d <= B2[c].clink
    <3>1. CASE c = t
      BY <1>5, <1>6, <1>9, <2>1, <2>2, <3>1
    <3>2. CASE c \in Leads(B)
      <4>1. B2[c].clink = B[c].clink /\ ~(t < c)
        BY <1>10, <2>1, <3>2
      <4>. QED
        BY <1>9, <2>3, <3>2, <4>1
    <3>. QED
      BY <1>9, <3>1, <3>2
  <2>. QED
    BY <1>9, <2>4, <2>5 DEF Chained
<1>15. \A x \in DOMAIN B2 : x \in Nat \ {0}
  BY <1>0, <1>2, <1>4
<1>. QED
  BY <1>1, <1>7, <1>8, <1>9, <1>12, <1>13, <1>14, <1>15 DEF Laid, Sound

\* The end mark of the last arena becomes a block of k units.
ArenaGrown(B2, tl2, B, tl, ch, k) ==
  /\ DOMAIN B2 = DOMAIN B \cup {Lim(B, ch) + k} /\ AgreeBut(B2, B, {ch, Lim(B, ch), Lim(B, ch) + k})
  /\ B2[ch] = Leader(B[ch].csize + k, B[ch].clink)
  /\ B2[Lim(B, ch)] = Header("A", k) /\ B2[Lim(B, ch) + k] = EndMark
  /\ DOMAIN tl2 = DOMAIN tl \cup {Lim(B, ch) + k} /\ AgreeBut(tl2, tl, {Lim(B, ch) + k})
  /\ tl2[Lim(B, ch) + k] = Lim(B, ch)

\* It is in that arena, whose end is k units on.
LEMMA GrowLaid ==
  ASSUME NEW B, NEW B2, NEW tl, NEW tl2, NEW ch, Sound(B, tl, ch), ch # nil, NEW k \in Nat \ {0},
         ArenaGrown(B2, tl2, B, tl, ch, k)
  PROVE  /\ Sound(B2, tl2, ch) /\ Solid(B2) = Solid(B) \cup {Lim(B, ch)}
         /\ Leads(B2) = Leads(B) /\ B[Lim(B, ch)] = EndMark
         /\ ch \in Leads(B) /\ \A x \in DOMAIN B : x <= Lim(B, ch)
<1> USE DEF AgreeBut
<1>0. Kinds(B) /\ Bounds(B) /\ Chained(B, ch) /\ Tiles(B, tl) /\ \A x \in DOMAIN B : x \in Nat \ {0}
  BY DEF Laid, Sound
<1>1. PICK q, e : q = Lim(B, ch) /\ e = Lim(B, ch) + k
  OBVIOUS
<1>2. ch \in Leads(B) /\ \A c \in Leads(B) : c \in DOMAIN B /\ c \in Solid(B)
  BY <1>0 DEF Chained, Leads, With, Solid
<1>3. \A c \in Leads(B) : c < Lim(B, c) /\ Lim(B, c) \in DOMAIN B /\ B[Lim(B, c)] = EndMark
  BY <1>0 DEF Bounds
<1>4. q \in DOMAIN B /\ B[q] = EndMark /\ ch < q /\ q \in Nat \ {0} /\ ch \in Nat /\ e \in Nat \ {0} /\ q < e /\ e = q + k
  BY <1>0, <1>1, <1>2, <1>3
<1>5. \A x \in DOMAIN B : x <= q
  <2>1. SUFFICES ASSUME NEW x \in DOMAIN B PROVE x <= q
    OBVIOUS
  <2>2. PICK c \in Leads(B) : c <= x /\ x <= Lim(B, c)
    BY <1>0 DEF Bounds
  <2>3. c = ch \/ c < ch
    BY <1>0, <1>2 DEF Chained
  <2>4. CASE c = ch
    BY <1>1, <2>2, <2>4
  <2>5. CASE c < ch
    <3>1. Lim(B, c) < ch /\ Lim(B, c) \in Nat
      BY <1>0, <1>2, <1>3, <2>5 DEF Bounds
    <3>. QED
      BY <1>0, <1>4, <2>2, <3>1
  <2>. QED
    BY <2>3, <2>4, <2>5
<1>6. e \notin DOMAIN B /\ DOMAIN tl \subseteq DOMAIN B
  BY <1>0, <1>4, <1>5 DEF Tiles
<1>7. DOMAIN B2 = DOMAIN B \cup {e} /\ \A x \in DOMAIN B : x # ch /\ x # q => B2[x] = B[x]
  <2>1. \A x \in DOMAIN B2 : x \notin {ch, q, e} => x \in DOMAIN B /\ B2[x] = B[x]
    BY <1>1 DEF ArenaGrown
  <2>. QED
    BY <1>1, <1>6, <2>1 DEF ArenaGrown
<1>8. B[ch].size = ldr /\ B[ch].magic = "E" /\ B[ch].csize \in Nat /\ B[ch].clink \in Nat
  BY <1>0, <1>2, BlockFacts
<1>9. /\ B2[ch].magic = "E" /\ B2[ch].size = ldr /\ B2[ch].csize = B[ch].csize + k /\ B2[ch].clink = B[ch].clink
      /\ B2[q].magic = "A" /\ B2[q].size = k
      /\ B2[e] = EndMark /\ B2[e].size = 0 /\ B2[e].magic = "E"
  <2>1. B2[ch] = Leader(B[ch].csize + k, B[ch].clink) /\ B2[q] = Header("A", k) /\ B2[e] = EndMark
    BY <1>1 DEF ArenaGrown
  <2>2. B2[ch].magic = "E" /\ B2[ch].size = ldr /\ B2[ch].csize = B[ch].csize + k /\ B2[ch].clink = B[ch].clink
    BY <2>1 DEF Leader
  <2>. QED
    BY <2>1, <2>2, HeaderFields DEF EndMark
<1>10. Kinds(B2)
  <2>1. B2[ch] \in [magic : {"E"}, size : {ldr}, csize : Nat, clink : Nat]
    <3>1. B[ch].csize + k \in Nat
      BY <1>8
    <3>. QED
      BY <1>8, <3>1 DEF ArenaGrown, Leader
  <2>2. B2[q] \in [magic : {"A", "F", "I"}, size : Nat \ {0}]
    BY <1>1, HeaderKind DEF ArenaGrown
  <2>. QED
    BY <1>0, <1>7, <1>9, <2>1, <2>2 DEF Kinds
<1>11. \A x \in DOMAIN B : x # q => B2[x].size = B[x].size /\ B2[x].magic = B[x].magic
  BY <1>7, <1>8, <1>9
<1>12. EndMark.size = 0
  BY HeaderFields DEF EndMark
<1>13. Solid(B2) = Solid(B) \cup {q}
  <2>1. \A x : x \in Solid(B) <=> x \in DOMAIN B /\ B[x].size > 0
    BY <1>0, BlockFacts
  <2>2. \A x : x \in Solid(B2) <=> x \in DOMAIN B2 /\ B2[x].size > 0
    BY <1>10, BlockFacts
  <2>. QED
    BY <1>4, <1>7, <1>9, <1>11, <2>1, <2>2
<1>14. q \notin Solid(B)
  BY <1>4 DEF Solid
<1>15. Leads(B2) = Leads(B)
  <2>1. \A x : x \in Leads(B) <=> x \in Solid(B) /\ B[x].magic = "E"
    BY <1>0, BlockFacts
  <2>2. \A x : x \in Leads(B2) <=> x \in Solid(B2) /\ B2[x].magic = "E"
    BY <1>10, BlockFacts
  <2>3. \A x \in Solid(B) : x \in DOMAIN B /\ B2[x].magic = B[x].magic
    BY <1>11, <1>14 DEF Solid
  <2>4. B2[q].magic # "E"
    BY <1>9
  <2>. QED
    BY <1>13, <2>1, <2>2, <2>3, <2>4
<1>16. \A c \in Leads(B) : c # q /\ B2[c].clink = B[c].clink
  BY <1>2, <1>7, <1>9, <1>14
<1>17. Lim(B2, ch) = e /\ \A c \in Leads(B) : c # ch => Lim(B2, c) = Lim(B, c)
  <2>1. ch + (B[ch].csize + k) = (ch + B[ch].csize) + k
    BY <1>4, <1>8
  <2>. QED
    BY <1>1, <1>2, <1>7, <1>9, <1>16, <2>1 DEF Lim
<1>18. DOMAIN tl2 = DOMAIN tl \cup {e} /\ tl2[e] = q /\ \A x \in DOMAIN tl : x # e /\ tl2[x] = tl[x]
  <2>1. \A x \in DOMAIN tl2 : x \notin {e} => x \in DOMAIN tl /\ tl2[x] = tl[x]
    BY <1>1 DEF ArenaGrown
  <2>2. DOMAIN tl2 = DOMAIN tl \cup {e} /\ tl2[e] = q
    BY <1>1 DEF ArenaGrown
  <2>. QED
    BY <1>6, <2>1, <2>2
<1>19. Tiles(B2, tl2)
  <2>1. DOMAIN tl2 = DOMAIN B2 \ Leads(B2)
    <3>1. e \notin Leads(B)
      BY <1>2, <1>6
    <3>. QED
      BY <1>0, <1>7, <1>15, <1>18, <3>1 DEF Tiles
  <2>2. ASSUME NEW x \in Solid(B2)
        PROVE  x + B2[x].size \in DOMAIN tl2 /\ tl2[x + B2[x].size] = x
    <3>1. CASE x = q
      BY <1>4, <1>9, <1>18, <3>1
    <3>2. CASE x # q
      <4>1. x \in Solid(B) /\ x \in DOMAIN B
        BY <1>13, <3>2 DEF Solid
      <4>2. x + B[x].size \in DOMAIN tl /\ tl[x + B[x].size] = x
        BY <1>0, <4>1 DEF Tiles
      <4>. QED
        BY <1>11, <1>18, <3>2, <4>1, <4>2
    <3>. QED
      BY <3>1, <3>2
  <2>3. ASSUME NEW x \in DOMAIN tl2
        PROVE  tl2[x] \in Solid(B2) /\ tl2[x] + B2[tl2[x]].size = x
    <3>1. CASE x = e
      BY <1>4, <1>9, <1>13, <1>18, <3>1
    <3>2. CASE x # e
      <4>1. x \in DOMAIN tl /\ tl2[x] = tl[x]
        BY <1>18, <3>2
      <4>2. tl[x] \in Solid(B) /\ tl[x] + B[tl[x]].size = x
        BY <1>0, <4>1 DEF Tiles
      <4>3. tl[x] \in Solid(B2) /\ tl[x] \in DOMAIN B /\ tl[x] # q
        BY <1>13, <1>14, <4>2 DEF Solid
      <4>. QED
        BY <1>11, <4>1, <4>2, <4>3
    <3>. QED
      BY <3>1, <3>2
  <2>4. ASSUME NEW x \in Solid(B2), NEW z \in DOMAIN B2
        PROVE  z <= x \/ x + B2[x].size <= z
    <3>1. CASE x = q
      BY <1>0, <1>4, <1>5, <1>7, <1>9, <3>1
    <3>2. CASE x # q
      <4>1. x \in Solid(B) /\ x \in DOMAIN B
        BY <1>13, <3>2 DEF Solid
      <4>2. x + B[x].size \in DOMAIN B /\ B2[x].size = B[x].size
        BY <1>0, <1>6, <1>11, <3>2, <4>1 DEF Tiles
      <4>3. CASE z \in DOMAIN B
        BY <1>0, <4>1, <4>2, <4>3 DEF Tiles
      <4>4. CASE z = e
        BY <1>0, <1>4, <1>5, <4>2, <4>4
      <4>. QED
        BY <1>7, <4>3, <4>4
    <3>. QED
      BY <3>1, <3>2
  <2>. QED
    BY <2>1, <2>2, <2>3, <2>4 DEF Tiles
<1>20. Bounds(B2)
  <2>1. B2[q] # EndMark
    BY <1>9, <1>12
  <2>2. \A x \in DOMAIN B : x # q => (B2[x] = EndMark <=> B[x] = EndMark)
    <3>1. B2[ch] # EndMark /\ B[ch] # EndMark
      BY <1>8, <1>9, <1>12 DEF ldr
    <3>. QED
      BY <1>7, <3>1
  <2>3. \A c, d \in Leads(B) : c < d => Lim(B, c) < d
    BY <1>0 DEF Bounds
  <2>4. \A c \in Leads(B) : c # ch => c < ch /\ Lim(B, c) < ch /\ Lim(B, c) # q
    <3>1. \A c \in Leads(B) : c <= ch
      BY <1>0 DEF Chained
    <3>2. \A c \in Leads(B) : c \in Nat /\ Lim(B, c) \in Nat
      BY <1>0, <1>2, <1>3
    <3>. QED
      BY <1>2, <1>4, <2>3, <3>1, <3>2
  <2>5. \A c \in Leads(B2) : c < Lim(B2, c) /\ Lim(B2, c) \in DOMAIN B2 /\ B2[Lim(B2, c)] = EndMark
    <3>1. SUFFICES ASSUME NEW c \in Leads(B) PROVE c < Lim(B2, c) /\ Lim(B2, c) \in DOMAIN B2 /\ B2[Lim(B2, c)] = EndMark
      BY <1>15
    <3>2. CASE c = ch
      BY <1>4, <1>7, <1>9, <1>17, <3>2
    <3>3. CASE c # ch
      BY <1>3, <1>7, <1>17, <2>2, <2>4, <3>3
    <3>. QED
      BY <3>2, <3>3
  <2>6. \A x \in DOMAIN B2 : \E c \in Leads(B2) : c <= x /\ x <= Lim(B2, c)
    <3>1. SUFFICES ASSUME NEW x \in DOMAIN B2 PROVE \E c \in Leads(B) : c <= x /\ x <= Lim(B2, c)
      BY <1>15
    <3>2. CASE x = e
      BY <1>2, <1>4, <1>17, <3>2
    <3>3. CASE x \in DOMAIN B
      <4>1. PICK c \in Leads(B) : c <= x /\ x <= Lim(B, c)
        BY <1>0, <3>3 DEF Bounds
      <4>2. CASE c = ch
        <5>1. x <= e
          BY <1>0, <1>4, <1>5, <3>3
        <5>. QED
          BY <1>17, <4>1, <4>2, <5>1
      <4>3. CASE c # ch
        BY <1>17, <4>1, <4>3
      <4>. QED
        BY <4>2, <4>3
    <3>. QED
      BY <1>7, <3>2, <3>3
  <2>7. \A x \in DOMAIN B2 : B2[x] = EndMark => \E c \in Leads(B2) : x = Lim(B2, c)
    <3>1. SUFFICES ASSUME NEW x \in DOMAIN B2, B2[x] = EndMark PROVE \E c \in Leads(B) : x = Lim(B2, c)
      BY <1>15
    <3>2. CASE x = e
      BY <1>2, <1>17, <3>2
    <3>3. CASE x \in DOMAIN B
      <4>1. x # q /\ B[x] = EndMark
        BY <2>1, <2>2, <3>1, <3>3
      <4>2. PICK c \in Leads(B) : x = Lim(B, c)
        BY <1>0, <3>3, <4>1 DEF Bounds
      <4>3. c # ch
        BY <1>1, <4>1, <4>2
      <4>. QED
        BY <1>17, <4>2, <4>3
    <3>. QED
      BY <1>7, <3>2, <3>3
  <2>8. \A c, d \in Leads(B2) : c < d => Lim(B2, c) < d
    <3>1. SUFFICES ASSUME NEW c \in Leads(B), NEW d \in Leads(B), c < d PROVE Lim(B2, c) < d
      BY <1>15
    <3>2. c # ch
      <4>1. d <= ch /\ d \in Nat
        BY <1>0, <1>2 DEF Chained
      <4>. QED
        BY <1>4, <3>1, <4>1
    <3>. QED
      BY <1>17, <2>3, <3>1, <3>2
  <2>. QED
    BY <2>5, <2>6, <2>7, <2>8 DEF Bounds
<1>21. Chained(B2, ch)
  BY <1>0, <1>15, <1>16 DEF Chained
<1>22. \A x \in DOMAIN B2 : x \in Nat \ {0}
  BY <1>0, <1>4, <1>7
<1>. QED
  BY <1>1, <1>2, <1>4, <1>5, <1>10, <1>13, <1>15, <1>19, <1>20, <1>21, <1>22 DEF Laid, Sound

\* A block's part of the weight.
LEMMA WeightLess ==
  ASSUME NEW B, NEW S, IsFiniteSet(S), \A b \in S : B[b].size \in Nat, NEW x \in S
  PROVE  Weight(B, S \ {x}) \in Nat /\ Weight(B, S) = Weight(B, S \ {x}) + B[x].size
<1>1. IsFiniteSet(S \ {x}) /\ S = (S \ {x}) \cup {x}
  BY FS_Subset
<1>2. Weight(B, (S \ {x}) \cup {x}) = Weight(B, S \ {x}) + B[x].size
  BY <1>1, WeightAdd
<1>3. Weight(B, S \ {x}) \in Nat
  BY <1>1, UnitsFinite
<1>. QED
  BY <1>1, <1>2, <1>3

\* A finite layout weighs a number of units.
LEMMA SolidFinite ==
  ASSUME NEW B, Kinds(B), IsFiniteSet(DOMAIN B), NEW S \in SUBSET Solid(B)
  PROVE  IsFiniteSet(S) /\ (\A b \in S : B[b].size \in Nat) /\ Weight(B, S) \in Nat
<1>1. S \in SUBSET (DOMAIN B)
  BY DEF Solid
<1>2. IsFiniteSet(S)
  BY <1>1, FS_Subset
<1>3. \A b \in S : B[b].size \in Nat
  BY <1>1, BlockFacts
<1>. QED
  BY <1>2, <1>3, UnitsFinite

\* A merge does not change what the blocks weigh.
LEMMA MergeWeight ==
  ASSUME NEW B, NEW B2, Kinds(B), IsFiniteSet(DOMAIN B), NEW u \in Solid(B), NEW w \in Solid(B), u # w,
         \A x \in Solid(B) \ {w} : B2[x].size = IF x = u THEN B[u].size + B[w].size ELSE B[x].size
  PROVE  Weight(B2, Solid(B) \ {w}) = Weight(B, Solid(B))
<1> DEFINE S == Solid(B)
           R == (S \ {w}) \ {u}
<1>1. IsFiniteSet(S) /\ \A b \in S : B[b].size \in Nat
  BY SolidFinite
<1>2. IsFiniteSet(S \ {w}) /\ \A b \in S \ {w} : B[b].size \in Nat
  BY <1>1, FS_Subset
<1>3. Weight(B, S) = Weight(B, S \ {w}) + B[w].size
  <2>1. w \in S
    OBVIOUS
  <2> HIDE DEF S
  <2>. QED
    BY <1>1, <2>1, WeightLess
<1>4. Weight(B, R) \in Nat /\ Weight(B, S \ {w}) = Weight(B, R) + B[u].size
  <2>1. u \in S \ {w}
    OBVIOUS
  <2> HIDE DEF S
  <2>. QED
    BY <1>2, <2>1, WeightLess
<1>5. Weight(B2, S \ {w}) = Weight(B2, R) + B2[u].size
  <2>1. u \in S \ {w} /\ \A b \in S \ {w} : B2[b].size \in Nat
    BY <1>1
  <2> HIDE DEF S
  <2>. QED
    BY <1>2, <2>1, WeightLess
<1>6. Weight(B2, R) = Weight(B, R)
  <2>1. \A b \in R : B2[b].size = B[b].size
    OBVIOUS
  <2> HIDE DEF R
  <2>. QED
    BY <2>1, WeightSame
<1>7. B2[u].size = B[u].size + B[w].size /\ B[u].size \in Nat /\ B[w].size \in Nat
  BY <1>1
<1> HIDE DEF S, R
<1>8. Weight(B2, S \ {w}) = Weight(B, S)
  BY <1>3, <1>4, <1>5, <1>6, <1>7
<1>. QED
  BY <1>8 DEF S

\* Nor does dividing one.
LEMMA HalveWeight ==
  ASSUME NEW B, NEW B2, Kinds(B), IsFiniteSet(DOMAIN B), NEW q \in Solid(B), NEW w, w \notin Solid(B),
         B2[q].size \in Nat, B2[w].size \in Nat, B[q].size = B2[q].size + B2[w].size,
         \A x \in Solid(B) \ {q} : B2[x].size = B[x].size
  PROVE  Weight(B2, Solid(B) \cup {w}) = Weight(B, Solid(B))
<1>1. IsFiniteSet(Solid(B)) /\ \A b \in Solid(B) : B[b].size \in Nat
  BY SolidFinite
<1>2. PICK S : S = Solid(B)
  OBVIOUS
<1>3. IsFiniteSet(S) /\ (\A b \in S : B[b].size \in Nat) /\ (\A b \in S : B2[b].size \in Nat) /\ q \in S /\ w \notin S
  BY <1>1, <1>2
<1>4. Weight(B2, S \cup {w}) = Weight(B2, S) + B2[w].size
  BY <1>3, WeightAdd
<1>5. Weight(B2, S) = Weight(B2, S \ {q}) + B2[q].size
  BY <1>3, WeightLess
<1>6. Weight(B, S \ {q}) \in Nat /\ Weight(B, S) = Weight(B, S \ {q}) + B[q].size
  BY <1>3, WeightLess
<1>7. Weight(B2, S \ {q}) = Weight(B, S \ {q})
  BY <1>2, WeightSame
<1>8. Weight(B2, S \cup {w}) = Weight(B, S)
  BY <1>4, <1>5, <1>6, <1>7
<1>. QED
  BY <1>2, <1>8

\* A layout is one where the tails are.
LEMMA SameTails ==
  ASSUME NEW B, NEW tl, NEW tl2, NEW ch, Sound(B, tl, ch),
         DOMAIN tl2 = DOMAIN tl, \A x \in DOMAIN tl : tl2[x] = tl[x]
  PROVE  Sound(B, tl2, ch)
<1>1. Tiles(B, tl2)
  BY DEF Sound, Laid, Tiles
<1>. QED
  BY <1>1 DEF Sound, Laid

\* The block q, of all units, is free, and the headers of gone are not there.
FreedAs(B2, tl2, B, tl, gone, q, all) ==
  /\ DOMAIN B2 = DOMAIN B \ gone /\ AgreeBut(B2, B, {q})
  /\ B2[q] = Header("F", all)
  /\ DOMAIN tl2 = DOMAIN tl \ gone /\ AgreeBut(tl2, tl, {q + all})
  /\ tl2[q + all] = q

\* What is free, in use and in memory then.
AsFreed(B2, tl2, B, ch, gone, q, all) ==
  /\ Sound(B2, tl2, ch) /\ SameLeads(B2, B) /\ Solid(B2) = Solid(B) \ gone
  /\ B2[q].size = all
  /\ Weight(B2, Solid(B2)) = Weight(B, Solid(B))

\* A block with no free neighbours is freed.
LEMMA FreeAlone ==
  ASSUME NEW B, NEW B2, NEW tl, NEW tl2, NEW ch, Sound(B, tl, ch), IsFiniteSet(DOMAIN B), NEW b \in InUse(B),
         FreedAs(B2, tl2, B, tl, {}, b, B[b].size)
  PROVE  AsFreed(B2, tl2, B, ch, {}, b, B[b].size)
<1>0. Kinds(B)
  BY DEF Sound, Laid
<1>1. b \in Solid(B) \ Leads(B)
  BY <1>0, BlockFacts
<1>2. Retagged(B2, B, b, "F")
  BY DEF Retagged, FreedAs
<1>3. Sound(B2, tl, ch) /\ SameLeads(B2, B) /\ Solid(B2) = Solid(B) /\ \A x \in DOMAIN B : B2[x].size = B[x].size
  BY <1>1, <1>2, RetagLaid
<1>4. b + B[b].size \in DOMAIN tl /\ tl[b + B[b].size] = b
  BY <1>1 DEF Sound, Laid, Tiles
<1>5. DOMAIN tl2 = DOMAIN tl /\ \A x \in DOMAIN tl : tl2[x] = tl[x]
  BY <1>4 DEF FreedAs, AgreeBut
<1>6. Sound(B2, tl2, ch)
  BY <1>3, <1>5, SameTails
<1>7. Weight(B2, Solid(B)) = Weight(B, Solid(B))
  BY <1>3, WeightSame DEF Solid
<1>. QED
  BY <1>1, <1>3, <1>6, <1>7 DEF AsFreed, Solid

\* A block and the free one after it, or the one before it, are freed as one.
LEMMA FreeTwo ==
  ASSUME NEW B, NEW B2, NEW tl, NEW tl2, NEW ch, Sound(B, tl, ch), IsFiniteSet(DOMAIN B),
         NEW u \in Solid(B) \ Leads(B), NEW w \in Solid(B) \ Leads(B), w = u + B[u].size,
         FreedAs(B2, tl2, B, tl, {w}, u, B[u].size + B[w].size)
  PROVE  AsFreed(B2, tl2, B, ch, {w}, u, B[u].size + B[w].size)
<1>0. Kinds(B) /\ u \in DOMAIN B /\ u \in Nat /\ B[u].size \in Nat /\ B[u].size > 0 /\ B[w].size \in Nat
  BY BlockFacts DEF Sound, Laid
<1>1. u # w /\ u + (B[u].size + B[w].size) = w + B[w].size
  BY <1>0
<1>2. Merged(B2, tl2, B, tl, u, w, "F")
  BY <1>1 DEF FreedAs, Merged
<1>3. /\ Sound(B2, tl2, ch) /\ SameLeads(B2, B) /\ Solid(B2) = Solid(B) \ {w}
      /\ \A x \in DOMAIN B2 : B2[x].size = IF x = u THEN B[u].size + B[w].size ELSE B[x].size
  <2>1. MergeDone(B2, tl2, B, ch, u, w)
    BY <1>2, MergeLaid
  <2>. QED
    BY <2>1 DEF MergeDone
<1>4. \A x \in Solid(B) \ {w} : x \in DOMAIN B2
  BY <1>3 DEF Solid
<1>5. Weight(B2, Solid(B) \ {w}) = Weight(B, Solid(B))
  <2>1. \A x \in Solid(B) \ {w} : B2[x].size = IF x = u THEN B[u].size + B[w].size ELSE B[x].size
    BY <1>3, <1>4
  <2>. QED
    BY <1>0, <1>1, <2>1, MergeWeight
<1>6. B2[u].size = B[u].size + B[w].size
  BY <1>1, <1>3, <1>4
<1>. QED
  BY <1>3, <1>5, <1>6 DEF AsFreed

\* A block and both its neighbours are.
LEMMA FreeThree ==
  ASSUME NEW B, NEW B2, NEW tl, NEW tl2, NEW ch, Sound(B, tl, ch), IsFiniteSet(DOMAIN B),
         NEW u \in Solid(B) \ Leads(B), NEW w \in Solid(B) \ Leads(B), NEW c \in Solid(B) \ Leads(B),
         w = u + B[u].size, c = w + B[w].size, NEW all, all = (B[w].size + B[c].size) + B[u].size,
         FreedAs(B2, tl2, B, tl, {w, c}, u, all)
  PROVE  AsFreed(B2, tl2, B, ch, {w, c}, u, all)
<1> DEFINE k == B[w].size + B[c].size
           B1 == [x \in DOMAIN B \ {c} |-> IF x = w THEN Header("A", k) ELSE B[x]]
           tl1 == [x \in DOMAIN tl \ {c} |-> IF x = w + k THEN w ELSE tl[x]]
<1>0. /\ Kinds(B) /\ u \in DOMAIN B /\ w \in DOMAIN B /\ c \in DOMAIN B /\ u \in Nat /\ w \in Nat /\ c \in Nat
      /\ B[u].size \in Nat /\ B[u].size > 0 /\ B[w].size \in Nat /\ B[w].size > 0 /\ B[c].size \in Nat /\ B[c].size > 0
  BY BlockFacts DEF Sound, Laid
<1>1. u < w /\ w < c /\ w + k = c + B[c].size /\ u + all = w + k
  BY <1>0
<1>2. SideBySide(B, tl, w, c, c + B[c].size) /\ SideBySide(B, tl, u, w, c)
  BY SideBySideIs
<1>3. Merged(B1, tl1, B, tl, w, c, "A")
  <2>1. B1[w] = Header("A", k) /\ DOMAIN B1 = DOMAIN B \ {c} /\ AgreeBut(B1, B, {w})
    BY <1>0, <1>1, SMTT(20) DEF AgreeBut
  <2>2. tl1[w + k] = w /\ DOMAIN tl1 = DOMAIN tl \ {c} /\ AgreeBut(tl1, tl, {w + k})
    <3>1. w + k \in DOMAIN tl \ {c}
      BY <1>0, <1>1, <1>2 DEF SideBySide
    <3>. QED
      BY <3>1 DEF AgreeBut
  <2> HIDE DEF B1, tl1
  <2>. QED
    BY <1>1, <2>1, <2>2 DEF Merged
<1>4. /\ DOMAIN B1 = DOMAIN B \ {c} /\ B1[w] = Header("A", k) /\ \A x \in DOMAIN B1 : x # w => B1[x] = B[x]
      /\ DOMAIN tl1 = DOMAIN tl \ {c} /\ tl1[w + k] = w /\ \A x \in DOMAIN tl1 : x # w + k => tl1[x] = tl[x]
  BY <1>1, <1>3 DEF Merged, AgreeBut
<1>5. PICK L, M : L = B1 /\ M = tl1
  OBVIOUS
<1> HIDE DEF B1, tl1
<1>6. /\ Sound(L, M, ch) /\ SameLeads(L, B) /\ Solid(L) = Solid(B) \ {c}
      /\ \A x \in DOMAIN L : L[x].size = IF x = w THEN k ELSE B[x].size
  <2>1. Merged(L, M, B, tl, w, c, "A")
    BY <1>3, <1>5
  <2>2. MergeDone(L, M, B, ch, w, c)
    BY <2>1, MergeLaid
  <2>. QED
    BY <2>2 DEF MergeDone
<1>7. Weight(L, Solid(L)) = Weight(B, Solid(B))
  <2>1. \A x \in Solid(B) \ {c} : x \in DOMAIN L
    BY <1>6 DEF Solid
  <2>2. Weight(L, Solid(B) \ {c}) = Weight(B, Solid(B))
    BY <1>0, <1>1, <1>6, <2>1, MergeWeight
  <2>. QED
    BY <1>6, <2>2
<1>8. u \in Solid(L) \ Leads(L) /\ w \in Solid(L) \ Leads(L) /\ L[u].size = B[u].size /\ L[w].size = k /\ IsFiniteSet(DOMAIN L)
  <2>1. Leads(L) = Leads(B)
    BY <1>6 DEF SameLeads
  <2>2. u \in DOMAIN L /\ w \in DOMAIN L /\ u # w
    BY <1>0, <1>1, <1>4, <1>5, SMTT(20)
  <2>3. IsFiniteSet(DOMAIN L)
    <3>1. DOMAIN L \in SUBSET (DOMAIN B)
      BY <1>4, <1>5
    <3>. QED
      BY <3>1, FS_Subset
  <2>. QED
    BY <1>0, <1>1, <1>6, <2>1, <2>2, <2>3
<1>9. FreedAs(B2, tl2, L, M, {w}, u, L[u].size + L[w].size)
  <2>1. L[u].size + L[w].size = all
    BY <1>0, <1>8
  <2>2. \A x \in DOMAIN B2 : x # u => x \in DOMAIN L /\ B2[x] = L[x]
    BY <1>4, <1>5 DEF FreedAs, AgreeBut
  <2>3. \A x \in DOMAIN tl2 : x # u + all => x \in DOMAIN M /\ tl2[x] = M[x]
    BY <1>1, <1>4, <1>5 DEF FreedAs, AgreeBut
  <2>4. DOMAIN B2 = DOMAIN L \ {w} /\ DOMAIN tl2 = DOMAIN M \ {w}
    BY <1>4, <1>5 DEF FreedAs
  <2>. QED
    BY <2>1, <2>2, <2>3, <2>4 DEF FreedAs, AgreeBut
<1>10. AsFreed(B2, tl2, L, ch, {w}, u, L[u].size + L[w].size)
  BY <1>6, <1>8, <1>9, FreeTwo
<1>11. SameLeads(B2, B)
  BY <1>6, <1>10 DEF AsFreed, SameLeads
<1>. QED
  BY <1>0, <1>6, <1>7, <1>8, <1>10, <1>11, SMTT(20) DEF AsFreed

\* What poolfree makes of a block and its neighbours.
Next1(B, b) == b + B[b].size
Fore(B, b) == B[Next1(B, b)].magic = "F"
Back(B, tl, b) == B[tl[b]].magic = "F"
Gone(B, tl, b) == (IF Fore(B, b) THEN {Next1(B, b)} ELSE {}) \cup (IF Back(B, tl, b) THEN {b} ELSE {})
Whole(B, tl, b) == IF Back(B, tl, b) THEN tl[b] ELSE b
AllOf(B, tl, b) ==
  (B[b].size + IF Fore(B, b) THEN B[Next1(B, b)].size ELSE 0) + IF Back(B, tl, b) THEN B[tl[b]].size ELSE 0

\* The blocks before and after one that is in use.
Around(B, tl, b) ==
  /\ b \in Solid(B) \ Leads(B) /\ b \in DOMAIN tl /\ b \in DOMAIN B
  /\ tl[b] \in Solid(B) /\ Next1(B, tl[b]) = b /\ tl[b] \in DOMAIN B
  /\ Next1(B, b) \in DOMAIN tl /\ tl[Next1(B, b)] = b /\ Next1(B, b) \in DOMAIN B
  /\ Fore(B, b) => Next1(B, b) \in Solid(B) \ Leads(B)
  /\ Back(B, tl, b) => tl[b] \in Solid(B) \ Leads(B)

\* Of a block that is in use these are headers of the pool, and a free one is a block.
LEMMA AroundIs ==
  ASSUME NEW B, NEW tl, NEW ch, Sound(B, tl, ch), NEW b \in InUse(B)
  PROVE  Around(B, tl, b)
<1>0. Kinds(B) /\ Tiles(B, tl)
  BY DEF Sound, Laid
<1>1. b \in Solid(B) /\ b \notin Leads(B) /\ b \in DOMAIN B
  BY <1>0, BlockFacts DEF Solid
<1>2. b \in DOMAIN tl
  BY <1>0, <1>1 DEF Tiles
<1>3. tl[b] \in Solid(B) /\ Next1(B, tl[b]) = b /\ tl[b] \in DOMAIN B
  BY <1>0, <1>2 DEF Tiles, Next1, Solid
<1>4. Next1(B, b) \in DOMAIN tl /\ tl[Next1(B, b)] = b /\ Next1(B, b) \in DOMAIN B
  BY <1>0, <1>1 DEF Tiles, Next1
<1>5. ASSUME NEW x \in DOMAIN B, B[x].magic = "F" PROVE x \in Solid(B) \ Leads(B)
  <2>1. Tags(B, x)
    BY <1>0, KindFacts
  <2>. QED
    BY <1>5, <2>1 DEF Tags
<1>. QED
  BY <1>1, <1>2, <1>3, <1>4, <1>5 DEF Around, Fore, Back

\* The free block is laid out as it was, with its neighbours when they are free.
LEMMA FreeLaid ==
  ASSUME NEW B, NEW B2, NEW tl, NEW tl2, NEW ch, Sound(B, tl, ch), IsFiniteSet(DOMAIN B), NEW b \in InUse(B),
         FreedAs(B2, tl2, B, tl, Gone(B, tl, b), Whole(B, tl, b), AllOf(B, tl, b))
  PROVE  AsFreed(B2, tl2, B, ch, Gone(B, tl, b), Whole(B, tl, b), AllOf(B, tl, b))
<1>0. Around(B, tl, b) /\ Kinds(B)
  BY AroundIs DEF Sound, Laid
<1>1. B[b].size \in Nat /\ (\A x \in DOMAIN B : B[x].size \in Nat)
  BY <1>0, BlockFacts DEF Around
<1>2. PICK c, p : c = Next1(B, b) /\ p = tl[b]
  OBVIOUS
<1>3. c \in DOMAIN B /\ p \in DOMAIN B /\ B[c].size \in Nat /\ B[p].size \in Nat
  BY <1>0, <1>1, <1>2 DEF Around
<1>4. c = b + B[b].size /\ b = p + B[p].size
  BY <1>0, <1>2 DEF Around, Next1
<1>5. CASE ~Fore(B, b) /\ ~Back(B, tl, b)
  <2>1. Gone(B, tl, b) = {} /\ Whole(B, tl, b) = b /\ AllOf(B, tl, b) = B[b].size
    BY <1>1, <1>5 DEF Gone, Whole, AllOf
  <2>. QED
    BY <2>1, FreeAlone
<1>6. CASE Fore(B, b) /\ ~Back(B, tl, b)
  <2>1. Gone(B, tl, b) = {c} /\ Whole(B, tl, b) = b /\ AllOf(B, tl, b) = B[b].size + B[c].size
    BY <1>1, <1>2, <1>3, <1>6 DEF Gone, Whole, AllOf
  <2>2. b \in Solid(B) \ Leads(B) /\ c \in Solid(B) \ Leads(B)
    BY <1>0, <1>2, <1>6 DEF Around
  <2>3. FreedAs(B2, tl2, B, tl, {c}, b, B[b].size + B[c].size)
    BY <2>1
  <2>4. AsFreed(B2, tl2, B, ch, {c}, b, B[b].size + B[c].size)
    BY <1>4, <2>2, <2>3, FreeTwo
  <2>. QED
    BY <2>1, <2>4
<1>7. CASE ~Fore(B, b) /\ Back(B, tl, b)
  <2>1. Gone(B, tl, b) = {b} /\ Whole(B, tl, b) = p /\ AllOf(B, tl, b) = B[p].size + B[b].size
    BY <1>1, <1>2, <1>3, <1>7 DEF Gone, Whole, AllOf
  <2>2. b \in Solid(B) \ Leads(B) /\ p \in Solid(B) \ Leads(B)
    BY <1>0, <1>2, <1>7 DEF Around
  <2>3. FreedAs(B2, tl2, B, tl, {b}, p, B[p].size + B[b].size)
    BY <2>1
  <2>4. AsFreed(B2, tl2, B, ch, {b}, p, B[p].size + B[b].size)
    BY <1>4, <2>2, <2>3, FreeTwo
  <2>. QED
    BY <2>1, <2>4
<1>8. CASE Fore(B, b) /\ Back(B, tl, b)
  <2>1. Gone(B, tl, b) = {b, c} /\ Whole(B, tl, b) = p /\ AllOf(B, tl, b) = (B[b].size + B[c].size) + B[p].size
    BY <1>2, <1>8 DEF Gone, Whole, AllOf
  <2>2. b \in Solid(B) \ Leads(B) /\ p \in Solid(B) \ Leads(B) /\ c \in Solid(B) \ Leads(B)
    BY <1>0, <1>2, <1>8 DEF Around
  <2>3. PICK all : all = (B[b].size + B[c].size) + B[p].size
    OBVIOUS
  <2>4. FreedAs(B2, tl2, B, tl, {b, c}, p, all)
    BY <2>1, <2>3
  <2>5. AsFreed(B2, tl2, B, ch, {b, c}, p, all)
    BY <1>4, <2>2, <2>3, <2>4, FreeThree
  <2>. QED
    BY <2>1, <2>3, <2>5
<1>. QED
  BY <1>5, <1>6, <1>7, <1>8

\* Where the free block ends there is one that is not free, or an end mark.
WholeEnds(B, tl, gone, q, all, b) ==
  /\ q \in Solid(B) /\ q \notin gone /\ (q = b \/ B[q].magic = "F") /\ (\A x \in gone : x = b \/ B[x].magic = "F")
  /\ q + all \in DOMAIN B /\ q + all \in DOMAIN tl /\ q + all \notin gone /\ q + all # q /\ B[q + all].magic # "F"

\* The block that poolfree makes ends so.
LEMMA WholeEnd ==
  ASSUME NEW B, NEW tl, NEW ch, Sound(B, tl, ch), NEW b \in InUse(B), Joined(B)
  PROVE  WholeEnds(B, tl, Gone(B, tl, b), Whole(B, tl, b), AllOf(B, tl, b), b)
<1>0. Around(B, tl, b) /\ Kinds(B) /\ Tiles(B, tl) /\ \A x \in DOMAIN B : x \in Nat \ {0}
  BY AroundIs DEF Sound, Laid
<1>1. PICK q, all, gone : q = Whole(B, tl, b) /\ all = AllOf(B, tl, b) /\ gone = Gone(B, tl, b)
  OBVIOUS
<1>5. PICK c, p : c = Next1(B, b) /\ p = tl[b]
  OBVIOUS
<1>6. /\ c \in DOMAIN B /\ c \in DOMAIN tl /\ p \in DOMAIN B /\ c = b + B[b].size /\ b = p + B[p].size /\ tl[c] = b
      /\ B[c].size \in Nat /\ B[p].size \in Nat /\ B[p].size > 0 /\ B[b].size \in Nat /\ B[b].size > 0
      /\ p \in Nat /\ b \in Nat /\ c \in Nat /\ p < b /\ b < c /\ b \in Solid(B) /\ p \in Solid(B)
  <2>1. c \in DOMAIN B /\ c \in DOMAIN tl /\ p \in DOMAIN B /\ c = b + B[b].size /\ b = p + B[p].size /\ tl[c] = b /\ b \in Solid(B) /\ p \in Solid(B) /\ b \in DOMAIN B
    BY <1>0, <1>5 DEF Around, Next1
  <2>2. B[c].size \in Nat /\ B[p].size \in Nat /\ B[p].size > 0 /\ B[b].size \in Nat /\ B[b].size > 0
    BY <1>0, <2>1, BlockFacts
  <2>. QED
    BY <1>0, <2>1, <2>2
<1>20. b # c /\ p # b /\ p # c
  BY <1>6
<1>21. ASSUME NEW r \in Nat, all = (B[b].size + r) + IF Back(B, tl, b) THEN B[p].size ELSE 0 PROVE q + all = c + r
  <2>1. CASE Back(B, tl, b)
    <3>1. q = p /\ all = (B[b].size + r) + B[p].size
      BY <1>1, <1>5, <1>21, <2>1 DEF Whole
    <3>. QED
      BY <1>6, <3>1
  <2>2. CASE ~Back(B, tl, b)
    <3>1. q = b /\ all = (B[b].size + r) + 0
      BY <1>1, <1>5, <1>21, <2>2 DEF Whole
    <3>. QED
      BY <1>6, <3>1
  <2>. QED
    BY <2>1, <2>2
<1>8. q \in Solid(B) /\ q \notin gone /\ (q = b \/ B[q].magic = "F") /\ \A x \in gone : x = b \/ B[x].magic = "F"
  <2>1. CASE Back(B, tl, b)
    <3>1. q = p /\ b \in gone /\ gone \subseteq {b, c} /\ (c \in gone => B[c].magic = "F")
      BY <1>1, <1>5, <1>20, <2>1 DEF Whole, Gone, Fore
    <3>2. B[p].magic = "F"
      BY <1>5, <2>1 DEF Back
    <3>. QED
      BY <1>6, <1>20, <3>1, <3>2
  <2>2. CASE ~Back(B, tl, b)
    <3>1. q = b /\ gone \subseteq {c} /\ (c \in gone => B[c].magic = "F")
      BY <1>1, <1>5, <2>2 DEF Whole, Gone, Fore
    <3>. QED
      BY <1>6, <3>1
  <2>. QED
    BY <2>1, <2>2
<1>15. \A x \in With(B, "F") : B[x + B[x].size].magic # "F" /\ x + B[x].size \in DOMAIN B /\ x + B[x].size \in DOMAIN tl /\ tl[x + B[x].size] = x
  BY <1>0 DEF Joined, Tiles, With
<1>16. q + all \in DOMAIN B /\ q + all \in DOMAIN tl /\ q + all \notin gone /\ q + all # q /\ B[q + all].magic # "F"
  <2>1. PICK d : d = q + all /\ d \in DOMAIN B /\ d \in DOMAIN tl /\ B[d].magic # "F" /\ d \in Nat /\ b < d /\ (d = c \/ c \in gone) /\ (d = c => c \notin gone) /\ (c < d \/ d = c)
    <3>1. CASE Fore(B, b)
      <4>1. c \in With(B, "F") /\ c \in gone
        <5>1. c \in Solid(B) /\ B[c].magic = "F"
          BY <1>0, <1>5, <3>1 DEF Around, Fore
        <5>. QED
          BY <1>1, <1>5, <3>1, <5>1 DEF With, Gone
      <4>2. B[c].size > 0
        BY <1>0, <4>1, BlockFacts
      <4>3. q + all = c + B[c].size
        BY <1>1, <1>5, <1>6, <1>21, <3>1 DEF AllOf
      <4>4. c + B[c].size \in Nat /\ c < c + B[c].size /\ b < c + B[c].size
        BY <1>6, <4>2
      <4>5. PICK d : d = c + B[c].size
        OBVIOUS
      <4>6. d = q + all /\ d \in DOMAIN B /\ d \in DOMAIN tl /\ B[d].magic # "F"
        BY <1>15, <4>1, <4>3, <4>5
      <4>7. d \in Nat /\ b < d /\ c < d /\ d # c
        BY <1>6, <4>4, <4>5
      <4>. QED
        BY <4>1, <4>6, <4>7
    <3>2. CASE ~Fore(B, b)
      <4>1. q + all = c
        <5>1. q + all = c + 0
          BY <1>1, <1>5, <1>21, <3>2 DEF AllOf
        <5>. QED
          BY <1>6, <5>1
      <4>2. c \notin gone /\ B[c].magic # "F"
        BY <1>1, <1>5, <1>20, <3>2 DEF Gone, Fore
      <4>. QED
        BY <1>6, <4>1, <4>2
    <3>. QED
      BY <3>1, <3>2
  <2>2. gone \subseteq {b, c} /\ (q = b \/ q = p)
    BY <1>1, <1>5 DEF Gone, Whole
  <2>. QED
    BY <1>6, <2>1, <2>2
<1>. QED
  BY <1>1, <1>8, <1>16 DEF WholeEnds

\* The free block is one, and those that were are but its neighbours.
Sorted(B2, B, gone, q, b) ==
  /\ InUse(B2) = InUse(B) \ {b} /\ (\A x \in InUse(B2) : B2[x].size = B[x].size)
  /\ With(B2, "F") = (With(B, "F") \ gone) \cup {q}
  /\ \A x \in With(B, "F") \ (gone \cup {q}) : x \in DOMAIN B2 /\ B2[x].size = B[x].size

\* So it is after poolfree.
LEMMA FreeSorted ==
  ASSUME NEW B, NEW B2, NEW tl, NEW tl2, NEW ch, Sound(B, tl, ch), IsFiniteSet(DOMAIN B), NEW b \in InUse(B),
         FreedAs(B2, tl2, B, tl, Gone(B, tl, b), Whole(B, tl, b), AllOf(B, tl, b)), Joined(B)
  PROVE  Sorted(B2, B, Gone(B, tl, b), Whole(B, tl, b), b) /\ Joined(B2)
<1>0. Around(B, tl, b) /\ Kinds(B) /\ Tiles(B, tl) /\ \A x \in DOMAIN B : x \in Nat \ {0}
  BY AroundIs DEF Sound, Laid
<1>1. PICK q, all, gone : q = Whole(B, tl, b) /\ all = AllOf(B, tl, b) /\ gone = Gone(B, tl, b)
  OBVIOUS
<1>2. AsFreed(B2, tl2, B, ch, gone, q, all) /\ FreedAs(B2, tl2, B, tl, gone, q, all)
  BY <1>1, FreeLaid
<1>3. Kinds(B2) /\ Solid(B2) = Solid(B) \ gone /\ B2[q].size = all /\ B2[q].magic = "F"
  BY <1>2, HeaderFields DEF AsFreed, Sound, Laid, FreedAs
<1>4. \A x \in Solid(B2) : x \in DOMAIN B2 /\ x \in DOMAIN B /\ (x # q => B2[x] = B[x])
  BY <1>2 DEF FreedAs, AgreeBut, Solid
<1>5. PICK c, p : c = Next1(B, b) /\ p = tl[b]
  OBVIOUS
<1>6. /\ c \in DOMAIN B /\ p \in DOMAIN B /\ c = b + B[b].size /\ b = p + B[p].size /\ tl[c] = b
      /\ B[c].size \in Nat /\ B[p].size \in Nat /\ B[p].size > 0 /\ B[b].size \in Nat /\ B[b].size > 0
      /\ p \in Nat /\ b \in Nat /\ c \in Nat /\ p < b /\ b < c /\ b \in Solid(B) /\ p \in Solid(B)
  <2>1. c \in DOMAIN B /\ p \in DOMAIN B /\ c = b + B[b].size /\ b = p + B[p].size /\ tl[c] = b /\ b \in Solid(B) /\ p \in Solid(B) /\ b \in DOMAIN B
    BY <1>0, <1>5 DEF Around, Next1
  <2>2. B[c].size \in Nat /\ B[p].size \in Nat /\ B[p].size > 0 /\ B[b].size \in Nat /\ B[b].size > 0
    BY <1>0, <2>1, BlockFacts
  <2>. QED
    BY <1>0, <2>1, <2>2
<1>7. B[b].magic \in {"A", "I"} /\ B[b].magic # "F"
  BY <1>0, BlockFacts
<1>18. WholeEnds(B, tl, gone, q, all, b)
  BY <1>1, WholeEnd
<1>8. q \in Solid(B) /\ q \notin gone /\ (q = b \/ B[q].magic = "F") /\ \A x \in gone : x = b \/ B[x].magic = "F"
  BY <1>18 DEF WholeEnds
<1>9. b \in gone \/ b = q
  BY <1>1 DEF Whole, Gone
<1>10. \A x : x \in InUse(B2) <=> x \in InUse(B) /\ x # b
  <2>1. \A x : x \in InUse(B) <=> x \in Solid(B) /\ B[x].magic \in {"A", "I"}
    BY <1>0, BlockFacts
  <2>2. \A x : x \in InUse(B2) <=> x \in Solid(B2) /\ B2[x].magic \in {"A", "I"}
    BY <1>3, BlockFacts
  <2>3. \A x \in gone : x = b \/ ~(B[x].magic \in {"A", "I"})
    BY <1>8
  <2>4. ~(B2[q].magic \in {"A", "I"}) /\ (q = b \/ ~(B[q].magic \in {"A", "I"}))
    BY <1>3, <1>8
  <2>. QED
    BY <1>3, <1>4, <1>9, <2>1, <2>2, <2>3, <2>4
<1>11. \A x : x \in With(B2, "F") <=> (x \in With(B, "F") /\ x \notin gone) \/ x = q
  <2>1. \A x : x \in With(B, "F") <=> x \in Solid(B) /\ B[x].magic = "F"
    BY <1>0, BlockFacts
  <2>2. \A x : x \in With(B2, "F") <=> x \in Solid(B2) /\ B2[x].magic = "F"
    BY <1>3, BlockFacts
  <2>. QED
    BY <1>3, <1>4, <1>8, <2>1, <2>2
<1>12. \A x \in InUse(B2) : B2[x].size = B[x].size
  <2>1. q \notin InUse(B2)
    <3>1. InUse(B2) = {x \in Solid(B2) : B2[x].magic \in {"A", "I"}}
      BY DEF InUse, With
    <3>. QED
      BY <1>3, <3>1
  <2>2. \A x \in InUse(B2) : x \in Solid(B2)
    BY DEF InUse, With
  <2>. QED
    BY <1>4, <2>1, <2>2
<1>13. \A x \in With(B, "F") \ (gone \cup {q}) : x \in DOMAIN B2 /\ B2[x].size = B[x].size
  <2>1. \A x \in With(B, "F") : x \in Solid(B)
    BY DEF With
  <2>. QED
    BY <1>3, <1>4, <2>1
<1>14. Sorted(B2, B, gone, q, b)
  <2>1. InUse(B2) = InUse(B) \ {b}
    BY <1>10
  <2>2. With(B2, "F") = (With(B, "F") \ gone) \cup {q}
    BY <1>11
  <2>. QED
    BY <1>12, <1>13, <2>1, <2>2 DEF Sorted
<1>15. \A x \in With(B, "F") : B[x + B[x].size].magic # "F" /\ x + B[x].size \in DOMAIN B /\ tl[x + B[x].size] = x
  BY <1>0 DEF Joined, Tiles, With
<1>16. q + all \in DOMAIN B /\ q + all \notin gone /\ q + all # q /\ B[q + all].magic # "F"
  BY <1>18 DEF WholeEnds
<1>17. Joined(B2)
  <2>1. SUFFICES ASSUME NEW x \in With(B2, "F") PROVE B2[x + B2[x].size].magic # "F"
    BY DEF Joined
  <2>2. CASE x = q
    <3>1. x + B2[x].size = q + all
      BY <1>3, <2>2
    <3>2. q + all \in DOMAIN B2 /\ B2[q + all] = B[q + all]
      BY <1>2, <1>16 DEF FreedAs, AgreeBut
    <3>. QED
      BY <1>16, <3>1, <3>2
  <2>3. CASE x # q
    <3>1. x \in With(B, "F") /\ x \notin gone /\ B2[x] = B[x]
      <4>1. x \in Solid(B2)
        BY DEF With
      <4>. QED
        BY <1>4, <1>11, <2>3, <4>1
    <3>2. PICK y : y = x + B[x].size /\ B[y].magic # "F" /\ y \in DOMAIN B /\ tl[y] = x
      BY <1>15, <3>1
    <3>3. y # q
      <4>1. CASE q = b
        <5>1. CASE y = b
          <6>1. x = p /\ B[x].magic = "F"
            BY <1>5, <3>1, <3>2, <5>1 DEF With
          <6>2. Back(B, tl, b)
            BY <1>5, <6>1 DEF Back
          <6>3. q = p
            BY <1>1, <1>5, <6>2 DEF Whole
          <6>. QED
            BY <2>3, <6>1, <6>3
        <5>. QED
          BY <4>1, <5>1
      <4>2. CASE B[q].magic = "F"
        BY <3>2, <4>2
      <4>. QED
        BY <1>8, <4>1, <4>2
    <3>4. y \notin gone
      <4>1. CASE y = b
        <5>1. x = p /\ B[p].magic = "F"
          BY <1>5, <3>1, <3>2, <4>1 DEF With
        <5>2. q = p
          BY <1>1, <1>5, <5>1 DEF Whole, Back
        <5>. QED
          BY <2>3, <5>1, <5>2
      <4>. QED
        BY <1>8, <3>2, <4>1
    <3>5. B2[y] = B[y]
      BY <1>2, <3>2, <3>3, <3>4 DEF FreedAs, AgreeBut
    <3>. QED
      BY <3>1, <3>2, <3>5
  <2>. QED
    BY <2>2, <2>3
<1>. QED
  BY <1>1, <1>14, <1>17

(***************************************************************************)
(* The steps.                                                              *)
(***************************************************************************)
\* The pool's blocks, as the lemmas above have them.
LEMMA PoolFacts ==
  ASSUME PoolOK
  PROVE  /\ Sound(blk, tail, chain) /\ IsFiniteSet(DOMAIN blk) /\ Kinds(blk)
         /\ \A m : Is(m) = With(blk, m)
         /\ \A x \in DOMAIN blk : x \in Nat \ {0} /\ x < brk /\ x <= Memory
<1>1. \A x \in DOMAIN blk : x \in 1 .. Memory /\ x < brk
  BY DEF PoolOK, InMemory, Addr
<1>2. Memory \in Nat
  BY PoolAssumption
<1>3. IsFiniteSet(DOMAIN blk)
  <2>1. IsFiniteSet(1 .. Memory)
    BY <1>2, CountTo
  <2>2. DOMAIN blk \in SUBSET (1 .. Memory)
    BY <1>1
  <2>. QED
    BY <2>1, <2>2, FS_Subset
<1>4. \A m : Is(m) = With(blk, m)
  BY DEF Is, Blocks, With, Solid
<1>5. \A x \in DOMAIN blk : x \in Nat \ {0} /\ x < brk /\ x <= Memory
  BY <1>1, <1>2
<1>6. Kinds(blk) /\ Laid(blk, tail, chain)
  BY DEF PoolOK, Laid
<1>. QED
  BY <1>3, <1>4, <1>5, <1>6 DEF Sound

\* The size of a block as a function has it.
LEMMA SizeInIs ==
  ASSUME NEW B, NEW x \in DOMAIN B
  PROVE  SizeIn(B)[x] = B[x].size
BY DEF SizeIn

\* The blocks left in a tree of some free blocks.
TreeOf(T, D) == TreeOK(T, SizeIn(blk)) /\ DOMAIN T.node = D

\* poolfree takes the free neighbours of a block off the tree.
LEMMA NeighboursOff ==
  ASSUME PoolOK, NEW b \in InUse(blk), NEW T1, NEW T2,
         T1 = IF Fore(blk, b) THEN PoolDel(tree, Next1(blk, b)) ELSE tree,
         T2 = IF Back(blk, tail, b) THEN PoolDel(T1, tail[b]) ELSE T1
  PROVE  TreeOf(T2, With(blk, "F") \ (Gone(blk, tail, b) \cup {Whole(blk, tail, b)}))
<1> DEFINE F == With(blk, "F")
           c == Next1(blk, b)
           p == tail[b]
<1>1. Around(blk, tail, b) /\ Kinds(blk)
  BY PoolFacts, AroundIs
<1>2. Fore(blk, b) => c \in F
  BY <1>1 DEF Around, Fore, With
<1>3. Back(blk, tail, b) => p \in F /\ p # c
  <2>1. p \in DOMAIN blk /\ b \in DOMAIN blk /\ b = p + blk[p].size /\ c = b + blk[b].size /\ p \in Solid(blk) /\ b \in Solid(blk)
    BY <1>1 DEF Around, Next1
  <2>2. p \in Nat /\ b \in Nat /\ blk[p].size \in Nat /\ blk[p].size > 0 /\ blk[b].size \in Nat /\ blk[b].size > 0
    BY <2>1, PoolFacts, BlockFacts
  <2>3. p < c
    BY <2>1, <2>2
  <2>. QED
    BY <1>1, <2>1, <2>2, <2>3 DEF Around, Back, With
<1>4. b \notin F
  BY <1>1, BlockFacts
<1>5. TreeOf(tree, F)
  <2>1. TreeHolds /\ tree.node = node
    BY DEF PoolOK, tree
  <2>. QED
    BY <2>1, PoolFacts DEF TreeHolds, TreeOf
<1>6. PICK D : D = F \ IF Fore(blk, b) THEN {c} ELSE {}
  OBVIOUS
<1>7. TreeOf(T1, D)
  <2>1. CASE Fore(blk, b)
    <3>1. c \in DOMAIN tree.node /\ T1 = PoolDel(tree, c) /\ D = F \ {c} /\ DOMAIN tree.node = F
      BY <1>2, <1>5, <1>6, <2>1 DEF TreeOf
    <3> HIDE DEF F, c
    <3>2. TreeOK(PoolDel(tree, c), SizeIn(blk)) /\ DOMAIN PoolDel(tree, c).node = DOMAIN tree.node \ {c}
      BY <1>5, <3>1, DelKeeps DEF TreeOf
    <3>. QED
      BY <3>1, <3>2 DEF TreeOf
  <2>2. CASE ~Fore(blk, b)
    BY <1>5, <1>6, <2>2
  <2>. QED
    BY <2>1, <2>2
<1>8. CASE Back(blk, tail, b)
  <2>1. p \in D /\ T2 = PoolDel(T1, p) /\ D \ {p} = F \ (Gone(blk, tail, b) \cup {Whole(blk, tail, b)})
    BY <1>3, <1>4, <1>6, <1>8 DEF Gone, Whole
  <2> HIDE DEF F, p
  <2>2. TreeOK(PoolDel(T1, p), SizeIn(blk)) /\ DOMAIN PoolDel(T1, p).node = DOMAIN T1.node \ {p}
    BY <1>7, <2>1, DelKeeps DEF TreeOf
  <2>3. TreeOf(T2, F \ (Gone(blk, tail, b) \cup {Whole(blk, tail, b)}))
    BY <1>7, <2>1, <2>2 DEF TreeOf
  <2>. QED
    BY <2>3 DEF F
<1>9. CASE ~Back(blk, tail, b)
  <2>1. D = F \ (Gone(blk, tail, b) \cup {Whole(blk, tail, b)}) /\ T2 = T1
    BY <1>4, <1>6, <1>9 DEF Gone, Whole
  <2>. QED
    BY <1>7, <2>1
<1>. QED
  BY <1>8, <1>9

\* A tree of T's nodes and q, with the sizes of other headers.
LEMMA TreeWith ==
  ASSUME NEW T, NEW D, TreeOf(T, D), NEW B, NEW q, q \notin D, q # nil, q \in DOMAIN B, B[q].size \in Nat,
         \A x \in D : x \in DOMAIN B /\ B[x].size = blk[x].size /\ x \in DOMAIN blk
  PROVE  TreeOK(PoolAdd(T, SizeIn(B), q), SizeIn(B)) /\ DOMAIN PoolAdd(T, SizeIn(B), q).node = D \cup {q}
<1>1. PICK size, size2 : size = SizeIn(blk) /\ size2 = SizeIn(B)
  OBVIOUS
<1>2. TreeOK(T, size) /\ DOMAIN T.node = D
  BY <1>1 DEF TreeOf
<1>3. \A t \in DOMAIN T.node : size2[t] = size[t]
  BY <1>1, <1>2, SizeInIs
<1>4. TreeOK(T, size2)
  BY <1>2, <1>3, TreeSizes
<1>5. size2[q] \in Nat
  BY <1>1, SizeInIs
<1>6. TreeOK(PoolAdd(T, size2, q), size2) /\ DOMAIN PoolAdd(T, size2, q).node = DOMAIN T.node \cup {q}
  BY <1>2, <1>4, <1>5, AddKeeps
<1>. QED
  BY <1>1, <1>2, <1>6

\* poolfree's result, in the words of its parts.
LEMMA PoolFreeIs ==
  ASSUME NEW b, PoolFree(b)
  PROVE  \E T1, T2 :
           /\ T1 = IF Fore(blk, b) THEN PoolDel(tree, Next1(blk, b)) ELSE tree
           /\ T2 = IF Back(blk, tail, b) THEN PoolDel(T1, tail[b]) ELSE T1
           /\ cursize' = cursize - blk[b].size
           /\ blk' = [Forget(blk, Gone(blk, tail, b)) EXCEPT ![Whole(blk, tail, b)] = Header("F", AllOf(blk, tail, b))]
           /\ tail' = Over(Forget(tail, Gone(blk, tail, b)), At(Whole(blk, tail, b) + AllOf(blk, tail, b), Whole(blk, tail, b)))
           /\ root' = PoolAdd(T2, SizeIn(blk'), Whole(blk, tail, b)).root
           /\ node' = PoolAdd(T2, SizeIn(blk'), Whole(blk, tail, b)).node
<1>1. (JoinsFore(b) <=> Fore(blk, b)) /\ (JoinsBack(b) <=> Back(blk, tail, b)) /\ B2NB(b) = Next1(blk, b)
  BY DEF JoinsFore, JoinsBack, Fore, Back, B2NB, Next1
<1>. QED
  BY <1>1, Zenon DEF PoolFree, Gone, Whole, AllOf, Tree, B2NB, Next1

\* The leaders with what they hold are as they were: so is their number.
LEMMA LeadsCount ==
  ASSUME NEW B2, NEW B, SameLeads(B2, B)
  PROVE  Cardinality(Leads(B2)) = Cardinality(Leads(B))
BY DEF SameLeads

\* poolfree keeps the pool.
LEMMA FreeKeeps ==
  ASSUME PoolOK, NEW b \in InUse(blk), PoolFree(b), UNCHANGED <<chain, arenasize, brk, lost, maxsize>>
  PROVE  PoolOK' /\ InUse(blk') = InUse(blk) \ {b}
<1>1. PICK gone, q, all : gone = Gone(blk, tail, b) /\ q = Whole(blk, tail, b) /\ all = AllOf(blk, tail, b)
  OBVIOUS
<1>2. PICK T1, T2 :
        /\ T1 = IF Fore(blk, b) THEN PoolDel(tree, Next1(blk, b)) ELSE tree
        /\ T2 = IF Back(blk, tail, b) THEN PoolDel(T1, tail[b]) ELSE T1
        /\ cursize' = cursize - blk[b].size
        /\ blk' = [Forget(blk, gone) EXCEPT ![q] = Header("F", all)]
        /\ tail' = Over(Forget(tail, gone), At(q + all, q))
        /\ root' = PoolAdd(T2, SizeIn(blk'), q).root
        /\ node' = PoolAdd(T2, SizeIn(blk'), q).node
  BY <1>1, PoolFreeIs
<1>3. Sound(blk, tail, chain) /\ IsFiniteSet(DOMAIN blk) /\ Joined(blk) /\ Kinds(blk)
  BY PoolFacts DEF PoolOK
<1>4. WholeEnds(blk, tail, gone, q, all, b) /\ q \in DOMAIN blk
  <2>1. WholeEnds(blk, tail, gone, q, all, b)
    BY <1>1, <1>3, WholeEnd
  <2>. QED
    BY <2>1 DEF WholeEnds, Solid
<1>5. FreedAs(blk', tail', blk, tail, gone, q, all)
  <2>1. DOMAIN blk' = DOMAIN blk \ gone /\ blk'[q] = Header("F", all) /\ AgreeBut(blk', blk, {q})
    <3>1. q \in DOMAIN Forget(blk, gone) /\ DOMAIN Forget(blk, gone) = DOMAIN blk \ gone /\ \A x \in DOMAIN blk \ gone : Forget(blk, gone)[x] = blk[x]
      BY <1>4 DEF Forget, WholeEnds
    <3>. QED
      BY <1>2, <3>1 DEF AgreeBut
  <2>2. DOMAIN tail' = DOMAIN tail \ gone /\ tail'[q + all] = q /\ AgreeBut(tail', tail, {q + all})
    <3>1. q + all \in DOMAIN tail \ gone
      BY <1>4 DEF WholeEnds
    <3>2. PICK e : e = q + all
      OBVIOUS
    <3>3. tail' = Over(Forget(tail, gone), At(e, q)) /\ e \in DOMAIN tail \ gone
      BY <1>2, <3>1, <3>2
    <3>4. DOMAIN tail' = DOMAIN tail \ gone /\ tail'[e] = q /\ AgreeBut(tail', tail, {e})
      BY <3>3 DEF Over, At, Forget, AgreeBut
    <3>. QED
      BY <3>2, <3>4
  <2>. QED
    BY <2>1, <2>2 DEF FreedAs
<1>6. PICK B2 : B2 = blk'
  OBVIOUS
<1>7. AsFreed(B2, tail', blk, chain, gone, q, all)
  BY <1>1, <1>3, <1>5, <1>6, FreeLaid
<1>8. Sorted(B2, blk, gone, q, b) /\ Joined(B2)
  BY <1>1, <1>3, <1>5, <1>6, FreeSorted
<1>9. InUse(B2) = InUse(blk) \ {b}
  BY <1>8 DEF Sorted
<1>10. Laid(B2, tail', chain)
  BY <1>7 DEF AsFreed, Sound
<1>11. DOMAIN B2 \subseteq DOMAIN blk /\ q \in DOMAIN B2
  BY <1>4, <1>5, <1>6 DEF FreedAs, WholeEnds
<1>12. InMemory(B2, brk)
  BY <1>11 DEF PoolOK, InMemory
<1>13. TreeOK(PoolAdd(T2, SizeIn(B2), q), SizeIn(B2)) /\ DOMAIN PoolAdd(T2, SizeIn(B2), q).node = With(B2, "F")
  <2>1. PICK D : D = With(blk, "F") \ (gone \cup {q})
    OBVIOUS
  <2>2. TreeOf(T2, D)
    BY <1>1, <1>2, <2>1, NeighboursOff
  <2>3. q \notin D /\ q # nil /\ B2[q].size \in Nat
    BY <1>7, <1>11, <2>1, BlockFacts DEF AsFreed, Sound, Laid, nil
  <2>4. \A x \in D : x \in DOMAIN B2 /\ B2[x].size = blk[x].size /\ x \in DOMAIN blk
    BY <1>8, <1>11, <2>1 DEF Sorted
  <2>5. TreeOK(PoolAdd(T2, SizeIn(B2), q), SizeIn(B2)) /\ DOMAIN PoolAdd(T2, SizeIn(B2), q).node = D \cup {q}
    BY <1>11, <2>2, <2>3, <2>4, TreeWith
  <2>6. D \cup {q} = With(B2, "F")
    BY <1>8, <2>1 DEF Sorted
  <2>. QED
    BY <2>5, <2>6
<1>14. TreeHolds'
  <2>1. PICK T : T = PoolAdd(T2, SizeIn(B2), q)
    OBVIOUS
  <2>2. TreeOK(T, SizeIn(B2)) /\ DOMAIN T.node = With(B2, "F")
    BY <1>13, <2>1
  <2>3. tree' = [root |-> T.root, node |-> T.node] /\ node' = T.node
    BY <1>2, <1>6, <2>1 DEF tree
  <2>4. tree' = T
    BY <2>2, <2>3 DEF TreeOK
  <2>5. Is("F")' = With(B2, "F")
    BY <1>6 DEF Is, Blocks, With, Solid
  <2>. QED
    BY <1>6, <2>2, <2>3, <2>4, <2>5 DEF TreeHolds
<1>15. Books'
  <2>1. InUse(blk) \subseteq Solid(blk)
    BY DEF InUse, With
  <2>2. IsFiniteSet(InUse(blk)) /\ \A x \in InUse(blk) : blk[x].size \in Nat
    BY <1>3, <2>1, SolidFinite
  <2>3. Weight(blk, InUse(blk)) = Weight(blk, InUse(blk) \ {b}) + blk[b].size /\ Weight(blk, InUse(blk) \ {b}) \in Nat
    BY <2>2, WeightLess
  <2>4. Weight(B2, InUse(B2)) = Weight(blk, InUse(B2))
    <3>1. \A x \in InUse(B2) : B2[x].size = blk[x].size
      BY <1>8 DEF Sorted
    <3>. QED
      BY <3>1, WeightSame
  <2>5. cursize' = Weight(B2, InUse(B2))
    <3>1. cursize = Weight(blk, InUse(blk)) /\ blk[b].size \in Nat
      BY <2>2 DEF PoolOK, Books
    <3>. QED
      BY <1>2, <1>9, <2>3, <2>4, <3>1
  <2>6. Weight(B2, Solid(B2)) = Weight(blk, Solid(blk)) /\ Cardinality(Leads(B2)) = Cardinality(Leads(blk))
    BY <1>7, LeadsCount DEF AsFreed
  <2>. QED
    BY <1>6, <2>5, <2>6 DEF PoolOK, Books
<1>. QED
  BY <1>6, <1>8, <1>9, <1>10, <1>12, <1>14, <1>15 DEF PoolOK

\* The free tree after a step.
LEMMA TreeNow ==
  ASSUME NEW T, root' = T.root, node' = T.node, TreeOK(T, SizeIn(blk')), DOMAIN T.node = With(blk', "F")
  PROVE  TreeHolds'
<1>1. PICK B2 : B2 = blk'
  OBVIOUS
<1>2. tree' = [root |-> T.root, node |-> T.node]
  BY DEF tree
<1>3. tree' = T
  BY <1>2 DEF TreeOK
<1>4. Is("F")' = With(B2, "F")
  BY <1>1 DEF Is, Blocks, With, Solid
<1>. QED
  BY <1>1, <1>3, <1>4 DEF TreeHolds

\* The tree is T, of blocks that are as they were.
LEMMA TreeStays ==
  ASSUME PoolOK, NEW T, NEW D, TreeOf(T, D), root' = T.root, node' = T.node, With(blk', "F") = D,
         \A x \in D : x \in DOMAIN blk /\ x \in DOMAIN blk' /\ blk'[x].size = blk[x].size
  PROVE  TreeHolds'
<1>1. PICK size, size2 : size = SizeIn(blk) /\ size2 = SizeIn(blk')
  OBVIOUS
<1>2. \A t \in DOMAIN T.node : size2[t] = size[t]
  BY <1>1, SizeInIs DEF TreeOf
<1>3. TreeOK(T, size2)
  BY <1>1, <1>2, TreeSizes DEF TreeOf
<1>. QED
  BY <1>1, <1>3, TreeNow DEF TreeOf

\* The free tree is one of the free blocks.
LEMMA TreeOfFree ==
  ASSUME PoolOK
  PROVE  TreeOf(tree, With(blk, "F")) /\ \A x \in With(blk, "F") : x \in DOMAIN blk
<1>1. TreeHolds /\ tree.node = node
  BY DEF PoolOK, tree
<1>. QED
  BY <1>1, PoolFacts DEF TreeHolds, TreeOf, With, Solid

\* One fewer is what pooldel leaves.
LEMMA TreeWithout ==
  ASSUME PoolOK, NEW q \in With(blk, "F")
  PROVE  TreeOf(PoolDel(tree, q), With(blk, "F") \ {q})
<1>1. PICK F : F = With(blk, "F") /\ q \in F /\ TreeOf(tree, F)
  BY TreeOfFree
<1>2. TreeOK(PoolDel(tree, q), SizeIn(blk)) /\ DOMAIN PoolDel(tree, q).node = DOMAIN tree.node \ {q}
  BY <1>1, DelKeeps DEF TreeOf
<1>. QED
  BY <1>1, <1>2 DEF TreeOf

\* What is in use and free when a block's magic changes, but not to a free one's.
RetagSorts(B2, B, q) ==
  /\ InUse(B2) = InUse(B) \cup {q} /\ With(B2, "F") = With(B, "F") \ {q} /\ Joined(B2)

\* So it is when a block is taken whole, or tagged.
LEMMA RetagSorted ==
  ASSUME NEW B, NEW B2, NEW tl, NEW ch, Sound(B, tl, ch), NEW q \in Solid(B) \ Leads(B),
         NEW m \in {"A", "I"}, Retagged(B2, B, q, m), Joined(B)
  PROVE  RetagSorts(B2, B, q)
<1>1. /\ Sound(B2, tl, ch) /\ Solid(B2) = Solid(B)
      /\ \A x \in DOMAIN B : B2[x].size = B[x].size
  BY RetagLaid
<1>2. Kinds(B) /\ Kinds(B2) /\ Tiles(B, tl)
  BY <1>1 DEF Sound, Laid
<1>3. B2[q].magic = m /\ \A x \in DOMAIN B : x # q => B2[x] = B[x]
  BY HeaderFields DEF Retagged, AgreeBut
<1>4. \A x \in Solid(B) : x \in DOMAIN B
  BY DEF Solid
<1>5. \A x : x \in InUse(B2) <=> x \in InUse(B) \/ x = q
  <2>1. \A x : x \in InUse(B) <=> x \in Solid(B) /\ B[x].magic \in {"A", "I"}
    BY <1>2, BlockFacts
  <2>2. \A x : x \in InUse(B2) <=> x \in Solid(B2) /\ B2[x].magic \in {"A", "I"}
    BY <1>2, BlockFacts
  <2>. QED
    BY <1>1, <1>3, <1>4, <2>1, <2>2
<1>6. \A x : x \in With(B2, "F") <=> x \in With(B, "F") /\ x # q
  <2>1. \A x : x \in With(B, "F") <=> x \in Solid(B) /\ B[x].magic = "F"
    BY <1>2, BlockFacts
  <2>2. \A x : x \in With(B2, "F") <=> x \in Solid(B2) /\ B2[x].magic = "F"
    BY <1>2, BlockFacts
  <2>. QED
    BY <1>1, <1>3, <1>4, <2>1, <2>2
<1>7. Joined(B2)
  <2>1. SUFFICES ASSUME NEW x \in With(B2, "F") PROVE B2[x + B2[x].size].magic # "F"
    BY DEF Joined
  <2>2. x \in With(B, "F") /\ x \in Solid(B) /\ x \in DOMAIN B
    BY <1>6 DEF With, Solid
  <2>3. PICK y : y = x + B[x].size /\ y \in DOMAIN B /\ B[y].magic # "F"
    BY <1>2, <2>2 DEF Joined, Tiles
  <2>4. B2[y].magic # "F"
    BY <1>3, <2>3
  <2>. QED
    BY <1>1, <2>2, <2>3, <2>4
<1>8. InUse(B2) = InUse(B) \cup {q}
  BY <1>5
<1>9. With(B2, "F") = With(B, "F") \ {q}
  BY <1>6
<1>. QED
  BY <1>7, <1>8, <1>9 DEF RetagSorts

\* What is in use and free when a block is divided.
HalveSorts(B2, B, q, w) ==
  /\ InUse(B2) = InUse(B) \cup {q} /\ With(B2, "F") = (With(B, "F") \ {q}) \cup {w}
  /\ \A x \in Solid(B) \ {q} : x \in DOMAIN B2 /\ B2[x] = B[x]
  /\ Joined(B2)

\* So it is when a block is split.
LEMMA HalveSorted ==
  ASSUME NEW B, NEW B2, NEW tl, NEW tl2, NEW ch, Sound(B, tl, ch),
         NEW q \in Solid(B) \ Leads(B), NEW n \in Nat \ {0}, NEW k \in Nat \ {0}, B[q].size = n + k,
         Halved(B2, tl2, B, tl, q, n, k), Joined(B), B[q + B[q].size].magic # "F"
  PROVE  HalveSorts(B2, B, q, q + n)
<1>0. PICK w : w = q + n
  OBVIOUS
<1>1. Sound(B2, tl2, ch) /\ Solid(B2) = Solid(B) \cup {w} /\ w \notin DOMAIN B
  BY <1>0, HalveLaid DEF HalveDone
<1>2. Kinds(B) /\ Kinds(B2) /\ Tiles(B, tl) /\ \A x \in DOMAIN B : x \in Nat \ {0}
  BY <1>1 DEF Sound, Laid
<1>3. /\ B2[q].magic = "A" /\ B2[w].magic = "F" /\ B2[w].size = k /\ B2[q].size = n
      /\ \A x \in DOMAIN B : x # q => x \in DOMAIN B2 /\ B2[x] = B[x]
  <2>1. B2[q] = Header("A", n) /\ B2[w] = Header("F", k) /\ DOMAIN B2 = DOMAIN B \cup {w} /\ AgreeBut(B2, B, {q, w})
    BY <1>0 DEF Halved
  <2>. QED
    BY <1>1, <2>1, HeaderFields DEF AgreeBut
<1>4. \A x \in Solid(B) : x \in DOMAIN B
  BY DEF Solid
<1>5. w # q
  BY <1>1, <1>4
<1>6. \A x : x \in InUse(B2) <=> x \in InUse(B) \/ x = q
  <2>1. \A x : x \in InUse(B) <=> x \in Solid(B) /\ B[x].magic \in {"A", "I"}
    BY <1>2, BlockFacts
  <2>2. \A x : x \in InUse(B2) <=> x \in Solid(B2) /\ B2[x].magic \in {"A", "I"}
    BY <1>2, BlockFacts
  <2>3. w \notin Solid(B) /\ ~(B2[w].magic \in {"A", "I"})
    BY <1>1, <1>3, <1>4
  <2>4. B2[q].magic \in {"A", "I"} /\ q \in Solid(B)
    BY <1>3
  <2>. QED
    BY <1>1, <1>3, <1>4, <2>1, <2>2, <2>3, <2>4
<1>7. \A x : x \in With(B2, "F") <=> (x \in With(B, "F") /\ x # q) \/ x = w
  <2>1. \A x : x \in With(B, "F") <=> x \in Solid(B) /\ B[x].magic = "F"
    BY <1>2, BlockFacts
  <2>2. \A x : x \in With(B2, "F") <=> x \in Solid(B2) /\ B2[x].magic = "F"
    BY <1>2, BlockFacts
  <2>. QED
    BY <1>1, <1>3, <1>4, <1>5, <2>1, <2>2
<1>8. PICK e : e = q + B[q].size /\ e \in DOMAIN B /\ e = w + k /\ B[e].magic # "F" /\ e # q /\ tl[e] = q
  <2>1. q + B[q].size \in DOMAIN B /\ tl[q + B[q].size] = q
    BY <1>2 DEF Tiles
  <2>2. q \in Nat
    BY <1>2, <1>4
  <2>3. q + B[q].size = w + k /\ q + B[q].size # q
    BY <1>0, <2>2
  <2>. QED
    BY <2>1, <2>3
<1>9. Joined(B2)
  <2>1. SUFFICES ASSUME NEW x \in With(B2, "F") PROVE B2[x + B2[x].size].magic # "F"
    BY DEF Joined
  <2>2. CASE x = w
    BY <1>3, <1>8, <2>2
  <2>3. CASE x # w
    <3>1. x \in With(B, "F") /\ x # q /\ x \in Solid(B)
      BY <1>7, <2>3 DEF With
    <3>2. PICK y : y = x + B[x].size /\ y \in DOMAIN B /\ B[y].magic # "F"
      BY <1>2, <3>1 DEF Joined, Tiles
    <3>3. B2[y].magic # "F"
      BY <1>3, <3>2
    <3>. QED
      BY <1>3, <1>4, <3>1, <3>2, <3>3
  <2>. QED
    BY <2>2, <2>3
<1>10. InUse(B2) = InUse(B) \cup {q}
  BY <1>6
<1>11. With(B2, "F") = (With(B, "F") \ {q}) \cup {w}
  BY <1>7
<1>. QED
  BY <1>0, <1>3, <1>4, <1>9, <1>10, <1>11 DEF HalveSorts

\* A block whose magic is changed keeps its size.
LEMMA MagicIs ==
  ASSUME NEW B, Kinds(B), NEW q \in Solid(B) \ Leads(B), NEW m
  PROVE  [B[q] EXCEPT !.magic = m] = Header(m, B[q].size)
<1>1. B[q] \in [magic : {"A", "F", "I"}, size : Nat \ {0}]
  BY DEF Kinds, Solid, Leads, With
<1>. QED
  BY <1>1 DEF Header

\* A free block, or one in use, taken whole.
LEMMA RetagIs ==
  ASSUME NEW B, NEW B2, Kinds(B), NEW q \in Solid(B) \ Leads(B), NEW m, B2 = [B EXCEPT ![q].magic = m]
  PROVE  Retagged(B2, B, q, m)
<1>1. q \in DOMAIN B
  BY DEF Solid
<1>2. B2[q] = [B[q] EXCEPT !.magic = m] /\ DOMAIN B2 = DOMAIN B /\ \A x \in DOMAIN B : x # q => B2[x] = B[x]
  BY <1>1
<1>. QED
  BY <1>2, MagicIs DEF Retagged, AgreeBut

\* poolalloc takes a free block.
LEMMA TakeWhole ==
  ASSUME PoolOK, NEW q \in With(blk, "F"),
         blk' = [blk EXCEPT ![q].magic = "A"], cursize' = cursize + blk[q].size, Tree(PoolDel(tree, q)),
         UNCHANGED <<tail, chain, arenasize, brk, lost, maxsize>>
  PROVE  PoolOK' /\ InUse(blk) \subseteq InUse(blk')
<1>1. Sound(blk, tail, chain) /\ IsFiniteSet(DOMAIN blk) /\ Joined(blk) /\ Kinds(blk)
  BY PoolFacts DEF PoolOK
<1>2. q \in Solid(blk) \ Leads(blk) /\ q \in Solid(blk) /\ q \notin InUse(blk)
  BY <1>1, BlockFacts
<1>3. PICK B2 : B2 = blk'
  OBVIOUS
<1>4. Retagged(B2, blk, q, "A")
  BY <1>1, <1>2, <1>3, RetagIs
<1>5. /\ Sound(B2, tail, chain) /\ SameLeads(B2, blk) /\ Solid(B2) = Solid(blk)
      /\ \A x \in DOMAIN blk : B2[x].size = blk[x].size
  BY <1>1, <1>2, <1>4, RetagLaid
<1>6. RetagSorts(B2, blk, q)
  BY <1>1, <1>2, <1>4, RetagSorted
<1>7. DOMAIN B2 = DOMAIN blk
  BY <1>4 DEF Retagged
<1>8. TreeHolds'
  <2>1. PICK T, D : T = PoolDel(tree, q) /\ D = With(blk, "F") \ {q}
    OBVIOUS
  <2>2. TreeOf(T, D) /\ root' = T.root /\ node' = T.node
    BY <2>1, TreeWithout DEF Tree
  <2>3. With(blk', "F") = D /\ \A x \in D : x \in DOMAIN blk /\ x \in DOMAIN blk' /\ blk'[x].size = blk[x].size
    BY <1>3, <1>5, <1>6, <1>7, <2>1, TreeOfFree DEF RetagSorts
  <2>. QED
    BY <2>2, <2>3, TreeStays
<1>9. Books'
  <2>1. InUse(blk) \in SUBSET Solid(blk)
    BY DEF InUse, With
  <2>2. IsFiniteSet(InUse(blk)) /\ (\A x \in InUse(blk) : blk[x].size \in Nat) /\ blk[q].size \in Nat
    BY <1>1, <1>2, <2>1, SolidFinite, BlockFacts
  <2>3. Weight(blk, InUse(blk) \cup {q}) = Weight(blk, InUse(blk)) + blk[q].size
    BY <1>2, <2>2, WeightAdd
  <2>4. Weight(B2, InUse(B2)) = Weight(blk, InUse(blk) \cup {q})
    <3>1. \A x \in InUse(blk) \cup {q} : B2[x].size = blk[x].size
      BY <1>2, <1>5, <2>1 DEF Solid
    <3>2. InUse(B2) = InUse(blk) \cup {q}
      BY <1>6 DEF RetagSorts
    <3>. QED
      BY <3>1, <3>2, WeightSame
  <2>5. Weight(B2, Solid(B2)) = Weight(blk, Solid(blk))
    <3>1. \A x \in Solid(blk) : B2[x].size = blk[x].size
      BY <1>5 DEF Solid
    <3>. QED
      BY <1>5, <3>1, WeightSame
  <2>6. Cardinality(Leads(B2)) = Cardinality(Leads(blk))
    BY <1>5, LeadsCount
  <2>. QED
    BY <1>3, <2>3, <2>4, <2>5, <2>6 DEF PoolOK, Books
<1>10. Laid(B2, tail, chain) /\ Joined(B2) /\ InMemory(B2, brk) /\ InUse(blk) \subseteq InUse(B2)
  BY <1>5, <1>6, <1>7 DEF Sound, RetagSorts, PoolOK, InMemory
<1>. QED
  BY <1>3, <1>8, <1>9, <1>10 DEF PoolOK

\* The tails a division makes.
TwoTails(q, w, y) == [a \in {w, y} |-> IF a = w THEN q ELSE w]

HasTwo(tl2, tl, q, w, y) ==
  DOMAIN tl2 = DOMAIN tl \cup {w} /\ tl2[w] = q /\ tl2[y] = w /\ AgreeBut(tl2, tl, {w, y})

\* They are written over those there were.
LEMMA OverTwo ==
  ASSUME NEW tl, NEW tl2, NEW w, NEW y, y \in DOMAIN tl, w # y, NEW q,
         tl2 = Over(tl, TwoTails(q, w, y))
  PROVE  HasTwo(tl2, tl, q, w, y)
BY DEF Over, AgreeBut, TwoTails, HasTwo

\* poolalloc divides a free block.
LEMMA TakeSplit ==
  ASSUME PoolOK, NEW q \in With(blk, "F"), NEW n \in Nat \ {0}, NEW k \in Nat \ {0}, blk[q].size = n + k,
         blk' = Over([blk EXCEPT ![q] = Header("A", n)], At(q + n, Header("F", k))),
         tail' = Over(tail, [a \in {q + n, q + n + k} |-> IF a = q + n THEN q ELSE q + n]),
         cursize' = cursize + n, Tree(PoolAdd(PoolDel(tree, q), SizeIn(blk'), q + n)),
         UNCHANGED <<chain, arenasize, brk, lost, maxsize>>
  PROVE  PoolOK' /\ InUse(blk) \subseteq InUse(blk')
<1>1. Sound(blk, tail, chain) /\ IsFiniteSet(DOMAIN blk) /\ Joined(blk) /\ Kinds(blk) /\ Tiles(blk, tail)
  BY PoolFacts DEF PoolOK, Laid
<1>2. q \in Solid(blk) \ Leads(blk) /\ q \in Solid(blk) /\ q \notin InUse(blk) /\ q \in DOMAIN blk
  BY <1>1, BlockFacts DEF Solid
<1>3. PICK B2, w : B2 = blk' /\ w = q + n
  OBVIOUS
<1>4. q + blk[q].size \in DOMAIN tail /\ q + blk[q].size = w + k /\ w # q /\ w # w + k /\ w \in Nat \ {0} /\ q \in Nat
  <2>1. q \in Nat
    BY <1>2, PoolFacts
  <2>2. q + blk[q].size \in DOMAIN tail
    BY <1>1, <1>2 DEF Tiles
  <2>. QED
    BY <1>3, <2>1, <2>2
<1>5. Halved(B2, tail', blk, tail, q, n, k)
  <2>1. DOMAIN B2 = DOMAIN blk \cup {w} /\ B2[q] = Header("A", n) /\ B2[w] = Header("F", k) /\ AgreeBut(B2, blk, {q, w})
    <3>1. PICK L : L = [blk EXCEPT ![q] = Header("A", n)]
      OBVIOUS
    <3>2. DOMAIN L = DOMAIN blk /\ L[q] = Header("A", n) /\ \A x \in DOMAIN blk : x # q => L[x] = blk[x]
      BY <1>2, <3>1
    <3>3. B2 = Over(L, At(w, Header("F", k)))
      BY <1>3, <3>1
    <3>. QED
      BY <1>2, <1>4, <3>2, <3>3 DEF Over, At, AgreeBut
  <2>2. DOMAIN tail' = DOMAIN tail \cup {w} /\ tail'[w] = q /\ tail'[w + k] = w /\ AgreeBut(tail', tail, {w, w + k})
    <3>1. PICK y : y = w + k /\ y \in DOMAIN tail /\ w # y
      BY <1>4
    <3>2. tail' = Over(tail, TwoTails(q, w, y))
      BY <1>3, <3>1 DEF TwoTails
    <3>3. HasTwo(tail', tail, q, w, y)
      BY <3>1, <3>2, OverTwo
    <3>. QED
      BY <3>1, <3>3 DEF HasTwo
  <2>. QED
    BY <1>3, <2>1, <2>2 DEF Halved
<1>6. Sound(B2, tail', chain) /\ SameLeads(B2, blk) /\ Solid(B2) = Solid(blk) \cup {w} /\ w \notin DOMAIN blk
  <2>1. HalveDone(B2, tail', blk, chain, q + n)
    BY <1>1, <1>2, <1>5, HalveLaid
  <2>. QED
    BY <1>3, <2>1 DEF HalveDone
<1>7. HalveSorts(B2, blk, q, w)
  <2>1. blk[q + blk[q].size].magic # "F"
    BY <1>1 DEF Joined
  <2>. QED
    BY <1>1, <1>2, <1>3, <1>5, <2>1, HalveSorted
<1>8. B2[q].size = n /\ B2[w].size = k /\ DOMAIN B2 = DOMAIN blk \cup {w}
  BY <1>3, <1>5, HeaderFields DEF Halved
<1>9. TreeHolds'
  <2>1. PICK T, D : T = PoolDel(tree, q) /\ D = With(blk, "F") \ {q} /\ TreeOf(T, D)
    BY TreeWithout
  <2>2. \A x \in D : x \in DOMAIN B2 /\ B2[x].size = blk[x].size /\ x \in DOMAIN blk
    BY <1>7, <2>1, TreeOfFree DEF HalveSorts, With
  <2>3. w \notin D /\ w # nil
    BY <1>4, <1>6, <2>2 DEF nil
  <2>4. TreeOK(PoolAdd(T, SizeIn(B2), w), SizeIn(B2)) /\ DOMAIN PoolAdd(T, SizeIn(B2), w).node = D \cup {w}
    BY <1>8, <2>1, <2>2, <2>3, TreeWith
  <2>5. With(B2, "F") = D \cup {w}
    BY <1>7, <2>1 DEF HalveSorts
  <2>6. PICK U : U = PoolAdd(T, SizeIn(B2), w)
    OBVIOUS
  <2>7. root' = U.root /\ node' = U.node
    BY <1>3, <2>1, <2>6 DEF Tree
  <2>. QED
    BY <1>3, <2>4, <2>5, <2>6, <2>7, TreeNow
<1>10. Books'
  <2>1. InUse(blk) \in SUBSET Solid(blk)
    BY DEF InUse, With
  <2>2. IsFiniteSet(InUse(blk)) /\ (\A x \in InUse(blk) : blk[x].size \in Nat)
    BY <1>1, <2>1, SolidFinite
  <2>3. \A x \in InUse(blk) : B2[x].size = blk[x].size
    BY <1>2, <1>7, <2>1 DEF HalveSorts
  <2>4. Weight(B2, InUse(blk) \cup {q}) = Weight(B2, InUse(blk)) + B2[q].size
    BY <1>2, <1>8, <2>2, <2>3, WeightAdd
  <2>5. Weight(B2, InUse(blk)) = Weight(blk, InUse(blk))
    BY <2>3, WeightSame
  <2>6. InUse(B2) = InUse(blk) \cup {q}
    BY <1>7 DEF HalveSorts
  <2>7. Weight(B2, Solid(B2)) = Weight(blk, Solid(blk))
    <3>1. \A x \in Solid(blk) \ {q} : B2[x].size = blk[x].size
      BY <1>7 DEF HalveSorts
    <3>2. w \notin Solid(blk)
      BY <1>6 DEF Solid
    <3>3. Weight(B2, Solid(blk) \cup {w}) = Weight(blk, Solid(blk))
      BY <1>1, <1>2, <1>8, <3>1, <3>2, HalveWeight
    <3>. QED
      BY <1>6, <3>3
  <2>8. Cardinality(Leads(B2)) = Cardinality(Leads(blk))
    BY <1>6, LeadsCount
  <2>. QED
    BY <1>3, <1>8, <2>4, <2>5, <2>6, <2>7, <2>8 DEF PoolOK, Books
<1>11. InMemory(B2, brk)
  <2>1. w + k \in DOMAIN blk /\ w < w + k
    BY <1>1, <1>4 DEF Tiles
  <2>2. w + k < brk /\ w + k <= Memory /\ Memory \in Nat /\ brk \in Nat
    BY <2>1, PoolFacts, PoolAssumption DEF PoolOK, InMemory
  <2>3. w \in Addr /\ w < brk
    BY <1>4, <2>1, <2>2 DEF Addr
  <2>. QED
    BY <1>8, <2>3 DEF PoolOK, InMemory
<1>12. Laid(B2, tail', chain) /\ Joined(B2) /\ InUse(blk) \subseteq InUse(B2)
  BY <1>6, <1>7 DEF Sound, HalveSorts
<1>. QED
  BY <1>3, <1>9, <1>10, <1>11, <1>12 DEF PoolOK

\* A block is free and large enough: poolalloc keeps the pool.
LEMMA TakeKeeps ==
  ASSUME PoolOK, NEW p \in Proc, NEW n \in Sizes, NEW old, TakeFree(p, n, old)
  PROVE  PoolOK' /\ InUse(blk) \subseteq InUse(blk')
<1>1. PICK q, ns : q = Search[n] /\ ns = blk[q].size - n
  OBVIOUS
<1>2. n \in Nat \ {0}
  BY PoolAssumption
<1>3. q \in With(blk, "F") /\ n <= blk[q].size
  <2>1. q # nil
    BY <1>1 DEF TakeFree
  <2>2. FoundFor(n)
    BY SearchIs DEF PoolOK
  <2>. QED
    BY <1>1, <2>1, <2>2, PoolFacts DEF FoundFor
<1>4. ns \in Nat /\ blk[q].size = n + ns
  <2>1. blk[q].size \in Nat
    BY <1>3, PoolFacts, BlockFacts
  <2>. QED
    BY <1>1, <1>2, <1>3, <2>1
<1>5. UNCHANGED <<chain, arenasize, brk, lost, maxsize>>
  BY DEF TakeFree
<1>6. CASE ns = 0 \/ ~(4 * ns >= n)
  <2>1. /\ blk' = [blk EXCEPT ![q].magic = "A"] /\ cursize' = cursize + blk[q].size
        /\ Tree(PoolDel(tree, q)) /\ UNCHANGED tail
    BY <1>1, <1>6, Zenon DEF TakeFree
  <2>. QED
    BY <1>3, <1>5, <2>1, TakeWhole
<1>7. CASE ~(ns = 0 \/ ~(4 * ns >= n))
  <2>1. /\ blk' = Over([blk EXCEPT ![q] = Header("A", n)], At(q + n, Header("F", ns)))
        /\ tail' = Over(tail, [a \in {q + n, q + n + ns} |-> IF a = q + n THEN q ELSE q + n])
        /\ cursize' = cursize + n
        /\ Tree(PoolAdd(PoolDel(tree, q), SizeIn(blk'), q + n))
    BY <1>1, <1>7, Zenon DEF TakeFree
  <2>2. ns \in Nat \ {0}
    BY <1>4, <1>7
  <2>. QED
    BY <1>2, <1>3, <1>4, <1>5, <2>1, <2>2, TakeSplit
<1>. QED
  BY <1>6, <1>7

\* What is in use and free when there is another block in use, at b, past the free ones.
MoreSorts(B2, B, b) ==
  /\ InUse(B2) = InUse(B) \cup {b} /\ With(B2, "F") = With(B, "F") /\ Joined(B2) /\ b \notin InUse(B)
  /\ \A x \in InUse(B) \cup With(B, "F") : x \in DOMAIN B2 /\ B2[x] = B[x]

\* So it is in a new arena.
LEMMA ArenaSorted ==
  ASSUME NEW B, NEW B2, NEW tl, NEW tl2, NEW ch, Sound(B, tl, ch),
         NEW t \in Nat \ {0}, \A x \in DOMAIN B : x < t, NEW s \in Nat \ {0},
         ArenaMade(B2, tl2, B, tl, t, s, ch), Joined(B)
  PROVE  MoreSorts(B2, B, t + ldr)
<1>0. PICK b, e : b = t + ldr /\ e = t + ldr + s
  OBVIOUS
<1>1. Sound(B2, tl2, t) /\ Solid(B2) = Solid(B) \cup {t, b}
  BY <1>0, ArenaLaid
<1>2. Kinds(B) /\ Kinds(B2) /\ Tiles(B, tl) /\ \A x \in DOMAIN B : x \in Nat \ {0}
  BY <1>1 DEF Sound, Laid
<1>3. \A x \in DOMAIN B : x # t /\ x # b /\ x # e /\ x \in DOMAIN B2 /\ B2[x] = B[x]
  <2>1. \A x \in DOMAIN B : x # t /\ x # b /\ x # e
    BY <1>0, <1>2 DEF ldr
  <2>2. DOMAIN B2 = DOMAIN B \cup {t, b, e} /\ AgreeBut(B2, B, {t, b, e})
    BY <1>0 DEF ArenaMade
  <2>. QED
    BY <2>1, <2>2 DEF AgreeBut
<1>4. B2[b].magic = "A" /\ B2[t].magic = "E" /\ t # b
  <2>1. B2[b] = Header("A", s) /\ B2[t] = Leader(s + ldr, ch)
    BY <1>0 DEF ArenaMade
  <2>. QED
    BY <1>0, <2>1, HeaderFields DEF Leader, ldr
<1>5. \A x \in Solid(B) : x \in DOMAIN B
  BY DEF Solid
<1>6. \A x : x \in InUse(B) <=> x \in Solid(B) /\ B[x].magic \in {"A", "I"}
  BY <1>2, BlockFacts
<1>7. \A x : x \in InUse(B2) <=> x \in InUse(B) \/ x = b
  <2>1. \A x : x \in InUse(B2) <=> x \in Solid(B2) /\ B2[x].magic \in {"A", "I"}
    BY <1>2, BlockFacts
  <2>. QED
    BY <1>1, <1>3, <1>4, <1>5, <1>6, <2>1
<1>8. \A x : x \in With(B, "F") <=> x \in Solid(B) /\ B[x].magic = "F"
  BY <1>2, BlockFacts
<1>9. \A x : x \in With(B2, "F") <=> x \in With(B, "F")
  <2>1. \A x : x \in With(B2, "F") <=> x \in Solid(B2) /\ B2[x].magic = "F"
    BY <1>2, BlockFacts
  <2>. QED
    BY <1>1, <1>3, <1>4, <1>5, <1>8, <2>1
<1>10. Joined(B2)
  <2>1. SUFFICES ASSUME NEW x \in With(B2, "F") PROVE B2[x + B2[x].size].magic # "F"
    BY DEF Joined
  <2>2. x \in With(B, "F") /\ x \in Solid(B) /\ x \in DOMAIN B
    BY <1>5, <1>8, <1>9
  <2>3. PICK y : y = x + B[x].size /\ y \in DOMAIN B /\ B[y].magic # "F"
    BY <1>2, <2>2 DEF Joined, Tiles
  <2>. QED
    BY <1>3, <2>2, <2>3
<1>11. InUse(B2) = InUse(B) \cup {b}
  BY <1>7
<1>12. With(B2, "F") = With(B, "F")
  BY <1>9
<1>13. b \notin InUse(B)
  BY <1>3, <1>5, <1>6
<1>. QED
  BY <1>0, <1>3, <1>5, <1>6, <1>8, <1>10, <1>11, <1>12, <1>13 DEF MoreSorts

\* And where the last arena has grown.
LEMMA GrowSorted ==
  ASSUME NEW B, NEW B2, NEW tl, NEW tl2, NEW ch, Sound(B, tl, ch), ch # nil, NEW k \in Nat \ {0},
         ArenaGrown(B2, tl2, B, tl, ch, k), Joined(B)
  PROVE  MoreSorts(B2, B, Lim(B, ch))
<1>0. PICK q, e : q = Lim(B, ch) /\ e = Lim(B, ch) + k
  OBVIOUS
<1>1. /\ Sound(B2, tl2, ch) /\ Solid(B2) = Solid(B) \cup {q} /\ B[q] = EndMark
      /\ ch \in Leads(B) /\ \A x \in DOMAIN B : x <= q
  BY <1>0, GrowLaid
<1>2. Kinds(B) /\ Kinds(B2) /\ Tiles(B, tl) /\ Bounds(B) /\ \A x \in DOMAIN B : x \in Nat \ {0}
  BY <1>1 DEF Sound, Laid
<1>3. q \in DOMAIN B /\ q \notin Solid(B) /\ ch \in Solid(B) /\ B[ch].magic = "E" /\ \A x \in Solid(B) : x \in DOMAIN B
  BY <1>0, <1>1, <1>2 DEF Bounds, Solid, Leads, With
<1>4. \A x \in DOMAIN B : x # q /\ x # ch => x \in DOMAIN B2 /\ B2[x] = B[x]
  <2>1. \A x \in DOMAIN B : x # e
    BY <1>0, <1>1, <1>2, <1>3
  <2>2. DOMAIN B2 = DOMAIN B \cup {e} /\ AgreeBut(B2, B, {ch, q, e})
    BY <1>0 DEF ArenaGrown
  <2>. QED
    BY <2>1, <2>2 DEF AgreeBut
<1>5. B2[q].magic = "A" /\ B2[ch].magic = "E"
  <2>1. B2[q] = Header("A", k) /\ B2[ch] = Leader(B[ch].csize + k, B[ch].clink)
    BY <1>0 DEF ArenaGrown
  <2>. QED
    BY <2>1, HeaderFields DEF Leader
<1>6. \A x : x \in InUse(B) <=> x \in Solid(B) /\ B[x].magic \in {"A", "I"}
  BY <1>2, BlockFacts
<1>7. \A x : x \in InUse(B2) <=> x \in InUse(B) \/ x = q
  <2>1. \A x : x \in InUse(B2) <=> x \in Solid(B2) /\ B2[x].magic \in {"A", "I"}
    BY <1>2, BlockFacts
  <2>. QED
    BY <1>1, <1>3, <1>4, <1>5, <1>6, <2>1
<1>8. \A x : x \in With(B, "F") <=> x \in Solid(B) /\ B[x].magic = "F"
  BY <1>2, BlockFacts
<1>9. \A x : x \in With(B2, "F") <=> x \in With(B, "F")
  <2>1. \A x : x \in With(B2, "F") <=> x \in Solid(B2) /\ B2[x].magic = "F"
    BY <1>2, BlockFacts
  <2>. QED
    BY <1>1, <1>3, <1>4, <1>5, <1>8, <2>1
<1>10. Joined(B2)
  <2>1. SUFFICES ASSUME NEW x \in With(B2, "F") PROVE B2[x + B2[x].size].magic # "F"
    BY DEF Joined
  <2>2. x \in With(B, "F") /\ x \in Solid(B) /\ x # ch
    BY <1>3, <1>8, <1>9
  <2>3. PICK y : y = x + B[x].size /\ y \in DOMAIN B /\ B[y].magic # "F"
    BY <1>2, <2>2 DEF Joined, Tiles
  <2>4. B2[y].magic # "F"
    BY <1>4, <1>5, <2>3
  <2>5. B2[x] = B[x]
    BY <1>3, <1>4, <2>2
  <2>. QED
    BY <2>3, <2>4, <2>5
<1>11. InUse(B2) = InUse(B) \cup {q}
  BY <1>7
<1>12. With(B2, "F") = With(B, "F")
  BY <1>9
<1>13. \A x \in InUse(B) \cup With(B, "F") : x \in DOMAIN B2 /\ B2[x] = B[x]
  BY <1>3, <1>4, <1>6, <1>8
<1>14. q \notin InUse(B)
  BY <1>3, <1>6
<1>. QED
  BY <1>0, <1>10, <1>11, <1>12, <1>13, <1>14 DEF MoreSorts

\* A pool asks for no more than it may have.
LEMMA ArenaFits ==
  ASSUME PoolOK, NEW n \in Sizes
  PROVE  /\ ArenaFor(n) \in Int /\ n \in Nat \ {0} /\ arenasize \in Nat
         /\ arenasize + ArenaFor(n) + 2 * ldr <= maxsize
<1>1. n \in Nat \ {0} /\ chunk \in Nat
  BY PoolAssumption
<1>2. arenasize \in Nat /\ maxsize \in Nat
  <2>1. Weight(blk, Solid(blk)) \in Nat /\ Cardinality(Leads(blk)) \in Nat
    <3>1. Leads(blk) \in SUBSET Solid(blk)
      BY DEF Leads, With
    <3>2. IsFiniteSet(Leads(blk)) /\ Weight(blk, Solid(blk)) \in Nat
      BY <3>1, PoolFacts, SolidFinite
    <3>. QED
      BY <3>2, FS_CardinalityType
  <2>. QED
    BY <2>1 DEF PoolOK, Books
<1>. QED
  BY <1>1, <1>2 DEF ArenaFor, ldr

\* One more block of the pool is in use: the books that go with it.
MoreUse(B2, b) ==
  InUse(B2) = InUse(blk) \cup {b} /\ b \notin InUse(blk) /\ \A x \in InUse(blk) : B2[x] = blk[x]

\* The blocks in use weigh as much more as that one.
LEMMA MoreBooks ==
  ASSUME PoolOK, NEW B2, Kinds(B2), IsFiniteSet(DOMAIN B2), NEW b, MoreUse(B2, b), NEW k \in Nat, B2[b].size = k
  PROVE  Weight(B2, InUse(B2)) = cursize + k
<1>1. Kinds(blk) /\ IsFiniteSet(DOMAIN blk) /\ InUse(blk) \in SUBSET Solid(blk)
  BY PoolFacts DEF InUse, With
<1>2. IsFiniteSet(InUse(blk)) /\ (\A x \in InUse(blk) : blk[x].size \in Nat)
  BY <1>1, SolidFinite
<1>3. InUse(B2) = InUse(blk) \cup {b} /\ b \notin InUse(blk) /\ \A x \in InUse(blk) : B2[x] = blk[x]
  BY DEF MoreUse
<1>4. Weight(B2, InUse(blk) \cup {b}) = Weight(B2, InUse(blk)) + B2[b].size
  BY <1>2, <1>3, WeightAdd
<1>5. Weight(B2, InUse(blk)) = Weight(blk, InUse(blk))
  BY <1>3, WeightSame
<1>. QED
  BY <1>3, <1>4, <1>5 DEF PoolOK, Books

\* A new arena weighs its leader and its block.
LEMMA ArenaWeight ==
  ASSUME PoolOK, NEW B2, NEW t, NEW s \in Nat, t \notin DOMAIN blk, t + ldr \notin DOMAIN blk, t \in Nat,
         Solid(B2) = Solid(blk) \cup {t, t + ldr}, Leads(B2) = Leads(blk) \cup {t},
         B2[t].size = ldr, B2[t + ldr].size = s, \A x \in DOMAIN blk : B2[x] = blk[x]
  PROVE  /\ Weight(B2, Solid(B2)) = Weight(blk, Solid(blk)) + ldr + s
         /\ Cardinality(Leads(B2)) = Cardinality(Leads(blk)) + 1
<1>1. Kinds(blk) /\ IsFiniteSet(DOMAIN blk) /\ Leads(blk) \in SUBSET Solid(blk) /\ Solid(blk) \in SUBSET Solid(blk) /\ Solid(blk) \subseteq DOMAIN blk
  BY PoolFacts DEF Leads, With, Solid
<1>2. IsFiniteSet(Solid(blk)) /\ (\A x \in Solid(blk) : blk[x].size \in Nat) /\ IsFiniteSet(Leads(blk)) /\ Weight(blk, Solid(blk)) \in Nat
  BY <1>1, SolidFinite
<1>3. PICK S, b : S = Solid(blk) /\ b = t + ldr
  OBVIOUS
<1>4. \A x \in S : B2[x].size = blk[x].size
  BY <1>1, <1>3
<1>5. t \notin S /\ b \notin S \cup {t} /\ ldr \in Nat
  BY <1>1, <1>3 DEF ldr
<1>6. Weight(B2, S) = Weight(blk, S)
  BY <1>4, WeightSame
<1>7. Weight(B2, S \cup {t}) = Weight(B2, S) + B2[t].size
  BY <1>2, <1>3, <1>4, <1>5, WeightAdd
<1>8. Weight(B2, (S \cup {t}) \cup {b}) = Weight(B2, S \cup {t}) + B2[b].size
  <2>1. IsFiniteSet(S \cup {t})
    BY <1>2, <1>3, FS_AddElement
  <2>2. \A x \in S \cup {t} : B2[x].size \in Nat
    BY <1>2, <1>3, <1>4, <1>5
  <2>. QED
    BY <1>3, <1>5, <2>1, <2>2, WeightAdd
<1>9. Solid(B2) = (S \cup {t}) \cup {b}
  BY <1>3
<1>10. Cardinality(Leads(blk) \cup {t}) = Cardinality(Leads(blk)) + 1
  <2>1. t \notin Leads(blk)
    BY <1>1
  <2>. QED
    BY <1>2, <2>1, FS_AddElement
<1>. QED
  BY <1>2, <1>3, <1>6, <1>7, <1>8, <1>9, <1>10

\* The pool with a new arena, of which blk' may yet be a division.
MadeAt(L, M, t, s) ==
  /\ ArenaMade(L, M, blk, tail, t, s, chain)
  /\ Sound(L, M, t) /\ Kinds(L) /\ IsFiniteSet(DOMAIN L) /\ MoreSorts(L, blk, t + ldr)
  /\ Weight(L, Solid(L)) = Weight(blk, Solid(blk)) + ldr + s
  /\ Cardinality(Leads(L)) = Cardinality(Leads(blk)) + 1
  /\ L[t + ldr].size = s /\ L[t + ldr + s] = EndMark /\ t + ldr \in Solid(L) \ Leads(L)
  /\ \A x \in DOMAIN L : x \in Addr /\ x <= t + ldr + s

\* An arena past the break makes such a pool.
LEMMA ArenaMakes ==
  ASSUME PoolOK, NEW t \in Nat, brk <= t, NEW s \in Nat \ {0}, t + ldr + s <= Memory,
         NEW L, NEW M, ArenaMade(L, M, blk, tail, t, s, chain)
  PROVE  MadeAt(L, M, t, s)
<1>1. Sound(blk, tail, chain) /\ IsFiniteSet(DOMAIN blk) /\ Joined(blk) /\ brk \in Nat \ {0} /\ \A x \in DOMAIN blk : x \in Nat \ {0} /\ x < brk /\ x <= Memory
  BY PoolFacts DEF PoolOK, InMemory
<1>2. PICK b, e : b = t + ldr /\ e = t + ldr + s
  OBVIOUS
<1>3. t \in Nat \ {0} /\ t < b /\ b < e /\ b \in Nat /\ e \in Nat /\ b = t + 1 /\ \A x \in DOMAIN blk : x < t
  BY <1>1, <1>2 DEF ldr
<1>4. Sound(L, M, t) /\ Solid(L) = Solid(blk) \cup {t, b} /\ Leads(L) = Leads(blk) \cup {t}
  BY <1>1, <1>2, <1>3, ArenaLaid
<1>5. MoreSorts(L, blk, t + ldr)
  BY <1>1, <1>3, ArenaSorted
<1>6. /\ DOMAIN L = DOMAIN blk \cup {t, b, e} /\ L[b].size = s /\ L[t].size = ldr /\ L[e] = EndMark
      /\ \A x \in DOMAIN blk : L[x] = blk[x]
  <2>1. /\ DOMAIN L = DOMAIN blk \cup {t, b, e} /\ AgreeBut(L, blk, {t, b, e})
        /\ L[t] = Leader(s + ldr, chain) /\ L[b] = Header("A", s) /\ L[e] = EndMark
    BY <1>2 DEF ArenaMade
  <2>2. \A x \in DOMAIN blk : x # t /\ x # b /\ x # e
    BY <1>1, <1>3
  <2>. QED
    BY <2>1, <2>2, HeaderFields DEF AgreeBut, Leader
<1>7. IsFiniteSet(DOMAIN L)
  <2>1. IsFiniteSet(DOMAIN blk \cup {t})
    BY <1>1, FS_AddElement
  <2>2. IsFiniteSet((DOMAIN blk \cup {t}) \cup {b})
    BY <2>1, FS_AddElement
  <2>3. IsFiniteSet(((DOMAIN blk \cup {t}) \cup {b}) \cup {e})
    BY <2>2, FS_AddElement
  <2>4. DOMAIN L = ((DOMAIN blk \cup {t}) \cup {b}) \cup {e}
    BY <1>6
  <2>. QED
    BY <2>3, <2>4
<1>8. t \notin DOMAIN blk /\ b \notin DOMAIN blk
  BY <1>1, <1>3
<1>9. Weight(L, Solid(L)) = Weight(blk, Solid(blk)) + ldr + s /\ Cardinality(Leads(L)) = Cardinality(Leads(blk)) + 1
  <2>1. Solid(L) = Solid(blk) \cup {t, t + ldr} /\ L[t + ldr].size = s /\ t + ldr \notin DOMAIN blk
    BY <1>2, <1>4, <1>6, <1>8
  <2>. QED
    BY <1>4, <1>6, <1>8, <2>1, ArenaWeight
<1>10. \A x \in DOMAIN L : x \in Addr /\ x <= e
  <2>1. Memory \in Nat /\ e <= Memory
    BY <1>2, PoolAssumption
  <2>. QED
    BY <1>1, <1>3, <1>6, <2>1 DEF Addr
<1>11. b \in Solid(L) \ Leads(L)
  <2>1. b \notin Leads(blk) /\ b # t
    BY <1>3, <1>8 DEF Leads, With, Solid
  <2>. QED
    BY <1>4, <2>1
<1>12. Kinds(L)
  BY <1>4 DEF Sound, Laid
<1>. QED
  BY <1>2, <1>4, <1>5, <1>6, <1>7, <1>9, <1>10, <1>11, <1>12 DEF MadeAt

\* All of the new arena is what was asked for.
LEMMA NewWhole ==
  ASSUME PoolOK, NEW t \in Nat, brk <= t, NEW n \in Nat \ {0}, t + ldr + n <= Memory,
         ArenaMade(blk', tail', blk, tail, t, n, chain), UNCHANGED <<root, node, lost, maxsize>>,
         chain' = t, arenasize' = arenasize + n + 2 * ldr, arenasize' <= maxsize, cursize' = cursize + n,
         brk' = t + ldr + n + ldr
  PROVE  PoolOK' /\ InUse(blk) \subseteq InUse(blk')
<1>1. PICK B2 : B2 = blk'
  OBVIOUS
<1>2. MadeAt(B2, tail', t, n)
  BY <1>1, ArenaMakes
<1>3. TreeHolds'
  <2>1. PICK T, D : T = tree /\ D = With(blk, "F") /\ TreeOf(T, D)
    BY TreeOfFree
  <2>2. root' = T.root /\ node' = T.node
    BY <2>1 DEF tree
  <2>3. With(B2, "F") = D /\ \A x \in D : x \in DOMAIN blk /\ x \in DOMAIN B2 /\ B2[x].size = blk[x].size
    BY <1>2, <2>1, TreeOfFree DEF MadeAt, MoreSorts
  <2>. QED
    BY <1>1, <2>1, <2>2, <2>3, TreeStays
<1>4. Books'
  <2>1. Weight(B2, InUse(B2)) = cursize + n
    <3>1. MoreUse(B2, t + ldr)
      BY <1>2 DEF MadeAt, MoreSorts, MoreUse
    <3>. QED
      BY <1>2, <3>1, MoreBooks DEF MadeAt
  <2>2. Weight(blk, Solid(blk)) \in Nat /\ Cardinality(Leads(blk)) \in Nat
    <3>1. Leads(blk) \in SUBSET Solid(blk)
      BY DEF Leads, With
    <3>2. IsFiniteSet(Leads(blk)) /\ Weight(blk, Solid(blk)) \in Nat
      BY <3>1, PoolFacts, SolidFinite
    <3>. QED
      BY <3>2, FS_CardinalityType
  <2>. QED
    BY <1>1, <1>2, <2>1, <2>2 DEF MadeAt, PoolOK, Books, ldr
<1>5. InMemory(B2, t + ldr + n + ldr)
  <2>1. PICK e : e = t + ldr + n /\ e \in Nat
    BY DEF ldr
  <2>2. \A x \in DOMAIN B2 : x \in Addr /\ x <= e
    BY <1>2, <2>1 DEF MadeAt
  <2>3. \A x \in DOMAIN B2 : x \in Addr /\ x < e + 1
    BY <2>1, <2>2, PoolAssumption DEF Addr
  <2>. QED
    BY <2>1, <2>3 DEF InMemory, ldr
<1>6. Laid(B2, tail', t) /\ Joined(B2) /\ InUse(blk) \subseteq InUse(B2)
  BY <1>2 DEF MadeAt, Sound, MoreSorts
<1>. QED
  BY <1>1, <1>3, <1>4, <1>5, <1>6 DEF PoolOK

\* What is left of the new arena becomes a free block.
LEMMA NewSplit ==
  ASSUME PoolOK, NEW t \in Nat, brk <= t, NEW n \in Nat \ {0}, NEW k \in Nat \ {0}, NEW s, s = n + k, t + ldr + s <= Memory,
         NEW L, NEW M, ArenaMade(L, M, blk, tail, t, s, chain), Halved(blk', tail', L, M, t + ldr, n, k),
         Tree(PoolAdd(tree, SizeIn(blk'), t + ldr + n)), UNCHANGED <<lost, maxsize>>,
         chain' = t, arenasize' = arenasize + s + 2 * ldr, arenasize' <= maxsize, cursize' = cursize + n,
         brk' = t + ldr + s + ldr
  PROVE  PoolOK' /\ InUse(blk) \subseteq InUse(blk')
<1>1. PICK B2, b, w : B2 = blk' /\ b = t + ldr /\ w = t + ldr + n
  OBVIOUS
<1>2. s \in Nat \ {0}
  OBVIOUS
<1>3. MadeAt(L, M, t, s) /\ b \in Solid(L) \ Leads(L) /\ L[b].size = n + k
  BY <1>1, <1>2, ArenaMakes DEF MadeAt
<1>4. Sound(L, M, t) /\ Joined(L) /\ Kinds(L) /\ IsFiniteSet(DOMAIN L) /\ MoreSorts(L, blk, b)
  BY <1>1, <1>3 DEF MadeAt, MoreSorts
<1>5. w = b + n /\ b \in Nat /\ w \in Nat \ {0} /\ b # w /\ w + k = t + ldr + s /\ w < w + k
  BY <1>1 DEF ldr
<1>6. Halved(B2, tail', L, M, b, n, k)
  BY <1>1
<1>7. HalveDone(B2, tail', L, t, b + n)
  BY <1>3, <1>4, <1>6, HalveLaid
<1>8. Sound(B2, tail', t) /\ SameLeads(B2, L) /\ Solid(B2) = Solid(L) \cup {w} /\ w \notin DOMAIN L
  BY <1>5, <1>7 DEF HalveDone
<1>9. HalveSorts(B2, L, b, b + n)
  <2>1. L[b + L[b].size].magic # "F"
    <3>1. b + L[b].size = t + ldr + s
      BY <1>3, <1>5
    <3>2. L[t + ldr + s].magic = "E"
      BY <1>3, HeaderFields DEF MadeAt, EndMark
    <3>. QED
      BY <3>1, <3>2
  <2>. QED
    BY <1>3, <1>4, <1>6, <2>1, HalveSorted
<1>10. B2[b].size = n /\ B2[w].size = k /\ DOMAIN B2 = DOMAIN L \cup {w} /\ B2[w].magic = "F"
  BY <1>5, <1>6, HeaderFields DEF Halved
<1>11. MoreSorts(L, blk, b) /\ HalveSorts(B2, L, b, w) /\ b \in InUse(L)
  BY <1>4, <1>5, <1>9 DEF MoreSorts
<1>12. /\ InUse(B2) = InUse(blk) \cup {b} /\ With(B2, "F") = With(blk, "F") \cup {w} /\ Joined(B2) /\ b \notin InUse(blk)
       /\ \A x \in InUse(blk) \cup With(blk, "F") : x \in DOMAIN B2 /\ B2[x] = blk[x]
  <2>1. b \notin With(L, "F")
    BY <1>4, <1>11, BlockFacts
  <2>2. With(B2, "F") = With(blk, "F") \cup {w} /\ InUse(B2) = InUse(blk) \cup {b}
    BY <1>11, <2>1 DEF MoreSorts, HalveSorts
  <2>3. \A x \in InUse(blk) \cup With(blk, "F") : x \in Solid(L) \ {b} /\ L[x] = blk[x]
    <3>1. \A x \in InUse(L) \cup With(L, "F") : x \in Solid(L)
      BY DEF InUse, With
    <3>. QED
      BY <1>11, <2>1, <3>1 DEF MoreSorts
  <2>4. \A x \in InUse(blk) \cup With(blk, "F") : x \in DOMAIN B2 /\ B2[x] = blk[x]
    BY <1>11, <2>3 DEF HalveSorts
  <2>. QED
    BY <1>11, <2>2, <2>4 DEF MoreSorts, HalveSorts
<1>13. TreeHolds'
  <2>1. PICK T, D : T = tree /\ D = With(blk, "F") /\ TreeOf(T, D)
    BY TreeOfFree
  <2>2. \A x \in D : x \in DOMAIN B2 /\ B2[x].size = blk[x].size /\ x \in DOMAIN blk
    BY <1>12, <2>1, TreeOfFree
  <2>3. w \notin D /\ w # nil
    <3>1. w \notin DOMAIN L
      BY <1>8
    <3>2. \A x \in D : x \in DOMAIN L
      BY <1>11, <2>1 DEF MoreSorts
    <3>. QED
      BY <1>5, <3>1, <3>2 DEF nil
  <2>4. TreeOK(PoolAdd(T, SizeIn(B2), w), SizeIn(B2)) /\ DOMAIN PoolAdd(T, SizeIn(B2), w).node = D \cup {w}
    BY <1>10, <2>1, <2>2, <2>3, TreeWith
  <2>5. PICK U : U = PoolAdd(T, SizeIn(B2), w)
    OBVIOUS
  <2>6. root' = U.root /\ node' = U.node
    BY <1>1, <2>1, <2>5 DEF Tree
  <2>. QED
    BY <1>1, <1>12, <2>1, <2>4, <2>5, <2>6, TreeNow
<1>14. Kinds(B2) /\ IsFiniteSet(DOMAIN B2)
  <2>1. IsFiniteSet(DOMAIN L \cup {w})
    BY <1>4, FS_AddElement
  <2>. QED
    BY <1>8, <1>10, <2>1 DEF Sound, Laid
<1>15. Books'
  <2>1. MoreUse(B2, b)
    BY <1>12 DEF MoreUse
  <2>2. Weight(B2, InUse(B2)) = cursize + n
    BY <1>10, <1>14, <2>1, MoreBooks
  <2>3. Weight(B2, Solid(B2)) = Weight(L, Solid(L)) /\ Cardinality(Leads(B2)) = Cardinality(Leads(L))
    <3>1. w \notin Solid(L) /\ b \in Solid(L)
      BY <1>3, <1>8 DEF Solid
    <3>2. \A x \in Solid(L) \ {b} : B2[x].size = L[x].size
      BY <1>11 DEF HalveSorts
    <3>3. L[b].size = B2[b].size + B2[w].size /\ B2[b].size \in Nat /\ B2[w].size \in Nat
      BY <1>3, <1>10
    <3>4. Weight(B2, Solid(L) \cup {w}) = Weight(L, Solid(L))
      BY <1>4, <3>1, <3>2, <3>3, HalveWeight
    <3>. QED
      BY <1>8, <3>4, LeadsCount
  <2>4. Weight(blk, Solid(blk)) \in Nat /\ Cardinality(Leads(blk)) \in Nat
    <3>1. Leads(blk) \in SUBSET Solid(blk)
      BY DEF Leads, With
    <3>2. IsFiniteSet(Leads(blk)) /\ Weight(blk, Solid(blk)) \in Nat
      BY <3>1, PoolFacts, SolidFinite
    <3>. QED
      BY <3>2, FS_CardinalityType
  <2>. QED
    BY <1>1, <1>2, <1>3, <2>2, <2>3, <2>4 DEF MadeAt, PoolOK, Books, ldr
<1>16. InMemory(B2, t + ldr + s + ldr)
  <2>1. PICK e : e = t + ldr + s /\ e \in Nat /\ w < e /\ w \in Nat \ {0} /\ e <= Memory
    BY <1>5 DEF ldr
  <2>2. \A x \in DOMAIN L : x \in Addr /\ x <= e
    BY <1>3, <2>1 DEF MadeAt
  <2>3. w \in Addr
    BY <2>1, PoolAssumption DEF Addr
  <2>4. \A x \in DOMAIN B2 : x \in Addr /\ x < e + 1
    BY <1>10, <2>1, <2>2, <2>3, PoolAssumption DEF Addr
  <2>. QED
    BY <2>1, <2>4 DEF InMemory, ldr
<1>17. Laid(B2, tail', t) /\ Joined(B2) /\ InUse(blk) \subseteq InUse(B2)
  BY <1>8, <1>12 DEF Sound
<1>. QED
  BY <1>1, <1>13, <1>15, <1>16, <1>17 DEF PoolOK

\* The headers and the tails of a new arena with one block.
ArenaHeaders(B, t, s, ch) ==
  Over(Over(B, At(t, Leader(s + ldr, ch))), Over(At(t + ldr, Header("A", s)), At(t + ldr + s, EndMark)))
ArenaTails(tl, t, s) == Over(tl, [a \in {t + ldr, t + ldr + s} |-> IF a = t + ldr THEN t ELSE t + ldr])

\* They make an arena of the one block.
LEMMA ArenaMadeIs ==
  ASSUME NEW B, NEW tl, NEW t \in Nat, NEW s \in Nat \ {0}, NEW ch
  PROVE  ArenaMade(ArenaHeaders(B, t, s, ch), ArenaTails(tl, t, s), B, tl, t, s, ch)
<1>1. PICK b, e : b = t + ldr /\ e = t + ldr + s
  OBVIOUS
<1>2. t # b /\ b # e /\ t # e
  BY <1>1 DEF ldr
<1>3. PICK h, v, L, M : h = Leader(s + ldr, ch) /\ v = Header("A", s) /\ L = ArenaHeaders(B, t, s, ch) /\ M = ArenaTails(tl, t, s)
  OBVIOUS
<1>4. L = Over(Over(B, At(t, h)), Over(At(b, v), At(e, EndMark)))
  BY <1>1, <1>3 DEF ArenaHeaders
<1>5. DOMAIN L = DOMAIN B \cup {t, b, e} /\ L[t] = h /\ L[b] = v /\ L[e] = EndMark /\ AgreeBut(L, B, {t, b, e})
  BY <1>2, <1>4 DEF Over, At, AgreeBut
<1>6. M = Over(tl, [a \in {b, e} |-> IF a = b THEN t ELSE b])
  BY <1>1, <1>3 DEF ArenaTails
<1>7. DOMAIN M = DOMAIN tl \cup {b, e} /\ M[b] = t /\ M[e] = b /\ AgreeBut(M, tl, {b, e})
  BY <1>2, <1>6 DEF Over, AgreeBut
<1>. QED
  BY <1>1, <1>3, <1>5, <1>7 DEF ArenaMade

\* What poolalloc writes in a new arena, when all is asked for and when not.
WholeHeaders(B, t, b, e, n, ch) ==
  Over(Over(B, At(t, Leader(n + ldr, ch))), Over(At(b, Header("A", n)), At(e, EndMark)))
SplitHeaders(B, t, b, q, e, s, n, k, ch) ==
  Over(Over(B, At(t, Leader(s + ldr, ch))),
       Over(At(b, Header("A", n)), Over(At(q, Header("F", k)), At(e, EndMark))))
NewTails(tl, t, b, q, e) == Over(tl, [a \in {b, q, e} |-> IF a = b THEN t ELSE IF a = q THEN b ELSE q])

\* All is: it is the arena's one block.
LEMMA NewWholeIs ==
  ASSUME NEW B, NEW tl, NEW t \in Nat, NEW n \in Nat \ {0}, NEW ch, NEW B2, NEW tl2, NEW b, b = t + ldr, NEW e, e = b + n,
         B2 = WholeHeaders(B, t, b, e, n, ch), tl2 = NewTails(tl, t, b, e, e)
  PROVE  ArenaMade(B2, tl2, B, tl, t, n, ch)
<1>1. b # e /\ e = t + ldr + n
  BY DEF ldr
<1>2. B2 = ArenaHeaders(B, t, n, ch)
  BY <1>1 DEF ArenaHeaders, WholeHeaders
<1>3. tl2 = ArenaTails(tl, t, n)
  <2>1. [a \in {b, e, e} |-> IF a = b THEN t ELSE IF a = e THEN b ELSE e] = [a \in {b, e} |-> IF a = b THEN t ELSE b]
    BY <1>1
  <2>2. tl2 = Over(tl, [a \in {b, e} |-> IF a = b THEN t ELSE b])
    BY <2>1 DEF NewTails
  <2>. QED
    BY <1>1, <2>2 DEF ArenaTails
<1>. QED
  BY <1>2, <1>3, ArenaMadeIs

\* Some is left: it is that block, divided.
LEMMA NewSplitIs ==
  ASSUME NEW B, NEW tl, NEW t \in Nat, NEW n \in Nat \ {0}, NEW k \in Nat \ {0}, NEW s, s = n + k, NEW ch,
         \A x \in DOMAIN B : x \in Nat /\ x < t, DOMAIN tl \subseteq DOMAIN B,
         NEW B2, NEW tl2, NEW b, b = t + ldr, NEW q, q = b + n, NEW e, e = b + s,
         B2 = SplitHeaders(B, t, b, q, e, s, n, k, ch), tl2 = NewTails(tl, t, b, q, e)
  PROVE  Halved(B2, tl2, ArenaHeaders(B, t, s, ch), ArenaTails(tl, t, s), b, n, k)
<1>1. t < b /\ b < q /\ q < e /\ t # b /\ t # q /\ t # e /\ b # q /\ b # e /\ q # e /\ e = t + ldr + s /\ e = q + k
  BY DEF ldr
<1>2. \A x \in DOMAIN B : x # t /\ x # b /\ x # q /\ x # e
  BY <1>1 DEF ldr
<1>3. PICK h, v, w, u : h = Leader(s + ldr, ch) /\ v = Header("A", n) /\ w = Header("F", k) /\ u = Header("A", s)
  OBVIOUS
<1>4. PICK L, M : L = ArenaHeaders(B, t, s, ch) /\ M = ArenaTails(tl, t, s)
  OBVIOUS
<1>5. L = Over(Over(B, At(t, h)), Over(At(b, u), At(e, EndMark)))
  BY <1>1, <1>3, <1>4 DEF ArenaHeaders
<1>6. B2 = Over(Over(B, At(t, h)), Over(At(b, v), Over(At(q, w), At(e, EndMark))))
  BY <1>3 DEF SplitHeaders
<1>7. DOMAIN L = DOMAIN B \cup {t, b, e} /\ L[t] = h /\ L[b] = u /\ L[e] = EndMark /\ AgreeBut(L, B, {t, b, e})
  BY <1>1, <1>5 DEF Over, At, AgreeBut
<1>8. DOMAIN B2 = DOMAIN B \cup {t, b, q, e} /\ B2[t] = h /\ B2[b] = v /\ B2[q] = w /\ B2[e] = EndMark /\ AgreeBut(B2, B, {t, b, q, e})
  BY <1>1, <1>6 DEF Over, At, AgreeBut
<1>9. M = Over(tl, [a \in {b, e} |-> IF a = b THEN t ELSE b])
  BY <1>1, <1>4 DEF ArenaTails
<1>10. DOMAIN M = DOMAIN tl \cup {b, e} /\ M[b] = t /\ M[e] = b /\ AgreeBut(M, tl, {b, e})
  BY <1>1, <1>9 DEF Over, AgreeBut
<1>11. DOMAIN tl2 = DOMAIN tl \cup {b, q, e} /\ tl2[b] = t /\ tl2[q] = b /\ tl2[e] = q /\ AgreeBut(tl2, tl, {b, q, e})
  BY <1>1 DEF Over, AgreeBut, NewTails
<1>12. DOMAIN B2 = DOMAIN L \cup {q} /\ AgreeBut(B2, L, {b, q})
  BY <1>2, <1>7, <1>8 DEF AgreeBut
<1>13. DOMAIN tl2 = DOMAIN M \cup {q} /\ AgreeBut(tl2, M, {q, e})
  <2>1. \A x \in DOMAIN tl : x # b /\ x # q /\ x # e
    BY <1>2
  <2>2. DOMAIN tl2 = DOMAIN M \cup {q}
    BY <1>10, <1>11
  <2>3. ASSUME NEW x \in DOMAIN tl2, x \notin {q, e} PROVE x \in DOMAIN M /\ tl2[x] = M[x]
    <3>1. CASE x = b
      BY <1>10, <1>11, <3>1
    <3>2. CASE x # b
      <4>1. x \in DOMAIN tl /\ tl2[x] = tl[x]
        BY <1>11, <2>3, <3>2 DEF AgreeBut
      <4>2. M[x] = tl[x] /\ x \in DOMAIN M
        BY <1>10, <2>3, <3>2, <4>1 DEF AgreeBut
      <4>. QED
        BY <4>1, <4>2
    <3>. QED
      BY <3>1, <3>2
  <2>. QED
    BY <2>2, <2>3 DEF AgreeBut
<1>. QED
  BY <1>1, <1>3, <1>4, <1>8, <1>11, <1>12, <1>13 DEF Halved

\* poolalloc makes a new arena.
LEMMA NewKeeps ==
  ASSUME PoolOK, NEW p \in Proc, NEW n \in Sizes, NEW old, NewArena(p, n, old)
  PROVE  PoolOK' /\ InUse(blk) \subseteq InUse(blk')
<1>1. PICK ns : ns = ArenaFor(n)
  OBVIOUS
<1>2. PICK gap \in Gaps :
     LET t == brk + gap
         b == t + ldr
         q == b + n
         end == b + ns
         B == Over(Over(blk, At(t, Leader(ns + ldr, chain))),
                   Over(At(b, Header("A", n)),
                        IF ns > n THEN Over(At(q, Header("F", ns - n)), At(end, EndMark))
                        ELSE At(end, EndMark)))
     IN /\ ns >= n
        /\ end <= Memory
        /\ blk' = B
        /\ tail' = Over(tail, [a \in {b, q, end} |->
                                 IF a = b THEN t ELSE IF a = q THEN b ELSE q])
        /\ IF ns > n THEN Tree(PoolAdd(tree, SizeIn(B), q)) ELSE UNCHANGED <<root, node>>
        /\ chain' = t
        /\ arenasize' = arenasize + ns + 2 * ldr
        /\ cursize' = cursize + n
        /\ brk' = end + ldr
        /\ UNCHANGED <<lost, maxsize>>
  BY <1>1, Zenon DEF NewArena
<1>3. PICK t, b, q, e : t = brk + gap /\ b = t + ldr /\ q = b + n /\ e = b + ns
  OBVIOUS
<1>4. /\ ns >= n /\ e <= Memory
      /\ blk' = Over(Over(blk, At(t, Leader(ns + ldr, chain))),
                     Over(At(b, Header("A", n)),
                          IF ns > n THEN Over(At(q, Header("F", ns - n)), At(e, EndMark)) ELSE At(e, EndMark)))
      /\ tail' = Over(tail, [a \in {b, q, e} |-> IF a = b THEN t ELSE IF a = q THEN b ELSE q])
      /\ IF ns > n THEN Tree(PoolAdd(tree, SizeIn(blk'), q)) ELSE UNCHANGED <<root, node>>
      /\ chain' = t /\ arenasize' = arenasize + ns + 2 * ldr /\ cursize' = cursize + n /\ brk' = e + ldr
      /\ UNCHANGED <<lost, maxsize>>
  BY <1>2, <1>3, Zenon
<1>5. ns \in Int /\ n \in Nat \ {0} /\ arenasize \in Nat /\ arenasize + ns + 2 * ldr <= maxsize
  BY <1>1, ArenaFits
<1>6. ns \in Nat \ {0} /\ t \in Nat /\ brk <= t /\ e = t + ldr + ns /\ arenasize' <= maxsize
  <2>1. gap \in Nat /\ brk \in Nat
    BY PoolAssumption DEF PoolOK, InMemory
  <2>. QED
    BY <1>3, <1>4, <1>5, <2>1 DEF ldr
<1>7. CASE ns = n
  <2>1. /\ blk' = WholeHeaders(blk, t, b, e, n, chain) /\ tail' = NewTails(tail, t, b, e, e)
        /\ e = b + n /\ UNCHANGED <<root, node>>
    <3>1. ~(ns > n) /\ e = b + n /\ q = e
      BY <1>3, <1>5, <1>7
    <3>. QED
      BY <1>4, <1>7, <3>1, Zenon DEF WholeHeaders, NewTails
  <2>2. ArenaMade(blk', tail', blk, tail, t, n, chain)
    <3>1. PICK B2, tl2 : B2 = blk' /\ tl2 = tail'
      OBVIOUS
    <3>2. ArenaMade(B2, tl2, blk, tail, t, n, chain)
      BY <1>3, <1>5, <1>6, <2>1, <3>1, NewWholeIs
    <3>. QED
      BY <3>1, <3>2
  <2>3. brk' = t + ldr + n + ldr /\ arenasize' = arenasize + n + 2 * ldr /\ t + ldr + n <= Memory
    BY <1>4, <1>6, <1>7
  <2>. QED
    BY <1>4, <1>5, <1>6, <2>1, <2>2, <2>3, NewWhole
<1>8. CASE ns > n
  <2>1. PICK k : k = ns - n /\ k \in Nat \ {0} /\ ns = n + k
    BY <1>5, <1>6, <1>8
  <2>2. /\ blk' = SplitHeaders(blk, t, b, q, e, ns, n, k, chain) /\ tail' = NewTails(tail, t, b, q, e)
        /\ Tree(PoolAdd(tree, SizeIn(blk'), q))
    BY <1>4, <1>8, <2>1, Zenon DEF SplitHeaders, NewTails
  <2>3. PICK L, M : L = ArenaHeaders(blk, t, ns, chain) /\ M = ArenaTails(tail, t, ns)
    OBVIOUS
  <2>4. ArenaMade(L, M, blk, tail, t, ns, chain)
    BY <1>6, <2>3, ArenaMadeIs
  <2>5. Halved(blk', tail', L, M, b, n, k)
    <3>1. \A x \in DOMAIN blk : x \in Nat /\ x < t
      <4>1. brk \in Nat
        BY DEF PoolOK, InMemory
      <4>. QED
        BY <1>6, <4>1, PoolFacts
    <3>2. DOMAIN tail \subseteq DOMAIN blk
      BY PoolFacts DEF Sound, Laid, Tiles
    <3>3. PICK B2, tl2 : B2 = blk' /\ tl2 = tail'
      OBVIOUS
    <3>4. Halved(B2, tl2, ArenaHeaders(blk, t, ns, chain), ArenaTails(tail, t, ns), b, n, k)
      BY <1>3, <1>5, <1>6, <2>1, <2>2, <3>1, <3>2, <3>3, NewSplitIs
    <3>. QED
      BY <2>3, <3>3, <3>4
  <2>6. /\ t + ldr + ns <= Memory /\ Halved(blk', tail', L, M, t + ldr, n, k)
        /\ Tree(PoolAdd(tree, SizeIn(blk'), t + ldr + n)) /\ brk' = t + ldr + ns + ldr
    BY <1>3, <1>4, <1>6, <2>2, <2>5
  <2>. QED
    BY <1>4, <1>5, <1>6, <2>1, <2>4, <2>6, NewSplit
<1>. QED
  <2>1. ns = n \/ ns > n
    BY <1>4, <1>5
  <2>. QED
    BY <1>7, <1>8, <2>1

\* What poolalloc writes when the new memory follows the last arena.
GrownHeaders(B, q, ch, k) ==
  Over([B EXCEPT ![q] = Header("A", k), ![ch].csize = @ + k], At(q + k, EndMark))

\* It makes the last arena longer, with the new memory in use.
LEMMA ArenaGrownIs ==
  ASSUME NEW B, NEW tl, NEW ch, Sound(B, tl, ch), ch # nil, NEW k \in Nat \ {0}, NEW q, q = Lim(B, ch),
         NEW B2, NEW tl2, B2 = GrownHeaders(B, q, ch, k), tl2 = Over(tl, At(q + k, q))
  PROVE  ArenaGrown(B2, tl2, B, tl, ch, k)
<1>1. ch \in Leads(B) /\ Bounds(B) /\ Kinds(B) /\ Tiles(B, tl) /\ \A x \in DOMAIN B : x \in Nat
  BY DEF Sound, Laid, Chained
<1>2. /\ ch \in DOMAIN B /\ q \in DOMAIN B /\ ch # q /\ q \in Nat /\ B[q] = EndMark
      /\ B[ch] \in [magic : {"E"}, size : {ldr}, csize : Nat, clink : Nat]
  <2>1. ch \in DOMAIN B /\ ch < q /\ q \in DOMAIN B /\ B[ch].magic = "E" /\ B[ch] # EndMark /\ B[q] = EndMark
    BY <1>1 DEF Bounds, Leads, With, Solid
  <2>2. B[ch] \in [magic : {"E"}, size : {ldr}, csize : Nat, clink : Nat]
    BY <1>1, <2>1 DEF Kinds
  <2>. QED
    BY <1>1, <2>1, <2>2
<1>3. \A x \in DOMAIN B : x # q + k
  <2>1. \A x \in DOMAIN B : x <= q
    <3>1. SUFFICES ASSUME NEW x \in DOMAIN B PROVE x <= q
      OBVIOUS
    <3>2. PICK c \in Leads(B) : c <= x /\ x <= Lim(B, c)
      BY <1>1 DEF Bounds
    <3>3. c <= ch /\ c \in Nat /\ ch \in Nat /\ Lim(B, c) \in Nat
      <4>1. c \in DOMAIN B
        BY DEF Leads, With, Solid
      <4>. QED
        BY <1>1, <1>2, <4>1 DEF Sound, Laid, Chained, Bounds
    <3>4. CASE c = ch
      BY <3>2, <3>4
    <3>5. CASE c < ch
      <4>1. Lim(B, c) < ch /\ ch < q
        BY <1>1, <3>5 DEF Bounds
      <4>. QED
        BY <1>1, <1>2, <3>2, <3>3, <4>1
    <3>. QED
      BY <3>3, <3>4, <3>5
  <2>. QED
    BY <1>1, <1>2, <2>1
<1>4. PICK e : e = q + k
  OBVIOUS
<1>5. PICK h, v : h = Header("A", k) /\ v = [B[ch] EXCEPT !.csize = @ + k]
  OBVIOUS
<1>6. v = Leader(B[ch].csize + k, B[ch].clink)
  BY <1>2, <1>5 DEF Leader
<1>7. PICK L : L = [B EXCEPT ![q] = Header("A", k), ![ch].csize = @ + k]
  OBVIOUS
<1>8. DOMAIN L = DOMAIN B /\ L[q] = h /\ L[ch] = v /\ \A x \in DOMAIN B : x # q /\ x # ch => L[x] = B[x]
  BY <1>2, <1>5, <1>7
<1>9. B2 = Over(L, At(e, EndMark))
  BY <1>4, <1>7 DEF GrownHeaders
<1>10. DOMAIN B2 = DOMAIN B \cup {e} /\ B2[q] = h /\ B2[ch] = v /\ B2[e] = EndMark /\ AgreeBut(B2, B, {ch, q, e})
  <2>1. e # q /\ e # ch
    BY <1>2, <1>3, <1>4
  <2>. QED
    BY <1>2, <1>8, <1>9, <2>1 DEF Over, At, AgreeBut
<1>11. DOMAIN tl2 = DOMAIN tl \cup {e} /\ tl2[e] = q /\ AgreeBut(tl2, tl, {e})
  BY <1>4 DEF Over, At, AgreeBut
<1>. QED
  BY <1>4, <1>5, <1>6, <1>10, <1>11 DEF ArenaGrown

\* poolalloc extends the last arena, and has a block to free.
LEMMA GrowKeeps ==
  ASSUME PoolOK, NEW n \in Sizes, NEW q, q = Lim(blk, chain), NEW k, k = ArenaFor(n) + 2 * ldr,
         ArenaFor(n) >= n, chain # nil, q + k <= Memory,
         blk' = GrownHeaders(blk, q, chain, k), tail' = Over(tail, At(q + k, q)),
         arenasize' = arenasize + k, cursize' = cursize + k, brk' = q + k + ldr,
         UNCHANGED <<root, node, chain, lost, maxsize>>
  PROVE  PoolOK' /\ InUse(blk') = InUse(blk) \cup {q} /\ q \notin InUse(blk) /\ q # nil
<1>1. Sound(blk, tail, chain) /\ IsFiniteSet(DOMAIN blk) /\ Joined(blk) /\ Kinds(blk)
  BY PoolFacts DEF PoolOK
<1>2. k \in Nat \ {0} /\ arenasize' <= maxsize /\ arenasize \in Nat
  BY ArenaFits DEF ldr
<1>3. PICK B2, M, e : B2 = blk' /\ M = tail' /\ e = q + k
  OBVIOUS
<1>4. ArenaGrown(B2, M, blk, tail, chain, k)
  BY <1>1, <1>2, <1>3, ArenaGrownIs
<1>5. /\ Sound(B2, M, chain) /\ Solid(B2) = Solid(blk) \cup {q} /\ Leads(B2) = Leads(blk) /\ blk[q] = EndMark
      /\ chain \in Leads(blk) /\ \A x \in DOMAIN blk : x <= q
  BY <1>1, <1>2, <1>4, GrowLaid
<1>6. MoreSorts(B2, blk, q)
  BY <1>1, <1>2, <1>4, GrowSorted
<1>7. q \in DOMAIN blk /\ q \in Nat \ {0} /\ q \notin Solid(blk) /\ chain \in DOMAIN blk /\ blk[chain].size = ldr
  <2>1. q \in DOMAIN blk
    BY <1>1, <1>5 DEF Sound, Laid, Bounds
  <2>2. chain \in DOMAIN blk /\ blk[chain].size = ldr
    BY <1>1, <1>5, BlockFacts DEF Leads, With, Solid
  <2>. QED
    BY <1>1, <1>5, <2>1, <2>2 DEF Sound, Solid
<1>8. /\ DOMAIN B2 = DOMAIN blk \cup {e} /\ B2[q].size = k /\ B2[chain].size = ldr
      /\ \A x \in DOMAIN blk : x # q => B2[x].size = blk[x].size
  <2>1. /\ DOMAIN B2 = DOMAIN blk \cup {e} /\ AgreeBut(B2, blk, {chain, q, e})
        /\ B2[q] = Header("A", k) /\ B2[chain] = Leader(blk[chain].csize + k, blk[chain].clink)
    BY <1>3, <1>4 DEF ArenaGrown
  <2>2. B2[q].size = k /\ B2[chain].size = ldr
    BY <2>1, HeaderFields DEF Leader
  <2>3. \A x \in DOMAIN blk : x # e
    BY <1>1, <1>2, <1>3, <1>5, <1>7 DEF Sound
  <2>4. \A x \in DOMAIN blk : x \notin {chain, q, e} => B2[x] = blk[x]
    BY <2>1 DEF AgreeBut
  <2>. QED
    BY <1>7, <2>1, <2>2, <2>3, <2>4
<1>9. TreeHolds'
  <2>1. PICK T, D : T = tree /\ D = With(blk, "F") /\ TreeOf(T, D)
    BY TreeOfFree
  <2>2. root' = T.root /\ node' = T.node
    BY <2>1 DEF tree
  <2>3. With(B2, "F") = D /\ \A x \in D : x \in DOMAIN blk /\ x \in DOMAIN B2 /\ B2[x].size = blk[x].size
    BY <1>6, <2>1, TreeOfFree DEF MoreSorts
  <2>. QED
    BY <1>3, <2>1, <2>2, <2>3, TreeStays
<1>10. Kinds(B2) /\ IsFiniteSet(DOMAIN B2)
  <2>1. IsFiniteSet(DOMAIN blk \cup {e})
    BY <1>1, FS_AddElement
  <2>. QED
    BY <1>5, <1>8, <2>1 DEF Sound, Laid
<1>11. Books'
  <2>1. Weight(B2, InUse(B2)) = cursize + k
    <3>1. MoreUse(B2, q)
      BY <1>6 DEF MoreSorts, MoreUse
    <3>. QED
      BY <1>2, <1>8, <1>10, <3>1, MoreBooks
  <2>2. Weight(B2, Solid(B2)) = Weight(blk, Solid(blk)) + k
    <3>1. Solid(blk) \in SUBSET Solid(blk) /\ Solid(blk) \subseteq DOMAIN blk
      BY DEF Solid
    <3>2. IsFiniteSet(Solid(blk)) /\ \A x \in Solid(blk) : blk[x].size \in Nat
      BY <1>1, <3>1, SolidFinite
    <3>3. \A x \in Solid(blk) : B2[x].size = blk[x].size
      BY <1>7, <1>8, <3>1
    <3>4. Weight(B2, Solid(blk) \cup {q}) = Weight(B2, Solid(blk)) + B2[q].size
      BY <1>2, <1>7, <1>8, <3>2, <3>3, WeightAdd
    <3>5. Weight(B2, Solid(blk)) = Weight(blk, Solid(blk))
      BY <3>3, WeightSame
    <3>. QED
      BY <1>5, <1>8, <3>4, <3>5
  <2>3. Weight(blk, Solid(blk)) \in Nat /\ Cardinality(Leads(blk)) \in Nat
    <3>1. Leads(blk) \in SUBSET Solid(blk)
      BY DEF Leads, With
    <3>2. IsFiniteSet(Leads(blk)) /\ Weight(blk, Solid(blk)) \in Nat
      BY <3>1, PoolFacts, SolidFinite
    <3>. QED
      BY <3>2, FS_CardinalityType
  <2>. QED
    BY <1>2, <1>3, <1>5, <2>1, <2>2, <2>3 DEF PoolOK, Books
<1>12. InMemory(B2, e + ldr)
  <2>1. e \in Nat \ {0} /\ q < e /\ e <= Memory /\ Memory \in Nat
    BY <1>2, <1>3, <1>7, PoolAssumption
  <2>2. \A x \in DOMAIN B2 : x \in Addr /\ x <= e
    <3>1. \A x \in DOMAIN blk : x \in Nat \ {0} /\ x <= e
      BY <1>1, <1>5, <1>7, <2>1 DEF Sound
    <3>. QED
      BY <1>8, <2>1, <3>1 DEF Addr
  <2>3. \A x \in DOMAIN B2 : x < e + 1
    BY <2>1, <2>2 DEF Addr
  <2>. QED
    BY <2>1, <2>2, <2>3 DEF InMemory, ldr
<1>13. Laid(B2, M, chain) /\ Joined(B2) /\ InUse(B2) = InUse(blk) \cup {q} /\ q \notin InUse(blk)
  BY <1>5, <1>6 DEF Sound, MoreSorts
<1>. QED
  BY <1>3, <1>7, <1>9, <1>11, <1>12, <1>13 DEF PoolOK, nil

\* sbrk refuses: only the pool's size changes.
LEMMA FailKeeps ==
  ASSUME PoolOK, NEW p \in Proc, NEW n \in Sizes, SbrkFails(p, n)
  PROVE  PoolOK' /\ InUse(blk') = InUse(blk)
<1>1. PICK k : k = ArenaFor(n) + 2 * ldr
  OBVIOUS
<1>2. /\ arenasize' = arenasize + k /\ lost' = lost + k /\ ArenaFor(n) >= n
      /\ UNCHANGED <<blk, tail, root, node, chain, cursize, brk, maxsize>>
  BY <1>1 DEF SbrkFails
<1>3. k \in Nat /\ arenasize + k <= maxsize /\ arenasize \in Nat
  BY <1>1, <1>2, ArenaFits DEF ldr
<1>4. Weight(blk, Solid(blk)) \in Nat /\ Cardinality(Leads(blk)) \in Nat
  <2>1. Leads(blk) \in SUBSET Solid(blk)
    BY DEF Leads, With
  <2>2. IsFiniteSet(Leads(blk)) /\ Weight(blk, Solid(blk)) \in Nat
    BY <2>1, PoolFacts, SolidFinite
  <2>. QED
    BY <2>2, FS_CardinalityType
<1>5. Books'
  BY <1>2, <1>3, <1>4 DEF PoolOK, Books
<1>6. TreeHolds'
  BY <1>2 DEF PoolOK, TreeHolds, tree, Is, Blocks
<1>. QED
  BY <1>2, <1>5, <1>6 DEF PoolOK

\* poolimmutable and poolmutable.
LEMMA MagicKeeps ==
  ASSUME PoolOK, NEW b \in InUse(blk), NEW from, NEW to \in {"A", "I"}, SetMagic(b, from, to)
  PROVE  PoolOK' /\ InUse(blk') = InUse(blk)
<1>1. Sound(blk, tail, chain) /\ IsFiniteSet(DOMAIN blk) /\ Joined(blk) /\ Kinds(blk)
  BY PoolFacts DEF PoolOK
<1>2. b \in Solid(blk) \ Leads(blk)
  BY <1>1, BlockFacts
<1>3. blk' = [blk EXCEPT ![b].magic = to] /\ UNCHANGED <<tail, root, node, chain, cursize, arenasize, brk, lost, maxsize>>
  BY DEF SetMagic
<1>4. PICK B2 : B2 = blk'
  OBVIOUS
<1>5. Retagged(B2, blk, b, to)
  BY <1>1, <1>2, <1>3, <1>4, RetagIs
<1>6. /\ Sound(B2, tail, chain) /\ SameLeads(B2, blk) /\ Solid(B2) = Solid(blk)
      /\ \A x \in DOMAIN blk : B2[x].size = blk[x].size
  BY <1>1, <1>2, <1>5, RetagLaid
<1>7. RetagSorts(B2, blk, b) /\ DOMAIN B2 = DOMAIN blk
  BY <1>1, <1>2, <1>5, RetagSorted DEF Retagged
<1>8. b \notin With(blk, "F")
  BY <1>1, BlockFacts
<1>9. InUse(B2) = InUse(blk) /\ With(B2, "F") = With(blk, "F") /\ Joined(B2)
  BY <1>7, <1>8 DEF RetagSorts
<1>10. TreeHolds'
  <2>1. PICK T, D : T = tree /\ D = With(blk, "F") /\ TreeOf(T, D)
    BY TreeOfFree
  <2>2. root' = T.root /\ node' = T.node
    BY <1>3, <2>1 DEF tree
  <2>3. With(B2, "F") = D /\ \A x \in D : x \in DOMAIN blk /\ x \in DOMAIN B2 /\ B2[x].size = blk[x].size
    BY <1>6, <1>7, <1>9, <2>1, TreeOfFree
  <2>. QED
    BY <1>4, <2>1, <2>2, <2>3, TreeStays
<1>11. Books'
  <2>1. Solid(blk) \subseteq DOMAIN blk /\ InUse(blk) \subseteq Solid(blk)
    BY DEF Solid, InUse, With
  <2>2. Weight(B2, InUse(blk)) = Weight(blk, InUse(blk))
    <3>1. \A x \in InUse(blk) : B2[x].size = blk[x].size
      BY <1>6, <2>1
    <3>. QED
      BY <3>1, WeightSame
  <2>3. Weight(B2, Solid(blk)) = Weight(blk, Solid(blk))
    <3>1. \A x \in Solid(blk) : B2[x].size = blk[x].size
      BY <1>6, <2>1
    <3>. QED
      BY <3>1, WeightSame
  <2>4. Cardinality(Leads(B2)) = Cardinality(Leads(blk))
    BY <1>6, LeadsCount
  <2>. QED
    BY <1>3, <1>4, <1>6, <1>9, <2>2, <2>3, <2>4 DEF PoolOK, Books
<1>12. Laid(B2, tail, chain) /\ InMemory(B2, brk)
  BY <1>6, <1>7 DEF Sound, PoolOK, InMemory
<1>. QED
  BY <1>3, <1>4, <1>9, <1>10, <1>11, <1>12 DEF PoolOK

\* What a Proc has begun owns blocks, and is one of these.
OwnedBy(j) == {j.old, j.block} \ {nil}
JobRight(j) ==
  /\ j \in [pc : {"idle", "free", "merged", "retry"}, size : Nat, old : Nat, block : Nat]
  /\ j.pc = "idle" => j = Idle
  /\ j.pc = "free" => j.old # nil /\ j.block = nil
  /\ j.pc = "merged" => j.block # nil /\ j.block # j.old /\ j.size \in Sizes
  /\ j.pc = "retry" => j.block = nil /\ j.size \in Sizes

\* One Proc goes on to other work, the others do not.
LEMMA JobTurns ==
  ASSUME JobsOK, NEW p \in Proc, NEW j, job' = [job EXCEPT ![p] = j], JobRight(j),
         OwnedBy(j) \subseteq InUse(blk'),
         \A r \in Proc \ {p} : Owned(r) \subseteq InUse(blk') /\ OwnedBy(j) \cap Owned(r) = {}
  PROVE  JobsOK'
<1> DEFINE J == [pc : {"idle", "free", "merged", "retry"}, size : Nat, old : Nat, block : Nat]
<1>1. job \in [Proc -> J] /\ j \in J
  BY DEF JobsOK, JobRight
<1>2. PICK k : k = job'
  OBVIOUS
<1> HIDE DEF J
<1>3. k \in [Proc -> J] /\ k[p] = j /\ \A r \in Proc \ {p} : k[r] = job[r]
  BY <1>1, <1>2
<1>4. \A r \in Proc : Owned(r)' = IF r = p THEN OwnedBy(j) ELSE Owned(r)
  BY <1>2, <1>3 DEF Owned, OwnedBy
<1>5. \A r \in Proc : Owned(r)' \subseteq InUse(blk')
  BY <1>4
<1>6. \A r, s \in Proc : r # s => Owned(r)' \cap Owned(s)' = {}
  <2>1. SUFFICES ASSUME NEW r \in Proc, NEW s \in Proc, r # s PROVE Owned(r)' \cap Owned(s)' = {}
    OBVIOUS
  <2>2. Owned(r) \cap Owned(s) = {}
    BY <2>1 DEF JobsOK
  <2>. QED
    BY <1>4, <2>1, <2>2
<1>7. \A r \in Proc : JobRight(k[r])
  <2>1. \A r \in Proc \ {p} : JobRight(job[r])
    BY DEF JobsOK, JobRight
  <2>. QED
    BY <1>3, <2>1
<1>8. \A r \in Proc : /\ k[r].pc = "idle" => k[r] = Idle
                      /\ k[r].pc = "free" => k[r].old # nil /\ k[r].block = nil
                      /\ k[r].pc = "merged" => k[r].block # nil /\ k[r].block # k[r].old /\ k[r].size \in Sizes
                      /\ k[r].pc = "retry" => k[r].block = nil /\ k[r].size \in Sizes
  BY <1>7 DEF JobRight
<1>. QED
  BY <1>2, <1>3, <1>5, <1>6, <1>8 DEF JobsOK, J

\* What there is to begin with.
LEMMA IdleRight == JobRight(Idle) /\ OwnedBy(Idle) = {}
BY DEF JobRight, OwnedBy, Idle, nil

\* The blocks in use are addresses.
LEMMA UsedAddresses ==
  ASSUME PoolOK
  PROVE  \A b \in InUse(blk) : b \in Nat /\ b # nil /\ b \in DOMAIN blk
<1>1. \A x \in DOMAIN blk : x \in Nat \ {0}
  BY PoolFacts
<1>. QED
  BY <1>1 DEF InUse, With, Solid, nil

\* A block that realloc gives back is in use, and no other Proc's.
Ready(p, old) == old = nil \/ (old \in InUse(blk) /\ \A r \in Proc \ {p} : old \notin Owned(r))

\* poolalloc keeps what it gives back, or frees it later.
LEMMA GotKeeps ==
  ASSUME IInv, NEW p \in Proc, NEW old, Ready(p, old), Got(p, old) \/ job' = [job EXCEPT ![p] = Idle],
         InUse(blk) \subseteq InUse(blk')
  PROVE  JobsOK'
<1>1. \A r \in Proc : Owned(r) \subseteq InUse(blk')
  BY DEF IInv, JobsOK
<1>2. CASE job' = [job EXCEPT ![p] = Idle]
  BY <1>1, <1>2, IdleRight, JobTurns DEF IInv
<1>3. CASE Got(p, old) /\ old # nil
  <2>1. PICK j : j = [Idle EXCEPT !.pc = "free", !.old = old]
    OBVIOUS
  <2>2. job' = [job EXCEPT ![p] = j]
    BY <1>3, <2>1 DEF Got
  <2>3. old \in InUse(blk) /\ old \in Nat /\ \A r \in Proc \ {p} : old \notin Owned(r)
    BY <1>3, UsedAddresses DEF Ready, IInv
  <2>4. j = [pc |-> "free", size |-> 0, old |-> old, block |-> nil]
    BY <2>1 DEF Idle
  <2>5. JobRight(j) /\ OwnedBy(j) = {old}
    BY <1>3, <2>3, <2>4 DEF JobRight, OwnedBy, nil
  <2>6. OwnedBy(j) \subseteq InUse(blk') /\ \A r \in Proc \ {p} : Owned(r) \subseteq InUse(blk') /\ OwnedBy(j) \cap Owned(r) = {}
    BY <1>1, <2>3, <2>5
  <2>7. JobsOK
    BY DEF IInv
  <2>. QED
    BY <2>2, <2>5, <2>6, <2>7, JobTurns
<1>4. CASE Got(p, old) /\ old = nil
  BY <1>2, <1>4 DEF Got
<1>. QED
  BY <1>2, <1>3, <1>4

\* poolalloc keeps the invariant.
LEMMA AllocKeeps ==
  ASSUME IInv, NEW p \in Proc, NEW n \in Sizes, NEW old, Ready(p, old), PoolAlloc(p, n, old)
  PROVE  IInv'
<1>0. PoolOK /\ JobsOK
  BY DEF IInv
<1>1. CASE TakeFree(p, n, old)
  <2>1. PoolOK' /\ InUse(blk) \subseteq InUse(blk')
    BY <1>0, <1>1, TakeKeeps
  <2>2. Got(p, old)
    BY <1>1 DEF TakeFree
  <2>. QED
    BY <2>1, <2>2, GotKeeps DEF IInv
<1>2. CASE TooLarge(p, n)
  <2>1. job' = [job EXCEPT ![p] = Idle] /\ UNCHANGED <<blk, tail, root, node, chain, cursize, arenasize, brk, lost, maxsize>>
    BY <1>2 DEF TooLarge
  <2>2. PoolOK' /\ InUse(blk') = InUse(blk)
    <3>1. TreeHolds'
      BY <1>0, <2>1 DEF PoolOK, TreeHolds, tree, Is, Blocks
    <3>2. Books'
      BY <1>0, <2>1 DEF PoolOK, Books
    <3>. QED
      BY <1>0, <2>1, <3>1, <3>2 DEF PoolOK
  <2>. QED
    BY <2>1, <2>2, GotKeeps DEF IInv
<1>3. CASE SbrkFails(p, n)
  <2>1. PoolOK' /\ InUse(blk') = InUse(blk)
    BY <1>0, <1>3, FailKeeps
  <2>2. job' = [job EXCEPT ![p] = Idle]
    BY <1>3 DEF SbrkFails
  <2>. QED
    BY <2>1, <2>2, GotKeeps DEF IInv
<1>4. CASE NewArena(p, n, old)
  <2>1. PoolOK' /\ InUse(blk) \subseteq InUse(blk')
    BY <1>0, <1>4, NewKeeps
  <2>2. Got(p, old)
    BY <1>4 DEF NewArena
  <2>. QED
    BY <2>1, <2>2, GotKeeps DEF IInv
<1>5. CASE ExtendArena(p, n, old)
  <2>1. PICK q, k : q = B2LIMIT(chain) /\ k = ArenaFor(n) + 2 * ldr
    OBVIOUS
  <2>2. /\ ArenaFor(n) >= n /\ chain # nil /\ q + k <= Memory
        /\ blk' = Over([blk EXCEPT ![q] = Header("A", k), ![chain].csize = @ + k], At(q + k, EndMark))
        /\ tail' = Over(tail, At(q + k, q))
        /\ arenasize' = arenasize + k /\ cursize' = cursize + k /\ brk' = q + k + ldr
        /\ job' = [job EXCEPT ![p] = [pc |-> "merged", size |-> n, old |-> old, block |-> q]]
        /\ UNCHANGED <<root, node, chain, lost, maxsize>>
    BY <1>5, <2>1, Zenon DEF ExtendArena
  <2>3. q = Lim(blk, chain) /\ blk' = GrownHeaders(blk, q, chain, k)
    BY <2>1, <2>2 DEF B2LIMIT, Lim, GrownHeaders
  <2>4. PoolOK' /\ InUse(blk') = InUse(blk) \cup {q} /\ q \notin InUse(blk) /\ q # nil
    BY <1>0, <2>1, <2>2, <2>3, GrowKeeps
  <2>5. q \in Nat
    <3>1. q \in InUse(blk') /\ \A b \in InUse(blk') : b \in DOMAIN blk'
      BY <2>4 DEF InUse, With, Solid
    <3>2. \A x \in DOMAIN blk' : x \in Addr
      BY <2>4 DEF PoolOK, InMemory
    <3>. QED
      BY <3>1, <3>2 DEF Addr
  <2>6. PICK j : j = [pc |-> "merged", size |-> n, old |-> old, block |-> q]
    OBVIOUS
  <2>7. old \in Nat /\ old # q /\ OwnedBy(j) = {old, q} \ {nil}
    BY <1>0, <2>4, <2>6, UsedAddresses DEF Ready, OwnedBy, nil
  <2>8. JobRight(j)
    BY <2>4, <2>5, <2>6, <2>7, PoolAssumption DEF JobRight
  <2>9. OwnedBy(j) \subseteq InUse(blk') /\ \A r \in Proc \ {p} : Owned(r) \subseteq InUse(blk') /\ OwnedBy(j) \cap Owned(r) = {}
    <3>1. \A r \in Proc : Owned(r) \subseteq InUse(blk)
      BY <1>0 DEF JobsOK
    <3>2. old = nil \/ (old \in InUse(blk) /\ \A r \in Proc \ {p} : old \notin Owned(r))
      BY DEF Ready
    <3>. QED
      BY <2>4, <2>7, <3>1, <3>2
  <2>10. JobsOK'
    BY <1>0, <2>2, <2>6, <2>8, <2>9, JobTurns
  <2>. QED
    BY <2>4, <2>10 DEF IInv
<1>. QED
  BY <1>1, <1>2, <1>3, <1>4, <1>5 DEF PoolAlloc

\* Freeing a block that no other Proc owns keeps the invariant.
LEMMA LetGo ==
  ASSUME IInv, NEW p \in Proc, NEW b \in InUse(blk), PoolFree(b),
         UNCHANGED <<chain, arenasize, brk, lost, maxsize>>,
         \A r \in Proc \ {p} : b \notin Owned(r),
         NEW j, job' = [job EXCEPT ![p] = j], JobRight(j), OwnedBy(j) \subseteq Owned(p) \ {b}
  PROVE  IInv'
<1>1. PoolOK /\ JobsOK
  BY DEF IInv
<1>2. PoolOK' /\ InUse(blk') = InUse(blk) \ {b}
  BY <1>1, FreeKeeps
<1>3. \A r \in Proc : Owned(r) \subseteq InUse(blk) /\ \A s \in Proc : r # s => Owned(r) \cap Owned(s) = {}
  BY <1>1 DEF JobsOK
<1>4. OwnedBy(j) \subseteq InUse(blk') /\ \A r \in Proc \ {p} : Owned(r) \subseteq InUse(blk') /\ OwnedBy(j) \cap Owned(r) = {}
  BY <1>2, <1>3
<1>5. JobsOK'
  BY <1>1, <1>4, JobTurns
<1>. QED
  BY <1>2, <1>5 DEF IInv

\* A block the program holds is in use and no Proc's.
LEMMA HeldIs ==
  ASSUME IInv, NEW b \in Held
  PROVE  b \in InUse(blk) /\ b # nil /\ \A r \in Proc : b \notin Owned(r)
<1>1. Kinds(blk) /\ PoolOK
  BY PoolFacts DEF IInv
<1>2. b \in DOMAIN blk /\ blk[b].magic \in {"A", "I"}
  BY DEF Held
<1>3. b \in InUse(blk)
  <2>1. Tags(blk, b)
    BY <1>1, <1>2, KindFacts
  <2>2. b \in Solid(blk)
    BY <1>2, <2>1 DEF Tags
  <2>. QED
    BY <1>1, <1>2, <2>2, BlockFacts
<1>4. \A r \in Proc : b \notin {job[r].old, job[r].block}
  BY DEF Held
<1>5. b # nil
  BY <1>1, <1>3, UsedAddresses
<1>. QED
  BY <1>3, <1>4, <1>5 DEF Owned

\* A Proc goes on.
LEMMA ResumeKeeps ==
  ASSUME IInv, NEW p \in Proc, Resume(p)
  PROVE  IInv'
<1>1. PICK j : j = job[p]
  OBVIOUS
<1>2. JobRight(j) /\ OwnedBy(j) = Owned(p) /\ OwnedBy(j) \subseteq InUse(blk)
  BY <1>1 DEF IInv, JobsOK, JobRight, OwnedBy, Owned
<1>3. \A b \in Owned(p) : \A r \in Proc \ {p} : b \notin Owned(r)
  BY DEF IInv, JobsOK
<1>4. CASE j.pc = "free" /\ PoolFree(j.old) /\ job' = [job EXCEPT ![p] = Idle]
           /\ UNCHANGED <<chain, arenasize, brk, lost, maxsize>>
  <2>1. j.old \in Owned(p)
    BY <1>2, <1>4 DEF JobRight, OwnedBy
  <2>. QED
    BY <1>2, <1>3, <1>4, <2>1, IdleRight, LetGo
<1>5. CASE j.pc = "merged" /\ PoolFree(j.block) /\ job' = [job EXCEPT ![p].pc = "retry", ![p].block = nil]
           /\ UNCHANGED <<chain, arenasize, brk, lost, maxsize>>
  <2>1. j.block \in Owned(p) /\ j.block # j.old /\ j.size \in Sizes /\ j.size \in Nat /\ j.old \in Nat
    BY <1>2, <1>5 DEF JobRight, OwnedBy
  <2>2. PICK k : k = [j EXCEPT !.pc = "retry", !.block = nil]
    OBVIOUS
  <2>3. k = [pc |-> "retry", size |-> j.size, old |-> j.old, block |-> nil]
    BY <1>2, <2>2 DEF JobRight
  <2>4. JobRight(k) /\ OwnedBy(k) \subseteq Owned(p) \ {j.block}
    BY <1>2, <2>1, <2>3 DEF JobRight, OwnedBy, nil
  <2>5. job' = [job EXCEPT ![p] = k]
    <3>1. job \in [Proc -> [pc : {"idle", "free", "merged", "retry"}, size : Nat, old : Nat, block : Nat]]
      BY DEF IInv, JobsOK
    <3>. QED
      BY <1>1, <1>5, <2>2, <3>1
  <2>. QED
    BY <1>2, <1>3, <1>5, <2>1, <2>4, <2>5, LetGo
<1>6. CASE j.pc = "retry" /\ PoolAlloc(p, j.size, j.old)
  <2>1. j.size \in Sizes /\ (j.old = nil \/ j.old \in Owned(p))
    BY <1>2, <1>6 DEF JobRight, OwnedBy
  <2>2. Ready(p, j.old)
    BY <1>2, <1>3, <2>1 DEF Ready
  <2>. QED
    BY <1>6, <2>1, <2>2, AllocKeeps
<1>. QED
  BY <1>1, <1>4, <1>5, <1>6 DEF Resume

\* poolimmutable and poolmutable.
LEMMA TagKeeps ==
  ASSUME IInv, NEW b \in Held, NEW from, NEW to \in {"A", "I"}, SetMagic(b, from, to)
  PROVE  IInv'
<1>1. PoolOK /\ JobsOK /\ b \in InUse(blk)
  BY HeldIs DEF IInv
<1>2. PoolOK' /\ InUse(blk') = InUse(blk)
  BY <1>1, MagicKeeps
<1>3. job' = job
  BY DEF SetMagic
<1>4. JobsOK'
  BY <1>1, <1>2, <1>3 DEF JobsOK, Owned
<1>. QED
  BY <1>2, <1>4 DEF IInv

\* Every step keeps the invariant.
LEMMA StepKeeps ==
  ASSUME IInv, [Next]_vars
  PROVE  IInv'
<1>1. ASSUME NEW p \in Proc, Malloc(p) PROVE IInv'
  <2>1. PICK n \in Sizes : PoolAlloc(p, n, nil)
    BY <1>1 DEF Malloc
  <2>. QED
    BY <2>1, AllocKeeps DEF Ready
<1>2. ASSUME NEW p \in Proc, Free(p) PROVE IInv'
  <2>1. PICK b \in Held : PoolFree(b)
    BY <1>2 DEF Free
  <2>2. /\ job[p] = Idle /\ job' = job
        /\ UNCHANGED <<chain, arenasize, brk, lost, maxsize>>
    BY <1>2 DEF Free
  <2>3. b \in InUse(blk) /\ \A r \in Proc : b \notin Owned(r)
    BY <2>1, HeldIs
  <2>4. job' = [job EXCEPT ![p] = Idle]
    <3>1. job \in [Proc -> [pc : {"idle", "free", "merged", "retry"}, size : Nat, old : Nat, block : Nat]]
      BY DEF IInv, JobsOK
    <3>. QED
      BY <2>2, <3>1
  <2>. QED
    BY <2>1, <2>2, <2>3, <2>4, IdleRight, LetGo
<1>3. ASSUME NEW p \in Proc, Realloc(p) PROVE IInv'
  <2>1. PICK b \in Held, n \in Sizes : PoolAlloc(p, n, b)
    BY <1>3 DEF Realloc
  <2>2. Ready(p, b)
    BY <2>1, HeldIs DEF Ready
  <2>. QED
    BY <2>1, <2>2, AllocKeeps
<1>4. ASSUME NEW p \in Proc, Resume(p) PROVE IInv'
  BY <1>4, ResumeKeeps
<1>5. ASSUME PoolImmutable PROVE IInv'
  <2>1. PICK b \in Held : SetMagic(b, "A", "I")
    BY <1>5 DEF PoolImmutable
  <2>. QED
    BY <2>1, TagKeeps
<1>6. ASSUME PoolMutable PROVE IInv'
  <2>1. PICK b \in Held : SetMagic(b, "I", "A")
    BY <1>6 DEF PoolMutable
  <2>. QED
    BY <2>1, TagKeeps
<1>7. ASSUME UNCHANGED vars PROVE IInv'
  <2>1. UNCHANGED <<blk, tail, root, node, chain, cursize, arenasize, maxsize, brk, lost, job>>
    BY <1>7 DEF vars
  <2>2. TreeHolds'
    BY <2>1 DEF IInv, PoolOK, TreeHolds, tree, Is, Blocks
  <2>3. Books' /\ JobsOK'
    BY <2>1 DEF IInv, PoolOK, Books, JobsOK, Owned
  <2>. QED
    BY <2>1, <2>2, <2>3 DEF IInv, PoolOK
<1>. QED
  BY <1>1, <1>2, <1>3, <1>4, <1>5, <1>6, <1>7 DEF Next

\* There is nothing in the pool at first.
LEMMA InitHolds ==
  ASSUME Init
  PROVE  IInv
<1>1. /\ blk = << >> /\ tail = << >> /\ root = nil /\ node = << >> /\ chain = nil
      /\ cursize = 0 /\ arenasize = 0 /\ maxsize \in Nat /\ brk = 1 /\ lost = 0
      /\ job = [p \in Proc |-> Idle]
  BY PoolAssumption DEF Init
<1>2. DOMAIN blk = {} /\ DOMAIN tail = {} /\ DOMAIN node = {}
  BY <1>1
<1>3. Solid(blk) = {} /\ Leads(blk) = {} /\ InUse(blk) = {} /\ With(blk, "F") = {}
  BY <1>2 DEF Solid, Leads, InUse, With
<1>4. Laid(blk, tail, chain) /\ Joined(blk) /\ InMemory(blk, brk)
  BY <1>1, <1>2, <1>3 DEF Laid, Kinds, Tiles, Bounds, Chained, Joined, InMemory, nil
<1>5. Books
  <2>1. Weight(blk, InUse(blk)) = 0 /\ Weight(blk, Solid(blk)) = 0
    BY <1>3, WeightEmpty
  <2>2. Cardinality(Leads(blk)) = 0
    BY <1>3, FS_EmptySet
  <2>. QED
    BY <1>1, <2>1, <2>2 DEF Books
<1>6. TreeHolds
  <2>1. tree = [root |-> tree.root, node |-> tree.node] /\ tree.node = node /\ tree.root = nil
    BY <1>1 DEF tree
  <2>2. PICK Sub : Sub = [x \in {nil} |-> {}]
    OBVIOUS
  <2>3. Shape(DOMAIN node, node, nil, SizeIn(blk), Sub)
    <3>1. Linked({}, node, nil)
      <4>1. IsFiniteSet({})
        BY FS_EmptySet
      <4>2. node \in [{} -> NodeSet({})]
        BY <1>1
      <4>. QED
        BY <4>1, <4>2 DEF Linked
    <3>2. Subtrees({}, node, Sub)
      BY <2>2 DEF Subtrees
    <3>3. Ordered({}, node, SizeIn(blk), Sub) /\ Parents({}, node, nil, Sub) /\ Sized({}, nil, SizeIn(blk), Sub)
      BY DEF Ordered, Parents, Sized
    <3>. QED
      BY <1>2, <3>1, <3>2, <3>3 DEF Shape
  <2>4. OneRing(DOMAIN node, node, SizeIn(blk))
    BY <1>2 DEF OneRing
  <2>5. Is("F") = {}
    BY <1>2 DEF Is, Blocks
  <2>. QED
    BY <1>2, <2>1, <2>3, <2>4, <2>5 DEF TreeHolds, TreeOK
<1>7. JobsOK
  BY <1>1 DEF JobsOK, Owned, Idle, nil
<1>. QED
  BY <1>4, <1>5, <1>6, <1>7 DEF IInv, PoolOK

(***************************************************************************)
(* What the invariant says of the properties.                              *)
(***************************************************************************)
\* What is true of each address when it is true of the ones before it in
\* some order of finite depth is true of all.
LEMMA RankInduction ==
  ASSUME NEW D, NEW rank, \A t \in D : rank[t] \in Nat, NEW S,
         \A t \in D : (\A u \in D : rank[u] < rank[t] => u \in S) => t \in S
  PROVE  D \subseteq S
<1> DEFINE T == {k \in Nat : \A t \in D : rank[t] < k => t \in S}
<1>1. 0 \in T
  <2>1. \A t \in D : ~(rank[t] < 0)
    OBVIOUS
  <2>. QED
    BY <2>1
<1>2. ASSUME NEW k \in Nat, k \in T PROVE k + 1 \in T
  <2>1. ASSUME NEW t \in D, rank[t] < k + 1 PROVE t \in S
    <3>1. \A u \in D : rank[u] < rank[t] => rank[u] < k
      BY <2>1
    <3>2. \A u \in D : rank[u] < k => u \in S
      BY <1>2
    <3>. QED
      BY <3>1, <3>2
  <2>. QED
    BY <2>1
<1>3. \A k \in Nat : k \in T
  <2> HIDE DEF T
  <2>. QED
    BY <1>1, <1>2, SetInduction
<1>4. ASSUME NEW t \in D PROVE t \in S
  <2>1. rank[t] + 1 \in T /\ rank[t] < rank[t] + 1
    BY <1>3
  <2>. QED
    BY <2>1
<1>. QED
  BY <1>4

\* The arenas on p->chain are all there are.
LEMMA ArenasAre ==
  ASSUME PoolOK
  PROVE  Arenas = Leads(blk)
<1> DEFINE L == Leads(blk)
           E == Is("E") \cup {nil}
           From[c \in E] == IF c = nil THEN {} ELSE {c} \cup From[blk[c].clink]
           To == [c \in E |-> {d \in L : d <= c}]
<1>1. Is("E") = L /\ Chained(blk, chain) /\ \A c \in L : c \in Nat \ {0}
  <2>1. \A c \in L : c \in DOMAIN blk
    BY DEF Leads, With, Solid
  <2>. QED
    BY <2>1, PoolFacts DEF Leads, Sound, Laid
<1>2. \A c \in E : c \in Nat
  BY <1>1 DEF nil
<1>3. ASSUME NEW c \in L
      PROVE  blk[c].clink \in E /\ blk[c].clink < c /\ \A d \in L : d <= c <=> d = c \/ d <= blk[c].clink
  <2>1. blk[c].clink \in E /\ blk[c].clink < c /\ \A d \in L : d < c => d <= blk[c].clink
    BY <1>1 DEF Chained
  <2>2. \A d \in L : d \in Nat /\ blk[c].clink \in Nat /\ c \in Nat
    BY <1>1, <1>2, <2>1
  <2>. QED
    BY <2>1, <2>2
<1>4. ASSUME NEW c \in E
      PROVE  To[c] = IF c = nil THEN {} ELSE {c} \cup To[blk[c].clink]
  <2>1. CASE c = nil
    <3>1. \A d \in L : ~(d <= 0)
      BY <1>1
    <3>. QED
      BY <2>1, <3>1 DEF nil
  <2>2. CASE c # nil
    <3>1. c \in L
      BY <1>1, <2>2
    <3>2. blk[c].clink \in E /\ \A d \in L : d <= c <=> d = c \/ d <= blk[c].clink
      BY <1>3, <3>1
    <3>3. To[c] = {d \in L : d <= c} /\ To[blk[c].clink] = {d \in L : d <= blk[c].clink}
      BY <3>2
    <3> HIDE DEF To, E, L
    <3>4. \A d : d \in To[c] <=> d \in {c} \cup To[blk[c].clink]
      BY <3>1, <3>2, <3>3
    <3>. QED
      BY <2>2, <3>4
  <2>. QED
    BY <2>1, <2>2
<1>5. From = [c \in E |-> IF c = nil THEN {} ELSE {c} \cup From[blk[c].clink]]
  <2>1. To = [c \in E |-> IF c = nil THEN {} ELSE {c} \cup To[blk[c].clink]]
    <3>1. To = [c \in E |-> To[c]]
      OBVIOUS
    <3>. QED
      BY <1>4, <3>1
  <2>. QED
    BY <2>1
<1>6. Arenas = From[chain]
  BY DEF Arenas
<1>7. chain \in E /\ \A c \in L : c <= chain
  BY <1>1 DEF Chained
<1>8. To[chain] = {d \in L : d <= chain}
  BY <1>7
<1> HIDE DEF From, To, E, L
<1>9. \A c \in E : From[c] = IF c = nil THEN {} ELSE {c} \cup From[blk[c].clink]
  BY <1>5
<1> DEFINE S == {c \in E : From[c] = To[c]}
           rank == [c \in E |-> c]
<1>10. ASSUME NEW c \in E, \A u \in E : rank[u] < rank[c] => u \in S PROVE c \in S
  <2>1. CASE c = nil
    BY <1>4, <1>9, <2>1
  <2>2. CASE c # nil
    <3>1. c \in L
      BY <1>1, <2>2 DEF E
    <3>2. blk[c].clink \in E /\ rank[blk[c].clink] < rank[c]
      BY <1>3, <3>1
    <3>3. From[blk[c].clink] = To[blk[c].clink]
      BY <1>10, <3>2
    <3>. QED
      BY <1>4, <1>9, <2>2, <3>3
  <2>. QED
    BY <2>1, <2>2
<1>11. E \subseteq S
  <2>1. \A c \in E : rank[c] \in Nat
    BY <1>2
  <2> HIDE DEF S, rank
  <2>. QED
    BY <1>10, <2>1, RankInduction
<1>12. From[chain] = To[chain]
  BY <1>7, <1>11
<1>. QED
  BY <1>6, <1>7, <1>8, <1>12 DEF L

\* The books are as AccountsAgree says.
LEMMA BooksAgree ==
  ASSUME PoolOK
  PROVE  AccountsAgree
<1>1. Kinds(blk) /\ IsFiniteSet(DOMAIN blk) /\ Books /\ \A m : Is(m) = With(blk, m)
  BY PoolFacts DEF PoolOK
<1>2. Is("A") \cup Is("I") = InUse(blk) /\ Blocks = Solid(blk)
  BY <1>1 DEF InUse, Blocks, Solid
<1>3. InUse(blk) \in SUBSET Solid(blk) /\ Solid(blk) \in SUBSET Solid(blk)
  BY DEF InUse, With
<1>4. Total(InUse(blk)) = Weight(blk, InUse(blk))
  BY <1>1, <1>3, SolidFinite, TotalIs
<1>5. Total(Solid(blk)) = Weight(blk, Solid(blk))
  BY <1>1, <1>3, SolidFinite, TotalIs
<1>. QED
  BY <1>1, <1>2, <1>4, <1>5, ArenasAre DEF Books, AccountsAgree

\* What the state's variables can be.
LEMMA Typed ==
  ASSUME IInv
  PROVE  TypeOK
<1>1. /\ Kinds(blk) /\ IsFiniteSet(DOMAIN blk) /\ Books /\ TreeHolds /\ Laid(blk, tail, chain)
      /\ \A b \in DOMAIN blk : b \in Addr
  BY PoolFacts DEF PoolOK, IInv, InMemory
<1>2. \A b \in DOMAIN blk : b \in Addr /\ blk[b].magic \in {"A", "F", "I", "E"}
  <2>1. \A b \in DOMAIN blk : Tags(blk, b)
    BY <1>1, KindFacts
  <2>. QED
    BY <1>1, <2>1 DEF Tags
<1>3. DOMAIN tail \subseteq Addr /\ chain \in DOMAIN blk \cup {nil}
  BY <1>1 DEF Laid, Tiles, Chained, Leads, With, Solid
<1>4. root \in DOMAIN node \cup {nil}
  BY <1>1, TreeState DEF Shape, Linked
<1>5. cursize \in 0 .. maxsize /\ arenasize \in 0 .. maxsize
  <2>1. InUse(blk) \in SUBSET Solid(blk) /\ Solid(blk) \in SUBSET Solid(blk) /\ Leads(blk) \in SUBSET Solid(blk)
    BY DEF InUse, Leads, With
  <2>2. IsFiniteSet(Solid(blk)) /\ (\A b \in Solid(blk) : blk[b].size \in Nat) /\ Weight(blk, Solid(blk)) \in Nat
    BY <1>1, <2>1, SolidFinite
  <2>3. Weight(blk, InUse(blk)) \in Nat /\ IsFiniteSet(Leads(blk))
    BY <1>1, <2>1, SolidFinite
  <2>4. Weight(blk, InUse(blk)) <= Weight(blk, Solid(blk))
    BY <2>1, <2>2, WeightSub
  <2>5. Cardinality(Leads(blk)) \in Nat
    BY <2>3, FS_CardinalityType
  <2>. QED
    BY <1>1, <2>2, <2>3, <2>4, <2>5 DEF Books
<1>6. \A p \in Proc : job[p].pc \in {"idle", "free", "merged", "retry"}
  BY DEF IInv, JobsOK
<1>. QED
  BY <1>2, <1>3, <1>4, <1>5, <1>6 DEF TypeOK

\* The headers the audit of the arena at bc goes on from.
Passes(b, bc) ==
  /\ b \in DOMAIN blk
  /\ blk[b].size > 0
  /\ blk[b].magic \in {"A", "F", "I"} \/ (blk[b].magic = "E" /\ b = bc)

\* What the walk over the arena at bc does at each address.
WalkStep(bc, v, f) ==
  \A b \in Addr :
    f[b] = IF b >= Lim(blk, bc)
           THEN IF b = Lim(blk, bc) /\ Lim(blk, bc) \in DOMAIN blk /\ blk[b].magic = "E" THEN b ELSE nil
           ELSE IF ~Passes(b, bc) THEN nil
           ELSE IF v < B2NB(b) THEN b
           ELSE f[B2NB(b)]

\* The block after one is an address in memory, and later.
LEMMA NextInMemory ==
  ASSUME PoolOK, NEW b, b \in DOMAIN blk, blk[b].size > 0
  PROVE  /\ b \in Addr /\ B2NB(b) \in Addr /\ b < B2NB(b) /\ B2NB(b) \in DOMAIN blk
         /\ \A x \in DOMAIN blk : x <= b \/ B2NB(b) <= x
<1>1. Kinds(blk) /\ Tiles(blk, tail) /\ \A x \in DOMAIN blk : x \in Addr /\ x \in Nat
  BY PoolFacts DEF PoolOK, InMemory, Laid
<1>2. b \in Solid(blk) /\ blk[b].size \in Nat
  BY <1>1, BlockFacts
<1>3. b + blk[b].size \in DOMAIN blk /\ \A x \in DOMAIN blk : x <= b \/ b + blk[b].size <= x
  BY <1>1, <1>2 DEF Tiles
<1>. QED
  BY <1>1, <1>2, <1>3 DEF B2NB

\* So the walk is as its definition says.
LEMMA WalkRecursion ==
  ASSUME PoolOK, NEW bc, bc \in Addr, NEW v
  PROVE  \E f : WalkStep(bc, v, f) /\ Walk(bc, v) = f[bc]
<1> DEFINE ec == Lim(blk, bc)
           E == Addr \cup {nil}
           at(b, g) == IF b >= ec THEN IF b = ec /\ ec \in DOMAIN blk /\ blk[b].magic = "E" THEN b ELSE nil
                       ELSE IF ~Passes(b, bc) THEN nil
                       ELSE IF v < B2NB(b) THEN b
                       ELSE g[B2NB(b)]
           step == [b \in Addr |-> [g \in [Addr -> E] |-> at(b, g)]]
           rank == [b \in Addr |-> Memory - b]
<1>1. ASSUME NEW b \in Addr, Passes(b, bc)
      PROVE  B2NB(b) \in Addr /\ rank[B2NB(b)] < rank[b]
  <2>1. B2NB(b) \in Addr /\ b < B2NB(b)
    BY <1>1, NextInMemory DEF Passes
  <2>. QED
    BY <2>1, PoolAssumption DEF Addr
<1>2. step \in [Addr -> [[Addr -> E] -> E]]
  <2>1. ASSUME NEW b \in Addr, NEW g \in [Addr -> E] PROVE at(b, g) \in E
    BY <1>1
  <2> HIDE DEF at
  <2>. QED
    BY <2>1
<1>3. rank \in [Addr -> 0 .. Memory] /\ Memory \in Nat /\ E # {}
  BY PoolAssumption DEF Addr
<1>4. Descends(Addr, E, rank, step)
  <2>1. SUFFICES ASSUME NEW b \in Addr, NEW g \in [Addr -> E], NEW h \in [Addr -> E],
                        \A u \in Addr : rank[u] < rank[b] => g[u] = h[u]
                 PROVE  step[b][g] = step[b][h]
    BY DEF Descends
  <2>2. Passes(b, bc) => g[B2NB(b)] = h[B2NB(b)]
    <3> HIDE DEF rank
    <3>. QED
      BY <1>1, <2>1
  <2>3. at(b, g) = at(b, h)
    BY <2>2
  <2>. HIDE DEF at
  <2>. QED
    BY <2>3
<1>5. \A b \in Addr : \A g \in [Addr -> E] : step[b][g] = at(b, g)
  OBVIOUS
<1> HIDE DEF step, at, rank, E
<1>6. PICK f \in [Addr -> E] : Solves(f, Addr, step)
  BY <1>2, <1>3, <1>4, RankRecursion
<1>7. \A b \in Addr : f[b] = at(b, f)
  BY <1>5, <1>6 DEF Solves
<1> DEFINE From[b \in Addr] ==
             IF b >= ec THEN IF b = ec /\ ec \in DOMAIN blk /\ blk[b].magic = "E" THEN b ELSE nil
             ELSE IF ~Passes(b, bc) THEN nil
             ELSE IF v < B2NB(b) THEN b
             ELSE From[B2NB(b)]
<1>8. From = [b \in Addr |->
             IF b >= ec THEN IF b = ec /\ ec \in DOMAIN blk /\ blk[b].magic = "E" THEN b ELSE nil
             ELSE IF ~Passes(b, bc) THEN nil
             ELSE IF v < B2NB(b) THEN b
             ELSE From[B2NB(b)]]
  <2>1. f = [b \in Addr |-> at(b, f)]
    <3>1. f = [b \in Addr |-> f[b]]
      OBVIOUS
    <3>. QED
      BY <1>7, <3>1
  <2>2. f = [b \in Addr |->
             IF b >= ec THEN IF b = ec /\ ec \in DOMAIN blk /\ blk[b].magic = "E" THEN b ELSE nil
             ELSE IF ~Passes(b, bc) THEN nil
             ELSE IF v < B2NB(b) THEN b
             ELSE f[B2NB(b)]]
    BY <2>1 DEF at
  <2>. QED
    BY <2>2
<1>9. Walk(bc, v) = From[bc]
  BY Zenon DEF Walk, Passes, Lim, B2LIMIT
<1> HIDE DEF From
<1>10. \A b \in Addr : From[b] =
             IF b >= ec THEN IF b = ec /\ ec \in DOMAIN blk /\ blk[b].magic = "E" THEN b ELSE nil
             ELSE IF ~Passes(b, bc) THEN nil
             ELSE IF v < B2NB(b) THEN b
             ELSE From[B2NB(b)]
  BY <1>8
<1>11. WalkStep(bc, v, From)
  BY <1>10 DEF WalkStep
<1>. QED
  BY <1>9, <1>11

\* The headers of an arena are good, up to its end mark.
LEMMA ArenaPasses ==
  ASSUME PoolOK, NEW bc \in Leads(blk), NEW x \in DOMAIN blk, bc <= x, x < Lim(blk, bc)
  PROVE  Passes(x, bc) /\ x \in Solid(blk) /\ B2NB(x) <= Lim(blk, bc)
<1>1. /\ Kinds(blk) /\ Bounds(blk) /\ \A y \in DOMAIN blk : y \in Nat
  BY PoolFacts DEF PoolOK, Laid
<1>2. \A c \in Leads(blk) : c \in Nat /\ Lim(blk, c) \in Nat /\ c < Lim(blk, c) /\ Lim(blk, c) \in DOMAIN blk
                           /\ (c < bc => Lim(blk, c) < bc) /\ (bc < c => Lim(blk, bc) < c)
  <2>1. \A c \in Leads(blk) : c \in DOMAIN blk
    BY DEF Leads, With, Solid
  <2>. QED
    BY <1>1, <2>1 DEF Bounds
<1>3. x \in Nat /\ bc \in Nat
  BY <1>1, <1>2
<1>4. x \in Solid(blk)
  <2>1. SUFFICES ASSUME blk[x] = EndMark PROVE FALSE
    BY DEF Solid
  <2>2. PICK c \in Leads(blk) : x = Lim(blk, c)
    BY <1>1, <2>1 DEF Bounds
  <2>. QED
    BY <1>2, <1>3, <2>2
<1>5. x \in Leads(blk) => x = bc
  BY <1>2, <1>3
<1>6. Passes(x, bc)
  <2>1. blk[x].size > 0 /\ blk[x].magic \in {"A", "F", "I", "E"} /\ (blk[x].magic = "E" => x \in Leads(blk))
    BY <1>1, <1>4, BlockFacts
  <2>. QED
    BY <1>5, <2>1 DEF Passes
<1>7. B2NB(x) <= Lim(blk, bc)
  <2>1. \A y \in DOMAIN blk : y <= x \/ B2NB(x) <= y
    BY <1>6, NextInMemory DEF Passes
  <2>. QED
    BY <1>2, <1>3, <2>1
<1>. QED
  BY <1>4, <1>6, <1>7

\* The walk over an arena comes to the block that holds the address, and
\* past the last to the end mark.
LEMMA WalkFinds ==
  ASSUME PoolOK, NEW bc \in Leads(blk), NEW v \in Nat, NEW y \in DOMAIN blk, bc <= y, y <= v,
         \/ y < Lim(blk, bc) /\ v < B2NB(y)
         \/ y = Lim(blk, bc)
  PROVE  Walk(bc, v) = y
<1>1. \A x \in DOMAIN blk : x \in Nat /\ x \in Addr
  BY PoolFacts DEF PoolOK, InMemory
<1>2. bc \in DOMAIN blk /\ Lim(blk, bc) \in DOMAIN blk /\ blk[Lim(blk, bc)] = EndMark
  BY DEF PoolOK, Laid, Bounds, Leads, With, Solid
<1>3. PICK f : WalkStep(bc, v, f) /\ Walk(bc, v) = f[bc]
  BY <1>1, <1>2, WalkRecursion
<1>4. PICK ec : ec = Lim(blk, bc)
  OBVIOUS
<1>5. ec \in Nat /\ ec \in DOMAIN blk /\ blk[ec].magic = "E" /\ y \in Nat /\ bc \in Nat /\ y <= ec
  BY <1>1, <1>2, <1>4, HeaderFields DEF EndMark
<1> DEFINE D == {x \in DOMAIN blk : bc <= x /\ x <= y}
           S == {x \in D : f[x] = y}
           rank == [x \in D |-> y - x]
<1>6. ASSUME NEW x \in D, \A u \in D : rank[u] < rank[x] => u \in S PROVE x \in S
  <2>1. /\ x \in DOMAIN blk /\ x \in Nat /\ bc <= x /\ x <= y
        /\ f[x] = IF x >= ec THEN IF x = ec /\ ec \in DOMAIN blk /\ blk[x].magic = "E" THEN x ELSE nil
                  ELSE IF ~Passes(x, bc) THEN nil
                  ELSE IF v < B2NB(x) THEN x
                  ELSE f[B2NB(x)]
    BY <1>1, <1>3, <1>4 DEF WalkStep
  <2>2. CASE x = y /\ y = ec
    BY <1>5, <2>1, <2>2
  <2>3. CASE x = y /\ y < ec
    <3>1. Passes(x, bc)
      BY <1>4, <2>1, <2>3, ArenaPasses
    <3>2. v < B2NB(x)
      BY <1>4, <1>5, <2>3
    <3>. QED
      BY <1>5, <2>1, <2>3, <3>1, <3>2
  <2>4. CASE x # y
    <3>1. x < y /\ x < ec
      BY <1>5, <2>1, <2>4
    <3>2. Passes(x, bc)
      BY <1>4, <2>1, <3>1, ArenaPasses
    <3>3. B2NB(x) \in DOMAIN blk /\ B2NB(x) \in Nat /\ x < B2NB(x) /\ B2NB(x) <= y
      <4>1. B2NB(x) \in DOMAIN blk /\ x < B2NB(x) /\ \A z \in DOMAIN blk : z <= x \/ B2NB(x) <= z
        BY <3>2, NextInMemory DEF Passes
      <4>. QED
        BY <1>1, <1>5, <2>1, <3>1, <4>1
    <3>4. B2NB(x) \in D /\ rank[B2NB(x)] < rank[x]
      BY <1>5, <2>1, <3>3
    <3>5. f[B2NB(x)] = y
      BY <1>6, <3>4
    <3>6. ~(v < B2NB(x)) /\ ~(x >= ec)
      BY <1>5, <2>1, <3>1, <3>3
    <3>. QED
      BY <2>1, <3>2, <3>5, <3>6
  <2>. QED
    BY <1>5, <2>2, <2>3, <2>4
<1>7. D \subseteq S
  <2>1. \A x \in D : rank[x] \in Nat
    BY <1>1, <1>5
  <2> HIDE DEF D, S, rank
  <2>. QED
    BY <1>6, <2>1, RankInduction
<1>8. bc \in D
  BY <1>2, <1>5
<1>. QED
  BY <1>3, <1>7, <1>8

\* The audit finds nothing.
LEMMA Audits ==
  ASSUME IInv
  PROVE  PoolAudited
<1>1. /\ PoolOK /\ Kinds(blk) /\ Laid(blk, tail, chain) /\ Joined(blk)
      /\ Arenas = Leads(blk) /\ Blocks = Solid(blk) /\ \A x \in DOMAIN blk : x \in Nat
  BY PoolFacts, ArenasAre DEF IInv, PoolOK, Blocks, Solid
<1>2. \A c \in Leads(blk) : c \in DOMAIN blk /\ c < Lim(blk, c) /\ Lim(blk, c) \in DOMAIN blk /\ B2LIMIT(c) = Lim(blk, c)
  BY <1>1 DEF Laid, Bounds, Leads, With, Solid, B2LIMIT, Lim
<1>3. ASSUME NEW bc \in Leads(blk) PROVE Audited(bc)
  <2>1. Walk(bc, Lim(blk, bc)) = Lim(blk, bc)
    BY <1>1, <1>2, WalkFinds
  <2>2. blk[bc].magic = "E"
    BY DEF Leads, With
  <2>. QED
    BY <1>2, <2>1, <2>2 DEF Audited
<1>4. ASSUME NEW b \in Solid(blk)
      PROVE  /\ \E bc \in Leads(blk) : \A v \in b .. B2NB(b) - 1 : bc <= v /\ v < B2LIMIT(bc) /\ Walk(bc, v) = b
             /\ tail[B2NB(b)] = b
             /\ blk[b].magic = "F" => blk[B2NB(b)].magic # "F"
  <2>1. b \in DOMAIN blk /\ blk[b].size > 0 /\ blk[b].size \in Nat /\ blk[b] # EndMark
    BY <1>1, BlockFacts DEF Solid
  <2>2. PICK bc \in Leads(blk) : bc <= b /\ b <= Lim(blk, bc)
    BY <1>1, <2>1 DEF Laid, Bounds
  <2>3. b < Lim(blk, bc)
    <3>1. blk[Lim(blk, bc)] = EndMark
      BY <1>1 DEF Laid, Bounds
    <3>. QED
      BY <1>1, <1>2, <2>1, <2>2, <3>1
  <2>4. B2NB(b) <= Lim(blk, bc) /\ B2NB(b) \in Nat
    <3>1. B2NB(b) <= Lim(blk, bc)
      BY <1>1, <2>1, <2>2, <2>3, ArenaPasses
    <3>. QED
      BY <1>1, <2>1, <3>1 DEF B2NB
  <2>5. ASSUME NEW v \in b .. B2NB(b) - 1 PROVE bc <= v /\ v < B2LIMIT(bc) /\ Walk(bc, v) = b
    <3>1. v \in Nat /\ b <= v /\ v < B2NB(b) /\ bc \in Nat /\ b \in Nat /\ Lim(blk, bc) \in Nat
      BY <1>1, <1>2, <2>1, <2>4
    <3>2. bc <= v /\ v < Lim(blk, bc)
      BY <2>2, <2>4, <3>1
    <3>3. Walk(bc, v) = b
      BY <1>1, <2>1, <2>2, <2>3, <3>1, WalkFinds
    <3>. QED
      BY <1>2, <3>2, <3>3
  <2>6. tail[B2NB(b)] = b
    BY <1>1 DEF Laid, Tiles, B2NB
  <2>7. blk[b].magic = "F" => blk[B2NB(b)].magic # "F"
    BY <1>1 DEF Joined, With, B2NB
  <2>. QED
    BY <2>5, <2>6, <2>7
<1>. QED
  BY <1>1, <1>3, <1>4, Typed DEF PoolAudited

(***************************************************************************)
(* The theorems.                                                           *)
(***************************************************************************)
\* No step leaves the invariant: the blocks are laid out, the tree holds the
\* free ones, the books are right, and what each Proc has begun owns blocks
\* that are still in use and no other's.
THEOREM PoolInvariant == Spec => []IInv
<1>1. Init => IInv
  BY InitHolds
<1>2. IInv /\ [Next]_vars => IInv'
  BY StepKeeps
<1>. QED
  BY <1>1, <1>2, PTL DEF Spec

\* poolaudit finds nothing in any state, and no two free blocks are side by
\* side (alloc.c:392-422).
THEOREM PoolStaysAudited == Spec => []PoolAudited
<1>1. IInv => PoolAudited
  BY Audits
<1>. QED
  BY <1>1, PoolInvariant, PTL

\* The free tree holds the free blocks, each once, with the links pooldel
\* relies on (alloc.c:117-240).
THEOREM FreeTreeStaysExact == Spec => []FreeTreeExact
<1>1. IInv => FreeTreeExact
  BY TreeExact DEF IInv, PoolOK
<1>. QED
  BY <1>1, PoolInvariant, PTL

\* poolalloc takes a smallest free block that is large enough, and goes to
\* sbrk only when there is none (alloc.c:259-301).
THEOREM SearchStaysBest == Spec => []SearchFindsBest
<1>1. IInv => SearchFindsBest
  BY TreeSearched DEF IInv, PoolOK
<1>. QED
  BY <1>1, PoolInvariant, PTL

\* cursize and arenasize are what the blocks and the arenas come to, below
\* the limit (alloc.c:309-332).
THEOREM AccountsStayRight == Spec => []AccountsAgree
<1>1. IInv => AccountsAgree
  BY BooksAgree DEF IInv
<1>. QED
  BY <1>1, PoolInvariant, PTL
=============================================================================
