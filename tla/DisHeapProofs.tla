--------------------------- MODULE DisHeapProofs ---------------------------
(***************************************************************************)
(* The heap loses nothing that a Prog can reach, for every set of Progs,   *)
(* size of the heap and shape of the objects: destroy and the collector    *)
(* free only what no reference leads to, if every copy of a reference is   *)
(* marked (CopiesUnmarked = FALSE), and if the collector, when the block   *)
(* it was to visit has become the middle of another, sees that it has      *)
(* (DataAsHeader = FALSE): with data there that reads as a header it does  *)
(* not, and what follows is false.                                         *)
(***************************************************************************)
EXTENDS DisHeap, Recursion, FiniteSetTheorems, SequenceTheorems, TLAPS

(***************************************************************************)
(* What a recursive function is worth.                                     *)
(***************************************************************************)
\* f starts with first and goes on by the steps.
GoesOn(f, n, first, step) == f[0] = first /\ \A i \in 1 .. n : f[i] = step[i][f[i - 1]]

\* A recursion along 0 .. n has a solution.
LEMMA StepRecursion ==
  ASSUME NEW n \in Nat, NEW S, NEW first \in S, NEW step \in [1 .. n -> [S -> S]]
  PROVE  \E f \in [0 .. n -> S] : GoesOn(f, n, first, step)
<1> DEFINE Good(k, f) == f[0] = first /\ \A i \in 1 .. n : i <= k => f[i] = step[i][f[i - 1]]
           T == {k \in Nat : \E f \in [0 .. n -> S] : Good(k, f)}
<1>1. 0 \in T
  <2>1. [i \in 0 .. n |-> first] \in [0 .. n -> S]
    OBVIOUS
  <2>2. Good(0, [i \in 0 .. n |-> first])
    OBVIOUS
  <2>. QED
    BY <2>1, <2>2
<1>2. \A k \in Nat : k \in T => k + 1 \in T
  <2>1. SUFFICES ASSUME NEW k \in Nat, k \in T PROVE k + 1 \in T
    OBVIOUS
  <2>2. PICK f \in [0 .. n -> S] : Good(k, f)
    BY <2>1
  <2>3. CASE k + 1 > n
    <3>1. Good(k + 1, f)
      BY <2>2, <2>3
    <3>. QED
      BY <3>1
  <2>4. CASE k + 1 <= n
    <3> DEFINE new == step[k + 1][f[k]]
               h == [i \in 0 .. n |-> IF i = k + 1 THEN new ELSE f[i]]
    <3>1. /\ k + 1 \in 1 .. n /\ k \in 0 .. n /\ new \in S
      BY <2>4
    <3>2. h \in [0 .. n -> S] /\ h[0] = f[0] /\ h[k + 1] = new
      BY <3>1
    <3>3. \A i \in 0 .. n : i <= k => h[i] = f[i]
      BY <3>1
    <3>4. ASSUME NEW i \in 1 .. n, i <= k + 1 PROVE h[i] = step[i][h[i - 1]]
      <4>1. CASE i = k + 1
        <5>1. h[i - 1] = f[k]
          BY <4>1, <3>1, <3>3
        <5>. QED
          BY <4>1, <5>1, <3>2
      <4>2. CASE i <= k
        <5>1. i - 1 \in 0 .. n /\ i - 1 <= k /\ i \in 0 .. n
          BY <4>2
        <5>2. h[i] = f[i] /\ h[i - 1] = f[i - 1]
          BY <5>1, <4>2, <3>3
        <5>. QED
          BY <5>2, <4>2, <2>2
      <4>. QED
        BY <3>4, <4>1, <4>2
    <3> HIDE DEF h, new
    <3>5. Good(k + 1, h)
      BY <2>2, <3>2, <3>4
    <3>. QED
      BY <3>2, <3>5
  <2>. QED
    BY <2>3, <2>4
<1>3. n \in T
  <2>. HIDE DEF T
  <2>. QED
    BY <1>1, <1>2, SetInduction
<1>. QED
  BY <1>3 DEF GoesOn

(***************************************************************************)
(* Counting: Occ(D, g, o) of the places D hold o, by g.                    *)
(***************************************************************************)
Occ(D, g, o) == Cardinality({c \in D : g[c] = o})

Is(x, o) == IF x = o THEN 1 ELSE 0

\* A count is a number, and zero if no place holds o.
LEMMA OccNat ==
  ASSUME NEW D, IsFiniteSet(D), NEW g, NEW o
  PROVE  /\ IsFiniteSet({c \in D : g[c] = o})
         /\ Occ(D, g, o) \in Nat
         /\ Occ(D, g, o) = 0 <=> \A c \in D : g[c] # o
<1>1. {c \in D : g[c] = o} \in SUBSET D
  OBVIOUS
<1>2. IsFiniteSet({c \in D : g[c] = o})
  BY <1>1, FS_Subset
<1>3. Cardinality({c \in D : g[c] = o}) = 0 <=> {c \in D : g[c] = o} = {}
  BY <1>2, FS_EmptySet
<1>. QED
  BY <1>2, <1>3, FS_CardinalityType DEF Occ

\* The cardinality of a disjoint union.
LEMMA CardDisjoint ==
  ASSUME NEW S, IsFiniteSet(S), NEW T, IsFiniteSet(T), S \cap T = {}
  PROVE  Cardinality(S \cup T) = Cardinality(S) + Cardinality(T)
<1>1. Cardinality(S \cup T) = Cardinality(S) + Cardinality(T) - Cardinality(S \cap T)
  BY FS_Union
<1>2. Cardinality(S \cap T) = 0
  BY FS_EmptySet
<1>3. Cardinality(S) \in Nat /\ Cardinality(T) \in Nat
  BY FS_CardinalityType
<1>. QED
  BY <1>1, <1>2, <1>3

\* Disjoint sets of places.
LEMMA OccSplit ==
  ASSUME NEW D, IsFiniteSet(D), NEW E, IsFiniteSet(E), D \cap E = {}, NEW g, NEW o
  PROVE  Occ(D \cup E, g, o) = Occ(D, g, o) + Occ(E, g, o)
<1> DEFINE In(X) == {c \in X : g[c] = o}
<1>1. IsFiniteSet(In(D)) /\ IsFiniteSet(In(E))
  BY OccNat
<1>2. In(D \cup E) = In(D) \cup In(E) /\ In(D) \cap In(E) = {}
  OBVIOUS
<1>3. Occ(D \cup E, g, o) = Cardinality(In(D \cup E)) /\ Occ(D, g, o) = Cardinality(In(D))
      /\ Occ(E, g, o) = Cardinality(In(E))
  BY DEF Occ
<1> HIDE DEF In
<1>4. Cardinality(In(D) \cup In(E)) = Cardinality(In(D)) + Cardinality(In(E))
  BY <1>1, <1>2, CardDisjoint
<1>. QED
  BY <1>2, <1>3, <1>4

\* One place.
LEMMA OccOne ==
  ASSUME NEW c, NEW g, NEW o
  PROVE  Occ({c}, g, o) = Is(g[c], o)
<1>1. CASE g[c] = o
  <2>1. {x \in {c} : g[x] = o} = {c}
    BY <1>1
  <2>. QED
    BY <1>1, <2>1, FS_Singleton DEF Occ, Is
<1>2. CASE g[c] # o
  <2>1. {x \in {c} : g[x] = o} = {}
    BY <1>2
  <2>. QED
    BY <1>2, <2>1, FS_EmptySet DEF Occ, Is
<1>. QED
  BY <1>1, <1>2

\* Places that hold the same.
LEMMA OccSame ==
  ASSUME NEW D, NEW g, NEW h, \A c \in D : g[c] = h[c], NEW o
  PROVE  Occ(D, g, o) = Occ(D, h, o)
<1>1. {c \in D : g[c] = o} = {c \in D : h[c] = o}
  OBVIOUS
<1>. QED
  BY <1>1 DEF Occ

\* A change of what the places E hold.
LEMMA OccChange ==
  ASSUME NEW D, IsFiniteSet(D), NEW E \in SUBSET D, NEW g, NEW h,
         \A c \in D \ E : g[c] = h[c], NEW o
  PROVE  Occ(D, h, o) + Occ(E, g, o) = Occ(D, g, o) + Occ(E, h, o)
<1>1. IsFiniteSet(E) /\ IsFiniteSet(D \ E)
  BY FS_Subset
<1>2. D = (D \ E) \cup E /\ (D \ E) \cap E = {}
  OBVIOUS
<1>3. Occ(D, g, o) = Occ(D \ E, g, o) + Occ(E, g, o)
  BY <1>1, <1>2, OccSplit
<1>4. Occ(D, h, o) = Occ(D \ E, h, o) + Occ(E, h, o)
  BY <1>1, <1>2, OccSplit
<1>5. Occ(D \ E, g, o) = Occ(D \ E, h, o)
  BY OccSame
<1>6. /\ Occ(D \ E, g, o) \in Nat /\ Occ(E, g, o) \in Nat
      /\ Occ(D \ E, h, o) \in Nat /\ Occ(E, h, o) \in Nat
  BY <1>1, OccNat
<1>. QED
  BY <1>3, <1>4, <1>5, <1>6

\* A change of one place.
LEMMA OccPut ==
  ASSUME NEW D, IsFiniteSet(D), NEW c \in D, NEW g, NEW h,
         \A x \in D : x # c => g[x] = h[x], NEW o
  PROVE  Occ(D, h, o) + Is(g[c], o) = Occ(D, g, o) + Is(h[c], o)
<1>1. {c} \in SUBSET D /\ \A x \in D \ {c} : g[x] = h[x]
  OBVIOUS
<1>2. Occ(D, h, o) + Occ({c}, g, o) = Occ(D, g, o) + Occ({c}, h, o)
  BY <1>1, OccChange
<1>. QED
  BY <1>2, OccOne

\* Places that hold less.
LEMMA OccLess ==
  ASSUME NEW D, IsFiniteSet(D), NEW g, NEW h, NEW o,
         \A c \in D : h[c] = o => g[c] = o
  PROVE  Occ(D, h, o) <= Occ(D, g, o)
<1>1. {c \in D : h[c] = o} \in SUBSET {c \in D : g[c] = o}
  OBVIOUS
<1>2. IsFiniteSet({c \in D : g[c] = o})
  BY OccNat
<1>. QED
  BY <1>1, <1>2, FS_Subset DEF Occ

\* A renaming of the places.
LEMMA OccRename ==
  ASSUME NEW D, IsFiniteSet(D), NEW E, NEW b \in [D -> E], NEW g, NEW h, NEW o,
         \A x, y \in D : b[x] = b[y] => x = y,
         \A y \in E : \E x \in D : b[x] = y,
         \A x \in D : h[b[x]] = g[x]
  PROVE  Occ(E, h, o) = Occ(D, g, o)
<1> DEFINE S == {c \in D : g[c] = o}
           T == {c \in E : h[c] = o}
           f == [x \in S |-> b[x]]
<1>1. IsFiniteSet(S)
  <2>1. S \in SUBSET D
    OBVIOUS
  <2>. QED
    BY <2>1, FS_Subset
<1>2. f \in [S -> T] /\ \A x, y \in S : f[x] = f[y] => x = y
  OBVIOUS
<1>3. \A y \in T : \E x \in S : f[x] = y
  OBVIOUS
<1>4. f \in Bijection(S, T)
  <2> HIDE DEF S, T, f
  <2>. QED
    BY <1>2, <1>3 DEF Bijection, Injection, IsInjective, Surjection
<1>5. Cardinality(T) = Cardinality(S)
  <2> HIDE DEF S, T, f
  <2>. QED
    BY <1>1, <1>4, FS_Bijection DEF ExistsBijection
<1>. QED
  BY <1>5 DEF Occ

(***************************************************************************)
(* Counting in sequences: of references, and of what is to be destroyed.   *)
(***************************************************************************)
Item == [o : Obj, n : Nat]

InSeq(v, o) == Occ(1 .. Len(v), v, o)

Objs(td) == [i \in 1 .. Len(td) |-> td[i].o]
InTodo(td, o) == InSeq(Objs(td), o)

\* A count in a sequence is a number.
LEMMA InSeqNat ==
  ASSUME NEW S, NEW v \in Seq(S), NEW o
  PROVE  /\ IsFiniteSet(1 .. Len(v)) /\ InSeq(v, o) \in Nat
         /\ InSeq(v, o) = 0 <=> \A i \in 1 .. Len(v) : v[i] # o
<1>1. IsFiniteSet(1 .. Len(v))
  <2>1. 1 \in Int /\ Len(v) \in Int
    OBVIOUS
  <2>. QED
    BY <2>1, FS_Interval
<1> DEFINE D == 1 .. Len(v)
<1>2. IsFiniteSet(D) /\ InSeq(v, o) = Occ(D, v, o)
  BY <1>1 DEF InSeq
<1>3. InSeq(v, o) \in Nat /\ (InSeq(v, o) = 0 <=> \A i \in D : v[i] # o)
  <2> HIDE DEF D
  <2>. QED
    BY <1>2, OccNat
<1>. QED
  BY <1>1, <1>3

\* Counts add up when sequences are put together.
LEMMA InSeqConcat ==
  ASSUME NEW S, NEW v \in Seq(S), NEW w \in Seq(S), NEW o
  PROVE  InSeq(v \o w, o) = InSeq(v, o) + InSeq(w, o)
<1> DEFINE m == Len(v)
           n == Len(w)
           u == v \o w
           D == 1 .. n
           E == m + 1 .. m + n
           b == [i \in D |-> m + i]
<1>1. /\ m \in Nat /\ n \in Nat /\ u \in Seq(S) /\ Len(u) = m + n
      /\ \A i \in 1 .. m : u[i] = v[i]
      /\ \A i \in D : u[b[i]] = w[i]
  OBVIOUS
<1> HIDE DEF m, n, u
<1>2. IsFiniteSet(1 .. m) /\ IsFiniteSet(D) /\ IsFiniteSet(E)
  <2>1. 1 \in Int /\ m \in Int /\ n \in Int /\ m + 1 \in Int /\ m + n \in Int
    BY <1>1
  <2>. QED
    BY <2>1, FS_Interval
<1>3. 1 .. Len(u) = (1 .. m) \cup E /\ (1 .. m) \cap E = {}
  BY <1>1
<1>4. InSeq(u, o) = Occ(1 .. m, u, o) + Occ(E, u, o)
  <2> DEFINE A == 1 .. m
  <2>0. IsFiniteSet(A) /\ IsFiniteSet(E) /\ A \cap E = {}
    BY <1>2, <1>3
  <2> HIDE DEF A, E
  <2>1. Occ(A \cup E, u, o) = Occ(A, u, o) + Occ(E, u, o)
    BY <2>0, OccSplit
  <2> USE DEF A
  <2>. QED
    BY <1>3, <2>1 DEF InSeq
<1>5. Occ(1 .. m, u, o) = InSeq(v, o)
  BY <1>1, OccSame DEF InSeq, m
<1>6. Occ(E, u, o) = Occ(D, w, o)
  <2>1. b \in [D -> E] /\ \A x, y \in D : b[x] = b[y] => x = y
    BY <1>1
  <2>2. \A y \in E : \E x \in D : b[x] = y
    <3>1. SUFFICES ASSUME NEW y \in E PROVE \E x \in D : b[x] = y
      OBVIOUS
    <3>2. y - m \in D /\ b[y - m] = y
      BY <1>1
    <3>. QED
      BY <3>2
  <2>3. \A x \in D : u[b[x]] = w[x]
    BY <1>1
  <2> HIDE DEF b, D, E
  <2>4. /\ b \in [D -> E] /\ IsFiniteSet(D)
        /\ \A x, y \in D : b[x] = b[y] => x = y
        /\ \A y \in E : \E x \in D : b[x] = y
    BY <1>2, <2>1, <2>2
  <2>. QED
    BY <2>3, <2>4, OccRename
<1>. QED
  BY <1>4, <1>5, <1>6 DEF InSeq, n, u

\* A sequence of one.
LEMMA InSeqOne ==
  ASSUME NEW x, NEW o
  PROVE  InSeq(<<x>>, o) = Is(x, o)
<1>1. Len(<<x>>) = 1 /\ 1 .. 1 = {1} /\ <<x>>[1] = x
  OBVIOUS
<1>2. InSeq(<<x>>, o) = Occ({1}, <<x>>, o)
  BY <1>1 DEF InSeq
<1>. QED
  BY <1>1, <1>2, OccOne

\* What is to be destroyed, as a sequence of objects.
LEMMA ObjsSeq ==
  ASSUME NEW td \in Seq(Item), NEW o
  PROVE  /\ Objs(td) \in Seq(Obj) /\ Len(Objs(td)) = Len(td) /\ InTodo(td, o) \in Nat
         /\ InTodo(td, o) = 0 <=> \A i \in 1 .. Len(td) : td[i].o # o
<1>1. \A i \in 1 .. Len(td) : td[i].o \in Obj
  <2>1. \A i \in 1 .. Len(td) : td[i] \in Item
    OBVIOUS
  <2>. QED
    BY <2>1 DEF Item
<1>2. Objs(td) \in Seq(Obj) /\ Len(Objs(td)) = Len(td)
  BY <1>1 DEF Objs
<1>. QED
  BY <1>2, InSeqNat DEF InTodo, Objs

\* Counts add up.
LEMMA InTodoConcat ==
  ASSUME NEW td \in Seq(Item), NEW te \in Seq(Item), NEW o
  PROVE  td \o te \in Seq(Item) /\ InTodo(td \o te, o) = InTodo(td, o) + InTodo(te, o)
<1>1. /\ Objs(td) \in Seq(Obj) /\ Objs(te) \in Seq(Obj) /\ Objs(td \o te) \in Seq(Obj)
      /\ Len(Objs(td)) = Len(td) /\ Len(Objs(te)) = Len(te) /\ Len(Objs(td \o te)) = Len(td) + Len(te)
  <2>1. td \o te \in Seq(Item) /\ Len(td \o te) = Len(td) + Len(te)
    BY ConcatProperties
  <2>. QED
    BY <2>1, ObjsSeq
<1>2. \A i \in 1 .. Len(td) + Len(te) : Objs(td \o te)[i] = (Objs(td) \o Objs(te))[i]
  <2>1. SUFFICES ASSUME NEW i \in 1 .. Len(td) + Len(te)
                 PROVE  Objs(td \o te)[i] = (Objs(td) \o Objs(te))[i]
    OBVIOUS
  <2>2. Objs(td \o te)[i] = (td \o te)[i].o
    BY DEF Objs
  <2>3. CASE i <= Len(td)
    <3>1. (td \o te)[i] = td[i] /\ (Objs(td) \o Objs(te))[i] = Objs(td)[i]
      BY <2>3, <1>1
    <3>2. Objs(td)[i] = td[i].o
      BY <2>3 DEF Objs
    <3>. QED
      BY <2>2, <3>1, <3>2
  <2>4. CASE i > Len(td)
    <3>1. /\ (td \o te)[i] = te[i - Len(td)] /\ (Objs(td) \o Objs(te))[i] = Objs(te)[i - Len(td)]
          /\ i - Len(td) \in 1 .. Len(te)
      BY <2>4, <1>1
    <3>2. Objs(te)[i - Len(td)] = te[i - Len(td)].o
      BY <3>1 DEF Objs
    <3>. QED
      BY <2>2, <3>1, <3>2
  <2>5. i <= Len(td) \/ i > Len(td)
    OBVIOUS
  <2>. QED
    BY <2>3, <2>4, <2>5
<1>3. Objs(td \o te) = Objs(td) \o Objs(te)
  <2>1. Objs(td) \o Objs(te) \in Seq(Obj) /\ Len(Objs(td) \o Objs(te)) = Len(td) + Len(te)
    BY <1>1, ConcatProperties
  <2>. QED
    BY <1>1, <1>2, <2>1, SeqEqual
<1>. QED
  BY <1>1, <1>3, InSeqConcat DEF InTodo

\* One that is to be destroyed.
LEMMA InTodoOne ==
  ASSUME NEW x \in Item, NEW o
  PROVE  <<x>> \in Seq(Item) /\ InTodo(<<x>>, o) = Is(x.o, o)
<1>1. <<x>> \in Seq(Item) /\ Objs(<<x>>) = <<x.o>>
  BY DEF Objs
<1>. QED
  BY <1>1, InSeqOne DEF InTodo

\* None that is.
LEMMA InTodoNone ==
  ASSUME NEW o
  PROVE  <<>> \in Seq(Item) /\ InTodo(<<>>, o) = 0
<1>1. <<>> \in Seq(Item) /\ \A i \in 1 .. Len(<<>>) : FALSE
  OBVIOUS
<1>. QED
  BY <1>1, ObjsSeq

\* The first that is and the rest.
LEMMA InTodoTail ==
  ASSUME NEW td \in Seq(Item), td # <<>>, NEW o
  PROVE  /\ Head(td) \in Item /\ Tail(td) \in Seq(Item)
         /\ InTodo(td, o) = Is(Head(td).o, o) + InTodo(Tail(td), o)
<1>1. Head(td) \in Item /\ Tail(td) \in Seq(Item) /\ <<Head(td)>> \in Seq(Item)
  OBVIOUS
<1>2. td = <<Head(td)>> \o Tail(td)
  OBVIOUS
<1>3. InTodo(<<Head(td)>> \o Tail(td), o) = InTodo(<<Head(td)>>, o) + InTodo(Tail(td), o)
  BY <1>1, InTodoConcat
<1>. QED
  BY <1>1, <1>2, <1>3, InTodoOne

\* What Drops appends for one reference.
DropOne(x, n, s) == IF x = H THEN s ELSE Append(s, [o |-> x, n |-> n])

\* Drops as a function of how much of v it has gone through.
LEMMA DropsRecursion ==
  ASSUME NEW v \in Seq(Ref), NEW n \in Nat
  PROVE  \E w \in [0 .. Len(v) -> Seq(Item)] :
           /\ Drops(v, n) = w[Len(v)] /\ w[0] = <<>>
           /\ \A i \in 1 .. Len(v) : w[i] = DropOne(v[i], n, w[i - 1])
<1> DEFINE S == Seq(Item)
           step == [i \in 1 .. Len(v) |-> [s \in S |-> DropOne(v[i], n, s)]]
<1>1. <<>> \in S /\ Len(v) \in Nat
  OBVIOUS
<1>2. step \in [1 .. Len(v) -> [S -> S]]
  <2>1. SUFFICES ASSUME NEW i \in 1 .. Len(v), NEW s \in S PROVE DropOne(v[i], n, s) \in S
    OBVIOUS
  <2>2. v[i] \in Ref
    OBVIOUS
  <2>3. v[i] # H => [o |-> v[i], n |-> n] \in Item
    BY <2>2 DEF Ref, Item
  <2>. QED
    BY <2>3, AppendProperties DEF DropOne
<1>3. PICK w \in [0 .. Len(v) -> S] : w[0] = <<>> /\ \A i \in 1 .. Len(v) : w[i] = step[i][w[i - 1]]
  <2> DEFINE m == Len(v)
             e == <<>>
  <2>1. m \in Nat /\ e \in S /\ step \in [1 .. m -> [S -> S]]
    BY <1>1, <1>2
  <2> HIDE DEF S, step, m, e
  <2>2. \E f \in [0 .. m -> S] : GoesOn(f, m, e, step)
    BY <2>1, StepRecursion
  <2>. QED
    BY <2>2 DEF m, e, GoesOn
<1>4. \A i \in 1 .. Len(v) : w[i] = DropOne(v[i], n, w[i - 1])
  <2>1. SUFFICES ASSUME NEW i \in 1 .. Len(v) PROVE w[i] = DropOne(v[i], n, w[i - 1])
    OBVIOUS
  <2>2. i - 1 \in 0 .. Len(v)
    BY <1>1
  <2>3. w[i - 1] \in S
    BY <2>2
  <2>. QED
    BY <2>3, <1>3
<1>5. Drops(v, n) = w[Len(v)]
  <2> DEFINE d[i \in 0 .. Len(v)] ==
               IF i = 0 THEN <<>>
               ELSE IF v[i] = H THEN d[i - 1]
               ELSE Append(d[i - 1], [o |-> v[i], n |-> n])
  <2>1. \A i \in 0 .. Len(v) : w[i] = IF i = 0 THEN <<>>
                                      ELSE IF v[i] = H THEN w[i - 1]
                                      ELSE Append(w[i - 1], [o |-> v[i], n |-> n])
    <3>1. SUFFICES ASSUME NEW i \in 0 .. Len(v), i # 0 PROVE w[i] = DropOne(v[i], n, w[i - 1])
      BY <1>3 DEF DropOne
    <3>2. i \in 1 .. Len(v)
      BY <1>1, <3>1
    <3>. QED
      BY <3>2, <1>4
  <2>2. w = [i \in 0 .. Len(v) |-> IF i = 0 THEN <<>>
                                   ELSE IF v[i] = H THEN w[i - 1]
                                   ELSE Append(w[i - 1], [o |-> v[i], n |-> n])]
    BY <2>1
  <2>3. d = [i \in 0 .. Len(v) |-> IF i = 0 THEN <<>>
                                   ELSE IF v[i] = H THEN d[i - 1]
                                   ELSE Append(d[i - 1], [o |-> v[i], n |-> n])]
    BY <2>2
  <2> HIDE DEF d
  <2>4. /\ d[0] = <<>>
        /\ \A i \in 1 .. Len(v) : d[i] = DropOne(v[i], n, d[i - 1])
    <3>1. \A i \in 0 .. Len(v) : d[i] = IF i = 0 THEN <<>>
                                        ELSE IF v[i] = H THEN d[i - 1]
                                        ELSE Append(d[i - 1], [o |-> v[i], n |-> n])
      BY <2>3
    <3>2. 0 \in 0 .. Len(v) /\ \A i \in 1 .. Len(v) : i \in 0 .. Len(v) /\ i # 0
      BY <1>1
    <3>. QED
      BY <3>1, <3>2 DEF DropOne
  <2> DEFINE T == {i \in Nat : i <= Len(v) => d[i] = w[i]}
  <2>5. 0 \in T
    BY <2>4, <1>3
  <2>6. \A i \in Nat : i \in T => i + 1 \in T
    <3>1. SUFFICES ASSUME NEW i \in Nat, i \in T, i + 1 <= Len(v) PROVE d[i + 1] = w[i + 1]
      OBVIOUS
    <3>2. i + 1 \in 1 .. Len(v) /\ (i + 1) - 1 = i /\ d[i] = w[i]
      BY <3>1, <1>1
    <3>3. d[i + 1] = DropOne(v[i + 1], n, d[i]) /\ w[i + 1] = DropOne(v[i + 1], n, w[i])
      BY <3>2, <2>4, <1>4
    <3>. QED
      BY <3>2, <3>3
  <2>7. d[Len(v)] = w[Len(v)]
    <3>1. Len(v) \in T
      <4> HIDE DEF T
      <4>. QED
        BY <1>1, <2>5, <2>6, SetInduction
    <3>. QED
      BY <3>1, <1>1
  <2>8. Drops(v, n) = d[Len(v)]
    BY DEF Drops, d
  <2>. QED
    BY <2>7, <2>8
<1>. QED
  BY <1>3, <1>4, <1>5

\* Drops drops each reference of v once.
LEMMA DropsCount ==
  ASSUME NEW v \in Seq(Ref), NEW n \in Nat
  PROVE  /\ Drops(v, n) \in Seq(Item)
         /\ \A o \in Obj : InTodo(Drops(v, n), o) = InSeq(v, o)
<1>1. PICK w \in [0 .. Len(v) -> Seq(Item)] :
        /\ Drops(v, n) = w[Len(v)] /\ w[0] = <<>>
        /\ \A i \in 1 .. Len(v) : w[i] = DropOne(v[i], n, w[i - 1])
  BY DropsRecursion
<1>2. Len(v) \in Nat /\ Drops(v, n) \in Seq(Item)
  BY <1>1
<1>3. ASSUME NEW o \in Obj PROVE InTodo(Drops(v, n), o) = InSeq(v, o)
  <2> DEFINE T == {i \in Nat : i <= Len(v) => InTodo(w[i], o) = Occ(1 .. i, v, o)}
  <2>1. 0 \in T
    <3>1. IsFiniteSet({}) /\ 1 .. 0 = {} /\ \A i \in {} : v[i] # o
      BY FS_EmptySet
    <3>2. Occ({}, v, o) = 0
      BY <3>1, OccNat
    <3>. QED
      BY <1>1, <3>1, <3>2, InTodoNone
  <2>2. \A i \in Nat : i \in T => i + 1 \in T
    <3>1. SUFFICES ASSUME NEW i \in Nat, i + 1 <= Len(v), InTodo(w[i], o) = Occ(1 .. i, v, o)
                   PROVE  InTodo(w[i + 1], o) = Occ(1 .. i + 1, v, o)
      BY <1>2
    <3>2. i + 1 \in 1 .. Len(v) /\ (i + 1) - 1 = i /\ i \in 0 .. Len(v)
      BY <3>1, <1>2
    <3>3. w[i] \in Seq(Item) /\ w[i + 1] = DropOne(v[i + 1], n, w[i]) /\ v[i + 1] \in Ref
      BY <3>2, <1>1
    <3>4. Occ(1 .. i + 1, v, o) = Occ(1 .. i, v, o) + Is(v[i + 1], o)
      <4> DEFINE D == 1 .. i
                 E == {i + 1}
      <4>1. 1 .. i + 1 = D \cup E /\ D \cap E = {}
        OBVIOUS
      <4>2. IsFiniteSet(D)
        <5>1. 1 \in Int /\ i \in Int
          OBVIOUS
        <5>. QED
          BY <5>1, FS_Interval
      <4>3. IsFiniteSet(E) /\ Occ(E, v, o) = Is(v[i + 1], o)
        BY FS_Singleton, OccOne
      <4> HIDE DEF D, E
      <4>4. Occ(D \cup E, v, o) = Occ(D, v, o) + Occ(E, v, o)
        BY <4>1, <4>2, <4>3, OccSplit
      <4>. QED
        BY <4>1, <4>3, <4>4 DEF D
    <3>5. Occ(1 .. i, v, o) \in Nat
      BY <3>1, <3>3, ObjsSeq
    <3>6. InTodo(w[i + 1], o) = InTodo(w[i], o) + Is(v[i + 1], o)
      <4>1. CASE v[i + 1] = H
        <5>1. Is(v[i + 1], o) = 0 /\ w[i + 1] = w[i]
          BY <4>1, <3>3, HeapAssumption DEF Is, DropOne
        <5>2. InTodo(w[i], o) \in Nat
          BY <3>3, ObjsSeq
        <5>. QED
          BY <5>1, <5>2
      <4>2. CASE v[i + 1] # H
        <5> DEFINE x == [o |-> v[i + 1], n |-> n]
        <5>1. x \in Item /\ x.o = v[i + 1]
          BY <4>2, <3>3 DEF Ref, Item
        <5>2. w[i + 1] = Append(w[i], x)
          BY <4>2, <3>3 DEF DropOne
        <5> HIDE DEF x
        <5>3. Append(w[i], x) = w[i] \o <<x>>
          BY <3>3, <5>1, AppendIsConcat
        <5>4. InTodo(w[i] \o <<x>>, o) = InTodo(w[i], o) + InTodo(<<x>>, o)
          BY <3>3, <5>1, InTodoOne, InTodoConcat
        <5>. QED
          BY <5>1, <5>2, <5>3, <5>4, InTodoOne
      <4>. QED
        BY <4>1, <4>2
    <3>. QED
      BY <3>1, <3>4, <3>5, <3>6
  <2>3. Len(v) \in T
    <3> HIDE DEF T
    <3>. QED
      BY <1>2, <2>1, <2>2, SetInduction
  <2>. QED
    BY <1>1, <2>3 DEF InSeq
<1>. QED
  BY <1>2, <1>3

\* The pointers of an object, as a sequence.
LEMMA FieldsSeq ==
  ASSUME NEW r \in [1 .. Fields -> Ref]
  PROVE  r \in Seq(Ref) /\ Len(r) = Fields /\ r # <<>>
<1>1. r \in Seq(Ref) /\ Len(r) = Fields
  BY HeapAssumption
<1>. QED
  BY <1>1, HeapAssumption

\* Children drops each pointer of the object once.
LEMMA ChildrenCount ==
  ASSUME NEW o \in Obj, fld[o] \in [1 .. Fields -> Ref], NEW n \in Nat
  PROVE  /\ Children(o, n) \in Seq(Item)
         /\ \A x \in Obj : InTodo(Children(o, n), x) = Occ(1 .. Fields, fld[o], x)
<1> DEFINE v == fld[o]
<1>1. v \in Seq(Ref) /\ Len(v) = Fields /\ v # <<>>
  BY FieldsSeq
<1>2. n + 1 \in Nat
  OBVIOUS
<1>3. CASE kind[o] # "list"
  BY <1>1, <1>2, <1>3, DropsCount DEF Children, InSeq
<1>4. CASE kind[o] = "list"
  <2>1. /\ Tail(v) \in Seq(Ref) /\ <<v[First]>> \in Seq(Ref) /\ v = <<v[First]>> \o Tail(v)
    BY <1>1 DEF First
  <2>2. Children(o, n) = Drops(Tail(v), n + 1) \o Drops(<<v[First]>>, n)
    BY <1>4 DEF Children
  <2>3. Drops(Tail(v), n + 1) \in Seq(Item) /\ Drops(<<v[First]>>, n) \in Seq(Item)
    BY <2>1, <1>2, DropsCount
  <2>4. ASSUME NEW x \in Obj PROVE InTodo(Children(o, n), x) = InSeq(v, x)
    <3>1. InTodo(Children(o, n), x) = InTodo(Drops(Tail(v), n + 1), x) + InTodo(Drops(<<v[First]>>, n), x)
      BY <2>2, <2>3, InTodoConcat
    <3>2. /\ InTodo(Drops(Tail(v), n + 1), x) = InSeq(Tail(v), x)
          /\ InTodo(Drops(<<v[First]>>, n), x) = InSeq(<<v[First]>>, x)
      BY <2>1, <1>2, DropsCount
    <3>3. InSeq(<<v[First]>> \o Tail(v), x) = InSeq(<<v[First]>>, x) + InSeq(Tail(v), x)
      BY <2>1, InSeqConcat
    <3>4. InSeq(<<v[First]>>, x) \in Nat /\ InSeq(Tail(v), x) \in Nat
      BY <2>1, InSeqNat
    <3>5. InSeq(v, x) = InSeq(<<v[First]>> \o Tail(v), x)
      BY <2>1
    <3> HIDE DEF v
    <3>. QED
      BY <3>1, <3>2, <3>3, <3>4, <3>5
  <2>5. Children(o, n) \in Seq(Item)
    BY <2>2, <2>3, InTodoConcat
  <2>. QED
    BY <2>4, <2>5, <1>1 DEF InSeq
<1>. QED
  BY <1>3, <1>4

(***************************************************************************)
(* The invariant.                                                          *)
(***************************************************************************)
\* The pointers of the Progs: M (frame and slot 0), and in each frame mr
\* (slot 0) and the slots.
Cell == Prog \X (0 .. Depth) \X (0 .. Slots)

InCell(st, m, p, k, s) ==
  IF k = 0 THEN IF s = 0 THEN m[p] ELSE H
  ELSE IF k > Len(st[p]) THEN H
  ELSE IF s = 0 THEN st[p][k].mr ELSE st[p][k].slot[s]

HeldIn(st, m) == [c \in Cell |-> InCell(st, m, c[1], c[2], c[3])]

Held == HeldIn(stk, M)

\* The pointers in the objects of K.
Field == Obj \X (1 .. Fields)

PointedIn(fs, K) == [c \in Field |-> IF c[1] \in K THEN fs[c[1]][c[2]] ELSE H]

Pointed == PointedIn(fld, Kept)

Found == {o \in Allocated : color[o] \in {mutator, propagator}}

\* TypeOK, but for the blocks.
Typed ==
  /\ kind \in [Obj -> Kind] /\ color \in [Obj -> 0 .. 3] /\ ref \in [Obj -> Nat]
  /\ fld \in [Obj -> [1 .. Fields -> Ref]]
  /\ stk \in [Prog -> Seq(Frame)] /\ built \in [Prog -> BOOLEAN] /\ M \in [Prog -> Ref]
  /\ todo \in Seq([o : Obj, n : Nat])
  /\ walk \in Ref /\ ptr \in 1 .. N + 1
  /\ mutator \in 0 .. 2 /\ nprop \in BOOLEAN /\ epochs \in 0 .. 3

\* Every object begins where a block does, so that the pass comes to it.
Layout == blocks \subseteq Obj /\ Allocated \subseteq blocks

\* A free block is clean; a frame being built has one below it.
Shapes ==
  /\ \A o \in Obj : kind[o] = "free" => fld[o] = Nils
  /\ \A p \in Prog : Len(stk[p]) <= Depth /\ (built[p] => Len(stk[p]) >= 2)

\* The three parts of NoLostObject.
HeldFound == \A c \in Cell : Held[c] \in Found \cup {H}

SeenFound ==
  \A o \in Found : color[o] = mutator /\ o # walk =>
    \A f \in 1 .. Fields : fld[o][f] \in Found \cup {H}

KeptKept == \A o \in Kept : \A f \in 1 .. Fields : fld[o][f] \in Kept \cup {H}

\* What this pass has visited: propagators are noted, sweepers swept.
Passed ==
  \A o \in Allocated : /\ color[o] = propagator /\ o < ptr => nprop
                       /\ color[o] = sweeper => o >= ptr

\* marklist has marked the data of the list element it is at.
Walking ==
  walk # H => /\ walk \in Found /\ todo = <<>>
              /\ \A f \in 2 .. Fields : fld[walk][f] \in Found \cup {H}

TodoKept == \A i \in 1 .. Len(todo) : todo[i].o \in Kept

\* RefsCounted, with the references in cells and fields.
References(o) == Occ(Cell, Held, o) + Occ(Field, Pointed, o)

Counted == \A o \in Allocated : References(o) + InTodo(todo, o) <= ref[o]

HInv ==
  /\ Typed /\ Shapes /\ HeldFound /\ SeenFound /\ KeptKept
  /\ Passed /\ Walking /\ TodoKept /\ Counted

\* The cells and fields are finitely many.
LEMMA PlacesFinite == IsFiniteSet(Cell) /\ IsFiniteSet(Field)
<1>1. /\ IsFiniteSet(0 .. Depth) /\ IsFiniteSet(0 .. Slots) /\ IsFiniteSet(1 .. N)
      /\ IsFiniteSet(1 .. Fields)
  <2>1. /\ 0 \in Int /\ 1 \in Int /\ Depth \in Int /\ Slots \in Int /\ N \in Int /\ Fields \in Int
    BY HeapAssumption
  <2>. QED
    BY <2>1, FS_Interval
<1>2. IsFiniteSet(Field)
  BY <1>1, FS_Product DEF Field, Obj
<1>3. IsFiniteSet(Prog \X (0 .. Depth))
  BY <1>1, FS_Product, FiniteAssumption
<1>4. IsFiniteSet((Prog \X (0 .. Depth)) \X (0 .. Slots))
  BY <1>1, <1>3, FS_Product
<1>5. IsFiniteSet(Cell)
  <2> DEFINE A == (Prog \X (0 .. Depth)) \X (0 .. Slots)
             b == [x \in A |-> <<x[1][1], x[1][2], x[2]>>]
  <2>1. b \in [A -> Cell]
    BY DEF Cell
  <2>2. \A y \in Cell : \E x \in A : b[x] = y
    <3>1. SUFFICES ASSUME NEW y \in Cell PROVE \E x \in A : b[x] = y
      OBVIOUS
    <3>2. PICK p \in Prog, k \in 0 .. Depth, s \in 0 .. Slots : y = <<p, k, s>>
      BY DEF Cell
    <3>3. <<<<p, k>>, s>> \in A /\ b[<<<<p, k>>, s>>] = <<p, k, s>>
      OBVIOUS
    <3>. QED
      BY <3>2, <3>3
  <2>3. b \in Surjection(A, Cell)
    <3> HIDE DEF A, b
    <3>. QED
      BY <2>1, <2>2 DEF Surjection
  <2>. QED
    BY <1>4, <2>3, FS_Surjection
<1>. QED
  BY <1>2, <1>5

\* What is in a cell.
LEMMA HeldAt ==
  ASSUME NEW st, NEW m, NEW p \in Prog, NEW k \in 0 .. Depth, NEW s \in 0 .. Slots
  PROVE  <<p, k, s>> \in Cell /\ HeldIn(st, m)[<<p, k, s>>] = InCell(st, m, p, k, s)
  BY DEF Cell, HeldIn

\* Every cell is one of a Prog, a frame and a slot.
LEMMA CellParts ==
  ASSUME NEW c \in Cell
  PROVE  /\ c[1] \in Prog /\ c[2] \in 0 .. Depth /\ c[3] \in 0 .. Slots
         /\ c = <<c[1], c[2], c[3]>>
  BY DEF Cell

\* What is in a field.
LEMMA PointedAt ==
  ASSUME NEW fs, NEW K, NEW o \in Obj, NEW f \in 1 .. Fields
  PROVE  <<o, f>> \in Field /\ PointedIn(fs, K)[<<o, f>>] = IF o \in K THEN fs[o][f] ELSE H
  BY DEF Field, PointedIn

\* A colour is one of four.
LEMMA Colours ==
  ASSUME Typed
  PROVE  /\ mutator \in Nat /\ sweeper \in 0 .. 2 /\ sweeper # mutator
         /\ propagator # mutator /\ propagator # sweeper
         /\ \A o \in Obj : color[o] \in 0 .. 3
<1>1. mutator \in {0, 1, 2} /\ color \in [Obj -> 0 .. 3]
  BY DEF Typed
<1>. QED
  BY <1>1 DEF sweeper, propagator

\* What has been found is kept, and what is kept is allocated.
LEMMA FoundKept ==
  ASSUME Typed
  PROVE  /\ Found \subseteq Kept /\ Kept \subseteq Allocated /\ Allocated \subseteq Obj
         /\ \A o \in Kept : color[o] \in {mutator, propagator} => o \in Found
  BY Colours DEF Found, Kept, Allocated

(***************************************************************************)
(* Instructions and the collector.                                         *)
(***************************************************************************)
\* An instruction allocates W, ...
Allocates(W) == W \cap Allocated = {} /\ \A o \in Obj : kind'[o] # "free" <=> o \in Allocated \cup W

\* ... marks S, the objects of W having the mutators' colour, ...
Marks(W, S) ==
  /\ \A o \in Obj : color'[o] = IF o \in W THEN mutator
                                ELSE IF o \in S /\ color[o] # mutator THEN propagator
                                ELSE color[o]
  /\ nprop' = (nprop \/ \E o \in S : color[o] # mutator)

\* ... and copies what is in F.
Stores(F) ==
  /\ \A c \in Cell : Held'[c] = Held[c] \/ Held'[c] \in F
  /\ \A o \in Obj : \A f \in 1 .. Fields : fld'[o][f] = fld[o][f] \/ fld'[o][f] \in F

\* Such an instruction keeps the collector's invariant if it has marked all
\* it copies.
LEMMA InstructionStep ==
  ASSUME HInv, Typed', ~Busy, NEW W \in SUBSET Obj, NEW S \in SUBSET Kept,
         Allocates(W), Marks(W, S), Stores(Found \cup W \cup S \cup {H}),
         \A i \in 1 .. Len(todo') : todo'[i].o \in Kept,
         UNCHANGED <<walk, ptr, mutator>>
  PROVE  /\ Allocated' = Allocated \cup W /\ Kept' = Kept \cup W
         /\ HeldFound' /\ SeenFound' /\ KeptKept' /\ Passed' /\ Walking' /\ TodoKept'
<1>1. /\ Typed /\ Shapes /\ HeldFound /\ SeenFound /\ KeptKept /\ Passed
      /\ walk = H /\ walk' = H /\ ptr' = ptr /\ mutator' = mutator
      /\ sweeper' = sweeper /\ propagator' = propagator
  BY DEF HInv, Busy, sweeper, propagator
<1>2. /\ sweeper # mutator /\ propagator # mutator /\ propagator # sweeper
      /\ Found \subseteq Kept /\ Kept \subseteq Allocated /\ Allocated \subseteq Obj
      /\ \A o \in Kept : color[o] \in {mutator, propagator} => o \in Found
  BY <1>1, Colours, FoundKept
<1>3. Allocated' = Allocated \cup W
  BY <1>2 DEF Allocates, Allocated
<1>4. Kept' = Kept \cup W
  <2>1. ASSUME NEW o \in Obj PROVE o \in Kept' <=> o \in Kept \cup W
    BY <1>1, <1>2, <1>3 DEF Kept, Marks
  <2>. QED
    BY <1>2, <1>3, <2>1 DEF Kept
<1>5. Found \cup W \cup S \subseteq Found'
  <2>1. ASSUME NEW o \in Found \cup W \cup S PROVE o \in Found'
    BY <1>1, <1>2, <1>3 DEF Found, Marks
  <2>. QED
    BY <2>1
<1>6. HeldFound'
  BY <1>1, <1>5 DEF HeldFound, Stores
<1>7. ASSUME NEW o \in Obj, NEW f \in 1 .. Fields, o \in Kept'
      PROVE  fld'[o][f] \in Kept' \cup {H}
  <2>1. fld'[o][f] \in Found' \cup {H} \/ fld'[o][f] = fld[o][f]
    BY <1>5 DEF Stores
  <2>2. fld[o][f] \in Kept \cup {H}
    <3>1. CASE o \in Kept
      BY <1>1, <3>1 DEF KeptKept
    <3>2. CASE o \in W
      <4>1. kind[o] = "free"
        BY <3>2 DEF Allocates, Allocated
      <4>. QED
        BY <4>1, <1>1 DEF Shapes, Nils
    <3>. QED
      BY <1>4, <1>7, <3>1, <3>2
  <2>3. Found' \subseteq Kept'
    BY <1>1, <1>2 DEF Found, Kept
  <2>. QED
    BY <2>1, <2>2, <2>3, <1>4
<1>8. KeptKept'
  BY <1>2, <1>3, <1>7 DEF KeptKept, Kept
<1>9. SeenFound'
  <2>1. SUFFICES ASSUME NEW o \in Found', color'[o] = mutator, NEW f \in 1 .. Fields
                 PROVE  fld'[o][f] \in Found' \cup {H}
    BY <1>1 DEF SeenFound
  <2>2. o \in Obj /\ o \in Allocated \cup W
    BY <1>2, <1>3 DEF Found
  <2>3. fld'[o][f] \in Found' \cup {H} \/ fld'[o][f] = fld[o][f]
    BY <2>2, <1>5 DEF Stores
  <2>4. CASE o \in W
    <3>1. kind[o] = "free"
      BY <2>4 DEF Allocates, Allocated
    <3>2. fld[o][f] = H
      BY <3>1, <1>1, <2>2 DEF Shapes, Nils
    <3>. QED
      BY <2>3, <3>2
  <2>5. CASE o \notin W
    <3>1. color[o] = mutator
      BY <2>1, <2>2, <2>5, <1>2 DEF Marks
    <3>2. o \in Found
      BY <2>2, <2>5, <3>1 DEF Found
    <3>3. o # walk
      BY <1>1, <2>2, HeapAssumption
    <3>4. fld[o][f] \in Found \cup {H}
      BY <1>1, <3>1, <3>2, <3>3 DEF SeenFound
    <3>. QED
      BY <2>3, <3>4, <1>5
  <2>. QED
    BY <2>4, <2>5
<1>10. Passed'
  <2>1. SUFFICES ASSUME NEW o \in Allocated'
                 PROVE  /\ color'[o] = propagator /\ o < ptr => nprop'
                        /\ color'[o] = sweeper => o >= ptr
    BY <1>1 DEF Passed
  <2>2. o \in Obj /\ o \in Allocated \cup W
    BY <1>2, <1>3
  <2>3. CASE o \in W
    BY <2>2, <2>3, <1>2 DEF Marks
  <2>4. CASE o \notin W
    BY <2>2, <2>4, <1>1, <1>2 DEF Marks, Passed
  <2>. QED
    BY <2>3, <2>4
<1>11. Walking'
  BY <1>1 DEF Walking
<1>12. TodoKept'
  BY <1>4 DEF TodoKept
<1>. QED
  BY <1>3, <1>4, <1>6, <1>8, <1>9, <1>10, <1>11, <1>12

(***************************************************************************)
(* Operands.                                                               *)
(***************************************************************************)
\* A pointer that may be a destination.
Place(q, d) ==
  \/ d \in [frame : 1 .. Len(stk[q]), at : 1 .. Slots]
  \/ d \in [obj : Kept, at : 1 .. Fields]

\* The frames of a Prog.
LEMMA StackParts ==
  ASSUME Typed, Shapes, NEW p \in Prog
  PROVE  /\ stk[p] \in Seq(Frame) /\ Top(p) \in 0 .. Depth /\ Top(p) = Len(stk[p])
         /\ \A k \in 1 .. Top(p) : /\ k \in 0 .. Depth /\ stk[p][k] \in Frame
                                   /\ stk[p][k].mr \in Ref /\ stk[p][k].slot \in [1 .. Slots -> Ref]
         /\ stk[p] # <<>> => Cur(p) \in 1 .. Top(p) /\ Top(p) >= 1
         /\ built[p] \in BOOLEAN /\ built[p] => Cur(p) = Top(p) - 1
         /\ ~built[p] => Cur(p) = Top(p)
<1>1. stk[p] \in Seq(Frame) /\ built[p] \in BOOLEAN
  BY DEF Typed
<1>2. Len(stk[p]) \in Nat /\ Len(stk[p]) <= Depth /\ (built[p] => Len(stk[p]) >= 2)
  BY <1>1 DEF Shapes
<1>3. \A k \in 1 .. Top(p) : stk[p][k] \in Frame
  BY <1>1 DEF Top
<1>4. \A k \in 1 .. Top(p) : stk[p][k].mr \in Ref /\ stk[p][k].slot \in [1 .. Slots -> Ref]
  BY <1>3 DEF Frame
<1>5. stk[p] # <<>> => Len(stk[p]) >= 1
  BY <1>1, <1>2
<1>. QED
  BY <1>1, <1>2, <1>3, <1>4, <1>5, HeapAssumption DEF Top, Cur

\* What a Prog holds has been found.
LEMMA HoldsFound ==
  ASSUME Typed, Shapes, HeldFound, NEW p \in Prog
  PROVE  /\ M[p] \in Found \cup {H}
         /\ \A k \in 1 .. Top(p) : stk[p][k].mr \in Found \cup {H}
         /\ \A k \in 1 .. Top(p), s \in 1 .. Slots : stk[p][k].slot[s] \in Found \cup {H}
<1>1. /\ Top(p) \in 0 .. Depth /\ Top(p) = Len(stk[p]) /\ Depth \in Nat /\ Slots \in Nat
      /\ \A k \in 1 .. Top(p) : k \in 0 .. Depth
  BY StackParts, HeapAssumption
<1>2. M[p] \in Found \cup {H}
  <2>1. 0 \in 0 .. Depth /\ 0 \in 0 .. Slots
    BY <1>1
  <2>2. <<p, 0, 0>> \in Cell /\ Held[<<p, 0, 0>>] = M[p]
    BY <2>1, HeldAt DEF Held, InCell
  <2>. QED
    BY <2>2 DEF HeldFound
<1>3. ASSUME NEW k \in 1 .. Top(p) PROVE stk[p][k].mr \in Found \cup {H}
  <2>1. k \in 0 .. Depth /\ 0 \in 0 .. Slots /\ k # 0 /\ ~(k > Len(stk[p]))
    BY <1>1
  <2>2. <<p, k, 0>> \in Cell /\ Held[<<p, k, 0>>] = InCell(stk, M, p, k, 0)
    BY <2>1, HeldAt DEF Held
  <2>3. InCell(stk, M, p, k, 0) = stk[p][k].mr
    BY <2>1 DEF InCell
  <2>. QED
    BY <2>2, <2>3 DEF HeldFound
<1>4. ASSUME NEW k \in 1 .. Top(p), NEW s \in 1 .. Slots PROVE stk[p][k].slot[s] \in Found \cup {H}
  <2>1. k \in 0 .. Depth /\ s \in 0 .. Slots /\ k # 0 /\ ~(k > Len(stk[p])) /\ s # 0
    BY <1>1
  <2>2. <<p, k, s>> \in Cell /\ Held[<<p, k, s>>] = InCell(stk, M, p, k, s)
    BY <2>1, HeldAt DEF Held
  <2>3. InCell(stk, M, p, k, s) = stk[p][k].slot[s]
    BY <2>1 DEF InCell
  <2>. QED
    BY <2>2, <2>3 DEF HeldFound
<1>. QED
  BY <1>2, <1>3, <1>4

\* What an operand leads to is kept.
LEMMA HoldersKept ==
  ASSUME Typed, Shapes, HeldFound, KeptKept, NEW p \in Prog, stk[p] # <<>>
  PROVE  Holders(p) \subseteq Kept /\ MP(M[p]) \in Kept \cup {H}
<1>1. Found \subseteq Kept
  BY FoundKept
<1>2. Cur(p) \in 1 .. Top(p)
  BY StackParts
<1>3. \A s \in 1 .. Slots : stk[p][Cur(p)].slot[s] \in Kept \cup {H}
  BY <1>1, <1>2, HoldsFound
<1>4. M[p] \in Kept \cup {H}
  BY <1>1, HoldsFound
<1>5. MP(M[p]) \in Kept \cup {H}
  BY <1>4, HeapAssumption DEF MP, First, KeptKept
<1>6. \A m \in Kept, f \in 1 .. Fields : fld[m][f] \in Kept \cup {H}
  BY DEF KeptKept
<1>. QED
  BY <1>3, <1>5, <1>6 DEF Holders

\* A place of a Prog, and what it holds.
LEMMA PlaceHolds ==
  ASSUME Typed, Shapes, HeldFound, KeptKept, NEW q \in Prog, NEW d, Place(q, d)
  PROVE  Get(q, d) \in Kept \cup {H}
<1>1. CASE d \in [frame : 1 .. Len(stk[q]), at : 1 .. Slots]
  <2>1. d.frame \in 1 .. Top(q) /\ d.at \in 1 .. Slots /\ "frame" \in DOMAIN d
    BY <1>1, StackParts
  <2>. QED
    BY <2>1, HoldsFound, FoundKept DEF Get
<1>2. CASE d \in [obj : Kept, at : 1 .. Fields]
  <2>1. d.obj \in Kept /\ d.at \in 1 .. Fields /\ "frame" \notin DOMAIN d
    BY <1>2
  <2>. QED
    BY <2>1 DEF Get, KeptKept
<1>. QED
  BY <1>1, <1>2 DEF Place

\* The destinations are such places.
LEMMA CellsPlaces ==
  ASSUME Typed, Shapes, HeldFound, KeptKept, NEW p \in Prog, stk[p] # <<>>
  PROVE  /\ \A d \in Cells(p) : Place(p, d) /\ Get(p, d) \in Kept \cup {H}
         /\ \A d \in InFrame(p, {Cur(p)}) : Place(p, d) /\ Get(p, d) \in Kept \cup {H}
         /\ \A d \in InObject({o \in Holders(p) : kind[o] = "adt"}) : Place(p, d) /\ Get(p, d) \in Kept \cup {H}
<1>1. Cur(p) \in 1 .. Len(stk[p]) /\ Top(p) \in 1 .. Len(stk[p]) /\ Holders(p) \subseteq Kept
  BY StackParts, HoldersKept
<1>2. \A d \in InFrame(p, {Cur(p), Top(p)}) : Place(p, d)
  BY <1>1 DEF InFrame, Place
<1>3. \A d \in InFrame(p, {Cur(p)}) : Place(p, d)
  BY <1>1 DEF InFrame, Place
<1>4. \A d \in InObject({o \in Holders(p) : kind[o] = "adt"}) : Place(p, d)
  BY <1>1 DEF InObject, Place
<1>. QED
  BY <1>2, <1>3, <1>4, PlaceHolds DEF Cells

\* What a Prog can copy is kept.
LEMMA ValuesKept ==
  ASSUME Typed, Shapes, HeldFound, KeptKept, NEW p \in Prog, stk[p] # <<>>
  PROVE  Values(p) \subseteq Kept \cup {H}
<1> DEFINE direct == {Get(p, c) : c \in InFrame(p, {Cur(p)}) \cup
                                        InObject({o \in Holders(p) : kind[o] = "adt"})}
<1>1. direct \subseteq Kept \cup {H}
  BY CellsPlaces
<1>2. \A l \in direct \ {H}, f \in 1 .. Fields : fld[l][f] \in Kept \cup {H}
  BY <1>1 DEF KeptKept
<1>. QED
  <2> HIDE DEF direct
  <2>1. Values(p) = {H} \cup direct \cup {fld[l][f] : l \in {x \in direct \ {H} : kind[x] = "list"}, f \in 1 .. Fields}
    BY DEF Values, direct
  <2>. QED
    BY <1>1, <1>2, <2>1

(***************************************************************************)
(* A store.                                                                *)
(***************************************************************************)
\* A store in slot s of the frame k of q.
StoresSlot(q, k, s, v) ==
  /\ \A p \in Prog : Len(stk'[p]) = Len(stk[p])
  /\ \A p \in Prog : p # q => stk'[p] = stk[p]
  /\ \A j \in 1 .. Len(stk[q]) : j # k => stk'[q][j] = stk[q][j]
  /\ stk'[q][k].mr = stk[q][k].mr /\ stk'[q][k].slot[s] = v
  /\ \A i \in 1 .. Slots : i # s => stk'[q][k].slot[i] = stk[q][k].slot[i]

\* That is all that is changed.
LEMMA PutSlot ==
  ASSUME Typed, NEW q \in Prog, NEW k \in 1 .. Len(stk[q]), NEW s \in 1 .. Slots, NEW v \in Ref,
         stk' = [stk EXCEPT ![q][k].slot[s] = v]
  PROVE  stk' \in [Prog -> Seq(Frame)] /\ StoresSlot(q, k, s, v)
<1>1. stk \in [Prog -> Seq(Frame)] /\ stk[q] \in Seq(Frame) /\ stk[q][k] \in Frame
  BY DEF Typed
<1>2. stk[q][k].slot \in [1 .. Slots -> Ref] /\ stk[q][k].mr \in Ref
  BY <1>1 DEF Frame
<1> DEFINE row == [stk[q][k].slot EXCEPT ![s] = v]
           fr == [stk[q][k] EXCEPT !.slot = row]
           st == [stk[q] EXCEPT ![k] = fr]
<1>3. row \in [1 .. Slots -> Ref] /\ row[s] = v /\ \A i \in 1 .. Slots : i # s => row[i] = stk[q][k].slot[i]
  BY <1>2
<1>4. stk' = [stk EXCEPT ![q] = st]
  OBVIOUS
<1> HIDE DEF row
<1>5. fr \in Frame /\ fr.slot = row /\ fr.mr = stk[q][k].mr
  BY <1>1, <1>2, <1>3 DEF Frame
<1> HIDE DEF fr
<1>6. /\ st \in Seq(Frame) /\ Len(st) = Len(stk[q]) /\ st[k] = fr
      /\ \A j \in 1 .. Len(stk[q]) : j # k => st[j] = stk[q][j]
  BY <1>1, <1>5, ExceptSeq
<1> HIDE DEF st
<1>7. stk'[q] = st /\ \A p \in Prog : p # q => stk'[p] = stk[p]
  BY <1>1, <1>4
<1>8. stk' \in [Prog -> Seq(Frame)]
  BY <1>1, <1>4, <1>6
<1>. QED
  BY <1>3, <1>5, <1>6, <1>7, <1>8 DEF StoresSlot

\* In the cells, too.
LEMMA PutCell ==
  ASSUME Typed, Shapes, NEW q \in Prog, NEW k \in 1 .. Len(stk[q]), NEW s \in 1 .. Slots, NEW v \in Ref,
         stk' = [stk EXCEPT ![q][k].slot[s] = v], M' = M
  PROVE  /\ <<q, k, s>> \in Cell /\ Held[<<q, k, s>>] = stk[q][k].slot[s] /\ Held'[<<q, k, s>>] = v
         /\ \A c \in Cell : c # <<q, k, s>> => Held'[c] = Held[c]
<1>1. /\ \A p \in Prog : Len(stk'[p]) = Len(stk[p])
      /\ \A p \in Prog : p # q => stk'[p] = stk[p]
      /\ \A j \in 1 .. Len(stk[q]) : j # k => stk'[q][j] = stk[q][j]
      /\ stk'[q][k].mr = stk[q][k].mr /\ stk'[q][k].slot[s] = v
      /\ \A i \in 1 .. Slots : i # s => stk'[q][k].slot[i] = stk[q][k].slot[i]
  <2>1. StoresSlot(q, k, s, v)
    BY PutSlot
  <2>. QED
    BY <2>1 DEF StoresSlot
<1>2. k \in 0 .. Depth /\ s \in 0 .. Slots /\ k # 0 /\ s # 0 /\ Len(stk[q]) \in Nat /\ ~(k > Len(stk[q]))
  BY StackParts, HeapAssumption
<1>3. <<q, k, s>> \in Cell /\ Held[<<q, k, s>>] = InCell(stk, M, q, k, s)
  BY <1>2, HeldAt DEF Held
<1>4. Held'[<<q, k, s>>] = InCell(stk', M', q, k, s)
  BY <1>2, HeldAt DEF Held
<1>5. InCell(stk, M, q, k, s) = stk[q][k].slot[s] /\ InCell(stk', M', q, k, s) = v
  BY <1>1, <1>2 DEF InCell
<1>6. ASSUME NEW c \in Cell, c # <<q, k, s>> PROVE Held'[c] = Held[c]
  <2> DEFINE p == c[1]
             j == c[2]
             i == c[3]
  <2>1. p \in Prog /\ j \in 0 .. Depth /\ i \in 0 .. Slots /\ c = <<p, j, i>>
    BY CellParts
  <2>2. Held[c] = InCell(stk, M, p, j, i) /\ Held'[c] = InCell(stk', M', p, j, i)
    BY DEF Held, HeldIn
  <2>3. p # q \/ j # k \/ i # s
    BY <1>6, <2>1
  <2> HIDE DEF p, j, i
  <2>4. CASE p # q
    BY <2>1, <2>2, <2>4, <1>1 DEF InCell
  <2>5. CASE p = q /\ j # k
    <3>1. j # 0 /\ ~(j > Len(stk[q])) => j \in 1 .. Len(stk[q])
      BY <2>1, <1>2
    <3>. QED
      BY <2>1, <2>2, <2>5, <1>1, <3>1 DEF InCell
  <2>6. CASE p = q /\ j = k /\ i # s
    <3>1. i # 0 => i \in 1 .. Slots
      BY <2>1, HeapAssumption
    <3>. QED
      BY <2>1, <2>2, <2>6, <1>1, <1>2, <3>1 DEF InCell
  <2>. QED
    BY <2>3, <2>4, <2>5, <2>6
<1>. QED
  BY <1>3, <1>4, <1>5, <1>6

\* A store of v in d, after fs became the fields and K what is kept.
Stored(q, d, v, fs, K) ==
  /\ \A o \in Obj : Occ(Cell, Held', o) + Occ(Field, PointedIn(fld', K), o) + Is(Get(q, d), o) =
                    Occ(Cell, Held, o) + Occ(Field, PointedIn(fs, K), o) + Is(v, o)
  /\ \A c \in Cell : Held'[c] = Held[c] \/ Held'[c] = v
  /\ \A o \in Obj : \A f \in 1 .. Fields : fld'[o][f] = fs[o][f] \/ fld'[o][f] = v
  /\ \A o \in Obj \ Kept : fld'[o] = fs[o]

\* Put takes one reference away and adds another.
LEMMA PutStores ==
  ASSUME Typed, Shapes, NEW q \in Prog, NEW d, Place(q, d), NEW v \in Ref,
         NEW fs \in [Obj -> [1 .. Fields -> Ref]], NEW K \in SUBSET Obj, Kept \subseteq K,
         \A o \in Kept : fs[o] = fld[o],
         Put(q, d, v, fs), M' = M
  PROVE  /\ fld' \in [Obj -> [1 .. Fields -> Ref]] /\ stk' \in [Prog -> Seq(Frame)]
         /\ \A p \in Prog : Len(stk'[p]) = Len(stk[p])
         /\ Stored(q, d, v, fs, K)
<1>1. IsFiniteSet(Cell) /\ IsFiniteSet(Field)
  BY PlacesFinite
<1>2. \A o \in Obj : /\ Occ(Cell, Held, o) \in Nat /\ Occ(Field, PointedIn(fs, K), o) \in Nat
                     /\ Occ(Cell, Held', o) \in Nat /\ Occ(Field, PointedIn(fld', K), o) \in Nat
                     /\ Is(v, o) \in Nat /\ Is(Get(q, d), o) \in Nat
  BY <1>1, OccNat DEF Is
<1>3. CASE d \in [frame : 1 .. Len(stk[q]), at : 1 .. Slots]
  <2> DEFINE k == d.frame
             s == d.at
  <2>1. k \in 1 .. Len(stk[q]) /\ s \in 1 .. Slots /\ "frame" \in DOMAIN d
    BY <1>3
  <2>2. stk' = [stk EXCEPT ![q][k].slot[s] = v] /\ fld' = fs /\ Get(q, d) = stk[q][k].slot[s]
    BY <2>1 DEF Put, Get
  <2> HIDE DEF k, s
  <2>3. stk' \in [Prog -> Seq(Frame)] /\ \A p \in Prog : Len(stk'[p]) = Len(stk[p])
    <3>1. StoresSlot(q, k, s, v) /\ stk' \in [Prog -> Seq(Frame)]
      BY <2>1, <2>2, PutSlot
    <3>. QED
      BY <3>1 DEF StoresSlot
  <2>4. /\ <<q, k, s>> \in Cell /\ Held[<<q, k, s>>] = Get(q, d) /\ Held'[<<q, k, s>>] = v
        /\ \A c \in Cell : c # <<q, k, s>> => Held'[c] = Held[c]
    <3>1. /\ <<q, k, s>> \in Cell /\ Held[<<q, k, s>>] = stk[q][k].slot[s] /\ Held'[<<q, k, s>>] = v
          /\ \A c \in Cell : c # <<q, k, s>> => Held'[c] = Held[c]
      BY <2>1, <2>2, PutCell
    <3>. QED
      BY <3>1, <2>2
  <2>5. \A o \in Obj : Occ(Cell, Held', o) + Is(Get(q, d), o) = Occ(Cell, Held, o) + Is(v, o)
    <3>1. SUFFICES ASSUME NEW o \in Obj
                   PROVE  Occ(Cell, Held', o) + Is(Get(q, d), o) = Occ(Cell, Held, o) + Is(v, o)
      OBVIOUS
    <3> DEFINE g == Held
               h == Held'
               c == <<q, k, s>>
    <3>2. c \in Cell /\ g[c] = Get(q, d) /\ h[c] = v /\ \A x \in Cell : x # c => g[x] = h[x]
      BY <2>4
    <3> HIDE DEF g, h, c
    <3>3. Occ(Cell, h, o) + Is(g[c], o) = Occ(Cell, g, o) + Is(h[c], o)
      BY <3>2, <1>1, OccPut
    <3>. QED
      BY <3>2, <3>3 DEF g, h
  <2>6. Stored(q, d, v, fs, K)
    <3>1. \A o \in Obj : Occ(Field, PointedIn(fld', K), o) = Occ(Field, PointedIn(fs, K), o)
      BY <2>2
    <3>2. \A o \in Obj : Occ(Cell, Held', o) + Occ(Field, PointedIn(fld', K), o) + Is(Get(q, d), o) =
                         Occ(Cell, Held, o) + Occ(Field, PointedIn(fs, K), o) + Is(v, o)
      BY <1>2, <2>5, <3>1
    <3>. QED
      BY <2>2, <2>4, <3>2 DEF Stored
  <2>. QED
    BY <2>2, <2>3, <2>6
<1>4. CASE d \in [obj : Kept, at : 1 .. Fields]
  <2> DEFINE x == d.obj
             f == d.at
  <2>1. x \in Kept /\ x \in Obj /\ x \in K /\ f \in 1 .. Fields /\ "frame" \notin DOMAIN d
    BY <1>4
  <2>2. fld' = [fs EXCEPT ![x][f] = v] /\ stk' = stk /\ Get(q, d) = fs[x][f]
    BY <2>1 DEF Put, Get
  <2> HIDE DEF x, f
  <2>3. /\ fld' \in [Obj -> [1 .. Fields -> Ref]] /\ fld'[x][f] = v
        /\ \A o \in Obj : o # x => fld'[o] = fs[o]
        /\ \A j \in 1 .. Fields : j # f => fld'[x][j] = fs[x][j]
    BY <2>1, <2>2
  <2>4. Held' = Held
    BY <2>2 DEF Held
  <2>5. \A o \in Obj : Occ(Field, PointedIn(fld', K), o) + Is(Get(q, d), o) =
                       Occ(Field, PointedIn(fs, K), o) + Is(v, o)
    <3>1. SUFFICES ASSUME NEW o \in Obj
                   PROVE  Occ(Field, PointedIn(fld', K), o) + Is(Get(q, d), o) =
                          Occ(Field, PointedIn(fs, K), o) + Is(v, o)
      OBVIOUS
    <3> DEFINE g == PointedIn(fs, K)
               h == PointedIn(fld', K)
               c == <<x, f>>
    <3>2. c \in Field /\ g[c] = fs[x][f] /\ h[c] = v
      BY <2>1, <2>3, PointedAt
    <3>3. \A y \in Field : y # c => g[y] = h[y]
      <4>1. SUFFICES ASSUME NEW y \in Field, y # c PROVE g[y] = h[y]
        OBVIOUS
      <4>2. PICK a \in Obj, b \in 1 .. Fields : y = <<a, b>>
        BY DEF Field
      <4>3. g[y] = (IF a \in K THEN fs[a][b] ELSE H) /\ h[y] = (IF a \in K THEN fld'[a][b] ELSE H)
        BY <4>2, PointedAt
      <4>4. a # x \/ b # f
        BY <4>1, <4>2
      <4>. QED
        BY <4>2, <4>3, <4>4, <2>3
    <3>4. g[c] = Get(q, d)
      BY <3>2, <2>2
    <3> HIDE DEF g, h, c
    <3>5. Occ(Field, h, o) + Is(g[c], o) = Occ(Field, g, o) + Is(h[c], o)
      BY <3>2, <3>3, <1>1, OccPut
    <3>. QED
      BY <3>2, <3>4, <3>5 DEF g, h
  <2>6. Stored(q, d, v, fs, K)
    <3>1. \A o \in Obj : Occ(Cell, Held', o) = Occ(Cell, Held, o)
      BY <2>4
    <3>2. \A o \in Obj : Occ(Cell, Held', o) + Occ(Field, PointedIn(fld', K), o) + Is(Get(q, d), o) =
                         Occ(Cell, Held, o) + Occ(Field, PointedIn(fs, K), o) + Is(v, o)
      BY <1>2, <2>5, <3>1
    <3>3. \A o \in Obj : \A j \in 1 .. Fields : fld'[o][j] = fs[o][j] \/ fld'[o][j] = v
      BY <2>3
    <3>4. \A o \in Obj \ Kept : fld'[o] = fs[o]
      BY <2>1, <2>3
    <3>. QED
      BY <2>4, <3>2, <3>3, <3>4 DEF Stored
  <2>7. stk' \in [Prog -> Seq(Frame)] /\ \A p \in Prog : Len(stk'[p]) = Len(stk[p])
    BY <2>2 DEF Typed
  <2>. QED
    BY <2>3, <2>6, <2>7
<1>. QED
  BY <1>3, <1>4 DEF Place

(***************************************************************************)
(* An instruction that stores: movp, newa and the like, cons, load.        *)
(***************************************************************************)
\* References are counted by numbers.
LEMMA CountsNat ==
  ASSUME Typed, NEW o \in Obj
  PROVE  /\ Occ(Cell, Held, o) \in Nat /\ Occ(Field, Pointed, o) \in Nat
         /\ InTodo(todo, o) \in Nat /\ ref[o] \in Nat
<1>1. todo \in Seq(Item) /\ ref \in [Obj -> Nat]
  BY DEF Typed, Item
<1>. QED
  BY <1>1, ObjsSeq, PlacesFinite, OccNat

\* Nothing refers to a free block.
LEMMA FreeUnreferenced ==
  ASSUME Typed, HeldFound, KeptKept, NEW o \in Obj \ Allocated
  PROVE  Occ(Cell, Held, o) = 0 /\ Occ(Field, Pointed, o) = 0
<1>1. o \notin Kept \cup {H} /\ Found \subseteq Kept
  BY FoundKept, HeapAssumption
<1>2. \A c \in Cell : Held[c] # o
  BY <1>1 DEF HeldFound
<1>3. \A c \in Field : Pointed[c] # o
  <2>1. SUFFICES ASSUME NEW c \in Field PROVE Pointed[c] # o
    OBVIOUS
  <2>2. PICK x \in Obj, f \in 1 .. Fields : c = <<x, f>>
    BY DEF Field
  <2>3. Pointed[c] = IF x \in Kept THEN fld[x][f] ELSE H
    BY <2>2, PointedAt DEF Pointed
  <2>. QED
    BY <2>3, <1>1 DEF KeptKept
<1>. QED
  BY <1>2, <1>3, PlacesFinite, OccNat

\* What is allocated points to nothing yet.
LEMMA FreshPoints ==
  ASSUME Typed, Shapes, NEW W \in SUBSET Obj, Allocates(W)
  PROVE  PointedIn(fld, Kept \cup W) = Pointed
<1>1. ASSUME NEW c \in Field PROVE PointedIn(fld, Kept \cup W)[c] = Pointed[c]
  <2>1. PICK x \in Obj, f \in 1 .. Fields : c = <<x, f>>
    BY DEF Field
  <2>2. /\ Pointed[c] = IF x \in Kept THEN fld[x][f] ELSE H
        /\ PointedIn(fld, Kept \cup W)[c] = IF x \in Kept \cup W THEN fld[x][f] ELSE H
    BY <2>1, PointedAt DEF Pointed
  <2>3. x \in W => fld[x][f] = H
    BY DEF Allocates, Allocated, Shapes, Nils
  <2>. QED
    BY <2>2, <2>3
<1>. QED
  BY <1>1 DEF PointedIn, Pointed

\* The counts before an instruction; a new object has none.
Before(W, o) == IF o \in W THEN 0 ELSE ref[o]

\* What an instruction leaves alone, and the types of what it changes.
InstructionTypes ==
  /\ kind' \in [Obj -> Kind] /\ color' \in [Obj -> 0 .. 3] /\ ref' \in [Obj -> Nat]
  /\ todo' \in Seq(Item) /\ nprop' \in BOOLEAN /\ epochs' = 0
  /\ UNCHANGED <<walk, ptr, mutator>>

\* The references before an instruction.
LEMMA BeforeCounted ==
  ASSUME HInv, ~Busy, NEW W \in SUBSET Obj, Allocates(W), NEW o \in Allocated \cup W
  PROVE  /\ Occ(Cell, Held, o) \in Nat /\ Occ(Field, Pointed, o) \in Nat /\ Before(W, o) \in Nat
         /\ Occ(Cell, Held, o) + Occ(Field, Pointed, o) <= Before(W, o)
<1>1. Typed /\ o \in Obj
  BY DEF HInv, Allocated
<1>2. /\ Occ(Cell, Held, o) \in Nat /\ Occ(Field, Pointed, o) \in Nat
      /\ InTodo(todo, o) \in Nat /\ ref[o] \in Nat
  BY <1>1, CountsNat
<1>3. CASE o \in W
  <2>1. o \in Obj \ Allocated
    BY <1>3 DEF Allocates
  <2>2. Occ(Cell, Held, o) = 0 /\ Occ(Field, Pointed, o) = 0
    BY <2>1, FreeUnreferenced DEF HInv
  <2>. QED
    BY <1>2, <1>3, <2>2 DEF Before
<1>4. CASE o \in Allocated /\ o \notin W
  <2>1. References(o) + InTodo(todo, o) <= ref[o]
    BY <1>4 DEF HInv, Counted
  <2>. QED
    BY <1>2, <1>4, <2>1 DEF Before, References
<1>. QED
  BY <1>3, <1>4

\* An instruction that stores v in d, marks S and makes the objects W, with
\* the fields fs; its counts leave out nothing.
Storing(q, d, v, fs, W, S) ==
  /\ Place(q, d) /\ Put(q, d, v, fs) /\ M' = M /\ built' = built
  /\ Allocates(W) /\ Marks(W, S) /\ InstructionTypes
  /\ v \in Found \cup W \cup S \cup {H}
  /\ fs \in [Obj -> [1 .. Fields -> Ref]]
  /\ \A o \in Obj \ W : fs[o] = fld[o]
  /\ \A o \in W, f \in 1 .. Fields : fs[o][f] \in Found \cup W \cup S \cup {H}
  /\ \A i \in 1 .. Len(todo') : todo'[i].o \in Kept
  /\ \A o \in Allocated \cup W :
       Before(W, o) + Occ(Field, PointedIn(fs, Kept \cup W), o) + Is(v, o) + InTodo(todo', o)
         <= Occ(Field, Pointed, o) + Is(Get(q, d), o) + ref'[o]

\* It keeps the invariant.
LEMMA StoreKeeps ==
  ASSUME HInv, ~Busy, NEW q \in Prog, NEW d, NEW v, NEW fs, NEW W \in SUBSET Obj, NEW S \in SUBSET Kept,
         Storing(q, d, v, fs, W, S)
  PROVE  HInv'
<1> DEFINE K == Kept \cup W
           F == Found \cup W \cup S \cup {H}
<1>1. Typed /\ Shapes /\ Found \subseteq Kept /\ Kept \subseteq Allocated /\ Allocated \subseteq Obj
  BY FoundKept DEF HInv
<1>0. /\ Place(q, d) /\ Put(q, d, v, fs) /\ M' = M /\ built' = built
      /\ Allocates(W) /\ Marks(W, S) /\ InstructionTypes
      /\ v \in F /\ fs \in [Obj -> [1 .. Fields -> Ref]]
      /\ \A o \in Obj \ W : fs[o] = fld[o]
      /\ \A o \in W, f \in 1 .. Fields : fs[o][f] \in F
      /\ \A i \in 1 .. Len(todo') : todo'[i].o \in Kept
  BY DEF Storing
<1>2. v \in Ref /\ K \in SUBSET Obj /\ Kept \subseteq K /\ \A o \in Kept : fs[o] = fld[o]
  BY <1>0, <1>1 DEF Ref, Allocates
<1>3. /\ fld' \in [Obj -> [1 .. Fields -> Ref]] /\ stk' \in [Prog -> Seq(Frame)]
      /\ \A p \in Prog : Len(stk'[p]) = Len(stk[p])
      /\ Stored(q, d, v, fs, K)
  <2> HIDE DEF K
  <2>. QED
    BY <1>0, <1>1, <1>2, PutStores
<1>4. Typed'
  BY <1>0, <1>1, <1>3 DEF Typed, InstructionTypes, Item
<1>5. Shapes'
  <2>1. ASSUME NEW o \in Obj, kind'[o] = "free" PROVE fld'[o] = Nils
    <3>1. o \notin Allocated \cup W
      BY <1>0, <2>1 DEF Allocates
    <3>2. fld'[o] = fs[o] /\ fs[o] = fld[o]
      BY <3>1, <1>0, <1>1, <1>3 DEF Stored
    <3>3. kind[o] = "free"
      BY <3>1 DEF Allocated
    <3>. QED
      BY <3>2, <3>3, <1>1 DEF Shapes
  <2>2. \A p \in Prog : Len(stk'[p]) <= Depth /\ (built'[p] => Len(stk'[p]) >= 2)
    BY <1>0, <1>1, <1>3 DEF Shapes
  <2>. QED
    BY <2>1, <2>2 DEF Shapes
<1>6. Stores(F)
  <2>1. v \in F
    BY <1>0
  <2>2. \A c \in Cell : Held'[c] = Held[c] \/ Held'[c] \in F
    BY <1>3, <2>1 DEF Stored
  <2>3. ASSUME NEW o \in Obj, NEW f \in 1 .. Fields PROVE fld'[o][f] = fld[o][f] \/ fld'[o][f] \in F
    <3>1. fld'[o][f] = fs[o][f] \/ fld'[o][f] = v
      BY <1>3 DEF Stored
    <3>2. fs[o][f] = fld[o][f] \/ fs[o][f] \in F
      BY <1>0, <2>3
    <3>. QED
      BY <2>1, <3>1, <3>2
  <2>. QED
    BY <2>2, <2>3 DEF Stores
<1>7. /\ Allocated' = Allocated \cup W /\ Kept' = Kept \cup W
      /\ HeldFound' /\ SeenFound' /\ KeptKept' /\ Passed' /\ Walking' /\ TodoKept'
  <2>1. UNCHANGED <<walk, ptr, mutator>>
    BY <1>0 DEF InstructionTypes
  <2>2. /\ Typed' /\ Allocates(W) /\ Marks(W, S) /\ Stores(Found \cup W \cup S \cup {H})
        /\ \A i \in 1 .. Len(todo') : todo'[i].o \in Kept
    BY <1>0, <1>4, <1>6
  <2>. QED
    BY <2>1, <2>2, InstructionStep
<1>8. Counted'
  <2>1. SUFFICES ASSUME NEW o \in Allocated \cup W
                 PROVE  Occ(Cell, Held', o) + Occ(Field, Pointed', o) + InTodo(todo', o) <= ref'[o]
    BY <1>7 DEF Counted, References
  <2>2. o \in Obj
    BY <1>1
  <2>3. Pointed' = PointedIn(fld', K)
    BY <1>7 DEF Pointed
  <2>4. Occ(Cell, Held', o) + Occ(Field, Pointed', o) + Is(Get(q, d), o) =
        Occ(Cell, Held, o) + Occ(Field, PointedIn(fs, K), o) + Is(v, o)
    BY <2>2, <2>3, <1>3 DEF Stored
  <2>5. /\ Occ(Cell, Held, o) \in Nat /\ Occ(Field, Pointed, o) \in Nat /\ Before(W, o) \in Nat
        /\ Occ(Cell, Held, o) + Occ(Field, Pointed, o) <= Before(W, o)
    BY <1>0, BeforeCounted
  <2>6. Before(W, o) + Occ(Field, PointedIn(fs, K), o) + Is(v, o) + InTodo(todo', o)
             <= Occ(Field, Pointed, o) + Is(Get(q, d), o) + ref'[o]
    BY DEF Storing
  <2>7. /\ Occ(Cell, Held', o) \in Nat /\ Occ(Field, Pointed', o) \in Nat
        /\ Occ(Field, PointedIn(fs, K), o) \in Nat /\ Is(v, o) \in Nat /\ Is(Get(q, d), o) \in Nat
    BY PlacesFinite, OccNat DEF Is
  <2>8. InTodo(todo', o) \in Nat /\ ref'[o] \in Nat
    BY <1>0, <2>2, ObjsSeq DEF InstructionTypes
  <2> DEFINE h1 == Occ(Cell, Held', o)
             h == Occ(Cell, Held, o)
             p1 == Occ(Field, Pointed', o)
             pk == Occ(Field, PointedIn(fs, K), o)
             pt == Occ(Field, Pointed, o)
             b == Before(W, o)
             t == InTodo(todo', o)
             r == ref'[o]
             i == Is(v, o)
             g == Is(Get(q, d), o)
  <2>9. /\ h1 + p1 + g = h + pk + i /\ h + pt <= b /\ b + pk + i + t <= pt + g + r
        /\ h1 \in Nat /\ h \in Nat /\ p1 \in Nat /\ pk \in Nat /\ pt \in Nat /\ b \in Nat
        /\ t \in Nat /\ r \in Nat /\ i \in Nat /\ g \in Nat
    BY <2>4, <2>5, <2>6, <2>7, <2>8
  <2>10. SUFFICES h1 + p1 + t <= r
    OBVIOUS
  <2> HIDE DEF h1, h, p1, pk, pt, b, t, r, i, g
  <2>. QED
    BY <2>9
<1>. QED
  BY <1>4, <1>5, <1>7, <1>8 DEF HInv

\* What drops references that are kept destroys nothing else.
LEMMA DropsKept ==
  ASSUME NEW v \in Seq(Ref), NEW n \in Nat, NEW K, \A j \in 1 .. Len(v) : v[j] \in K \cup {H}
  PROVE  \A i \in 1 .. Len(Drops(v, n)) : Drops(v, n)[i].o \in K
<1> DEFINE td == Drops(v, n)
<1>1. td \in Seq(Item) /\ \A o \in Obj : InTodo(td, o) = InSeq(v, o)
  BY DropsCount
<1> HIDE DEF td
<1>2. SUFFICES ASSUME NEW i \in 1 .. Len(td) PROVE td[i].o \in K
  BY DEF td
<1>3. td[i] \in Item
  BY <1>1
<1>4. td[i].o \in Obj
  BY <1>3 DEF Item
<1>5. InTodo(td, td[i].o) # 0
  BY <1>1, ObjsSeq
<1>6. InSeq(v, td[i].o) # 0
  BY <1>1, <1>4, <1>5
<1>7. PICK j \in 1 .. Len(v) : v[j] = td[i].o
  BY <1>6, InSeqNat
<1>. QED
  BY <1>4, <1>7, HeapAssumption

\* The reference that a store overwrites.
LEMMA DropGot ==
  ASSUME Typed, NEW g \in Kept \cup {H}, NEW n \in Nat
  PROVE  /\ Drops(<<g>>, n) \in Seq(Item)
         /\ \A o \in Obj : InTodo(Drops(<<g>>, n), o) = Is(g, o)
         /\ \A i \in 1 .. Len(Drops(<<g>>, n)) : Drops(<<g>>, n)[i].o \in Kept
<1>1. <<g>> \in Seq(Ref) /\ \A j \in 1 .. Len(<<g>>) : <<g>>[j] \in Kept \cup {H}
  BY FoundKept DEF Ref
<1>2. \A o \in Obj : InSeq(<<g>>, o) = Is(g, o)
  BY InSeqOne
<1>. QED
  BY <1>1, <1>2, DropsCount, DropsKept

\* Setmark marks.
LEMMA SetmarkMarks ==
  ASSUME Typed, NEW W \in SUBSET Obj, NEW S \in SUBSET Obj, S \cap W = {}, NEW R, R \cap Obj = S,
         NEW c \in [Obj -> 0 .. 3], \A o \in Obj : c[o] = IF o \in W THEN mutator ELSE color[o],
         Setmark(c, R)
  PROVE  Marks(W, S) /\ color' \in [Obj -> 0 .. 3] /\ nprop' \in BOOLEAN
<1>1. color' = [o \in Obj |-> IF o \in R /\ c[o] # mutator THEN propagator ELSE c[o]]
  BY DEF Setmark
<1>2. nprop' <=> (nprop \/ \E o \in R \cap Obj : c[o] # mutator)
  BY DEF Setmark
<1>3. color' \in [Obj -> 0 .. 3]
  BY <1>1 DEF propagator
<1>4. nprop' \in BOOLEAN /\ nprop \in BOOLEAN
  BY DEF Setmark, Typed
<1>5. (\E o \in R \cap Obj : c[o] # mutator) <=> (\E o \in S : color[o] # mutator)
  OBVIOUS
<1>6. \A o \in Obj : color'[o] = IF o \in W THEN mutator
                                 ELSE IF o \in S /\ color[o] # mutator THEN propagator
                                 ELSE color[o]
  BY <1>1
<1>7. nprop' = (nprop \/ \E o \in S : color[o] # mutator)
  BY <1>2, <1>4, <1>5
<1>. QED
  BY <1>3, <1>4, <1>6, <1>7 DEF Marks

\* Allocating marks nothing.
LEMMA NewMarks ==
  ASSUME Typed, NEW W \in SUBSET Obj,
         color' \in [Obj -> 0 .. 3], \A o \in Obj : color'[o] = IF o \in W THEN mutator ELSE color[o],
         nprop' = nprop
  PROVE  Marks(W, {})
<1>1. nprop \in BOOLEAN
  BY DEF Typed
<1>. QED
  BY <1>1 DEF Marks

\* A store of what is kept and marked.
LEMMA MovpToKeeps ==
  ASSUME HInv, ~Busy, NEW p \in Prog, NEW q \in Prog, NEW v \in Kept \cup {H}, NEW d, Place(q, d),
         MovpTo(p, v, q, d)
  PROVE  HInv'
<1> DEFINE S == {v} \ {H}
           g == Get(q, d)
<1>1. Typed /\ Shapes /\ HeldFound /\ KeptKept /\ Kept \subseteq Allocated /\ Allocated \subseteq Obj
  BY FoundKept DEF HInv
<1>2. /\ ref' = Inc(ref, v) /\ Setmark(color, {v}) /\ Put(q, d, v, fld) /\ todo' = Drops(<<g>>, 0)
      /\ epochs' = 0 /\ UNCHANGED <<walk, ptr, mutator>> /\ kind' = kind /\ built' = built /\ M' = M
  BY DEF MovpTo, Mutate
<1>3. S \in SUBSET Kept /\ S \in SUBSET Obj /\ {v} \cap Obj = S
  BY <1>1, HeapAssumption
<1>4. g \in Kept \cup {H}
  BY <1>1, PlaceHolds
<1>5. /\ todo' \in Seq(Item) /\ \A o \in Obj : InTodo(todo', o) = Is(g, o)
      /\ \A i \in 1 .. Len(todo') : todo'[i].o \in Kept
  BY <1>1, <1>2, <1>4, DropGot
<1>6. Marks({}, S) /\ color' \in [Obj -> 0 .. 3] /\ nprop' \in BOOLEAN
  <2>1. color \in [Obj -> 0 .. 3] /\ \A o \in Obj : color[o] = IF o \in {} THEN mutator ELSE color[o]
    BY <1>1 DEF Typed
  <2>2. {} \in SUBSET Obj /\ S \cap {} = {} /\ S \in SUBSET Obj /\ {v} \cap Obj = S
    BY <1>3
  <2> HIDE DEF S
  <2>. QED
    BY <1>1, <1>2, <2>1, <2>2, SetmarkMarks
<1>7. Allocates({})
  BY <1>1, <1>2 DEF Allocates, Allocated
<1>8. ref' \in [Obj -> Nat] /\ \A o \in Obj : ref'[o] = ref[o] + Is(v, o)
  BY <1>1, <1>2 DEF Typed, Inc, Is
<1>9. InstructionTypes
  BY <1>1, <1>2, <1>5, <1>6, <1>8 DEF InstructionTypes, Typed
<1>10. PointedIn(fld, Kept \cup {}) = Pointed
  BY <1>1, <1>7, FreshPoints
<1>11. ASSUME NEW o \in Allocated \cup {}
       PROVE  Before({}, o) + Occ(Field, PointedIn(fld, Kept \cup {}), o) + Is(v, o) + InTodo(todo', o)
                <= Occ(Field, Pointed, o) + Is(g, o) + ref'[o]
  <2>1. o \in Obj /\ Before({}, o) = ref[o] /\ ref[o] \in Nat /\ Is(g, o) \in Nat /\ Is(v, o) \in Nat
    BY <1>1 DEF Before, Typed, Is
  <2>2. ref'[o] = ref[o] + Is(v, o) /\ InTodo(todo', o) = Is(g, o)
    BY <2>1, <1>5, <1>8
  <2>3. Occ(Field, Pointed, o) \in Nat
    BY <1>1, <2>1, CountsNat
  <2> HIDE DEF g
  <2>. QED
    BY <2>1, <2>2, <2>3, <1>10
<1>12. /\ {} \in SUBSET Obj /\ v \in Found \cup {} \cup S \cup {H}
       /\ fld \in [Obj -> [1 .. Fields -> Ref]] /\ \A o \in Obj \ {} : fld[o] = fld[o]
       /\ \A o \in {}, f \in 1 .. Fields : fld[o][f] \in Found \cup {} \cup S \cup {H}
  BY <1>1 DEF Typed
<1> HIDE DEF S
<1>13. Storing(q, d, v, fld, {}, S)
  BY <1>2, <1>5, <1>6, <1>7, <1>9, <1>11, <1>12 DEF Storing
<1>. QED
  BY <1>3, <1>12, <1>13, StoreKeeps

\* A Prog that runs an instruction.
LEMMA Running ==
  ASSUME HInv, NEW p \in Prog, Runs(p)
  PROVE  /\ ~Busy /\ stk[p] # <<>> /\ walk = H /\ todo = <<>> /\ ptr <= N
         /\ Typed /\ Shapes /\ HeldFound /\ SeenFound /\ KeptKept
         /\ Found \subseteq Kept /\ Kept \subseteq Allocated /\ Allocated \subseteq Obj
  BY FoundKept DEF HInv, Runs, Busy

\* movp and what is done by it.
LEMMA MovpKeeps == ASSUME HInv, NEW p \in Prog, Movp(p) PROVE HInv'
<1>1. Runs(p)
  BY DEF Movp
<1>2. PICK v \in Values(p), d \in Cells(p) : MovpTo(p, v, p, d)
  BY DEF Movp
<1>3. v \in Kept \cup {H} /\ Place(p, d)
  BY <1>1, <1>2, Running, ValuesKept, CellsPlaces
<1>. QED
  BY <1>1, <1>2, <1>3, Running, MovpToKeeps

\* send and recv.
LEMMA CommunicateKeeps == ASSUME HInv, NEW p \in Prog, NEW q \in Prog, Communicate(p, q) PROVE HInv'
<1>1. Runs(p) /\ stk[q] # <<>>
  BY DEF Communicate
<1>2. ~Busy /\ stk[p] # <<>> /\ Typed /\ Shapes /\ HeldFound /\ KeptKept
  BY <1>1, Running
<1>3. CASE \E v \in Values(p), d \in InFrame(q, {Cur(q)}) : MovpTo(p, v, q, d)
  <2>1. PICK v \in Values(p), d \in InFrame(q, {Cur(q)}) : MovpTo(p, v, q, d)
    BY <1>3
  <2>2. v \in Kept \cup {H}
    BY <1>2, <2>1, ValuesKept
  <2>3. Place(q, d)
    BY <1>1, <1>2, <2>1, CellsPlaces
  <2>. QED
    BY <1>2, <2>1, <2>2, <2>3, MovpToKeeps
<1>4. CASE \E c \in InFrame(q, {Cur(q)}), d \in Cells(p) : MovpTo(q, Get(q, c), p, d)
  <2>1. PICK c \in InFrame(q, {Cur(q)}), d \in Cells(p) : MovpTo(q, Get(q, c), p, d)
    BY <1>4
  <2>2. Get(q, c) \in Kept \cup {H}
    BY <1>1, <1>2, <2>1, CellsPlaces
  <2>3. Place(p, d)
    BY <1>1, <1>2, <2>1, CellsPlaces
  <2>. QED
    BY <1>2, <2>1, <2>2, <2>3, MovpToKeeps
<1>. QED
  BY <1>3, <1>4 DEF Communicate

\* A change of one field.
LEMMA FieldPut ==
  ASSUME NEW K, NEW fs, NEW gs, NEW a \in Obj, a \in K, NEW b \in 1 .. Fields,
         \A o \in Obj : o # a => fs[o] = gs[o],
         \A f \in 1 .. Fields : f # b => fs[a][f] = gs[a][f],
         NEW x
  PROVE  Occ(Field, PointedIn(fs, K), x) + Is(gs[a][b], x) = Occ(Field, PointedIn(gs, K), x) + Is(fs[a][b], x)
<1> DEFINE g == PointedIn(gs, K)
           h == PointedIn(fs, K)
           c == <<a, b>>
<1>1. c \in Field /\ g[c] = gs[a][b] /\ h[c] = fs[a][b]
  BY PointedAt
<1>2. \A y \in Field : y # c => g[y] = h[y]
  <2>1. SUFFICES ASSUME NEW y \in Field, y # c PROVE g[y] = h[y]
    OBVIOUS
  <2>2. PICK o \in Obj, f \in 1 .. Fields : y = <<o, f>>
    BY DEF Field
  <2>3. g[y] = (IF o \in K THEN gs[o][f] ELSE H) /\ h[y] = (IF o \in K THEN fs[o][f] ELSE H)
    BY <2>2, PointedAt
  <2>4. o # a \/ f # b
    BY <2>1, <2>2
  <2>. QED
    BY <2>2, <2>3, <2>4
<1> HIDE DEF g, h, c
<1>3. Occ(Field, h, x) + Is(g[c], x) = Occ(Field, g, x) + Is(h[c], x)
  BY <1>1, <1>2, PlacesFinite, OccPut
<1>. QED
  BY <1>1, <1>3 DEF g, h

\* fs are the fields once the first of ml has become x.
FirstSet(fs, ml, x) ==
  /\ fs \in [Obj -> [1 .. Fields -> Ref]] /\ \A o \in Obj : o # ml => fs[o] = fld[o]
  /\ fs[ml][First] = x /\ \A f \in 1 .. Fields : f # First => fs[ml][f] = H

\* A free block that gets a first field has no others.
LEMMA FirstIsSet ==
  ASSUME Typed, Shapes, NEW ml \in Obj, kind[ml] = "free", NEW x \in Ref
  PROVE  FirstSet([fld EXCEPT ![ml][First] = x], ml, x)
<1>1. fld \in [Obj -> [1 .. Fields -> Ref]] /\ First \in 1 .. Fields /\ fld[ml] = Nils
  BY HeapAssumption DEF Typed, First, Shapes
<1>. QED
  BY <1>1 DEF FirstSet, Nils

\* The first field of a new object.
LEMMA FirstPoints ==
  ASSUME Typed, Shapes, NEW W \in SUBSET Obj, Allocates(W), NEW ml \in W, NEW x \in Ref,
         NEW fs, FirstSet(fs, ml, x)
  PROVE  \A o \in Obj : Occ(Field, PointedIn(fs, Kept \cup W), o) = Occ(Field, Pointed, o) + Is(x, o)
<1> DEFINE K == Kept \cup W
<1>1. /\ fld \in [Obj -> [1 .. Fields -> Ref]] /\ ml \in Obj /\ First \in 1 .. Fields
      /\ fld[ml] = Nils /\ ml \in K
  BY HeapAssumption DEF Typed, First, Allocates, Allocated, Shapes
<1>2. /\ fs \in [Obj -> [1 .. Fields -> Ref]] /\ \A o \in Obj : o # ml => fs[o] = fld[o]
      /\ fs[ml][First] = x /\ \A f \in 1 .. Fields : f # First => fs[ml][f] = H
  BY DEF FirstSet
<1>3. PointedIn(fld, K) = Pointed
  BY FreshPoints
<1> HIDE DEF K
<1>4. ASSUME NEW o \in Obj PROVE Occ(Field, PointedIn(fs, K), o) = Occ(Field, Pointed, o) + Is(x, o)
  <2>1. fld[ml][First] = H /\ \A f \in 1 .. Fields : f # First => fs[ml][f] = fld[ml][f]
    BY <1>1, <1>2 DEF Nils
  <2>2. /\ ml \in Obj /\ ml \in K /\ First \in 1 .. Fields /\ \A y \in Obj : y # ml => fs[y] = fld[y]
        /\ \A f \in 1 .. Fields : f # First => fs[ml][f] = fld[ml][f]
    BY <1>1, <1>2, <2>1
  <2>3. Occ(Field, PointedIn(fs, K), o) + Is(fld[ml][First], o) =
        Occ(Field, PointedIn(fld, K), o) + Is(fs[ml][First], o)
    BY <2>2, FieldPut
  <2>4. Is(H, o) = 0 /\ Is(x, o) \in Nat
    BY HeapAssumption DEF Is
  <2>5. Occ(Field, PointedIn(fs, K), o) \in Nat /\ Occ(Field, Pointed, o) \in Nat
    BY PlacesFinite, OccNat
  <2>6. Occ(Field, PointedIn(fs, K), o) + Is(H, o) = Occ(Field, Pointed, o) + Is(x, o)
    BY <2>1, <2>3, <1>2, <1>3
  <2>. QED
    BY <2>4, <2>5, <2>6
<1>. QED
  BY <1>4 DEF K

\* newa and the like.
LEMMA NewAdtKeeps == ASSUME HInv, NEW p \in Prog, NewAdt(p) PROVE HInv'
<1>1. Runs(p)
  BY DEF NewAdt
<1>2. /\ ~Busy /\ stk[p] # <<>> /\ Typed /\ Shapes /\ HeldFound /\ KeptKept
      /\ Kept \subseteq Allocated /\ Allocated \subseteq Obj
  BY <1>1, Running
<1>3. PICK o \in Obj, d \in Cells(p) :
        /\ New(o, "adt") /\ color' = [color EXCEPT ![o] = mutator] /\ ref' = [ref EXCEPT ![o] = 1]
        /\ Put(p, d, o, fld) /\ todo' = Drops(<<Get(p, d)>>, 0)
  BY DEF NewAdt
<1>4. Mutate /\ built' = built /\ M' = M /\ nprop' = nprop
  BY DEF NewAdt
<1> DEFINE g == Get(p, d)
           W == {o}
<1>5. Place(p, d) /\ g \in Kept \cup {H}
  BY <1>2, <1>3, CellsPlaces
<1>6. /\ todo' \in Seq(Item) /\ \A x \in Obj : InTodo(todo', x) = Is(g, x)
      /\ \A i \in 1 .. Len(todo') : todo'[i].o \in Kept
  BY <1>2, <1>3, <1>5, DropGot
<1>7. Allocates(W)
  BY <1>2, <1>3 DEF Allocates, Allocated, New, Typed
<1>8. color' \in [Obj -> 0 .. 3] /\ Marks(W, {})
  <2>1. color' \in [Obj -> 0 .. 3] /\ \A x \in Obj : color'[x] = IF x \in W THEN mutator ELSE color[x]
    BY <1>2, <1>3 DEF Typed
  <2>. QED
    BY <1>2, <1>4, <2>1, NewMarks
<1>9. ref' \in [Obj -> Nat] /\ \A x \in Obj : ref'[x] = IF x = o THEN 1 ELSE ref[x]
  BY <1>2, <1>3 DEF Typed
<1>10. InstructionTypes
  <2>1. kind' \in [Obj -> Kind]
    BY <1>2, <1>3 DEF Typed, New, Kind
  <2>. QED
    BY <1>2, <1>4, <1>6, <1>8, <1>9, <2>1 DEF InstructionTypes, Typed, Mutate
<1>11. ASSUME NEW x \in Allocated \cup W
       PROVE  Before(W, x) + Occ(Field, PointedIn(fld, Kept \cup W), x) + Is(o, x) + InTodo(todo', x)
                <= Occ(Field, Pointed, x) + Is(g, x) + ref'[x]
  <2>1. x \in Obj /\ ref[x] \in Nat /\ Is(g, x) \in Nat
    BY <1>2 DEF Typed, Is
  <2>2. PointedIn(fld, Kept \cup W) = Pointed
    BY <1>2, <1>7, FreshPoints
  <2>3. Occ(Field, Pointed, x) \in Nat
    BY <1>2, <2>1, CountsNat
  <2>4. InTodo(todo', x) = Is(g, x)
    BY <2>1, <1>6
  <2>5. Before(W, x) + Is(o, x) = ref'[x] /\ Before(W, x) \in Nat /\ Is(o, x) \in Nat /\ ref'[x] \in Nat
    BY <2>1, <1>9 DEF Before, Is
  <2> HIDE DEF W, g
  <2>. QED
    BY <2>1, <2>2, <2>3, <2>4, <2>5
<1>12. /\ o \in Found \cup W \cup {} \cup {H}
       /\ fld \in [Obj -> [1 .. Fields -> Ref]] /\ \A x \in Obj \ W : fld[x] = fld[x]
       /\ \A x \in W, f \in 1 .. Fields : fld[x][f] \in Found \cup W \cup {} \cup {H}
  <2>1. \A f \in 1 .. Fields : fld[o][f] = H
    BY <1>2, <1>3 DEF New, Shapes, Nils
  <2>. QED
    BY <1>2, <2>1 DEF Typed
<1>13. W \in SUBSET Obj /\ {} \in SUBSET Kept
  OBVIOUS
<1> HIDE DEF W
<1>14. Storing(p, d, o, fld, W, {})
  BY <1>3, <1>4, <1>5, <1>6, <1>7, <1>8, <1>10, <1>11, <1>12 DEF Storing
<1>. QED
  BY <1>2, <1>13, <1>14, StoreKeeps

\* load of a module.
LEMMA LoadKeeps == ASSUME HInv, NEW p \in Prog, Load(p) PROVE HInv'
<1>1. Runs(p)
  BY DEF Load
<1>2. /\ ~Busy /\ stk[p] # <<>> /\ Typed /\ Shapes /\ HeldFound /\ KeptKept
      /\ Kept \subseteq Allocated /\ Allocated \subseteq Obj
  BY <1>1, Running
<1>3. PICK ml \in Obj, d \in Cells(p), mp \in Obj \cup {H} :
        /\ mp # ml /\ kind[ml] = "free" /\ (mp # H => kind[mp] = "free")
        /\ kind' = [o \in Obj |-> IF o = ml THEN "modlink" ELSE IF o = mp THEN "adt" ELSE kind[o]]
        /\ color' = [o \in Obj |-> IF o \in {ml, mp} THEN mutator ELSE color[o]]
        /\ ref' = [o \in Obj |-> IF o \in {ml, mp} THEN 1 ELSE ref[o]]
        /\ Put(p, d, ml, [fld EXCEPT ![ml][First] = mp])
        /\ todo' = Drops(<<Get(p, d)>>, 0)
  BY DEF Load
<1>4. Mutate /\ built' = built /\ M' = M /\ nprop' = nprop
  BY DEF Load
<1> DEFINE g == Get(p, d)
           W == {ml, mp} \ {H}
           fs == [fld EXCEPT ![ml][First] = mp]
<1>5. Place(p, d) /\ g \in Kept \cup {H}
  BY <1>2, <1>3, CellsPlaces
<1>6. /\ todo' \in Seq(Item) /\ \A x \in Obj : InTodo(todo', x) = Is(g, x)
      /\ \A i \in 1 .. Len(todo') : todo'[i].o \in Kept
  BY <1>2, <1>3, <1>5, DropGot
<1>7. W \in SUBSET Obj /\ ml \in W /\ mp \in W \cup {H} /\ \A x \in W : kind[x] = "free"
  BY <1>3, HeapAssumption
<1>8. Allocates(W)
  <2>1. \A x \in Obj : x \in W <=> x \in {ml, mp}
    BY HeapAssumption
  <2>. QED
    BY <1>2, <1>3, <1>7, <2>1 DEF Allocates, Allocated
<1>9. color' \in [Obj -> 0 .. 3] /\ Marks(W, {})
  <2>1. color' \in [Obj -> 0 .. 3] /\ \A x \in Obj : color'[x] = IF x \in W THEN mutator ELSE color[x]
    BY <1>2, <1>3, HeapAssumption DEF Typed
  <2>. QED
    BY <1>2, <1>4, <1>7, <2>1, NewMarks
<1>10. ref' \in [Obj -> Nat] /\ \A x \in Obj : ref'[x] = IF x \in W THEN 1 ELSE ref[x]
  BY <1>2, <1>3, HeapAssumption DEF Typed
<1>11. InstructionTypes
  <2>1. kind' \in [Obj -> Kind]
    BY <1>2, <1>3 DEF Typed, Kind
  <2>. QED
    BY <1>2, <1>4, <1>6, <1>9, <1>10, <2>1 DEF InstructionTypes, Typed, Mutate
<1>12. FirstSet(fs, ml, mp) /\ Put(p, d, ml, fs)
  BY <1>2, <1>3, FirstIsSet DEF Ref
<1> HIDE DEF fs, W, g
<1>13. \A o \in Obj : Occ(Field, PointedIn(fs, Kept \cup W), o) = Occ(Field, Pointed, o) + Is(mp, o)
  <2>1. mp \in Ref
    BY <1>3 DEF Ref
  <2>. QED
    BY <1>2, <1>7, <1>8, <1>12, <2>1, FirstPoints
<1>14. ASSUME NEW x \in Allocated \cup W
       PROVE  Before(W, x) + Occ(Field, PointedIn(fs, Kept \cup W), x) + Is(ml, x) + InTodo(todo', x)
                <= Occ(Field, Pointed, x) + Is(g, x) + ref'[x]
  <2>1. x \in Obj /\ ref[x] \in Nat /\ Is(g, x) \in Nat
    BY <1>2, <1>7 DEF Typed, Is
  <2>2. Occ(Field, Pointed, x) \in Nat
    BY <1>2, <2>1, CountsNat
  <2>3. Occ(Field, PointedIn(fs, Kept \cup W), x) = Occ(Field, Pointed, x) + Is(mp, x)
    BY <2>1, <1>13
  <2>4. InTodo(todo', x) = Is(g, x)
    BY <2>1, <1>6
  <2>5. /\ Before(W, x) + Is(ml, x) + Is(mp, x) <= ref'[x]
        /\ Before(W, x) \in Nat /\ Is(ml, x) \in Nat /\ Is(mp, x) \in Nat /\ ref'[x] \in Nat
    BY <2>1, <1>3, <1>7, <1>10, HeapAssumption DEF Before, Is
  <2>. QED
    BY <2>1, <2>2, <2>3, <2>4, <2>5
<1>15. /\ ml \in Found \cup W \cup {} \cup {H}
       /\ fs \in [Obj -> [1 .. Fields -> Ref]] /\ \A x \in Obj \ W : fs[x] = fld[x]
  BY <1>7, <1>12 DEF FirstSet
<1>16. \A x \in W, f \in 1 .. Fields : fs[x][f] \in Found \cup W \cup {} \cup {H}
  <2>1. SUFFICES ASSUME NEW x \in W, NEW f \in 1 .. Fields PROVE fs[x][f] \in W \cup {H}
    OBVIOUS
  <2>2. x # ml => fs[x] = Nils
    BY <1>2, <1>7, <1>12 DEF FirstSet, Shapes
  <2>3. x = ml => fs[x][f] \in {mp, H}
    BY <1>12 DEF FirstSet
  <2>. QED
    BY <1>7, <2>2, <2>3 DEF Nils
<1>17. Storing(p, d, ml, fs, W, {})
  BY <1>4, <1>5, <1>6, <1>8, <1>9, <1>11, <1>12, <1>14, <1>15, <1>16 DEF Storing, g
<1>18. W \in SUBSET Obj /\ {} \in SUBSET Kept
  BY <1>7
<1>. QED
  BY <1>2, <1>17, <1>18, StoreKeeps

\* load of "$self".
LEMMA LoadSelfKeeps == ASSUME HInv, CopiesUnmarked = FALSE, NEW p \in Prog, LoadSelf(p) PROVE HInv'
<1> DEFINE mp == MP(M[p])
<1>1. Runs(p) /\ Marked(mp)
  BY DEF LoadSelf
<1>2. /\ ~Busy /\ stk[p] # <<>> /\ Typed /\ Shapes /\ HeldFound /\ KeptKept
      /\ Kept \subseteq Allocated /\ Allocated \subseteq Obj
  BY <1>1, Running
<1>3. PICK ml \in Obj, d \in Cells(p) :
        /\ New(ml, "modlink") /\ color' = [color EXCEPT ![ml] = mutator]
        /\ ref' = Inc([ref EXCEPT ![ml] = 1], mp)
        /\ Put(p, d, ml, [fld EXCEPT ![ml][First] = mp])
        /\ todo' = Drops(<<Get(p, d)>>, 0)
  BY DEF LoadSelf
<1>4. Mutate /\ built' = built /\ M' = M /\ nprop' = nprop
  BY DEF LoadSelf
<1> DEFINE g == Get(p, d)
           W == {ml}
           fs == [fld EXCEPT ![ml][First] = mp]
<1>5. Place(p, d) /\ g \in Kept \cup {H}
  BY <1>2, <1>3, CellsPlaces
<1>6. /\ todo' \in Seq(Item) /\ \A x \in Obj : InTodo(todo', x) = Is(g, x)
      /\ \A i \in 1 .. Len(todo') : todo'[i].o \in Kept
  BY <1>2, <1>3, <1>5, DropGot
<1>7. mp \in Found \cup {H} /\ mp \in Ref
  <2>1. mp \in Kept \cup {H}
    BY <1>2, HoldersKept
  <2>2. mp # H => color[mp] \in {mutator, propagator}
    BY <1>1 DEF Marked
  <2>. QED
    BY <2>1, <2>2, <1>2, FoundKept DEF Ref
<1>8. kind[ml] = "free" /\ ml \notin Allocated /\ Allocates(W)
  BY <1>2, <1>3 DEF Allocates, Allocated, New, Typed
<1>9. color' \in [Obj -> 0 .. 3] /\ Marks(W, {})
  <2>1. color' \in [Obj -> 0 .. 3] /\ \A x \in Obj : color'[x] = IF x \in W THEN mutator ELSE color[x]
    BY <1>2, <1>3 DEF Typed
  <2>. QED
    BY <1>2, <1>4, <2>1, NewMarks
<1>10. ref' \in [Obj -> Nat] /\ \A x \in Obj : ref'[x] = (IF x \in W THEN 1 ELSE ref[x]) + Is(mp, x)
  <2> HIDE DEF mp
  <2>. QED
    BY <1>2, <1>3 DEF Typed, Inc, Is
<1>11. InstructionTypes
  <2>1. kind' \in [Obj -> Kind]
    BY <1>2, <1>3 DEF Typed, Kind, New
  <2>. QED
    BY <1>2, <1>4, <1>6, <1>9, <1>10, <2>1 DEF InstructionTypes, Typed, Mutate
<1> HIDE DEF mp
<1>12. FirstSet(fs, ml, mp) /\ Put(p, d, ml, fs)
  BY <1>2, <1>3, <1>7, <1>8, FirstIsSet
<1>13. W \in SUBSET Obj /\ {} \in SUBSET Kept /\ ml \in W
  BY <1>3
<1> HIDE DEF fs, g
<1>14. \A o \in Obj : Occ(Field, PointedIn(fs, Kept \cup W), o) = Occ(Field, Pointed, o) + Is(mp, o)
  <2> HIDE DEF W
  <2>. QED
    BY <1>2, <1>7, <1>8, <1>12, <1>13, FirstPoints
<1>15. ASSUME NEW x \in Allocated \cup W
       PROVE  Before(W, x) + Occ(Field, PointedIn(fs, Kept \cup W), x) + Is(ml, x) + InTodo(todo', x)
                <= Occ(Field, Pointed, x) + Is(g, x) + ref'[x]
  <2>1. x \in Obj /\ ref[x] \in Nat /\ Is(g, x) \in Nat /\ Is(mp, x) \in Nat
    BY <1>2, <1>13 DEF Typed, Is
  <2>2. Occ(Field, Pointed, x) \in Nat
    BY <1>2, <2>1, CountsNat
  <2>3. Occ(Field, PointedIn(fs, Kept \cup W), x) = Occ(Field, Pointed, x) + Is(mp, x)
    BY <2>1, <1>14
  <2>4. InTodo(todo', x) = Is(g, x)
    BY <2>1, <1>6
  <2>5. /\ Before(W, x) + Is(ml, x) + Is(mp, x) <= ref'[x]
        /\ Before(W, x) \in Nat /\ Is(ml, x) \in Nat /\ ref'[x] \in Nat
    BY <2>1, <1>8, <1>10 DEF Before, Is
  <2> HIDE DEF W
  <2>. QED
    BY <2>1, <2>2, <2>3, <2>4, <2>5
<1>16. /\ ml \in Found \cup W \cup {} \cup {H}
       /\ fs \in [Obj -> [1 .. Fields -> Ref]] /\ \A x \in Obj \ W : fs[x] = fld[x]
       /\ \A x \in W, f \in 1 .. Fields : fs[x][f] \in Found \cup W \cup {} \cup {H}
  BY <1>7, <1>12, <1>13 DEF FirstSet
<1> HIDE DEF W
<1>17. Storing(p, d, ml, fs, W, {})
  BY <1>4, <1>5, <1>6, <1>8, <1>9, <1>11, <1>12, <1>15, <1>16 DEF Storing, g
<1>. QED
  BY <1>2, <1>13, <1>17, StoreKeeps

\* The fields of one object.
LEMMA RowOcc ==
  ASSUME NEW K, NEW fs, NEW a \in Obj, a \in K, NEW x
  PROVE  Occ({a} \X (1 .. Fields), PointedIn(fs, K), x) = Occ(1 .. Fields, fs[a], x)
<1> DEFINE D == 1 .. Fields
           E == {a} \X D
           b == [f \in D |-> <<a, f>>]
           g == fs[a]
           h == PointedIn(fs, K)
<1>1. IsFiniteSet(D)
  <2>1. 1 \in Int /\ Fields \in Int
    BY HeapAssumption
  <2>. QED
    BY <2>1, FS_Interval
<1>2. \A f \in D : h[b[f]] = g[f]
  BY PointedAt
<1>3. b \in [D -> E] /\ \A y, z \in D : b[y] = b[z] => y = z
  OBVIOUS
<1>4. \A y \in E : \E f \in D : b[f] = y
  OBVIOUS
<1> HIDE DEF D, E, b, g, h
<1>5. Occ(E, h, x) = Occ(D, g, x)
  BY <1>1, <1>2, <1>3, <1>4, OccRename
<1>. QED
  BY <1>5 DEF D, E, g, h

\* A change of the fields of one object.
LEMMA RowPut ==
  ASSUME NEW K, NEW L, NEW fs, NEW gs, NEW a \in Obj,
         \A o \in Obj : o # a => (o \in K <=> o \in L) /\ fs[o] = gs[o],
         NEW x
  PROVE  Occ(Field, PointedIn(fs, K), x) + Occ({a} \X (1 .. Fields), PointedIn(gs, L), x) =
         Occ(Field, PointedIn(gs, L), x) + Occ({a} \X (1 .. Fields), PointedIn(fs, K), x)
<1> DEFINE g == PointedIn(gs, L)
           h == PointedIn(fs, K)
           E == {a} \X (1 .. Fields)
<1>1. E \in SUBSET Field
  BY DEF Field
<1>2. \A c \in Field \ E : g[c] = h[c]
  <2>1. SUFFICES ASSUME NEW c \in Field, c \notin E PROVE g[c] = h[c]
    OBVIOUS
  <2>2. PICK o \in Obj, f \in 1 .. Fields : c = <<o, f>>
    BY DEF Field
  <2>3. o # a
    BY <2>1, <2>2
  <2>4. g[c] = (IF o \in L THEN gs[o][f] ELSE H) /\ h[c] = (IF o \in K THEN fs[o][f] ELSE H)
    BY <2>2, PointedAt
  <2>. QED
    BY <2>3, <2>4
<1> HIDE DEF g, h, E
<1>3. Occ(Field, h, x) + Occ(E, g, x) = Occ(Field, g, x) + Occ(E, h, x)
  BY <1>1, <1>2, PlacesFinite, OccChange
<1>. QED
  BY <1>3 DEF g, h, E

\* The fields of a new list.
LEMMA ListRow ==
  ASSUME NEW row, NEW data, \A f \in 2 .. Fields : row[f] = data[f], NEW x
  PROVE  Occ(1 .. Fields, row, x) = Is(row[First], x) + Occ(2 .. Fields, data, x)
<1> DEFINE E == 2 .. Fields
<1>1. 1 .. Fields = {First} \cup E /\ {First} \cap E = {}
  BY HeapAssumption DEF First
<1>2. IsFiniteSet({First}) /\ IsFiniteSet(E)
  <2>1. 2 \in Int /\ Fields \in Int
    BY HeapAssumption
  <2>. QED
    BY <2>1, FS_Interval, FS_Singleton
<1>3. Occ({First}, row, x) = Is(row[First], x)
  BY OccOne
<1>4. Occ(E, row, x) = Occ(E, data, x)
  BY OccSame
<1> HIDE DEF E
<1>5. Occ({First} \cup E, row, x) = Occ({First}, row, x) + Occ(E, row, x)
  BY <1>1, <1>2, OccSplit
<1>. QED
  BY <1>1, <1>3, <1>4, <1>5 DEF E

\* cons.
LEMMA ConsKeeps == ASSUME HInv, NEW p \in Prog, Cons(p) PROVE HInv'
<1>1. Runs(p)
  BY DEF Cons
<1>2. /\ ~Busy /\ stk[p] # <<>> /\ Typed /\ Shapes /\ HeldFound /\ KeptKept /\ todo = <<>>
      /\ Kept \subseteq Allocated /\ Allocated \subseteq Obj
  BY <1>1, Running
<1>3. PICK o \in Obj, d \in Cells(p), data \in [2 .. Fields -> Values(p)] :
        LET lv == Get(p, d) IN
        /\ lv # H => kind[lv] = "list"
        /\ New(o, "list")
        /\ Setmark([color EXCEPT ![o] = mutator], {lv} \cup {data[f] : f \in 2 .. Fields})
        /\ ref' = [x \in Obj |-> IF x = o THEN 1
                                 ELSE ref[x] + Cardinality({f \in 2 .. Fields : data[f] = x})]
        /\ Put(p, d, o, [fld EXCEPT ![o] = [f \in 1 .. Fields |-> IF f = First THEN lv ELSE data[f]]])
  BY DEF Cons
<1>4. Mutate /\ built' = built /\ M' = M /\ todo' = todo
  BY DEF Cons
<1> DEFINE lv == Get(p, d)
           W == {o}
           R == {lv} \cup {data[f] : f \in 2 .. Fields}
           S == R \ {H}
           row == [f \in 1 .. Fields |-> IF f = First THEN lv ELSE data[f]]
           fs == [fld EXCEPT ![o] = row]
           c == [color EXCEPT ![o] = mutator]
<1>5. Place(p, d) /\ lv \in Kept \cup {H} /\ \A f \in 2 .. Fields : data[f] \in Kept \cup {H}
  BY <1>2, <1>3, CellsPlaces, ValuesKept
<1>6. S \in SUBSET Kept /\ S \in SUBSET Obj /\ R \cap Obj = S /\ R \subseteq S \cup {H}
  BY <1>2, <1>5, HeapAssumption
<1>7. kind[o] = "free" /\ o \notin Allocated /\ Allocates(W) /\ S \cap W = {} /\ W \in SUBSET Obj
  BY <1>2, <1>3, <1>6 DEF Allocates, Allocated, New, Typed
<1>8. Marks(W, S) /\ color' \in [Obj -> 0 .. 3] /\ nprop' \in BOOLEAN
  <2>1. c \in [Obj -> 0 .. 3] /\ \A x \in Obj : c[x] = IF x \in W THEN mutator ELSE color[x]
    BY <1>2 DEF Typed
  <2>2. Setmark(c, R)
    BY <1>3
  <2> HIDE DEF W, S, R, c
  <2>. QED
    BY <1>2, <1>6, <1>7, <2>1, <2>2, SetmarkMarks
<1>9. ref' = [x \in Obj |-> IF x = o THEN 1 ELSE ref[x] + Occ(2 .. Fields, data, x)]
  BY <1>3 DEF Occ
<1>10. IsFiniteSet(2 .. Fields)
  <2>1. 2 \in Int /\ Fields \in Int
    BY HeapAssumption
  <2>. QED
    BY <2>1, FS_Interval
<1>11. \A x : Occ(2 .. Fields, data, x) \in Nat
  BY <1>10, OccNat
<1>12. InstructionTypes
  <2>1. kind' \in [Obj -> Kind]
    BY <1>2, <1>3 DEF Typed, Kind, New
  <2>2. ref' \in [Obj -> Nat]
    <3>1. ref \in [Obj -> Nat]
      BY <1>2 DEF Typed
    <3>. QED
      BY <1>9, <1>11, <3>1
  <2>3. todo' \in Seq(Item)
    BY <1>2, <1>4, InTodoNone
  <2>. QED
    BY <1>2, <1>4, <1>8, <2>1, <2>2, <2>3 DEF InstructionTypes, Typed, Mutate
<1>13. row \in [1 .. Fields -> Ref] /\ row[First] = lv /\ \A f \in 2 .. Fields : row[f] = data[f]
  <2>1. Kept \cup {H} \subseteq Ref
    BY <1>2 DEF Ref
  <2>2. First \in 1 .. Fields /\ \A f \in 2 .. Fields : f \in 1 .. Fields /\ f # First
    BY HeapAssumption DEF First
  <2>3. \A f \in 1 .. Fields : f # First => f \in 2 .. Fields
    BY HeapAssumption DEF First
  <2> HIDE DEF lv
  <2>. QED
    BY <1>5, <2>1, <2>2, <2>3
<1>14. \A f \in 1 .. Fields : row[f] \in S \cup {H}
  <2>1. \A f \in 1 .. Fields : f # First => f \in 2 .. Fields
    BY HeapAssumption DEF First
  <2>. QED
    BY <1>6, <2>1
<1>15. Put(p, d, o, fs)
  BY <1>3
<1> HIDE DEF lv, R, S, row, c
<1>16. /\ fs \in [Obj -> [1 .. Fields -> Ref]] /\ \A x \in Obj \ W : fs[x] = fld[x]
       /\ fs[o] = row
  BY <1>2, <1>13 DEF Typed
<1> HIDE DEF fs
<1>17. ASSUME NEW x \in Obj
       PROVE  Occ(Field, PointedIn(fs, Kept \cup W), x) =
              Occ(Field, Pointed, x) + Is(lv, x) + Occ(2 .. Fields, data, x)
  <2> DEFINE K == Kept \cup W
             E == {o} \X (1 .. Fields)
  <2>1. PointedIn(fld, K) = Pointed
    BY <1>2, <1>7, FreshPoints
  <2>2. o \in K /\ \A y \in Obj : y # o => (y \in K <=> y \in K) /\ fs[y] = fld[y]
    BY <1>16
  <2> HIDE DEF K
  <2>3. Occ(Field, PointedIn(fs, K), x) + Occ(E, PointedIn(fld, K), x) =
        Occ(Field, PointedIn(fld, K), x) + Occ(E, PointedIn(fs, K), x)
    BY <2>2, RowPut
  <2>4. Occ(E, PointedIn(fs, K), x) = Occ(1 .. Fields, row, x) /\ Occ(E, PointedIn(fld, K), x) = Occ(1 .. Fields, fld[o], x)
    BY <2>2, <1>16, RowOcc
  <2>5. Occ(1 .. Fields, fld[o], x) = 0
    <3>1. \A f \in 1 .. Fields : fld[o][f] # x
      BY <1>2, <1>7, HeapAssumption DEF Shapes, Nils
    <3>2. IsFiniteSet(1 .. Fields)
      <4>1. 1 \in Int /\ Fields \in Int
        BY HeapAssumption
      <4>. QED
        BY <4>1, FS_Interval
    <3>. QED
      BY <3>1, <3>2, OccNat
  <2>6. Occ(1 .. Fields, row, x) = Is(lv, x) + Occ(2 .. Fields, data, x)
    <3>1. row[First] = lv /\ \A f \in 2 .. Fields : row[f] = data[f]
      BY <1>13
    <3>2. Occ(1 .. Fields, row, x) = Is(row[First], x) + Occ(2 .. Fields, data, x)
      BY <3>1, ListRow
    <3>. QED
      BY <3>1, <3>2
  <2>7. /\ Occ(Field, PointedIn(fs, K), x) \in Nat /\ Occ(Field, Pointed, x) \in Nat
        /\ Is(lv, x) \in Nat /\ Occ(2 .. Fields, data, x) \in Nat
    BY <1>11, PlacesFinite, OccNat DEF Is
  <2>8. Occ(Field, PointedIn(fs, K), x) + 0 = Occ(Field, Pointed, x) + (Is(lv, x) + Occ(2 .. Fields, data, x))
    BY <2>1, <2>3, <2>4, <2>5, <2>6
  <2>. QED
    BY <2>7, <2>8 DEF K
<1>18. ASSUME NEW x \in Allocated \cup W
       PROVE  Before(W, x) + Occ(Field, PointedIn(fs, Kept \cup W), x) + Is(o, x) + InTodo(todo', x)
                <= Occ(Field, Pointed, x) + Is(lv, x) + ref'[x]
  <2>1. x \in Obj /\ ref[x] \in Nat /\ Is(lv, x) \in Nat
    BY <1>2, <1>3 DEF Typed, Is
  <2>2. Occ(Field, Pointed, x) \in Nat
    BY <1>2, <2>1, CountsNat
  <2>3. Occ(Field, PointedIn(fs, Kept \cup W), x) = Occ(Field, Pointed, x) + Is(lv, x) + Occ(2 .. Fields, data, x)
    BY <2>1, <1>17
  <2>4. InTodo(todo', x) = 0
    BY <1>2, <1>4, InTodoNone
  <2>5. Occ(2 .. Fields, data, x) \in Nat /\ (x = o => Occ(2 .. Fields, data, x) = 0)
    <3>1. x = o => \A f \in 2 .. Fields : data[f] # x
      BY <1>2, <1>5, <1>7, HeapAssumption
    <3>. QED
      BY <1>10, <1>11, <3>1, OccNat
  <2>6. ref'[x] = IF x = o THEN 1 ELSE ref[x] + Occ(2 .. Fields, data, x)
    BY <2>1, <1>9
  <2>7. Before(W, x) = (IF x = o THEN 0 ELSE ref[x]) /\ Is(o, x) = (IF x = o THEN 1 ELSE 0)
    BY DEF Before, Is
  <2> HIDE DEF W
  <2>. QED
    BY <2>1, <2>2, <2>3, <2>4, <2>5, <2>6, <2>7
<1>19. /\ o \in Found \cup W \cup S \cup {H}
       /\ \A x \in W, f \in 1 .. Fields : fs[x][f] \in Found \cup W \cup S \cup {H}
  BY <1>14, <1>16
<1>20. \A i \in 1 .. Len(todo') : todo'[i].o \in Kept
  BY <1>2, <1>4
<1> HIDE DEF W
<1>21. Storing(p, d, o, fs, W, S)
  BY <1>4, <1>5, <1>7, <1>8, <1>12, <1>15, <1>16, <1>18, <1>19, <1>20 DEF Storing, lv
<1>. QED
  BY <1>2, <1>6, <1>7, <1>21, StoreKeeps

(***************************************************************************)
(* An instruction that changes frames: frame, call, mcall, ret, spawn,     *)
(* exit.                                                                   *)
(***************************************************************************)
\* It copies what is marked, and its counts leave out nothing.
Framing(W, S) ==
  /\ fld' = fld /\ stk' \in [Prog -> Seq(Frame)] /\ built' \in [Prog -> BOOLEAN] /\ M' \in [Prog -> Ref]
  /\ \A p \in Prog : Len(stk'[p]) <= Depth /\ (built'[p] => Len(stk'[p]) >= 2)
  /\ Allocates(W) /\ Marks(W, S) /\ InstructionTypes
  /\ \A c \in Cell : Held'[c] = Held[c] \/ Held'[c] \in Found \cup W \cup S \cup {H}
  /\ \A i \in 1 .. Len(todo') : todo'[i].o \in Kept
  /\ \A o \in Allocated \cup W :
       Before(W, o) + Occ(Cell, Held', o) + InTodo(todo', o) <= Occ(Cell, Held, o) + ref'[o]

\* It keeps the invariant.
LEMMA FrameKeeps ==
  ASSUME HInv, ~Busy, NEW W \in SUBSET Obj, NEW S \in SUBSET Kept, Framing(W, S)
  PROVE  HInv'
<1>1. Typed /\ Shapes /\ Kept \subseteq Allocated /\ Allocated \subseteq Obj
  BY FoundKept DEF HInv
<1>2. /\ fld' = fld /\ stk' \in [Prog -> Seq(Frame)] /\ built' \in [Prog -> BOOLEAN] /\ M' \in [Prog -> Ref]
      /\ \A p \in Prog : Len(stk'[p]) <= Depth /\ (built'[p] => Len(stk'[p]) >= 2)
      /\ Allocates(W) /\ Marks(W, S) /\ InstructionTypes
      /\ \A c \in Cell : Held'[c] = Held[c] \/ Held'[c] \in Found \cup W \cup S \cup {H}
      /\ \A i \in 1 .. Len(todo') : todo'[i].o \in Kept
  BY DEF Framing
<1>3. Typed'
  BY <1>1, <1>2 DEF Typed, InstructionTypes, Item
<1>4. Shapes'
  <2>1. \A o \in Obj : kind'[o] = "free" => fld'[o] = Nils
    BY <1>1, <1>2 DEF Allocates, Allocated, Shapes
  <2>. QED
    BY <1>2, <2>1 DEF Shapes
<1>5. /\ Allocated' = Allocated \cup W /\ Kept' = Kept \cup W
      /\ HeldFound' /\ SeenFound' /\ KeptKept' /\ Passed' /\ Walking' /\ TodoKept'
  <2>1. UNCHANGED <<walk, ptr, mutator>>
    BY <1>2 DEF InstructionTypes
  <2>2. Stores(Found \cup W \cup S \cup {H})
    BY <1>2 DEF Stores
  <2>3. /\ Typed' /\ Allocates(W) /\ Marks(W, S) /\ Stores(Found \cup W \cup S \cup {H})
        /\ \A i \in 1 .. Len(todo') : todo'[i].o \in Kept
    BY <1>2, <1>3, <2>2
  <2>. QED
    BY <2>1, <2>3, InstructionStep
<1>6. Counted'
  <2>1. SUFFICES ASSUME NEW o \in Allocated \cup W
                 PROVE  Occ(Cell, Held', o) + Occ(Field, Pointed', o) + InTodo(todo', o) <= ref'[o]
    BY <1>5 DEF Counted, References
  <2>2. o \in Obj
    BY <1>1
  <2>3. Pointed' = Pointed
    <3>1. Pointed' = PointedIn(fld, Kept \cup W)
      BY <1>2, <1>5 DEF Pointed
    <3>. QED
      BY <1>1, <1>2, <3>1, FreshPoints
  <2>4. Before(W, o) + Occ(Cell, Held', o) + InTodo(todo', o) <= Occ(Cell, Held, o) + ref'[o]
    BY DEF Framing
  <2>5. /\ Occ(Cell, Held, o) \in Nat /\ Occ(Field, Pointed, o) \in Nat /\ Before(W, o) \in Nat
        /\ Occ(Cell, Held, o) + Occ(Field, Pointed, o) <= Before(W, o)
    BY <1>2, BeforeCounted
  <2>6. Occ(Cell, Held', o) \in Nat
    BY PlacesFinite, OccNat
  <2>7. InTodo(todo', o) \in Nat /\ ref'[o] \in Nat
    BY <1>2, <2>2, ObjsSeq DEF InstructionTypes
  <2> DEFINE h1 == Occ(Cell, Held', o)
             h == Occ(Cell, Held, o)
             pt == Occ(Field, Pointed, o)
             b == Before(W, o)
             t == InTodo(todo', o)
             r == ref'[o]
  <2>8. /\ b + h1 + t <= h + r /\ h + pt <= b /\ h1 \in Nat /\ h \in Nat /\ pt \in Nat /\ b \in Nat
        /\ t \in Nat /\ r \in Nat
    BY <2>4, <2>5, <2>6, <2>7
  <2>9. SUFFICES h1 + pt + t <= r
    BY <2>3
  <2> HIDE DEF h1, h, pt, b, t, r
  <2>. QED
    BY <2>8
<1>. QED
  BY <1>3, <1>4, <1>5, <1>6 DEF HInv

\* Such an instruction that allocates and marks nothing.
LEMMA QuietMarks ==
  ASSUME Typed, kind' = kind, color' = color, nprop' = nprop
  PROVE  Allocates({}) /\ Marks({}, {})
<1>1. color' \in [Obj -> 0 .. 3] /\ \A o \in Obj : color'[o] = IF o \in {} THEN mutator ELSE color[o]
  BY DEF Typed
<1>2. Marks({}, {})
  BY <1>1, NewMarks
<1>3. Allocates({})
  BY DEF Allocates, Allocated
<1>. QED
  BY <1>2, <1>3

\* What an instruction leaves alone, if it is one of those and the objects
\* stay as they are.
LEMMA QuietTypes ==
  ASSUME Typed, UNCHANGED <<kind, color, nprop>>, ref' \in [Obj -> Nat], todo' \in Seq(Item), Mutate
  PROVE  InstructionTypes
  BY DEF Typed, InstructionTypes, Mutate

\* load, when there is no memory for the data.
LEMMA LoadFailsKeeps == ASSUME HInv, NEW p \in Prog, LoadFails(p) PROVE HInv'
<1>1. Runs(p)
  BY DEF LoadFails
<1>2. /\ ~Busy /\ Typed /\ Shapes /\ HeldFound /\ KeptKept /\ todo = <<>>
      /\ Kept \subseteq Allocated /\ Allocated \subseteq Obj
  BY <1>1, Running
<1>3. PICK ml \in Obj : /\ New(ml, "modlink") /\ color' = [color EXCEPT ![ml] = mutator]
                        /\ ref' = [ref EXCEPT ![ml] = 1]
  BY DEF LoadFails
<1>4. /\ Mutate /\ fld' = fld /\ stk' = stk /\ built' = built /\ M' = M /\ todo' = todo /\ nprop' = nprop
  BY DEF LoadFails, progVars
<1> DEFINE W == {ml}
<1>5. W \in SUBSET Obj /\ {} \in SUBSET Kept /\ Allocates(W)
  BY <1>2, <1>3 DEF Allocates, Allocated, New, Typed
<1>6. color' \in [Obj -> 0 .. 3] /\ Marks(W, {})
  <2>1. color' \in [Obj -> 0 .. 3] /\ \A x \in Obj : color'[x] = IF x \in W THEN mutator ELSE color[x]
    BY <1>2, <1>3 DEF Typed
  <2>. QED
    BY <1>2, <1>4, <2>1, NewMarks
<1>7. InstructionTypes
  <2>1. kind' \in [Obj -> Kind] /\ ref' \in [Obj -> Nat]
    BY <1>2, <1>3 DEF Typed, New, Kind
  <2>2. todo' \in Seq(Item)
    BY <1>2, <1>4, InTodoNone
  <2>. QED
    BY <1>2, <1>4, <1>6, <2>1, <2>2 DEF InstructionTypes, Typed, Mutate
<1>8. Held' = Held
  BY <1>4 DEF Held
<1>9. ASSUME NEW o \in Allocated \cup W
      PROVE  Before(W, o) + Occ(Cell, Held', o) + InTodo(todo', o) <= Occ(Cell, Held, o) + ref'[o]
  <2>1. o \in Obj /\ Occ(Cell, Held, o) \in Nat /\ ref[o] \in Nat
    BY <1>2, CountsNat
  <2>2. InTodo(todo', o) = 0
    BY <1>2, <1>4, InTodoNone
  <2>3. ref'[o] = IF o = ml THEN 1 ELSE ref[o]
    BY <1>2, <1>3, <2>1 DEF Typed
  <2>. QED
    BY <1>8, <2>1, <2>2, <2>3 DEF Before
<1>10. Framing(W, {})
  <2>1. \A i \in 1 .. Len(todo') : todo'[i].o \in Kept
    BY <1>2, <1>4
  <2>2. /\ stk' \in [Prog -> Seq(Frame)] /\ built' \in [Prog -> BOOLEAN] /\ M' \in [Prog -> Ref]
        /\ \A x \in Prog : Len(stk'[x]) <= Depth /\ (built'[x] => Len(stk'[x]) >= 2)
    BY <1>2, <1>4 DEF Typed, Shapes
  <2> HIDE DEF W
  <2>. QED
    BY <1>4, <1>5, <1>6, <1>7, <1>8, <1>9, <2>1, <2>2 DEF Framing
<1>. QED
  BY <1>2, <1>5, <1>10, FrameKeeps

\* R.M of p becomes v.
Relinked(m, m2, p, v) == m2 = [m EXCEPT ![p] = v]

\* That is all that is changed.
LEMMA LinkPut ==
  ASSUME NEW st, NEW m \in [Prog -> Ref], NEW p \in Prog, NEW v, NEW m2, Relinked(m, m2, p, v)
  PROVE  /\ \A o : Occ(Cell, HeldIn(st, m2), o) + Is(m[p], o) = Occ(Cell, HeldIn(st, m), o) + Is(v, o)
         /\ \A c \in Cell : HeldIn(st, m2)[c] = HeldIn(st, m)[c] \/ HeldIn(st, m2)[c] = v
<1> DEFINE g == HeldIn(st, m)
           h == HeldIn(st, m2)
           c0 == <<p, 0, 0>>
<1>1. m2[p] = v /\ \A q \in Prog : q # p => m2[q] = m[q]
  BY DEF Relinked
<1>2. 0 \in 0 .. Depth /\ 0 \in 0 .. Slots
  BY HeapAssumption
<1>3. c0 \in Cell /\ g[c0] = InCell(st, m, p, 0, 0) /\ h[c0] = InCell(st, m2, p, 0, 0)
  BY <1>2 DEF Cell, HeldIn
<1>4. g[c0] = m[p] /\ h[c0] = v
  BY <1>1, <1>3 DEF InCell
<1>5. \A c \in Cell : c # c0 => g[c] = h[c]
  <2>1. SUFFICES ASSUME NEW c \in Cell, c # c0 PROVE g[c] = h[c]
    OBVIOUS
  <2>2. PICK q \in Prog, k \in 0 .. Depth, s \in 0 .. Slots : c = <<q, k, s>>
    BY DEF Cell
  <2>3. g[c] = InCell(st, m, q, k, s) /\ h[c] = InCell(st, m2, q, k, s)
    BY <2>2 DEF HeldIn
  <2>4. q # p \/ k # 0 \/ s # 0
    BY <2>1, <2>2
  <2>. QED
    BY <2>3, <2>4, <1>1 DEF InCell
<1> HIDE DEF g, h, c0
<1>6. \A o : Occ(Cell, h, o) + Is(g[c0], o) = Occ(Cell, g, o) + Is(h[c0], o)
  BY <1>3, <1>5, PlacesFinite, OccPut
<1>7. \A c \in Cell : h[c] = g[c] \/ h[c] = v
  BY <1>4, <1>5
<1>. QED
  BY <1>4, <1>6, <1>7 DEF g, h

\* frame.
LEMMA NewFrameKeeps == ASSUME HInv, NEW p \in Prog, NewFrame(p) PROVE HInv'
<1>1. Runs(p)
  BY DEF NewFrame
<1>2. /\ ~Busy /\ Typed /\ Shapes /\ HeldFound /\ KeptKept /\ todo = <<>> /\ stk[p] # <<>>
      /\ Kept \subseteq Allocated /\ Allocated \subseteq Obj
  BY <1>1, Running
<1> DEFINE fr == [slot |-> NoPtrs, mr |-> H]
<1>3. /\ Top(p) < Depth /\ stk' = [stk EXCEPT ![p] = Append(stk[p], fr)] /\ built' = [built EXCEPT ![p] = TRUE]
      /\ Mutate /\ kind' = kind /\ color' = color /\ ref' = ref /\ fld' = fld /\ M' = M
      /\ todo' = todo /\ nprop' = nprop
  BY DEF NewFrame, objVars
<1>4. Allocates({}) /\ Marks({}, {})
  BY <1>2, <1>3, QuietMarks
<1>5. InstructionTypes
  <2>1. ref' \in [Obj -> Nat] /\ todo' \in Seq(Item)
    BY <1>2, <1>3, InTodoNone DEF Typed
  <2>. QED
    BY <1>2, <1>3, <2>1, QuietTypes
<1>6. fr \in Frame /\ fr.mr = H /\ \A s \in 1 .. Slots : fr.slot[s] = H
  BY DEF Frame, NoPtrs, Ref
<1> HIDE DEF fr
<1>7. /\ stk[p] \in Seq(Frame) /\ Len(stk[p]) \in Nat /\ Len(stk[p]) < Depth /\ Len(stk[p]) >= 1
      /\ stk \in [Prog -> Seq(Frame)]
  BY <1>2, <1>3, StackParts DEF Typed, Top
<1>8. /\ stk'[p] \in Seq(Frame) /\ Len(stk'[p]) = Len(stk[p]) + 1 /\ stk'[p][Len(stk[p]) + 1] = fr
      /\ \A k \in 1 .. Len(stk[p]) : stk'[p][k] = stk[p][k]
      /\ \A q \in Prog : q # p => stk'[q] = stk[q]
      /\ stk' \in [Prog -> Seq(Frame)]
  BY <1>3, <1>6, <1>7, AppendProperties
<1>9. /\ built' \in [Prog -> BOOLEAN] /\ M' \in [Prog -> Ref]
      /\ \A q \in Prog : Len(stk'[q]) <= Depth /\ (built'[q] => Len(stk'[q]) >= 2)
  BY <1>2, <1>3, <1>7, <1>8, HeapAssumption DEF Typed, Shapes
<1>10. \A c \in Cell : Held'[c] = Held[c]
  <2>1. SUFFICES ASSUME NEW c \in Cell PROVE Held'[c] = Held[c]
    OBVIOUS
  <2>2. PICK q \in Prog, k \in 0 .. Depth, s \in 0 .. Slots : c = <<q, k, s>>
    BY DEF Cell
  <2>3. Held[c] = InCell(stk, M, q, k, s) /\ Held'[c] = InCell(stk', M', q, k, s)
    BY <2>2 DEF Held, HeldIn
  <2>4. CASE q # p
    BY <2>3, <2>4, <1>3, <1>8 DEF InCell
  <2>5. CASE q = p /\ k # Len(stk[p]) + 1
    <3>1. k # 0 /\ ~(k > Len(stk[p])) => k \in 1 .. Len(stk[p])
      BY <1>7
    <3>2. k > Len(stk'[p]) <=> k > Len(stk[p])
      BY <1>7, <1>8, <2>5
    <3>. QED
      BY <2>3, <2>5, <3>1, <3>2, <1>3, <1>8 DEF InCell
  <2>6. CASE q = p /\ k = Len(stk[p]) + 1
    <3>1. s # 0 => s \in 1 .. Slots
      BY HeapAssumption
    <3>2. k # 0 /\ k > Len(stk[p]) /\ ~(k > Len(stk'[p]))
      BY <2>6, <1>7, <1>8
    <3>. QED
      BY <2>3, <2>6, <3>1, <3>2, <1>6, <1>8 DEF InCell
  <2>. QED
    BY <2>4, <2>5, <2>6
<1>11. ASSUME NEW o \in Allocated \cup {}
       PROVE  Before({}, o) + Occ(Cell, Held', o) + InTodo(todo', o) <= Occ(Cell, Held, o) + ref'[o]
  <2>1. o \in Obj /\ Occ(Cell, Held, o) \in Nat /\ ref[o] \in Nat /\ ref'[o] = ref[o]
    BY <1>2, <1>3, CountsNat
  <2>2. InTodo(todo', o) = 0
    BY <1>2, <1>3, InTodoNone
  <2>3. Occ(Cell, Held', o) = Occ(Cell, Held, o)
    BY <1>10, OccSame
  <2>. QED
    BY <2>1, <2>2, <2>3 DEF Before
<1>12. Framing({}, {})
  <2>1. \A i \in 1 .. Len(todo') : todo'[i].o \in Kept
    BY <1>2, <1>3
  <2>. QED
    BY <1>3, <1>4, <1>5, <1>8, <1>9, <1>10, <1>11, <2>1 DEF Framing
<1>13. {} \in SUBSET Obj /\ {} \in SUBSET Kept
  OBVIOUS
<1>. QED
  BY <1>2, <1>12, <1>13, FrameKeeps

\* call.
LEMMA CallKeeps == ASSUME HInv, NEW p \in Prog, Call(p) PROVE HInv'
<1>1. Runs(p)
  BY DEF Call
<1>2. /\ ~Busy /\ Typed /\ Shapes /\ todo = <<>> /\ Kept \subseteq Allocated /\ Allocated \subseteq Obj
  BY <1>1, Running
<1>3. /\ built' = [built EXCEPT ![p] = FALSE]
      /\ Mutate /\ kind' = kind /\ color' = color /\ ref' = ref /\ fld' = fld /\ M' = M /\ stk' = stk
      /\ todo' = todo /\ nprop' = nprop
  BY DEF Call, objVars
<1>4. Allocates({}) /\ Marks({}, {})
  BY <1>2, <1>3, QuietMarks
<1>5. InstructionTypes
  <2>1. ref' \in [Obj -> Nat] /\ todo' \in Seq(Item)
    BY <1>2, <1>3, InTodoNone DEF Typed
  <2>. QED
    BY <1>2, <1>3, <2>1, QuietTypes
<1>6. /\ built' \in [Prog -> BOOLEAN] /\ M' \in [Prog -> Ref] /\ stk' \in [Prog -> Seq(Frame)]
      /\ \A q \in Prog : Len(stk'[q]) <= Depth /\ (built'[q] => Len(stk'[q]) >= 2)
  BY <1>2, <1>3 DEF Typed, Shapes
<1>7. Held' = Held
  BY <1>3 DEF Held
<1>8. ASSUME NEW o \in Allocated \cup {}
      PROVE  Before({}, o) + Occ(Cell, Held', o) + InTodo(todo', o) <= Occ(Cell, Held, o) + ref'[o]
  <2>1. o \in Obj /\ Occ(Cell, Held, o) \in Nat /\ ref[o] \in Nat /\ ref'[o] = ref[o]
    BY <1>2, <1>3, CountsNat
  <2>2. InTodo(todo', o) = 0
    BY <1>2, <1>3, InTodoNone
  <2>. QED
    BY <1>7, <2>1, <2>2 DEF Before
<1>9. Framing({}, {})
  <2>1. \A i \in 1 .. Len(todo') : todo'[i].o \in Kept
    BY <1>2, <1>3
  <2>. QED
    BY <1>3, <1>4, <1>5, <1>6, <1>7, <1>8, <2>1 DEF Framing
<1>10. {} \in SUBSET Obj /\ {} \in SUBSET Kept
  OBVIOUS
<1>. QED
  BY <1>2, <1>9, <1>10, FrameKeeps

(***************************************************************************)
(* A frame that is pushed or popped.                                       *)
(***************************************************************************)
\* The cells of the frame k of p.
Row(p, k) == {p} \X {k} \X (0 .. Slots)

\* How often the frame fr refers to o.
InFrameOf(fr, o) == Is(fr.mr, o) + InSeq(fr.slot, o)

\* The pointers of a frame, as a sequence.
LEMMA SlotsSeq ==
  ASSUME NEW r \in [1 .. Slots -> Ref]
  PROVE  r \in Seq(Ref) /\ Len(r) = Slots
  BY HeapAssumption

\* fr is the frame k of p.
FrameAt(st, p, k, fr) ==
  k \in 1 .. Depth /\ Len(st[p]) \in Nat /\ k <= Len(st[p]) /\ fr = st[p][k] /\ fr \in Frame

\* A row of cells counts what its frame refers to.
LEMMA FrameRow ==
  ASSUME NEW st, NEW m, NEW p \in Prog, NEW k, NEW fr, FrameAt(st, p, k, fr), NEW o
  PROVE  /\ Row(p, k) \in SUBSET Cell /\ InFrameOf(fr, o) \in Nat
         /\ Occ(Row(p, k), HeldIn(st, m), o) = InFrameOf(fr, o)
<1> DEFINE D == 0 .. Slots
           b == [s \in D |-> <<p, k, s>>]
           g == [s \in D |-> IF s = 0 THEN fr.mr ELSE fr.slot[s]]
           h == HeldIn(st, m)
<1>0. k \in 1 .. Depth /\ Len(st[p]) \in Nat /\ k <= Len(st[p]) /\ fr = st[p][k] /\ fr \in Frame
  BY DEF FrameAt
<1>1. Row(p, k) \in SUBSET Cell
  BY <1>0, HeapAssumption DEF Row, Cell
<1>2. fr.slot \in [1 .. Slots -> Ref] /\ fr.slot \in Seq(Ref) /\ Len(fr.slot) = Slots
  BY <1>0, SlotsSeq DEF Frame
<1>3. Slots \in Nat /\ IsFiniteSet(D) /\ IsFiniteSet(1 .. Slots) /\ IsFiniteSet({0})
  <2>1. Slots \in Nat /\ 0 \in Int /\ 1 \in Int /\ Slots \in Int
    BY HeapAssumption
  <2>2. IsFiniteSet(0 .. Slots) /\ IsFiniteSet(1 .. Slots)
    BY <2>1, FS_Interval
  <2>. QED
    BY <2>1, <2>2, FS_Singleton
<1>4. b \in [D -> Row(p, k)] /\ (\A x, y \in D : b[x] = b[y] => x = y) /\ (\A y \in Row(p, k) : \E x \in D : b[x] = y)
  BY DEF Row
<1>5. \A x \in D : h[b[x]] = g[x]
  <2>1. SUFFICES ASSUME NEW x \in D PROVE h[<<p, k, x>>] = IF x = 0 THEN fr.mr ELSE fr.slot[x]
    OBVIOUS
  <2>2. k \in 0 .. Depth
    BY <1>0
  <2>3. h[<<p, k, x>>] = InCell(st, m, p, k, x)
    BY <2>2, HeldAt
  <2>. QED
    BY <1>0, <2>3 DEF InCell
<1>6. g[0] = fr.mr /\ \A s \in 1 .. Slots : g[s] = fr.slot[s]
  BY <1>3
<1>7. D = {0} \cup (1 .. Slots) /\ {0} \cap (1 .. Slots) = {}
  BY <1>3
<1>8. Occ(1 .. Slots, fr.slot, o) = InSeq(fr.slot, o)
  BY <1>2 DEF InSeq
<1>9. InSeq(fr.slot, o) \in Nat /\ Is(fr.mr, o) \in Nat
  BY <1>2, InSeqNat DEF Is
<1> HIDE DEF D, b, g, h
<1>10. Occ(Row(p, k), h, o) = Occ(D, g, o)
  BY <1>3, <1>4, <1>5, OccRename
<1>11. Occ(D, g, o) = Occ({0}, g, o) + Occ(1 .. Slots, g, o)
  <2> DEFINE Z == {0}
             P == 1 .. Slots
  <2>1. IsFiniteSet(Z) /\ IsFiniteSet(P) /\ Z \cap P = {} /\ D = Z \cup P
    BY <1>3, <1>7
  <2> HIDE DEF Z, P
  <2>2. Occ(Z \cup P, g, o) = Occ(Z, g, o) + Occ(P, g, o)
    BY <2>1, OccSplit
  <2>. QED
    BY <2>1, <2>2 DEF Z, P
<1>12. Occ({0}, g, o) = Is(fr.mr, o)
  BY <1>6, OccOne
<1>13. Occ(1 .. Slots, g, o) = Occ(1 .. Slots, fr.slot, o)
  BY <1>6, OccSame
<1>14. InFrameOf(fr, o) = Is(fr.mr, o) + InSeq(fr.slot, o)
  BY DEF InFrameOf
<1>. QED
  BY <1>1, <1>8, <1>9, <1>10, <1>11, <1>12, <1>13, <1>14 DEF h

\* The stacks st2 are the stacks st without the last frame of p.
Popped(st, st2, p) ==
  /\ st \in [Prog -> Seq(Frame)] /\ st2 \in [Prog -> Seq(Frame)]
  /\ Len(st[p]) >= 1 /\ Len(st[p]) <= Depth /\ Len(st2[p]) = Len(st[p]) - 1
  /\ \A j \in 1 .. Len(st2[p]) : st2[p][j] = st[p][j]
  /\ \A q \in Prog : q # p => st2[q] = st[q]

LastOf(st, p, fr) == fr = st[p][Len(st[p])]

Refs(fr) == {fr.mr} \cup {fr.slot[s] : s \in 1 .. Slots}

\* Popping a frame takes away the references in it.
LEMMA PopCounts ==
  ASSUME NEW st, NEW st2, NEW m, NEW p \in Prog, Popped(st, st2, p), NEW fr, LastOf(st, p, fr)
  PROVE  /\ fr \in Frame
         /\ \A o \in Obj : /\ Occ(Cell, HeldIn(st, m), o) = Occ(Cell, HeldIn(st2, m), o) + InFrameOf(fr, o)
                           /\ InFrameOf(fr, o) \in Nat
         /\ \A c \in Cell : \/ HeldIn(st2, m)[c] = HeldIn(st, m)[c]
                            \/ HeldIn(st2, m)[c] = H /\ HeldIn(st, m)[c] \in Refs(fr)
<1> DEFINE k == Len(st[p])
           g == HeldIn(st, m)
           h == HeldIn(st2, m)
           R == Row(p, k)
<1>1. /\ st[p] \in Seq(Frame) /\ k \in Nat /\ k \in 1 .. Depth /\ Len(st2[p]) = k - 1
      /\ \A j \in 1 .. k - 1 : st2[p][j] = st[p][j]
      /\ \A q \in Prog : q # p => st2[q] = st[q]
  BY HeapAssumption DEF Popped
<1>2. fr \in Frame /\ fr = st[p][k]
  BY <1>1 DEF LastOf
<1>3. ASSUME NEW o \in Obj
      PROVE  R \in SUBSET Cell /\ InFrameOf(fr, o) \in Nat /\ Occ(R, g, o) = InFrameOf(fr, o)
  <2>1. fr \in Frame /\ fr = st[p][Len(st[p])]
    BY <1>2
  <2>2. FrameAt(st, p, k, fr)
    BY <1>1, <2>1 DEF FrameAt
  <2> HIDE DEF k
  <2>3. /\ Row(p, k) \in SUBSET Cell /\ InFrameOf(fr, o) \in Nat
        /\ Occ(Row(p, k), HeldIn(st, m), o) = InFrameOf(fr, o)
    BY <2>2, FrameRow
  <2>. QED
    BY <2>3
<1>4. ASSUME NEW c \in Cell
      PROVE  /\ c \notin R => h[c] = g[c]
             /\ c \in R => h[c] = H /\ g[c] \in Refs(fr)
  <2>2. PICK q \in Prog, j \in 0 .. Depth, s \in 0 .. Slots : c = <<q, j, s>>
    BY DEF Cell
  <2>3. g[c] = InCell(st, m, q, j, s) /\ h[c] = InCell(st2, m, q, j, s)
    BY <2>2, HeldAt
  <2>4. c \in R <=> q = p /\ j = k
    BY <2>2 DEF Row
  <2>5. CASE q # p \/ j # k
    <3>2. CASE q # p
      BY <3>2, <2>3, <2>4, <1>1 DEF InCell
    <3>3. CASE q = p /\ j # k
      <4>1. j > k <=> j > k - 1
        BY <1>1, <3>3
      <4>2. j # 0 /\ ~(j > k) => j \in 1 .. k - 1
        BY <1>1, <3>3
      <4>. QED
        BY <4>1, <4>2, <3>3, <2>3, <2>4, <1>1 DEF InCell
    <3>. QED
      BY <2>5, <3>2, <3>3
  <2>6. CASE q = p /\ j = k
    <3>1. j # 0 /\ j > Len(st2[p]) /\ ~(j > Len(st[p]))
      BY <1>1, <2>6
    <3>2. s # 0 => s \in 1 .. Slots
      BY HeapAssumption
    <3>. QED
      BY <3>1, <3>2, <2>3, <2>4, <2>6, <1>2 DEF InCell, Refs
  <2>. QED
    BY <2>5, <2>6
<1> HIDE DEF k, g, h, R
<1>5. ASSUME NEW o \in Obj
      PROVE  Occ(Cell, g, o) = Occ(Cell, h, o) + InFrameOf(fr, o)
  <2>1. IsFiniteSet(Cell) /\ R \in SUBSET Cell /\ IsFiniteSet(R)
    BY <1>3, PlacesFinite, FS_Subset
  <2>2. \A c \in Cell \ R : g[c] = h[c]
    BY <1>4
  <2>3. Occ(Cell, h, o) + Occ(R, g, o) = Occ(Cell, g, o) + Occ(R, h, o)
    BY <2>1, <2>2, OccChange
  <2>4. \A c \in R : h[c] # o
    BY <1>4, <2>1, HeapAssumption
  <2>5. Occ(R, h, o) = 0
    BY <2>1, <2>4, OccNat
  <2>6. Occ(Cell, g, o) \in Nat /\ Occ(Cell, h, o) \in Nat
    BY <2>1, OccNat
  <2>. QED
    BY <2>3, <2>5, <2>6, <1>3
<1>. QED
  BY <1>2, <1>3, <1>4, <1>5 DEF g, h

\* The frame k of p gets the Modlink v.
MrSet(p, k, v) == stk' = [stk EXCEPT ![p][k].mr = v]

\* That is all that is changed.
LEMMA MrPut ==
  ASSUME Typed, Shapes, NEW p \in Prog, NEW k \in 1 .. Len(stk[p]), NEW v \in Ref, NEW m,
         MrSet(p, k, v)
  PROVE  /\ stk' \in [Prog -> Seq(Frame)] /\ \A q \in Prog : Len(stk'[q]) = Len(stk[q])
         /\ \A o \in Obj : Occ(Cell, HeldIn(stk', m), o) + Is(stk[p][k].mr, o) = Occ(Cell, HeldIn(stk, m), o) + Is(v, o)
         /\ \A c \in Cell : HeldIn(stk', m)[c] = HeldIn(stk, m)[c] \/ HeldIn(stk', m)[c] = v
<1> DEFINE c0 == <<p, k, 0>>
           g == HeldIn(stk, m)
           h == HeldIn(stk', m)
           fr == stk[p][k]
           row == [fr EXCEPT !.mr = v]
<1>1. /\ stk \in [Prog -> Seq(Frame)] /\ stk[p] \in Seq(Frame) /\ Len(stk[p]) \in Nat
      /\ k \in 1 .. Depth /\ Top(p) = Len(stk[p]) /\ fr \in Frame
  BY StackParts DEF Typed
<1>2. row \in Frame /\ row.mr = v /\ row.slot = fr.slot
  BY <1>1 DEF Frame
<1>3. stk' = [stk EXCEPT ![p] = [stk[p] EXCEPT ![k] = row]]
  BY DEF MrSet
<1> HIDE DEF row, fr
<1>4. /\ [stk[p] EXCEPT ![k] = row] \in Seq(Frame) /\ Len([stk[p] EXCEPT ![k] = row]) = Len(stk[p])
      /\ [stk[p] EXCEPT ![k] = row][k] = row
      /\ \A j \in 1 .. Len(stk[p]) : j # k => [stk[p] EXCEPT ![k] = row][j] = stk[p][j]
  BY <1>1, <1>2
<1>5. /\ stk' \in [Prog -> Seq(Frame)] /\ \A q \in Prog : Len(stk'[q]) = Len(stk[q])
      /\ stk'[p][k] = row /\ \A j \in 1 .. Len(stk[p]) : j # k => stk'[p][j] = stk[p][j]
      /\ \A q \in Prog : q # p => stk'[q] = stk[q]
  BY <1>1, <1>3, <1>4
<1>6. c0 \in Cell /\ g[c0] = InCell(stk, m, p, k, 0) /\ h[c0] = InCell(stk', m, p, k, 0)
  <2>1. k \in 0 .. Depth /\ 0 \in 0 .. Slots
    BY <1>1, HeapAssumption
  <2>. QED
    BY <2>1, HeldAt
<1>7. k # 0 /\ ~(k > Len(stk[p])) /\ ~(k > Len(stk'[p]))
  BY <1>1, <1>5
<1>8. g[c0] = fr.mr /\ h[c0] = v
  BY <1>2, <1>5, <1>6, <1>7 DEF InCell, fr
<1>9. \A c \in Cell : c # c0 => g[c] = h[c]
  <2>1. SUFFICES ASSUME NEW c \in Cell, c # c0 PROVE g[c] = h[c]
    OBVIOUS
  <2>2. PICK q \in Prog, j \in 0 .. Depth, s \in 0 .. Slots : c = <<q, j, s>>
    BY DEF Cell
  <2>3. g[c] = InCell(stk, m, q, j, s) /\ h[c] = InCell(stk', m, q, j, s)
    BY <2>2, HeldAt
  <2>4. CASE q # p
    BY <2>3, <2>4, <1>5 DEF InCell
  <2>5. CASE q = p /\ j # k
    <3>1. j # 0 /\ ~(j > Len(stk[p])) => j \in 1 .. Len(stk[p])
      BY <1>1
    <3>. QED
      BY <3>1, <2>3, <2>5, <1>5 DEF InCell
  <2>6. CASE q = p /\ j = k
    <3>1. s # 0
      BY <2>1, <2>2, <2>6
    <3>. QED
      BY <3>1, <2>3, <2>6, <1>2, <1>5, <1>7 DEF InCell, fr
  <2>. QED
    BY <2>4, <2>5, <2>6
<1> HIDE DEF c0, g, h
<1>10. \A o : Occ(Cell, h, o) + Is(g[c0], o) = Occ(Cell, g, o) + Is(h[c0], o)
  BY <1>6, <1>9, PlacesFinite, OccPut
<1>. QED
  BY <1>5, <1>8, <1>9, <1>10 DEF g, h, fr

\* mcall: the reference to the Modlink is counted, the caller's moves.
LEMMA McallKeeps == ASSUME HInv, CopiesUnmarked = FALSE, NEW p \in Prog, Mcall(p) PROVE HInv'
<1>1. Runs(p)
  BY DEF Mcall
<1>2. /\ ~Busy /\ Typed /\ Shapes /\ HeldFound /\ KeptKept /\ todo = <<>> /\ stk[p] # <<>>
      /\ Found \subseteq Kept /\ Kept \subseteq Allocated /\ Allocated \subseteq Obj
  BY <1>1, Running
<1>3. PICK ml \in Values(p) \ {H} :
         /\ kind[ml] = "modlink" /\ Marked(ml)
         /\ stk' = [stk EXCEPT ![p][Top(p)].mr = M[p]]
         /\ M' = [M EXCEPT ![p] = ml]
         /\ ref' = Inc(ref, ml)
  BY DEF Mcall
<1>4. /\ built' = [built EXCEPT ![p] = FALSE] /\ Mutate
      /\ kind' = kind /\ color' = color /\ fld' = fld /\ todo' = todo /\ nprop' = nprop
  BY DEF Mcall
<1>5. ml \in Found /\ ml \in Obj
  <2>1. ml \in Kept
    BY <1>2, <1>3, ValuesKept
  <2>2. color[ml] \in {mutator, propagator}
    BY <1>3 DEF Marked
  <2>. QED
    BY <1>2, <2>1, <2>2, FoundKept
<1>6. Allocates({}) /\ Marks({}, {})
  BY <1>2, <1>4, QuietMarks
<1>7. ref' \in [Obj -> Nat] /\ \A o \in Obj : ref'[o] = ref[o] + Is(ml, o) /\ ref[o] \in Nat /\ Is(ml, o) \in Nat
  BY <1>2, <1>3 DEF Inc, Is, Typed
<1>8. InstructionTypes
  <2>1. todo' \in Seq(Item)
    BY <1>2, <1>4, InTodoNone
  <2>. QED
    BY <1>2, <1>4, <1>7, <2>1, QuietTypes
<1>9. M \in [Prog -> Ref] /\ built \in [Prog -> BOOLEAN] /\ M[p] \in Ref
  BY <1>2 DEF Typed
<1>10. Top(p) \in 1 .. Len(stk[p])
  BY <1>2, StackParts
<1>11. /\ stk' \in [Prog -> Seq(Frame)] /\ \A q \in Prog : Len(stk'[q]) = Len(stk[q])
       /\ \A o \in Obj : Occ(Cell, HeldIn(stk', M), o) + Is(stk[p][Top(p)].mr, o) = Occ(Cell, HeldIn(stk, M), o) + Is(M[p], o)
       /\ \A c \in Cell : HeldIn(stk', M)[c] = HeldIn(stk, M)[c] \/ HeldIn(stk', M)[c] = M[p]
  <2> DEFINE k == Top(p)
  <2>1. Typed /\ Shapes /\ k \in 1 .. Len(stk[p]) /\ M[p] \in Ref /\ MrSet(p, k, M[p])
    BY <1>2, <1>3, <1>9, <1>10 DEF MrSet
  <2> HIDE DEF k
  <2>2. /\ stk' \in [Prog -> Seq(Frame)] /\ \A q \in Prog : Len(stk'[q]) = Len(stk[q])
        /\ \A o \in Obj : Occ(Cell, HeldIn(stk', M), o) + Is(stk[p][k].mr, o) = Occ(Cell, HeldIn(stk, M), o) + Is(M[p], o)
        /\ \A c \in Cell : HeldIn(stk', M)[c] = HeldIn(stk, M)[c] \/ HeldIn(stk', M)[c] = M[p]
    BY <2>1, MrPut
  <2>. QED
    BY <2>2 DEF k
<1>12. /\ \A o : Occ(Cell, HeldIn(stk', M'), o) + Is(M[p], o) = Occ(Cell, HeldIn(stk', M), o) + Is(ml, o)
       /\ \A c \in Cell : HeldIn(stk', M')[c] = HeldIn(stk', M)[c] \/ HeldIn(stk', M')[c] = ml
  <2>1. Relinked(M, M', p, ml)
    BY <1>3 DEF Relinked
  <2>. QED
    BY <2>1, <1>9, LinkPut
<1>13. M' \in [Prog -> Ref] /\ built' \in [Prog -> BOOLEAN]
  BY <1>3, <1>4, <1>5, <1>9 DEF Ref
<1>14. \A q \in Prog : Len(stk'[q]) <= Depth /\ (built'[q] => Len(stk'[q]) >= 2)
  BY <1>2, <1>4, <1>9, <1>11 DEF Shapes
<1>15. \A c \in Cell : Held'[c] = Held[c] \/ Held'[c] \in Found \cup {} \cup {} \cup {H}
  <2>1. M[p] \in Found \cup {H}
    BY <1>2, HoldsFound
  <2>. QED
    BY <1>5, <1>11, <1>12, <2>1 DEF Held
<1>16. ASSUME NEW o \in Allocated \cup {}
       PROVE  Before({}, o) + Occ(Cell, Held', o) + InTodo(todo', o) <= Occ(Cell, Held, o) + ref'[o]
  <2> DEFINE h0 == Occ(Cell, Held, o)
             h1 == Occ(Cell, HeldIn(stk', M), o)
             h2 == Occ(Cell, Held', o)
  <2>1. o \in Obj
    BY <1>2
  <2>2. h0 \in Nat /\ h1 \in Nat /\ h2 \in Nat
    BY PlacesFinite, OccNat
  <2>3. InTodo(todo', o) = 0 /\ Before({}, o) = ref[o]
    BY <1>2, <1>4, InTodoNone DEF Before
  <2>4. Is(stk[p][Top(p)].mr, o) \in Nat /\ Is(M[p], o) \in Nat /\ Is(ml, o) \in Nat
    BY DEF Is
  <2>5. h1 + Is(stk[p][Top(p)].mr, o) = h0 + Is(M[p], o) /\ h2 + Is(M[p], o) = h1 + Is(ml, o)
    BY <2>1, <1>11, <1>12 DEF Held
  <2>6. ref'[o] = ref[o] + Is(ml, o) /\ ref[o] \in Nat
    BY <2>1, <1>7
  <2>7. SUFFICES ref[o] + h2 + 0 <= h0 + ref'[o]
    BY <2>3
  <2> HIDE DEF h0, h1, h2
  <2>. QED
    BY <2>2, <2>4, <2>5, <2>6
<1>17. Framing({}, {})
  <2>1. \A i \in 1 .. Len(todo') : todo'[i].o \in Kept
    BY <1>2, <1>4
  <2>. QED
    BY <1>4, <1>6, <1>8, <1>11, <1>13, <1>14, <1>15, <1>16, <2>1 DEF Framing
<1>18. {} \in SUBSET Obj /\ {} \in SUBSET Kept
  OBVIOUS
<1>. QED
  BY <1>2, <1>17, <1>18, FrameKeeps

\* The stacks with only the first k frames of p.
Cut(p, k) == [stk EXCEPT ![p] = SubSeq(stk[p], 1, k)]

\* One frame less is a pop.
LEMMA CutPops ==
  ASSUME Typed, Shapes, NEW p \in Prog, NEW k \in 1 .. Len(stk[p])
  PROVE  /\ Popped(Cut(p, k), Cut(p, k - 1), p)
         /\ Cut(p, k)[p][Len(Cut(p, k)[p])] = stk[p][k]
         /\ Cut(p, Len(stk[p])) = stk /\ Cut(p, 0) = [stk EXCEPT ![p] = <<>>]
         /\ Len(Cut(p, k - 1)[p]) = k - 1
<1>1. stk \in [Prog -> Seq(Frame)] /\ stk[p] \in Seq(Frame) /\ Len(stk[p]) \in Nat /\ Len(stk[p]) <= Depth
  BY DEF Typed, Shapes
<1>2. ASSUME NEW j \in 0 .. Len(stk[p])
      PROVE  /\ SubSeq(stk[p], 1, j) \in Seq(Frame) /\ Len(SubSeq(stk[p], 1, j)) = j
             /\ \A i \in 1 .. j : SubSeq(stk[p], 1, j)[i] = stk[p][i]
  BY <1>1
<1>3. k \in 0 .. Len(stk[p]) /\ k - 1 \in 0 .. Len(stk[p]) /\ k \in Nat /\ k <= Depth /\ k >= 1
  BY <1>1, HeapAssumption
<1>4. ASSUME NEW j \in 0 .. Len(stk[p])
      PROVE  /\ Cut(p, j) \in [Prog -> Seq(Frame)] /\ Cut(p, j)[p] = SubSeq(stk[p], 1, j)
             /\ \A q \in Prog : q # p => Cut(p, j)[q] = stk[q]
  BY <1>1, <1>2 DEF Cut
<1>5. /\ Len(Cut(p, k)[p]) = k /\ Len(Cut(p, k - 1)[p]) = k - 1
      /\ \A j \in 1 .. k : Cut(p, k)[p][j] = stk[p][j]
      /\ \A j \in 1 .. k - 1 : Cut(p, k - 1)[p][j] = stk[p][j]
      /\ \A q \in Prog : q # p => Cut(p, k)[q] = stk[q] /\ Cut(p, k - 1)[q] = stk[q]
      /\ Cut(p, k) \in [Prog -> Seq(Frame)] /\ Cut(p, k - 1) \in [Prog -> Seq(Frame)]
  BY <1>2, <1>3, <1>4
<1>6. Popped(Cut(p, k), Cut(p, k - 1), p)
  <2> DEFINE a == Cut(p, k)
             b == Cut(p, k - 1)
  <2>1. /\ Len(a[p]) = k /\ Len(b[p]) = k - 1 /\ k >= 1 /\ k <= Depth
        /\ \A j \in 1 .. k - 1 : b[p][j] = a[p][j]
        /\ \A q \in Prog : q # p => b[q] = a[q]
        /\ a \in [Prog -> Seq(Frame)] /\ b \in [Prog -> Seq(Frame)]
    <3>1. \A j \in 1 .. k - 1 : j \in 1 .. k
      BY <1>3
    <3>. QED
      BY <3>1, <1>3, <1>5
  <2> HIDE DEF a, b
  <2>2. Popped(a, b, p)
    BY <2>1 DEF Popped
  <2>. QED
    BY <2>2 DEF a, b
<1>7. Cut(p, Len(stk[p])) = stk
  <2>1. SubSeq(stk[p], 1, Len(stk[p])) = stk[p]
    BY <1>1
  <2>. QED
    BY <1>1, <2>1 DEF Cut
<1>8. Cut(p, 0) = [stk EXCEPT ![p] = <<>>]
  <2>1. SubSeq(stk[p], 1, 0) = <<>>
    BY <1>1
  <2>. QED
    BY <2>1 DEF Cut
<1>. QED
  BY <1>3, <1>5, <1>6, <1>7, <1>8

\* The last frame is popped.
LEMMA PopsLast ==
  ASSUME Typed, Shapes, NEW p \in Prog, stk[p] # <<>>, NEW st, st = Cut(p, Top(p) - 1)
  PROVE  /\ Popped(stk, st, p) /\ st \in [Prog -> Seq(Frame)] /\ Len(st[p]) = Top(p) - 1
         /\ \A q \in Prog : Len(st[q]) <= Depth
<1>1. Top(p) = Len(stk[p]) /\ Top(p) \in 1 .. Len(stk[p]) /\ Top(p) <= Depth /\ Top(p) \in Nat
  BY StackParts
<1>2. Popped(stk, st, p) /\ Len(st[p]) = Top(p) - 1
  BY <1>1, CutPops
<1>3. st \in [Prog -> Seq(Frame)] /\ \A q \in Prog : q # p => st[q] = stk[q]
  BY <1>2 DEF Popped
<1>4. Len(st[p]) <= Depth
  BY <1>1, <1>2, HeapAssumption
<1>5. \A q \in Prog : Len(st[q]) <= Depth
  BY <1>3, <1>4 DEF Shapes
<1>. QED
  BY <1>2, <1>3, <1>5

\* ret: what the frame held is dropped.
LEMMA RetKeeps == ASSUME HInv, NEW p \in Prog, Ret(p) PROVE HInv'
<1>1. Runs(p)
  BY DEF Ret
<1>2. /\ ~Busy /\ Typed /\ Shapes /\ HeldFound /\ KeptKept /\ todo = <<>> /\ stk[p] # <<>>
      /\ Found \subseteq Kept /\ Kept \subseteq Allocated /\ Allocated \subseteq Obj
  BY <1>1, Running
<1> DEFINE fr == stk[p][Top(p)]
<1>3. /\ ~built[p] /\ Top(p) > 1 /\ stk' = Cut(p, Top(p) - 1)
      /\ fr.mr = H => todo' = Drops(fr.slot, 0) /\ M' = M
      /\ fr.mr # H => todo' = Drops(fr.slot \o <<M[p]>>, 0) /\ M' = [M EXCEPT ![p] = fr.mr]
  BY DEF Ret, Cut
<1>4. Mutate /\ kind' = kind /\ color' = color /\ ref' = ref /\ fld' = fld /\ built' = built /\ nprop' = nprop
  BY DEF Ret, objVars
<1>5. /\ Popped(stk, stk', p) /\ stk' \in [Prog -> Seq(Frame)] /\ Len(stk'[p]) = Top(p) - 1
      /\ \A q \in Prog : Len(stk'[q]) <= Depth
  BY <1>2, <1>3, PopsLast
<1>6. Top(p) = Len(stk[p]) /\ Top(p) \in 1 .. Top(p)
  BY <1>2, StackParts
<1>7. /\ fr \in Frame
      /\ \A o \in Obj : /\ Occ(Cell, HeldIn(stk, M), o) = Occ(Cell, HeldIn(stk', M), o) + InFrameOf(fr, o)
                        /\ InFrameOf(fr, o) \in Nat
      /\ \A c \in Cell : HeldIn(stk', M)[c] = HeldIn(stk, M)[c] \/ HeldIn(stk', M)[c] = H
  <2>1. Popped(stk, stk', p) /\ LastOf(stk, p, fr)
    BY <1>5, <1>6 DEF LastOf
  <2> HIDE DEF fr
  <2>2. /\ fr \in Frame
        /\ \A o \in Obj : /\ Occ(Cell, HeldIn(stk, M), o) = Occ(Cell, HeldIn(stk', M), o) + InFrameOf(fr, o)
                          /\ InFrameOf(fr, o) \in Nat
        /\ \A c \in Cell : \/ HeldIn(stk', M)[c] = HeldIn(stk, M)[c]
                           \/ HeldIn(stk', M)[c] = H /\ HeldIn(stk, M)[c] \in Refs(fr)
    BY <2>1, PopCounts
  <2>. QED
    BY <2>2
<1>8. /\ M[p] \in Found \cup {H} /\ fr.mr \in Found \cup {H}
      /\ \A s \in 1 .. Slots : fr.slot[s] \in Found \cup {H}
  BY <1>2, <1>6, HoldsFound
<1>9. /\ fr.slot \in Seq(Ref) /\ Len(fr.slot) = Slots /\ fr.mr \in Ref
      /\ M \in [Prog -> Ref] /\ M[p] \in Ref /\ built \in [Prog -> BOOLEAN]
  BY <1>2, <1>7, SlotsSeq DEF Frame, Typed
<1> DEFINE v == IF fr.mr = H THEN fr.slot ELSE fr.slot \o <<M[p]>>
           gone(o) == InSeq(fr.slot, o) + IF fr.mr = H THEN 0 ELSE Is(M[p], o)
<1>10. /\ v \in Seq(Ref) /\ todo' = Drops(v, 0) /\ \A j \in 1 .. Len(v) : v[j] \in Kept \cup {H}
       /\ \A o : InSeq(v, o) = gone(o)
  <2> HIDE DEF fr
  <2>1. CASE fr.mr = H
    <3>1. \A o : InSeq(fr.slot, o) \in Nat
      BY <1>9, InSeqNat
    <3>. QED
      BY <3>1, <2>1, <1>2, <1>3, <1>8, <1>9
  <2>2. CASE fr.mr # H
    <3> DEFINE u == <<M[p]>>
    <3>1. u \in Seq(Ref) /\ Len(u) = 1 /\ u[1] = M[p]
      BY <1>9
    <3>2. \A o : InSeq(u, o) = Is(M[p], o)
      BY InSeqOne
    <3>3. v = fr.slot \o u /\ todo' = Drops(v, 0)
      BY <1>3, <2>2
    <3> HIDE DEF u
    <3>4. v \in Seq(Ref) /\ \A o : InSeq(v, o) = InSeq(fr.slot, o) + InSeq(u, o)
      <4> DEFINE w == fr.slot
      <4>1. w \in Seq(Ref) /\ u \in Seq(Ref) /\ v = w \o u
        BY <1>9, <3>1, <3>3
      <4> HIDE DEF w, v
      <4>2. v \in Seq(Ref)
        BY <4>1
      <4>3. ASSUME NEW o PROVE InSeq(w \o u, o) = InSeq(w, o) + InSeq(u, o)
        BY <4>1, InSeqConcat
      <4>. QED
        BY <4>1, <4>2, <4>3 DEF w
    <3>5. \A j \in 1 .. Len(v) : v[j] \in Kept \cup {H}
      <4>1. SUFFICES ASSUME NEW j \in 1 .. Len(fr.slot \o u) PROVE (fr.slot \o u)[j] \in Kept \cup {H}
        BY <3>3
      <4>2. Slots \in Nat
        BY HeapAssumption
      <4>3. /\ j \in 1 .. Slots => (fr.slot \o u)[j] = fr.slot[j]
            /\ j \notin 1 .. Slots => j = Slots + 1 /\ (fr.slot \o u)[j] = u[1]
        <5> DEFINE w == fr.slot
        <5>1. w \in Seq(Ref) /\ u \in Seq(Ref) /\ Len(w) = Slots /\ Len(u) = 1 /\ j \in 1 .. Len(w \o u)
          BY <1>9, <3>1, <4>1
        <5> HIDE DEF w
        <5>2. Len(w \o u) = Slots + 1
          <6>1. Len(w \o u) = Len(w) + Len(u)
            BY <5>1, ConcatProperties
          <6>. QED
            BY <5>1, <6>1
        <5>3. j \in 1 .. Slots => (w \o u)[j] = w[j]
          BY <5>1, <4>2
        <5>4. j \notin 1 .. Slots => j = Slots + 1 /\ (w \o u)[j] = u[1]
          BY <5>1, <5>2, <4>2
        <5>. QED
          BY <5>3, <5>4 DEF w
      <4>. QED
        BY <4>3, <3>1, <1>2, <1>8
    <3>. QED
      BY <2>2, <3>2, <3>3, <3>4, <3>5
  <2>. QED
    BY <2>1, <2>2
<1> HIDE DEF v
<1>11. todo' \in Seq(Item) /\ \A o \in Obj : InTodo(todo', o) = gone(o)
  BY <1>10, DropsCount, HeapAssumption
<1>12. \A i \in 1 .. Len(todo') : todo'[i].o \in Kept
  BY <1>10, DropsKept, HeapAssumption
<1>13. M' \in [Prog -> Ref]
  BY <1>3, <1>9
<1>14. Allocates({}) /\ Marks({}, {})
  BY <1>2, <1>4, QuietMarks
<1>15. InstructionTypes
  <2>1. ref' \in [Obj -> Nat]
    BY <1>2, <1>4 DEF Typed
  <2>. QED
    BY <1>2, <1>4, <1>11, <2>1, QuietTypes
<1>16. \A q \in Prog : Len(stk'[q]) <= Depth /\ (built'[q] => Len(stk'[q]) >= 2)
  BY <1>2, <1>3, <1>4, <1>5 DEF Shapes, Popped
<1> DEFINE now == IF fr.mr = H THEN M[p] ELSE fr.mr
<1>17. /\ \A o : Occ(Cell, HeldIn(stk', M'), o) + Is(M[p], o) = Occ(Cell, HeldIn(stk', M), o) + Is(now, o)
       /\ \A c \in Cell : HeldIn(stk', M')[c] = HeldIn(stk', M)[c] \/ HeldIn(stk', M')[c] = now
       /\ now \in Found \cup {H}
  <2>1. Relinked(M, M', p, now)
    BY <1>3, <1>9 DEF Relinked
  <2>2. now \in Found \cup {H}
    BY <1>8
  <2> HIDE DEF now
  <2>. QED
    BY <2>1, <2>2, <1>9, LinkPut
<1>18. \A c \in Cell : Held'[c] = Held[c] \/ Held'[c] \in Found \cup {} \cup {} \cup {H}
  <2> HIDE DEF now
  <2>. QED
    BY <1>7, <1>17 DEF Held
<1>19. ASSUME NEW o \in Allocated \cup {}
       PROVE  Before({}, o) + Occ(Cell, Held', o) + InTodo(todo', o) <= Occ(Cell, Held, o) + ref'[o]
  <2> DEFINE h0 == Occ(Cell, Held, o)
             h1 == Occ(Cell, HeldIn(stk', M), o)
             h2 == Occ(Cell, Held', o)
             a == InSeq(fr.slot, o)
             b == Is(M[p], o)
             d == Is(fr.mr, o)
             t == InTodo(todo', o)
  <2>1. o \in Obj /\ o # H
    BY <1>2, HeapAssumption
  <2>2. h0 \in Nat /\ h1 \in Nat /\ h2 \in Nat
    BY PlacesFinite, OccNat
  <2>3. a \in Nat /\ b \in Nat /\ d \in Nat
    BY <1>9, InSeqNat DEF Is
  <2>4. Before({}, o) = ref'[o] /\ ref'[o] \in Nat
    BY <1>4, <1>2, <2>1 DEF Before, Typed
  <2>5. h0 = h1 + (d + a)
    BY <2>1, <1>7 DEF Held, InFrameOf
  <2>6. fr.mr = H => d = 0 /\ h2 + b = h1 + b /\ t = a + 0
    BY <2>1, <1>11, <1>17 DEF Held, Is
  <2>7. fr.mr # H => h2 + b = h1 + d /\ t = a + b
    BY <2>1, <1>11, <1>17 DEF Held
  <2>8. SUFFICES ref'[o] + h2 + t <= h0 + ref'[o]
    BY <2>4
  <2> DEFINE c == fr.mr = H
             r1 == ref'[o]
  <2>9. (c => d = 0 /\ h2 + b = h1 + b /\ t = a + 0) /\ (~c => h2 + b = h1 + d /\ t = a + b)
    BY <2>6, <2>7
  <2>10. r1 \in Nat
    BY <2>4
  <2> HIDE DEF h0, h1, h2, a, b, d, t, c, r1
  <2>11. t \in Nat /\ h2 + t = h0
    BY <2>2, <2>3, <2>5, <2>9
  <2>12. r1 + h2 + t <= h0 + r1
    BY <2>2, <2>10, <2>11
  <2>. QED
    BY <2>12 DEF r1
<1>20. Framing({}, {})
  BY <1>4, <1>5, <1>12, <1>13, <1>14, <1>15, <1>16, <1>18, <1>19, <1>2 DEF Framing, Typed
<1>21. {} \in SUBSET Obj /\ {} \in SUBSET Kept
  OBVIOUS
<1>. QED
  BY <1>2, <1>20, <1>21, FrameKeeps

\* An error: the frame that was being built is forgotten.
LEMMA UnwindKeeps == ASSUME HInv, NEW p \in Prog, Unwind(p) PROVE HInv'
<1>1. Runs(p)
  BY DEF Unwind
<1>2. /\ ~Busy /\ Typed /\ Shapes /\ todo = <<>> /\ stk[p] # <<>>
      /\ Kept \subseteq Allocated /\ Allocated \subseteq Obj
  BY <1>1, Running
<1>3. /\ stk' = Cut(p, Top(p) - 1) /\ built' = [built EXCEPT ![p] = FALSE]
      /\ Mutate /\ kind' = kind /\ color' = color /\ ref' = ref /\ fld' = fld /\ M' = M
      /\ todo' = todo /\ nprop' = nprop
  BY DEF Unwind, Cut, objVars
<1>4. Allocates({}) /\ Marks({}, {})
  BY <1>2, <1>3, QuietMarks
<1>5. ref' \in [Obj -> Nat] /\ todo' \in Seq(Item)
  BY <1>2, <1>3, InTodoNone DEF Typed
<1>6. InstructionTypes
  BY <1>2, <1>3, <1>5, QuietTypes
<1>7. /\ Popped(stk, stk', p) /\ stk' \in [Prog -> Seq(Frame)] /\ \A q \in Prog : Len(stk'[q]) <= Depth
  BY <1>2, <1>3, PopsLast
<1>8. built' \in [Prog -> BOOLEAN] /\ M' \in [Prog -> Ref]
  BY <1>2, <1>3 DEF Typed
<1>9. \A q \in Prog : built'[q] => Len(stk'[q]) >= 2
  BY <1>2, <1>3, <1>7 DEF Shapes, Popped, Typed
<1> DEFINE fr == stk[p][Len(stk[p])]
<1>10. LastOf(stk, p, fr)
  BY DEF LastOf
<1> HIDE DEF fr
<1>11. /\ \A o \in Obj : /\ Occ(Cell, HeldIn(stk, M), o) = Occ(Cell, HeldIn(stk', M), o) + InFrameOf(fr, o)
                         /\ InFrameOf(fr, o) \in Nat
       /\ \A c \in Cell : \/ HeldIn(stk', M)[c] = HeldIn(stk, M)[c]
                          \/ HeldIn(stk', M)[c] = H /\ HeldIn(stk, M)[c] \in Refs(fr)
  BY <1>7, <1>10, PopCounts
<1>12. Held' = HeldIn(stk', M)
  BY <1>3 DEF Held
<1>13. \A c \in Cell : Held'[c] = Held[c] \/ Held'[c] \in Found \cup {} \cup {} \cup {H}
  BY <1>11, <1>12 DEF Held
<1>14. ASSUME NEW o \in Allocated \cup {}
       PROVE  Before({}, o) + Occ(Cell, Held', o) + InTodo(todo', o) <= Occ(Cell, Held, o) + ref'[o]
  <2> DEFINE h0 == Occ(Cell, Held, o)
             h2 == Occ(Cell, Held', o)
             a == InFrameOf(fr, o)
             r1 == ref'[o]
  <2>1. o \in Obj
    BY <1>2
  <2>2. h0 \in Nat /\ h2 \in Nat /\ a \in Nat /\ r1 \in Nat
    BY <2>1, <1>5, <1>11, PlacesFinite, OccNat
  <2>3. h0 = h2 + a
    BY <2>1, <1>11, <1>12 DEF Held
  <2>4. InTodo(todo', o) = 0 /\ Before({}, o) = r1
    BY <1>2, <1>3, InTodoNone DEF Before
  <2>5. SUFFICES r1 + h2 + 0 <= h0 + r1
    BY <2>4
  <2> HIDE DEF h0, h2, a, r1
  <2>. QED
    BY <2>2, <2>3
<1>15. Framing({}, {})
  <2>1. \A i \in 1 .. Len(todo') : todo'[i].o \in Kept
    BY <1>2, <1>3
  <2>. QED
    BY <1>3, <1>4, <1>6, <1>7, <1>8, <1>9, <1>13, <1>14, <2>1 DEF Framing
<1>16. {} \in SUBSET Obj /\ {} \in SUBSET Kept
  OBVIOUS
<1>. QED
  BY <1>2, <1>15, <1>16, FrameKeeps

\* spawn: a frame moves to another stack.
LEMMA SpawnMoves ==
  ASSUME Typed, Shapes, HeldFound, NEW p \in Prog, NEW q \in Prog, stk[p] # <<>>, stk[q] = <<>>,
         stk' = [stk EXCEPT ![p] = SubSeq(@, 1, Top(p) - 1), ![q] = <<stk[p][Top(p)]>>]
  PROVE  /\ stk' \in [Prog -> Seq(Frame)] /\ p # q
         /\ \A r \in Prog : Len(stk'[r]) <= Depth /\ (r # p /\ r # q => Len(stk'[r]) = Len(stk[r]))
         /\ \A o \in Obj : Occ(Cell, HeldIn(stk', M), o) = Occ(Cell, HeldIn(stk, M), o)
         /\ \A c \in Cell : HeldIn(stk', M)[c] \in Found \cup {H}
<1> DEFINE fr == stk[p][Top(p)]
           st == Cut(p, Top(p) - 1)
<1>1. p # q /\ Top(p) = Len(stk[p]) /\ Top(p) \in 1 .. Top(p)
  BY StackParts
<1>2. /\ Popped(stk, st, p) /\ st \in [Prog -> Seq(Frame)] /\ \A r \in Prog : Len(st[r]) <= Depth
  BY PopsLast
<1>3. fr \in Frame /\ LastOf(stk, p, fr)
  BY <1>1, StackParts DEF LastOf
<1>4. /\ \A o \in Obj : /\ Occ(Cell, HeldIn(stk, M), o) = Occ(Cell, HeldIn(st, M), o) + InFrameOf(fr, o)
                        /\ InFrameOf(fr, o) \in Nat
      /\ \A c \in Cell : \/ HeldIn(st, M)[c] = HeldIn(stk, M)[c]
                         \/ HeldIn(st, M)[c] = H /\ HeldIn(stk, M)[c] \in Refs(fr)
  <2> HIDE DEF fr, st
  <2>. QED
    BY <1>2, <1>3, PopCounts
<1>5. stk' = [st EXCEPT ![q] = <<fr>>]
  BY <1>1 DEF Cut, Typed
<1>6. st[q] = <<>>
  BY <1>1, <1>2 DEF Popped
<1> HIDE DEF fr, st
<1>7. /\ <<fr>> \in Seq(Frame) /\ Len(<<fr>>) = 1 /\ <<fr>>[1] = fr
  BY <1>3
<1>8. /\ stk' \in [Prog -> Seq(Frame)] /\ stk'[q] = <<fr>> /\ \A r \in Prog : r # q => stk'[r] = st[r]
  BY <1>2, <1>5, <1>7
<1>9. Popped(stk', st, q) /\ LastOf(stk', q, fr)
  <2>1. Len(stk'[q]) = 1 /\ Len(st[q]) = 0 /\ 1 <= Depth /\ 1 .. Len(st[q]) = {}
    BY <1>6, <1>7, <1>8, HeapAssumption
  <2>2. stk'[q][Len(stk'[q])] = fr
    BY <2>1, <1>7, <1>8
  <2>3. /\ Len(stk'[q]) >= 1 /\ Len(stk'[q]) <= Depth /\ Len(st[q]) = Len(stk'[q]) - 1
        /\ \A j \in 1 .. Len(st[q]) : st[q][j] = stk'[q][j]
    <3>1. \A j \in 1 .. Len(st[q]) : FALSE
      BY <2>1
    <3>2. 1 >= 1 /\ 0 = 1 - 1
      OBVIOUS
    <3>3. \A j \in 1 .. Len(st[q]) : st[q][j] = stk'[q][j]
      BY <3>1
    <3>4. Len(stk'[q]) >= 1 /\ Len(stk'[q]) <= Depth /\ Len(st[q]) = Len(stk'[q]) - 1
      BY <2>1, <3>2
    <3>. QED
      BY <3>3, <3>4
  <2>. QED
    BY <1>2, <1>8, <2>2, <2>3 DEF Popped, LastOf
<1>10. /\ fr \in Frame
       /\ \A o \in Obj : /\ Occ(Cell, HeldIn(stk', M), o) = Occ(Cell, HeldIn(st, M), o) + InFrameOf(fr, o)
                         /\ InFrameOf(fr, o) \in Nat
       /\ \A c \in Cell : \/ HeldIn(st, M)[c] = HeldIn(stk', M)[c]
                          \/ HeldIn(st, M)[c] = H /\ HeldIn(stk', M)[c] \in Refs(fr)
  <2> DEFINE st1 == stk'
             mm == M
  <2>1. Popped(st1, st, q) /\ LastOf(st1, q, fr)
    BY <1>9
  <2> HIDE DEF st1, mm
  <2>2. /\ fr \in Frame
        /\ \A o \in Obj : /\ Occ(Cell, HeldIn(st1, mm), o) = Occ(Cell, HeldIn(st, mm), o) + InFrameOf(fr, o)
                          /\ InFrameOf(fr, o) \in Nat
        /\ \A c \in Cell : \/ HeldIn(st, mm)[c] = HeldIn(st1, mm)[c]
                           \/ HeldIn(st, mm)[c] = H /\ HeldIn(st1, mm)[c] \in Refs(fr)
    BY <2>1, PopCounts
  <2>. QED
    BY <2>2 DEF st1, mm
<1>11. Refs(fr) \subseteq Found \cup {H}
  BY <1>1, HoldsFound DEF Refs, fr
<1>12. \A c \in Cell : HeldIn(stk', M)[c] \in Found \cup {H}
  BY <1>4, <1>10, <1>11 DEF HeldFound, Held
<1>13. \A o \in Obj : Occ(Cell, HeldIn(stk', M), o) = Occ(Cell, HeldIn(stk, M), o)
  BY <1>4, <1>10
<1>14. \A r \in Prog : Len(stk'[r]) <= Depth /\ (r # p /\ r # q => Len(stk'[r]) = Len(stk[r]))
  BY <1>2, <1>7, <1>8, HeapAssumption DEF Popped
<1>. QED
  BY <1>1, <1>8, <1>12, <1>13, <1>14

\* spawn and mspawn: the reference to the Modlink is counted, and marked.
LEMMA SpawnKeeps == ASSUME HInv, NEW p \in Prog, NEW q \in Prog, Spawn(p, q) PROVE HInv'
<1>1. Runs(p) /\ stk[q] = <<>>
  BY DEF Spawn
<1>2. /\ ~Busy /\ Typed /\ Shapes /\ HeldFound /\ KeptKept /\ todo = <<>> /\ stk[p] # <<>>
      /\ Found \subseteq Kept /\ Kept \subseteq Allocated /\ Allocated \subseteq Obj
  BY <1>1, Running
<1>3. PICK m \in {M[p]} \cup {v \in Values(p) \ {H} : kind[v] = "modlink"} : SpawnIn(p, q, m)
  BY DEF Spawn
<1>4. /\ stk' = [stk EXCEPT ![p] = SubSeq(@, 1, Top(p) - 1), ![q] = <<stk[p][Top(p)]>>]
      /\ built' = [built EXCEPT ![p] = FALSE] /\ M' = [M EXCEPT ![q] = m]
      /\ ref' = Inc(ref, m) /\ Setmark(color, {m, MP(m)})
      /\ Mutate /\ kind' = kind /\ fld' = fld /\ todo' = todo
  BY <1>3 DEF SpawnIn
<1>5. m \in Kept \cup {H} /\ MP(m) \in Kept \cup {H}
  <2>1. M[p] \in Kept \cup {H}
    BY <1>2, HoldsFound
  <2>2. m \in Kept \cup {H}
    BY <2>1, <1>2, <1>3, ValuesKept
  <2>3. First \in 1 .. Fields
    BY HeapAssumption DEF First
  <2>. QED
    BY <2>2, <2>3, <1>2 DEF MP, KeptKept
<1> DEFINE R == {m, MP(m)}
           S == R \cap Obj
<1>6. S \subseteq Kept
  BY <1>5, HeapAssumption
<1>7. Marks({}, S) /\ color' \in [Obj -> 0 .. 3] /\ nprop' \in BOOLEAN
  <2>1. /\ {} \in SUBSET Obj /\ S \in SUBSET Obj /\ S \cap {} = {} /\ R \cap Obj = S
        /\ color \in [Obj -> 0 .. 3] /\ \A o \in Obj : color[o] = IF o \in {} THEN mutator ELSE color[o]
        /\ Setmark(color, R)
    BY <1>2, <1>4 DEF Typed
  <2> HIDE DEF R, S
  <2>. QED
    BY <1>2, <2>1, SetmarkMarks
<1>8. Allocates({})
  BY <1>4 DEF Allocates, Allocated
<1>9. ref' \in [Obj -> Nat] /\ \A o \in Obj : ref'[o] = ref[o] + Is(m, o) /\ ref[o] \in Nat
  BY <1>2, <1>4 DEF Inc, Is, Typed
<1>10. InstructionTypes
  BY <1>2, <1>4, <1>7, <1>9, InTodoNone DEF InstructionTypes, Mutate, Typed
<1>11. /\ stk' \in [Prog -> Seq(Frame)] /\ p # q
       /\ \A r \in Prog : Len(stk'[r]) <= Depth /\ (r # p /\ r # q => Len(stk'[r]) = Len(stk[r]))
       /\ \A o \in Obj : Occ(Cell, HeldIn(stk', M), o) = Occ(Cell, HeldIn(stk, M), o)
       /\ \A c \in Cell : HeldIn(stk', M)[c] \in Found \cup {H}
  BY <1>1, <1>2, <1>4, SpawnMoves
<1>12. M \in [Prog -> Ref] /\ built \in [Prog -> BOOLEAN] /\ m \in Ref /\ M[q] \in Ref /\ ~built[q]
  <2>1. ~(Len(stk[q]) >= 2)
    BY <1>1
  <2>. QED
    BY <2>1, <1>2, <1>5 DEF Typed, Shapes, Ref
<1>13. /\ M' \in [Prog -> Ref] /\ built' \in [Prog -> BOOLEAN]
       /\ \A r \in Prog : built'[r] => r # p /\ r # q /\ built[r]
  BY <1>4, <1>12
<1>14. \A r \in Prog : Len(stk'[r]) <= Depth /\ (built'[r] => Len(stk'[r]) >= 2)
  BY <1>2, <1>11, <1>13 DEF Shapes
<1>15. /\ \A o : Occ(Cell, HeldIn(stk', M'), o) + Is(M[q], o) = Occ(Cell, HeldIn(stk', M), o) + Is(m, o)
       /\ \A c \in Cell : HeldIn(stk', M')[c] = HeldIn(stk', M)[c] \/ HeldIn(stk', M')[c] = m
  <2>1. Relinked(M, M', q, m)
    BY <1>4 DEF Relinked
  <2>. QED
    BY <2>1, <1>12, LinkPut
<1>16. \A c \in Cell : Held'[c] = Held[c] \/ Held'[c] \in Found \cup {} \cup S \cup {H}
  BY <1>2, <1>5, <1>11, <1>15 DEF Held
<1>17. ASSUME NEW o \in Allocated \cup {}
       PROVE  Before({}, o) + Occ(Cell, Held', o) + InTodo(todo', o) <= Occ(Cell, Held, o) + ref'[o]
  <2> DEFINE h0 == Occ(Cell, Held, o)
             h2 == Occ(Cell, Held', o)
             a == Is(M[q], o)
             b == Is(m, o)
             r0 == ref[o]
             r1 == ref'[o]
  <2>1. o \in Obj
    BY <1>2
  <2>2. h0 \in Nat /\ h2 \in Nat /\ a \in Nat /\ b \in Nat /\ r0 \in Nat /\ r1 = r0 + b
    BY <2>1, <1>9, PlacesFinite, OccNat DEF Is
  <2>3. h2 + a = h0 + b
    BY <2>1, <1>11, <1>15 DEF Held
  <2>4. InTodo(todo', o) = 0 /\ Before({}, o) = r0
    BY <1>2, <1>4, InTodoNone DEF Before
  <2>5. SUFFICES r0 + h2 + 0 <= h0 + r1
    BY <2>4
  <2> HIDE DEF h0, h2, a, b, r0, r1
  <2>. QED
    BY <2>2, <2>3
<1> HIDE DEF S
<1>18. Framing({}, S)
  <2>1. \A i \in 1 .. Len(todo') : todo'[i].o \in Kept
    BY <1>2, <1>4
  <2>. QED
    BY <1>4, <1>7, <1>8, <1>10, <1>11, <1>13, <1>14, <1>16, <1>17, <2>1 DEF Framing
<1>19. {} \in SUBSET Obj /\ S \in SUBSET Kept
  BY <1>6
<1>. QED
  BY <1>2, <1>18, <1>19, FrameKeeps

(***************************************************************************)
(* destroystack.                                                           *)
(***************************************************************************)
FrameDrops(fr) == Drops(fr.slot \o <<fr.mr>>, 1)

\* What Exit drops of the frames of p.
StackDrops(p) ==
  LET drops[k \in 0 .. Cur(p)] ==
        IF k = 0 THEN <<>>
        ELSE Drops(stk[p][k].slot \o <<stk[p][k].mr>>, 1) \o drops[k - 1] IN
  drops[Cur(p)]

\* A frame's references are dropped once each.
LEMMA FrameDropped ==
  ASSUME NEW fr \in Frame
  PROVE  FrameDrops(fr) \in Seq(Item) /\ \A o \in Obj : InTodo(FrameDrops(fr), o) = InFrameOf(fr, o)
<1> DEFINE v == fr.slot
           u == <<fr.mr>>
<1>1. v \in Seq(Ref) /\ fr.mr \in Ref
  BY SlotsSeq DEF Frame
<1>2. u \in Seq(Ref)
  BY <1>1
<1>3. \A o \in Obj : InSeq(u, o) = Is(fr.mr, o)
  BY InSeqOne
<1>4. 1 \in Nat /\ FrameDrops(fr) = Drops(v \o u, 1)
  BY DEF FrameDrops
<1>5. \A o \in Obj : Is(fr.mr, o) \in Nat
  BY DEF Is
<1>6. \A o \in Obj : InFrameOf(fr, o) = Is(fr.mr, o) + InSeq(v, o)
  BY DEF InFrameOf
<1> HIDE DEF v, u
<1>7. v \o u \in Seq(Ref)
  BY <1>1, <1>2
<1>8. \A o \in Obj : InSeq(v \o u, o) = InSeq(v, o) + InSeq(u, o) /\ InSeq(v, o) \in Nat
  BY <1>1, <1>2, InSeqConcat, InSeqNat
<1>9. FrameDrops(fr) \in Seq(Item) /\ \A o \in Obj : InTodo(FrameDrops(fr), o) = InSeq(v \o u, o)
  BY <1>4, <1>7, DropsCount
<1>. QED
  BY <1>3, <1>5, <1>6, <1>8, <1>9

\* Sequences put before each other, one by one.
LEMMA ConcatRecursion ==
  ASSUME NEW n \in Nat, NEW d \in [1 .. n -> Seq(Item)]
  PROVE  \E w \in [0 .. n -> Seq(Item)] : w[0] = <<>> /\ \A i \in 1 .. n : w[i] = d[i] \o w[i - 1]
<1> DEFINE S == Seq(Item)
           step == [i \in 1 .. n |-> [s \in S |-> d[i] \o s]]
           m == n
           e == <<>>
<1>1. m \in Nat /\ e \in S /\ step \in [1 .. m -> [S -> S]]
  OBVIOUS
<1>2. PICK w \in [0 .. m -> S] : w[0] = e /\ \A i \in 1 .. m : w[i] = step[i][w[i - 1]]
  <2> HIDE DEF S, step, m, e
  <2>1. \E f \in [0 .. m -> S] : GoesOn(f, m, e, step)
    BY <1>1, StepRecursion
  <2>. QED
    BY <2>1 DEF GoesOn
<1>3. \A i \in 1 .. n : w[i] = d[i] \o w[i - 1]
  <2>1. SUFFICES ASSUME NEW i \in 1 .. n PROVE w[i] = d[i] \o w[i - 1]
    OBVIOUS
  <2>2. i - 1 \in 0 .. n
    OBVIOUS
  <2>3. w[i - 1] \in S
    BY <2>2
  <2>. QED
    BY <2>3, <1>2
<1>. QED
  BY <1>2, <1>3

\* StackDrops as a function of how many frames it has gone through.
LEMMA StackDropsRecursion ==
  ASSUME Typed, Shapes, NEW p \in Prog, stk[p] # <<>>
  PROVE  \E w \in [0 .. Cur(p) -> Seq(Item)] :
           /\ StackDrops(p) = w[Cur(p)] /\ w[0] = <<>>
           /\ \A k \in 1 .. Cur(p) : w[k] = FrameDrops(stk[p][k]) \o w[k - 1]
<1> DEFINE n == Cur(p)
           d0 == [k \in 1 .. n |-> FrameDrops(stk[p][k])]
<1>1. n \in Nat /\ \A k \in 1 .. n : stk[p][k] \in Frame
  BY StackParts
<1> HIDE DEF n
<1>2. d0 \in [1 .. n -> Seq(Item)]
  BY <1>1, FrameDropped
<1>3. PICK w \in [0 .. n -> Seq(Item)] : w[0] = <<>> /\ \A k \in 1 .. n : w[k] = d0[k] \o w[k - 1]
  <2> HIDE DEF d0
  <2>1. \E w \in [0 .. n -> Seq(Item)] : w[0] = <<>> /\ \A i \in 1 .. n : w[i] = d0[i] \o w[i - 1]
    BY <1>1, <1>2, ConcatRecursion
  <2>. QED
    BY <2>1
<1>4. \A k \in 1 .. n : w[k] = FrameDrops(stk[p][k]) \o w[k - 1]
  BY <1>3
<1>5. StackDrops(p) = w[n]
  <2> DEFINE d[k \in 0 .. n] ==
               IF k = 0 THEN <<>>
               ELSE Drops(stk[p][k].slot \o <<stk[p][k].mr>>, 1) \o d[k - 1]
  <2>1. \A k \in 0 .. n : w[k] = IF k = 0 THEN <<>>
                                 ELSE Drops(stk[p][k].slot \o <<stk[p][k].mr>>, 1) \o w[k - 1]
    <3>1. SUFFICES ASSUME NEW k \in 0 .. n, k # 0 PROVE w[k] = FrameDrops(stk[p][k]) \o w[k - 1]
      BY <1>3 DEF FrameDrops
    <3>2. k \in 1 .. n
      BY <1>1, <3>1
    <3>. QED
      BY <3>2, <1>4
  <2>2. w = [k \in 0 .. n |-> IF k = 0 THEN <<>>
                              ELSE Drops(stk[p][k].slot \o <<stk[p][k].mr>>, 1) \o w[k - 1]]
    BY <2>1
  <2>3. d = [k \in 0 .. n |-> IF k = 0 THEN <<>>
                              ELSE Drops(stk[p][k].slot \o <<stk[p][k].mr>>, 1) \o d[k - 1]]
    BY <2>2
  <2> HIDE DEF d
  <2>4. /\ d[0] = <<>>
        /\ \A k \in 1 .. n : d[k] = FrameDrops(stk[p][k]) \o d[k - 1]
    <3>1. \A k \in 0 .. n : d[k] = IF k = 0 THEN <<>>
                                   ELSE Drops(stk[p][k].slot \o <<stk[p][k].mr>>, 1) \o d[k - 1]
      BY <2>3
    <3>2. 0 \in 0 .. n /\ \A k \in 1 .. n : k \in 0 .. n /\ k # 0
      BY <1>1
    <3>. QED
      BY <3>1, <3>2 DEF FrameDrops
  <2> DEFINE T == {k \in Nat : k <= n => d[k] = w[k]}
  <2>5. 0 \in T
    BY <2>4, <1>3
  <2>6. \A k \in Nat : k \in T => k + 1 \in T
    <3>1. SUFFICES ASSUME NEW k \in Nat, k \in T, k + 1 <= n PROVE d[k + 1] = w[k + 1]
      OBVIOUS
    <3>2. k + 1 \in 1 .. n /\ (k + 1) - 1 = k /\ d[k] = w[k]
      BY <3>1, <1>1
    <3>3. /\ d[k + 1] = FrameDrops(stk[p][k + 1]) \o d[k]
          /\ w[k + 1] = FrameDrops(stk[p][k + 1]) \o w[k]
      BY <3>2, <2>4, <1>4
    <3>. QED
      BY <3>2, <3>3
  <2>7. d[n] = w[n]
    <3>1. n \in T
      <4> HIDE DEF T
      <4>. QED
        BY <1>1, <2>5, <2>6, SetInduction
    <3>. QED
      BY <3>1, <1>1
  <2>8. StackDrops(p) = d[n]
    BY DEF StackDrops, d, n
  <2>. QED
    BY <2>7, <2>8
<1>. QED
  BY <1>3, <1>4, <1>5 DEF n

\* The references of the frames that were called are dropped once each.
LEMMA StackDropsCount ==
  ASSUME Typed, Shapes, NEW p \in Prog, stk[p] # <<>>
  PROVE  /\ StackDrops(p) \in Seq(Item)
         /\ \A o \in Obj : InTodo(StackDrops(p), o) + Occ(Cell, HeldIn(Cut(p, 0), M), o)
                           = Occ(Cell, HeldIn(Cut(p, Cur(p)), M), o)
<1> DEFINE n == Cur(p)
<1>1. /\ n \in Nat /\ n <= Len(stk[p]) /\ Len(stk[p]) \in Nat
      /\ \A k \in 1 .. n : stk[p][k] \in Frame /\ k \in 1 .. Len(stk[p])
  BY StackParts
<1>2. PICK w \in [0 .. n -> Seq(Item)] :
        /\ StackDrops(p) = w[n] /\ w[0] = <<>>
        /\ \A k \in 1 .. n : w[k] = FrameDrops(stk[p][k]) \o w[k - 1]
  BY StackDropsRecursion
<1> HIDE DEF n
<1>3. StackDrops(p) \in Seq(Item)
  BY <1>1, <1>2
<1>4. ASSUME NEW o \in Obj
      PROVE  InTodo(StackDrops(p), o) + Occ(Cell, HeldIn(Cut(p, 0), M), o) = Occ(Cell, HeldIn(Cut(p, n), M), o)
  <2> DEFINE G(k) == Occ(Cell, HeldIn(Cut(p, k), M), o)
             T == {k \in Nat : k <= n => InTodo(w[k], o) + G(0) = G(k)}
  <2>1. \A k \in Nat : G(k) \in Nat
    BY PlacesFinite, OccNat
  <2>2. 0 \in T
    <3>1. InTodo(w[0], o) = 0 /\ G(0) \in Nat
      BY <1>2, <2>1, InTodoNone
    <3> HIDE DEF G
    <3>. QED
      BY <3>1
  <2>3. \A k \in Nat : k \in T => k + 1 \in T
    <3>0. SUFFICES ASSUME NEW k \in Nat, k \in T, k + 1 <= n
                   PROVE  InTodo(w[k + 1], o) + G(0) = G(k + 1)
      <4> HIDE DEF G
      <4>. QED
        OBVIOUS
    <3>1. k + 1 <= n /\ InTodo(w[k], o) + G(0) = G(k)
      <4>1. k <= n
        BY <3>0, <1>1
      <4> HIDE DEF G
      <4>. QED
        BY <3>0, <4>1
    <3> DEFINE fr == stk[p][k + 1]
               st == Cut(p, k + 1)
               st2 == Cut(p, k)
               dr == FrameDrops(fr)
    <3>2. k + 1 \in 1 .. n /\ (k + 1) - 1 = k /\ k \in 0 .. n /\ k + 1 \in 1 .. Len(stk[p])
      BY <3>1, <1>1
    <3>3. w[k] \in Seq(Item) /\ w[k + 1] = dr \o w[k] /\ fr \in Frame
      BY <3>2, <1>1, <1>2
    <3>4. Popped(st, st2, p) /\ LastOf(st, p, fr)
      BY <3>2, CutPops DEF LastOf
    <3> HIDE DEF fr, st, st2
    <3>5. /\ fr \in Frame
          /\ \A x \in Obj : /\ Occ(Cell, HeldIn(st, M), x) = Occ(Cell, HeldIn(st2, M), x) + InFrameOf(fr, x)
                            /\ InFrameOf(fr, x) \in Nat
          /\ \A c \in Cell : \/ HeldIn(st2, M)[c] = HeldIn(st, M)[c]
                             \/ HeldIn(st2, M)[c] = H /\ HeldIn(st, M)[c] \in Refs(fr)
      BY <3>4, PopCounts
    <3>6. dr \in Seq(Item) /\ InTodo(dr, o) = InFrameOf(fr, o)
      BY <3>3, FrameDropped
    <3> HIDE DEF dr
    <3>7. InTodo(w[k + 1], o) = InTodo(dr, o) + InTodo(w[k], o)
      BY <3>3, <3>6, InTodoConcat
    <3>8. InTodo(w[k], o) \in Nat /\ InFrameOf(fr, o) \in Nat
      BY <3>3, <3>5, ObjsSeq
    <3>9. G(k + 1) = G(k) + InFrameOf(fr, o)
      BY <3>5 DEF st, st2
    <3>10. G(0) \in Nat /\ G(k) \in Nat
      BY <2>1
    <3> HIDE DEF G
    <3>. QED
      BY <3>1, <3>6, <3>7, <3>8, <3>9, <3>10
  <2>4. n \in T
    <3> HIDE DEF T
    <3>. QED
      BY <1>1, <2>2, <2>3, SetInduction
  <2>. QED
    BY <1>1, <1>2, <2>4
<1>. QED
  BY <1>3, <1>4 DEF n

\* The frames that were called hold no more than all.
LEMMA CalledCount ==
  ASSUME Typed, Shapes, NEW p \in Prog, stk[p] # <<>>, NEW o \in Obj
  PROVE  Occ(Cell, HeldIn(Cut(p, Cur(p)), M), o) <= Occ(Cell, Held, o)
<1>1. Top(p) = Len(stk[p]) /\ Top(p) \in 1 .. Len(stk[p]) /\ (Cur(p) = Top(p) \/ Cur(p) = Top(p) - 1)
  BY StackParts DEF Cur
<1>2. Occ(Cell, Held, o) \in Nat /\ Occ(Cell, HeldIn(Cut(p, Cur(p)), M), o) \in Nat
  BY PlacesFinite, OccNat
<1>3. CASE Cur(p) = Top(p)
  <2>1. Cut(p, Cur(p)) = stk
    BY <1>1, <1>3, CutPops
  <2>. QED
    BY <2>1, <1>2 DEF Held
<1>4. CASE Cur(p) = Top(p) - 1
  <2> DEFINE st == Cut(p, Cur(p))
             fr == stk[p][Len(stk[p])]
  <2>1. Popped(stk, st, p)
    BY <1>4, PopsLast
  <2>2. LastOf(stk, p, fr)
    BY DEF LastOf
  <2>3. HeldIn(stk, M) = Held
    BY DEF Held
  <2> HIDE DEF st, fr
  <2>4. /\ fr \in Frame
        /\ \A x \in Obj : /\ Occ(Cell, HeldIn(stk, M), x) = Occ(Cell, HeldIn(st, M), x) + InFrameOf(fr, x)
                          /\ InFrameOf(fr, x) \in Nat
        /\ \A c \in Cell : \/ HeldIn(st, M)[c] = HeldIn(stk, M)[c]
                           \/ HeldIn(st, M)[c] = H /\ HeldIn(stk, M)[c] \in Refs(fr)
    BY <2>1, <2>2, PopCounts
  <2>5. Occ(Cell, Held, o) = Occ(Cell, HeldIn(st, M), o) + InFrameOf(fr, o) /\ InFrameOf(fr, o) \in Nat
    BY <2>3, <2>4
  <2>6. Occ(Cell, HeldIn(st, M), o) \in Nat
    BY <1>2 DEF st
  <2>7. Occ(Cell, HeldIn(st, M), o) <= Occ(Cell, Held, o)
    BY <2>5, <2>6, <1>2
  <2>. QED
    BY <2>7 DEF st
<1>. QED
  BY <1>1, <1>3, <1>4

\* exit: what the called frames and R.M held is dropped.
LEMMA ExitKeeps == ASSUME HInv, NEW p \in Prog, Exit(p) PROVE HInv'
<1>1. Runs(p)
  BY DEF Exit
<1>2. /\ ~Busy /\ Typed /\ Shapes /\ HeldFound /\ todo = <<>> /\ stk[p] # <<>>
      /\ Found \subseteq Kept /\ Kept \subseteq Allocated /\ Allocated \subseteq Obj
  BY <1>1, Running
<1>3. /\ todo' = StackDrops(p) \o Drops(<<M[p]>>, 1)
      /\ stk' = [stk EXCEPT ![p] = <<>>] /\ M' = [M EXCEPT ![p] = H]
  BY DEF Exit, StackDrops
<1>4. /\ built' = [built EXCEPT ![p] = FALSE] /\ Mutate
      /\ kind' = kind /\ color' = color /\ ref' = ref /\ fld' = fld /\ nprop' = nprop
  BY DEF Exit, objVars
<1>5. /\ M \in [Prog -> Ref] /\ M[p] \in Ref /\ stk \in [Prog -> Seq(Frame)]
      /\ built \in [Prog -> BOOLEAN] /\ ref \in [Obj -> Nat] /\ H \in Ref
  BY <1>2 DEF Typed, Ref
<1>6. stk' = Cut(p, 0)
  <2>1. 1 \in 1 .. Len(stk[p])
    BY <1>2, StackParts
  <2>. QED
    BY <1>2, <1>3, <2>1, CutPops
<1>7. /\ StackDrops(p) \in Seq(Item)
      /\ \A o \in Obj : InTodo(StackDrops(p), o) + Occ(Cell, HeldIn(Cut(p, 0), M), o)
                        = Occ(Cell, HeldIn(Cut(p, Cur(p)), M), o)
  BY <1>2, StackDropsCount
<1>8. /\ Drops(<<M[p]>>, 1) \in Seq(Item)
      /\ \A o \in Obj : InTodo(Drops(<<M[p]>>, 1), o) = Is(M[p], o)
  <2>1. <<M[p]>> \in Seq(Ref) /\ 1 \in Nat
    BY <1>5
  <2>. QED
    BY <2>1, DropsCount, InSeqOne
<1>9. todo' \in Seq(Item) /\ \A o \in Obj : InTodo(todo', o) = InTodo(StackDrops(p), o) + Is(M[p], o)
  BY <1>3, <1>7, <1>8, InTodoConcat
<1>10. /\ \A o : Occ(Cell, HeldIn(stk', M'), o) + Is(M[p], o) = Occ(Cell, HeldIn(stk', M), o) + Is(H, o)
       /\ \A c \in Cell : HeldIn(stk', M')[c] = HeldIn(stk', M)[c] \/ HeldIn(stk', M')[c] = H
  <2>1. Relinked(M, M', p, H)
    BY <1>3 DEF Relinked
  <2>2. /\ \A o : Occ(Cell, HeldIn(stk', M'), o) + Is(M[p], o) = Occ(Cell, HeldIn(stk', M), o) + Is(H, o)
        /\ \A c \in Cell : HeldIn(stk', M')[c] = HeldIn(stk', M)[c] \/ HeldIn(stk', M')[c] = H
    <3> DEFINE v == H
    <3>1. M \in [Prog -> Ref] /\ Relinked(M, M', p, v)
      BY <2>1, <1>5
    <3> HIDE DEF v
    <3>2. /\ \A o : Occ(Cell, HeldIn(stk', M'), o) + Is(M[p], o) = Occ(Cell, HeldIn(stk', M), o) + Is(v, o)
          /\ \A c \in Cell : HeldIn(stk', M')[c] = HeldIn(stk', M)[c] \/ HeldIn(stk', M')[c] = v
      BY <3>1, LinkPut
    <3>. QED
      BY <3>2 DEF v
  <2>. QED
    BY <2>2
<1>11. ASSUME NEW o \in Obj
       PROVE  /\ Occ(Cell, Held', o) + InTodo(todo', o) <= Occ(Cell, Held, o)
              /\ Occ(Cell, Held', o) \in Nat /\ InTodo(todo', o) \in Nat /\ Occ(Cell, Held, o) \in Nat
  <2> DEFINE h0 == Occ(Cell, Held, o)
             h1 == Occ(Cell, HeldIn(Cut(p, Cur(p)), M), o)
             h2 == Occ(Cell, HeldIn(stk', M), o)
             h3 == Occ(Cell, Held', o)
             a == Is(M[p], o)
             d == InTodo(StackDrops(p), o)
             t == InTodo(todo', o)
  <2>1. h0 \in Nat /\ h1 \in Nat /\ h2 \in Nat /\ h3 \in Nat
    BY PlacesFinite, OccNat
  <2>2. a \in Nat /\ d \in Nat /\ t = d + a
    BY <1>7, <1>9, ObjsSeq DEF Is
  <2>3. h1 <= h0
    BY <1>2, CalledCount
  <2>4. d + h2 = h1
    BY <1>6, <1>7
  <2>5. h3 + a = h2 + Is(H, o) /\ Is(H, o) = 0
    BY <1>10, HeapAssumption DEF Held, Is
  <2> HIDE DEF h0, h1, h2, h3, a, d, t
  <2>6. h3 + t <= h0 /\ t \in Nat
    BY <2>1, <2>2, <2>3, <2>4, <2>5
  <2>. QED
    BY <2>1, <2>6 DEF h0, h3, t
<1>12. \A i \in 1 .. Len(todo') : todo'[i].o \in Kept
  <2>1. SUFFICES ASSUME NEW i \in 1 .. Len(todo') PROVE todo'[i].o \in Kept
    OBVIOUS
  <2> DEFINE o == todo'[i].o
  <2>2. o \in Obj
    <3>1. todo'[i] \in Item
      BY <1>9
    <3>. QED
      BY <3>1 DEF Item
  <2>3. InTodo(todo', o) # 0
    BY <1>9, ObjsSeq
  <2> HIDE DEF o
  <2>4. Occ(Cell, Held, o) # 0
    BY <1>11, <2>2, <2>3
  <2>5. PICK c \in Cell : Held[c] = o
    BY <2>4, PlacesFinite, OccNat
  <2>6. o \in Kept
    BY <1>2, <2>2, <2>5, HeapAssumption DEF HeldFound
  <2>. QED
    BY <2>6 DEF o
<1>13. /\ stk' \in [Prog -> Seq(Frame)] /\ M' \in [Prog -> Ref] /\ built' \in [Prog -> BOOLEAN]
  BY <1>3, <1>4, <1>5
<1>14. \A q \in Prog : Len(stk'[q]) <= Depth /\ (built'[q] => Len(stk'[q]) >= 2)
  <2>1. Len(<<>>) <= Depth
    BY HeapAssumption
  <2>. QED
    BY <2>1, <1>2, <1>3, <1>4, <1>5 DEF Shapes
<1>15. \A c \in Cell : HeldIn(stk', M)[c] = Held[c] \/ HeldIn(stk', M)[c] = H
  <2>1. SUFFICES ASSUME NEW c \in Cell PROVE HeldIn(stk', M)[c] = Held[c] \/ HeldIn(stk', M)[c] = H
    OBVIOUS
  <2>2. PICK q \in Prog, k \in 0 .. Depth, s \in 0 .. Slots : c = <<q, k, s>>
    BY DEF Cell
  <2>3. Held[c] = InCell(stk, M, q, k, s) /\ HeldIn(stk', M)[c] = InCell(stk', M, q, k, s)
    BY <2>2, HeldAt DEF Held
  <2>4. CASE q # p
    BY <2>3, <2>4, <1>3, <1>5 DEF InCell
  <2>5. CASE q = p
    <3>1. k # 0 => k > Len(stk'[q])
      BY <2>5, <1>3, <1>5, HeapAssumption
    <3>. QED
      BY <2>3, <3>1 DEF InCell
  <2>. QED
    BY <2>4, <2>5
<1>16. \A c \in Cell : Held'[c] = Held[c] \/ Held'[c] \in Found \cup {} \cup {} \cup {H}
  BY <1>10, <1>15 DEF Held
<1>17. Allocates({}) /\ Marks({}, {})
  BY <1>2, <1>4, QuietMarks
<1>18. InstructionTypes
  BY <1>2, <1>4, <1>5, <1>9, QuietTypes
<1>19. ASSUME NEW o \in Allocated \cup {}
       PROVE  Before({}, o) + Occ(Cell, Held', o) + InTodo(todo', o) <= Occ(Cell, Held, o) + ref'[o]
  <2> DEFINE h0 == Occ(Cell, Held, o)
             h3 == Occ(Cell, Held', o)
             t == InTodo(todo', o)
             r1 == ref'[o]
  <2>1. o \in Obj
    BY <1>2
  <2>2. h0 \in Nat /\ h3 \in Nat /\ t \in Nat /\ r1 \in Nat /\ h3 + t <= h0
    BY <2>1, <1>4, <1>5, <1>11
  <2>3. Before({}, o) = r1
    BY <1>4 DEF Before
  <2>4. SUFFICES r1 + h3 + t <= h0 + r1
    BY <2>3
  <2> HIDE DEF h0, h3, t, r1
  <2>. QED
    BY <2>2
<1>20. Framing({}, {})
  BY <1>4, <1>12, <1>13, <1>14, <1>16, <1>17, <1>18, <1>19 DEF Framing
<1>21. {} \in SUBSET Obj /\ {} \in SUBSET Kept
  OBVIOUS
<1>. QED
  BY <1>2, <1>20, <1>21, FrameKeeps

(***************************************************************************)
(* destroy.                                                                *)
(***************************************************************************)
\* What is destroyed is kept, and the reference that is dropped is counted.
LEMMA DestroyHead ==
  ASSUME HInv, todo # <<>>
  PROVE  /\ Head(todo) \in Item /\ Head(todo).o \in Kept /\ Tail(todo) \in Seq(Item) /\ walk = H
         /\ \A x \in Obj : InTodo(todo, x) = Is(Head(todo).o, x) + InTodo(Tail(todo), x)
         /\ \A i \in 1 .. Len(Tail(todo)) : Tail(todo)[i].o \in Kept
         /\ \A x \in Obj : /\ Occ(Cell, Held, x) \in Nat /\ Occ(Field, Pointed, x) \in Nat
                           /\ InTodo(Tail(todo), x) \in Nat /\ ref[x] \in Nat /\ Is(Head(todo).o, x) \in Nat
         /\ \A x \in Allocated : Occ(Cell, Held, x) + Occ(Field, Pointed, x)
                                 + (Is(Head(todo).o, x) + InTodo(Tail(todo), x)) <= ref[x]
<1>1. Typed /\ TodoKept /\ Counted /\ walk = H /\ todo \in Seq(Item)
  BY DEF HInv, Walking, Typed, Item
<1>2. Head(todo) \in Item /\ Tail(todo) \in Seq(Item)
  BY <1>1
<1>3. 1 \in 1 .. Len(todo) /\ Head(todo) = todo[1]
  BY <1>1
<1>4. Head(todo).o \in Kept
  BY <1>1, <1>3 DEF TodoKept
<1>5. \A i \in 1 .. Len(Tail(todo)) : i + 1 \in 1 .. Len(todo) /\ Tail(todo)[i] = todo[i + 1]
  BY <1>1
<1>6. \A i \in 1 .. Len(Tail(todo)) : Tail(todo)[i].o \in Kept
  BY <1>1, <1>5 DEF TodoKept
<1>7. \A x \in Obj : InTodo(todo, x) = Is(Head(todo).o, x) + InTodo(Tail(todo), x)
  BY <1>1, InTodoTail
<1>8. \A x \in Obj : /\ Occ(Cell, Held, x) \in Nat /\ Occ(Field, Pointed, x) \in Nat
                     /\ InTodo(Tail(todo), x) \in Nat /\ ref[x] \in Nat /\ Is(Head(todo).o, x) \in Nat
  BY <1>1, <1>2, CountsNat, ObjsSeq DEF Is
<1>9. ASSUME NEW x \in Allocated
      PROVE  Occ(Cell, Held, x) + Occ(Field, Pointed, x) + (Is(Head(todo).o, x) + InTodo(Tail(todo), x)) <= ref[x]
  <2>1. x \in Obj
    BY DEF Allocated
  <2>2. References(x) + InTodo(todo, x) <= ref[x]
    BY <1>1 DEF Counted
  <2>3. InTodo(todo, x) = Is(Head(todo).o, x) + InTodo(Tail(todo), x)
    BY <2>1, <1>7
  <2>. QED
    BY <2>2, <2>3 DEF References
<1>. QED
  BY <1>1, <1>2, <1>4, <1>6, <1>7, <1>8, <1>9

\* The count goes down by one.
LEMMA DecrementKeeps ==
  ASSUME HInv, todo # <<>>, ref' = [ref EXCEPT ![Head(todo).o] = @ - 1], todo' = Tail(todo),
         UNCHANGED <<kind, color, fld, stk, built, M, nprop, walk, ptr, mutator, epochs>>
  PROVE  HInv'
<1> DEFINE t == Head(todo)
           td == Tail(todo)
<1>1. /\ t \in Item /\ t.o \in Kept /\ td \in Seq(Item) /\ walk = H
      /\ \A x \in Obj : InTodo(todo, x) = Is(t.o, x) + InTodo(td, x)
      /\ \A i \in 1 .. Len(td) : td[i].o \in Kept
      /\ \A x \in Obj : /\ Occ(Cell, Held, x) \in Nat /\ Occ(Field, Pointed, x) \in Nat
                        /\ InTodo(td, x) \in Nat /\ ref[x] \in Nat /\ Is(t.o, x) \in Nat
      /\ \A x \in Allocated : Occ(Cell, Held, x) + Occ(Field, Pointed, x) + (Is(t.o, x) + InTodo(td, x)) <= ref[x]
  BY DestroyHead
<1>2. /\ Typed /\ Shapes /\ HeldFound /\ SeenFound /\ KeptKept /\ Passed
  BY DEF HInv
<1>3. ref' = [ref EXCEPT ![t.o] = ref[t.o] - 1] /\ todo' = td
  OBVIOUS
<1> HIDE DEF t, td
<1>4. t.o \in Allocated /\ t.o \in Obj
  BY <1>1 DEF Kept, Allocated
<1>5. ref \in [Obj -> Nat] /\ ref[t.o] >= 1
  <2> DEFINE a == Occ(Cell, Held, t.o)
             b == Occ(Field, Pointed, t.o)
             d == InTodo(td, t.o)
             r0 == ref[t.o]
  <2>1. a \in Nat /\ b \in Nat /\ d \in Nat /\ r0 \in Nat /\ Is(t.o, t.o) = 1
    BY <1>1, <1>4 DEF Is
  <2>2. a + b + (1 + d) <= r0
    BY <1>1, <1>4, <2>1
  <2>3. ref \in [Obj -> Nat]
    BY <1>2 DEF Typed
  <2> HIDE DEF a, b, d, r0
  <2>4. r0 >= 1
    BY <2>1, <2>2
  <2>. QED
    BY <2>3, <2>4 DEF r0
<1>6. ref' \in [Obj -> Nat] /\ \A x \in Obj : ref'[x] = IF x = t.o THEN ref[x] - 1 ELSE ref[x]
  <2>1. ref[t.o] - 1 \in Nat
    BY <1>4, <1>5
  <2>. QED
    BY <2>1, <1>3, <1>4, <1>5
<1>7. /\ Kept' = Kept /\ Found' = Found /\ Allocated' = Allocated /\ Held' = Held /\ Pointed' = Pointed
  BY DEF Kept, Found, Allocated, Held, Pointed, sweeper, propagator
<1>8. Typed'
  BY <1>1, <1>2, <1>3, <1>6 DEF Typed, Item
<1>9. Shapes' /\ HeldFound' /\ SeenFound' /\ KeptKept' /\ Passed'
  BY <1>2, <1>7 DEF Shapes, HeldFound, SeenFound, KeptKept, Passed, propagator, sweeper
<1>10. Walking' /\ TodoKept'
  BY <1>1, <1>3, <1>7 DEF Walking, TodoKept
<1>11. Counted'
  <2>1. SUFFICES ASSUME NEW x \in Allocated
                 PROVE  Occ(Cell, Held, x) + Occ(Field, Pointed, x) + InTodo(td, x) <= ref'[x]
    BY <1>3, <1>7 DEF Counted, References
  <2> DEFINE a == Occ(Cell, Held, x)
             b == Occ(Field, Pointed, x)
             d == InTodo(td, x)
             e == Is(t.o, x)
             r0 == ref[x]
             r1 == ref'[x]
  <2>2. x \in Obj
    BY DEF Allocated
  <2>3. a \in Nat /\ b \in Nat /\ d \in Nat /\ r0 \in Nat /\ a + b + (e + d) <= r0
    BY <1>1, <2>2
  <2>4. r1 = r0 - e /\ e \in Nat
    <3>1. r1 = IF x = t.o THEN r0 - 1 ELSE r0
      BY <1>6, <2>2
    <3>2. e = IF x = t.o THEN 1 ELSE 0
      BY DEF Is
    <3> HIDE DEF e, r1, r0
    <3>3. r0 \in Nat
      BY <2>3
    <3>. QED
      BY <3>1, <3>2, <3>3
  <2> HIDE DEF a, b, d, e, r0, r1
  <2>5. a + b + d <= r1
    BY <2>3, <2>4
  <2>. QED
    BY <2>5 DEF a, b, d, r1
<1>. QED
  BY <1>8, <1>9, <1>10, <1>11 DEF HInv

\* The last reference is dropped: the object is freed, and drops its own.
LEMMA FreeKeeps ==
  ASSUME HInv, todo # <<>>, ref[Head(todo).o] <= 1, PoolFree(Head(todo).o),
         todo' = Children(Head(todo).o, Head(todo).n) \o Tail(todo),
         UNCHANGED <<stk, built, M, nprop, walk, ptr, mutator, epochs>>
  PROVE  HInv'
<1> DEFINE t == Head(todo)
           td == Tail(todo)
           a == t.o
           ch == Children(t.o, t.n)
<1>1. /\ t \in Item /\ t.o \in Kept /\ td \in Seq(Item) /\ walk = H
      /\ \A x \in Obj : InTodo(todo, x) = Is(t.o, x) + InTodo(td, x)
      /\ \A i \in 1 .. Len(td) : td[i].o \in Kept
      /\ \A x \in Obj : /\ Occ(Cell, Held, x) \in Nat /\ Occ(Field, Pointed, x) \in Nat
                        /\ InTodo(td, x) \in Nat /\ ref[x] \in Nat /\ Is(t.o, x) \in Nat
      /\ \A x \in Allocated : Occ(Cell, Held, x) + Occ(Field, Pointed, x) + (Is(t.o, x) + InTodo(td, x)) <= ref[x]
  BY DestroyHead
<1>2. /\ Typed /\ Shapes /\ HeldFound /\ SeenFound /\ KeptKept /\ Passed
      /\ Found \subseteq Kept /\ Kept \subseteq Allocated /\ Allocated \subseteq Obj
  BY FoundKept DEF HInv
<1>3. a \in Obj /\ a \in Kept /\ a \in Allocated /\ t.n \in Nat /\ a # H
  BY <1>1, <1>2, HeapAssumption DEF Item
<1>4. fld[a] \in [1 .. Fields -> Ref] /\ fld \in [Obj -> [1 .. Fields -> Ref]]
  BY <1>2, <1>3 DEF Typed
<1>5. /\ ch \in Seq(Item) /\ todo' = ch \o td
      /\ \A x \in Obj : InTodo(ch, x) = Occ(1 .. Fields, fld[a], x)
  BY <1>3, <1>4, ChildrenCount
<1>6. /\ kind' = [kind EXCEPT ![a] = "free"] /\ color' = [color EXCEPT ![a] = 0]
      /\ ref' = [ref EXCEPT ![a] = 0] /\ fld' = [fld EXCEPT ![a] = Nils]
  BY DEF PoolFree
<1>7. ref[a] <= 1
  OBVIOUS
<1>8. /\ \A x \in Obj : InTodo(todo, x) = Is(a, x) + InTodo(td, x)
      /\ \A x \in Allocated : Occ(Cell, Held, x) + Occ(Field, Pointed, x) + (Is(a, x) + InTodo(td, x)) <= ref[x]
  BY <1>1
<1> HIDE DEF t, td, a, ch
<1>9. Occ(Cell, Held, a) = 0 /\ Occ(Field, Pointed, a) = 0 /\ InTodo(td, a) = 0
  <2> DEFINE h == Occ(Cell, Held, a)
             b == Occ(Field, Pointed, a)
             d == InTodo(td, a)
             r0 == ref[a]
  <2>1. h \in Nat /\ b \in Nat /\ d \in Nat /\ r0 \in Nat /\ Is(a, a) = 1
    BY <1>1, <1>3 DEF Is
  <2>2. h + b + (1 + d) <= r0 /\ r0 <= 1
    BY <1>3, <1>7, <1>8, <2>1
  <2> HIDE DEF h, b, d, r0
  <2>3. h = 0 /\ b = 0 /\ d = 0
    BY <2>1, <2>2
  <2>. QED
    BY <2>3 DEF h, b, d
<1>10. /\ \A c \in Cell : Held[c] # a
       /\ \A o \in Kept : \A f \in 1 .. Fields : fld[o][f] # a
       /\ \A i \in 1 .. Len(td) : td[i].o # a
  <2>1. \A c \in Cell : Held[c] # a
    BY <1>9, PlacesFinite, OccNat
  <2>2. \A c \in Field : Pointed[c] # a
    BY <1>9, PlacesFinite, OccNat
  <2>3. \A o \in Kept : \A f \in 1 .. Fields : fld[o][f] # a
    <3>1. SUFFICES ASSUME NEW o \in Kept, NEW f \in 1 .. Fields PROVE fld[o][f] # a
      OBVIOUS
    <3>2. o \in Obj
      BY <1>2
    <3>3. <<o, f>> \in Field /\ Pointed[<<o, f>>] = fld[o][f]
      BY <3>2, PointedAt DEF Pointed
    <3>. QED
      BY <3>3, <2>2
  <2>4. \A i \in 1 .. Len(td) : td[i].o # a
    BY <1>1, <1>9, ObjsSeq DEF td
  <2>. QED
    BY <2>1, <2>3, <2>4
<1>11. /\ kind' \in [Obj -> Kind] /\ color' \in [Obj -> 0 .. 3] /\ ref' \in [Obj -> Nat]
       /\ fld' \in [Obj -> [1 .. Fields -> Ref]]
       /\ kind'[a] = "free" /\ fld'[a] = Nils
       /\ \A o \in Obj : o # a => /\ kind'[o] = kind[o] /\ color'[o] = color[o] /\ ref'[o] = ref[o]
                                  /\ fld'[o] = fld[o]
  <2>1. Nils \in [1 .. Fields -> Ref]
    BY DEF Nils, Ref
  <2>2. "free" \in Kind /\ 0 \in 0 .. 3
    BY DEF Kind
  <2>. QED
    BY <2>1, <2>2, <1>2, <1>3, <1>6 DEF Typed
<1>12. Allocated' = Allocated \ {a}
  BY <1>11 DEF Allocated
<1>13. Kept' = Kept \ {a} /\ Found' = Found \ {a}
  BY <1>11, <1>12, <1>2 DEF Kept, Found, sweeper, propagator
<1>14. Held' = Held
  BY DEF Held
<1>15. todo' \in Seq(Item) /\ \A x \in Obj : InTodo(todo', x) = InTodo(ch, x) + InTodo(td, x)
  <2>1. ch \in Seq(Item) /\ td \in Seq(Item)
    BY <1>1, <1>5 DEF td
  <2>2. ch \o td \in Seq(Item) /\ \A x \in Obj : InTodo(ch \o td, x) = InTodo(ch, x) + InTodo(td, x)
    BY <2>1, InTodoConcat
  <2>. QED
    BY <2>2, <1>5
<1>16. Typed'
  BY <1>2, <1>11, <1>15 DEF Typed, Item
<1>17. Shapes'
  BY <1>2, <1>11 DEF Shapes
<1>18. HeldFound'
  BY <1>2, <1>10, <1>13, <1>14 DEF HeldFound
<1>19. SeenFound'
  <2>1. SUFFICES ASSUME NEW o \in Found', color'[o] = mutator, o # walk, NEW f \in 1 .. Fields
                 PROVE  fld'[o][f] \in (Found \ {a}) \cup {H}
    BY <1>13 DEF SeenFound
  <2>2. o \in Found /\ o # a /\ o \in Kept /\ o \in Obj
    BY <1>2, <1>13
  <2>3. color[o] = mutator /\ fld'[o] = fld[o]
    BY <2>1, <2>2, <1>11
  <2>4. fld[o][f] \in Found \cup {H}
    BY <2>1, <2>2, <2>3, <1>2 DEF SeenFound
  <2>. QED
    BY <2>2, <2>3, <2>4, <1>10
<1>20. KeptKept'
  <2>1. SUFFICES ASSUME NEW o \in Kept', NEW f \in 1 .. Fields
                 PROVE  fld'[o][f] \in (Kept \ {a}) \cup {H}
    BY <1>13 DEF KeptKept
  <2>2. o # a /\ o \in Kept /\ o \in Obj
    BY <1>2, <1>13
  <2>3. fld[o][f] \in Kept \cup {H} /\ fld'[o] = fld[o]
    BY <2>2, <1>2, <1>11 DEF KeptKept
  <2>. QED
    BY <2>2, <2>3, <1>10
<1>21. Passed'
  <2>1. SUFFICES ASSUME NEW o \in Allocated'
                 PROVE  /\ color'[o] = propagator /\ o < ptr => nprop
                        /\ color'[o] = sweeper => o >= ptr
    BY DEF Passed, propagator, sweeper
  <2>2. o \in Allocated /\ o # a /\ o \in Obj
    BY <1>2, <1>12
  <2>. QED
    BY <2>2, <1>2, <1>11 DEF Passed
<1>22. Walking'
  BY <1>1 DEF Walking
<1>23. TodoKept'
  <2>1. SUFFICES ASSUME NEW i \in 1 .. Len(todo') PROVE todo'[i].o \in Kept \ {a}
    BY <1>13 DEF TodoKept
  <2> DEFINE x == todo'[i].o
  <2>2. x \in Obj
    <3>1. todo'[i] \in Item
      BY <1>15
    <3>. QED
      BY <3>1 DEF Item
  <2>3. InTodo(todo', x) # 0
    BY <1>15, ObjsSeq
  <2> HIDE DEF x
  <2>4. InTodo(ch, x) \in Nat /\ InTodo(td, x) \in Nat
    BY <1>1, <1>5, ObjsSeq DEF td
  <2>5. CASE InTodo(ch, x) # 0
    <3>1. Occ(1 .. Fields, fld[a], x) # 0
      BY <2>2, <2>5, <1>5
    <3>2. IsFiniteSet(1 .. Fields)
      <4>1. 1 \in Int /\ Fields \in Int
        BY HeapAssumption
      <4>. QED
        BY <4>1, FS_Interval
    <3>3. PICK f \in 1 .. Fields : fld[a][f] = x
      BY <3>1, <3>2, OccNat
    <3>4. x \in Kept \cup {H} /\ x # a
      BY <3>3, <1>2, <1>3, <1>10 DEF KeptKept
    <3>. QED
      BY <3>4, <2>2, HeapAssumption DEF x
  <2>6. CASE InTodo(td, x) # 0
    <3>1. PICK j \in 1 .. Len(td) : td[j].o = x
      BY <2>6, <1>1, ObjsSeq DEF td
    <3>2. x \in Kept /\ x # a
      BY <3>1, <1>1, <1>10 DEF td
    <3>. QED
      BY <3>2 DEF x
  <2>7. InTodo(ch, x) # 0 \/ InTodo(td, x) # 0
    BY <2>2, <2>3, <2>4, <1>15
  <2>. QED
    BY <2>5, <2>6, <2>7
<1>24. Counted'
  <2>1. SUFFICES ASSUME NEW x \in Allocated, x # a
                 PROVE  Occ(Cell, Held, x) + Occ(Field, Pointed', x) + InTodo(todo', x) <= ref'[x]
    BY <1>12, <1>14 DEF Counted, References
  <2>2. x \in Obj /\ x # H
    BY <1>2, HeapAssumption
  <2> DEFINE E == {a} \X (1 .. Fields)
             K == Kept'
  <2>3. Occ(Field, PointedIn(fld', K), x) + Occ(E, PointedIn(fld, Kept), x) =
        Occ(Field, PointedIn(fld, Kept), x) + Occ(E, PointedIn(fld', K), x)
    <3>1. \A o \in Obj : o # a => (o \in K <=> o \in Kept) /\ fld'[o] = fld[o]
      BY <1>11, <1>13
    <3> DEFINE fs == fld'
    <3>2. \A o \in Obj : o # a => (o \in K <=> o \in Kept) /\ fs[o] = fld[o]
      BY <3>1
    <3> HIDE DEF K, fs
    <3>3. Occ(Field, PointedIn(fs, K), x) + Occ({a} \X (1 .. Fields), PointedIn(fld, Kept), x) =
          Occ(Field, PointedIn(fld, Kept), x) + Occ({a} \X (1 .. Fields), PointedIn(fs, K), x)
      BY <3>2, <1>3, RowPut
    <3>. QED
      BY <3>3 DEF fs
  <2>4. Occ(E, PointedIn(fld, Kept), x) = Occ(1 .. Fields, fld[a], x)
    <3> DEFINE L == Kept
               fs == fld
    <3>1. a \in Obj /\ a \in L
      BY <1>3
    <3> HIDE DEF L, fs
    <3>2. Occ({a} \X (1 .. Fields), PointedIn(fs, L), x) = Occ(1 .. Fields, fs[a], x)
      BY <3>1, RowOcc
    <3>. QED
      BY <3>2 DEF L, fs
  <2>5. Occ(E, PointedIn(fld', K), x) = 0
    <3>1. E \in SUBSET Field
      BY <1>3 DEF Field
    <3>2. IsFiniteSet(E)
      BY <3>1, PlacesFinite, FS_Subset
    <3>3. ASSUME NEW c \in E PROVE PointedIn(fld', K)[c] # x
      <4>1. PICK f \in 1 .. Fields : c = <<a, f>>
        OBVIOUS
      <4>2. a \notin K
        BY <1>13
      <4> HIDE DEF K
      <4>3. PointedIn(fld', K)[<<a, f>>] = H
        BY <4>2, <1>3, PointedAt
      <4>. QED
        BY <4>1, <4>3, <2>2
    <3>. QED
      BY <3>2, <3>3, OccNat
  <2>6. Pointed' = PointedIn(fld', K) /\ Pointed = PointedIn(fld, Kept)
    BY DEF Pointed
  <2> DEFINE h == Occ(Cell, Held, x)
             b0 == Occ(Field, Pointed, x)
             b1 == Occ(Field, Pointed', x)
             row == Occ(1 .. Fields, fld[a], x)
             d == InTodo(td, x)
             t1 == InTodo(todo', x)
             r0 == ref[x]
  <2>7. b1 + row = b0 + 0
    BY <2>3, <2>4, <2>5, <2>6
  <2>8. t1 = row + d
    BY <2>2, <1>5, <1>15
  <2>9. h \in Nat /\ b0 \in Nat /\ d \in Nat /\ r0 \in Nat
    BY <2>2, <1>1 DEF td
  <2>10. b1 \in Nat
    BY PlacesFinite, OccNat
  <2>11. h + b0 + (0 + d) <= r0
    <3>1. Is(a, x) = 0
      BY <2>1 DEF Is
    <3>. QED
      BY <3>1, <1>8
  <2>12. row \in Nat
    BY <1>5, <2>2, ObjsSeq
  <2>13. ref'[x] = r0
    BY <2>1, <2>2, <1>11
  <2> HIDE DEF h, b0, b1, row, d, t1, r0
  <2>14. h + b1 + t1 <= r0
    BY <2>7, <2>8, <2>9, <2>10, <2>11, <2>12
  <2>. QED
    BY <2>13, <2>14 DEF h, b1, t1, r0
<1>. QED
  BY <1>16, <1>17, <1>18, <1>19, <1>20, <1>21, <1>22, <1>23, <1>24 DEF HInv

\* destroy.
LEMMA DestroyKeeps == ASSUME HInv, Destroy PROVE HInv'
<1>1. todo # <<>> /\ UNCHANGED <<stk, built, M, nprop, walk, ptr, mutator, epochs>>
  BY DEF Destroy, progVars, gcVars
<1> DEFINE t == Head(todo)
<1>2. CASE ref[t.o] > 1 \/ t.n > Nest
  <2>1. ref' = [ref EXCEPT ![t.o] = @ - 1] /\ todo' = Tail(todo) /\ UNCHANGED <<kind, color, fld>>
    BY <1>2 DEF Destroy
  <2>. QED
    BY <1>1, <2>1, DecrementKeeps
<1>3. CASE ~(ref[t.o] > 1 \/ t.n > Nest)
  <2>1. PoolFree(t.o) /\ todo' = Children(t.o, t.n) \o Tail(todo)
    BY <1>3 DEF Destroy
  <2>2. ref[t.o] \in Nat
    <3>1. HInv /\ t.o \in Kept /\ Kept \subseteq Obj /\ ref \in [Obj -> Nat]
      BY <1>1, DestroyHead, FoundKept DEF HInv, Typed
    <3>. QED
      BY <3>1
  <2>3. ref[t.o] <= 1
    BY <1>3, <2>2
  <2>. QED
    BY <1>1, <2>1, <2>3, FreeKeeps
<1>. QED
  BY <1>2, <1>3

(***************************************************************************)
(* The collector.                                                          *)
(***************************************************************************)
\* A step of the collector colours nothing but what is kept, and with the
\* colours of what is found; what it has seen points to what is found.
Colouring ==
  /\ UNCHANGED <<kind, ref, fld, stk, built, M, mutator, todo>>
  /\ color' \in [Obj -> 0 .. 3] /\ nprop' \in BOOLEAN /\ epochs' \in 0 .. 3
  /\ walk' \in Ref /\ ptr' \in 1 .. N + 1
  /\ \A o \in Obj : color'[o] = color[o] \/ (o \in Kept /\ color'[o] \in {mutator, propagator})
  /\ \A o \in Found' : color'[o] = mutator /\ o # walk' =>
       \/ color[o] = mutator /\ o # walk
       \/ \A f \in 1 .. Fields : fld[o][f] \in Found' \cup {H}
  /\ Passed' /\ Walking'

\* Such a step keeps the invariant.
LEMMA ColouringKeeps == ASSUME HInv, Colouring PROVE HInv'
<1>1. /\ Typed /\ Shapes /\ HeldFound /\ SeenFound /\ KeptKept /\ TodoKept /\ Counted
  BY DEF HInv
<1>2. /\ kind' = kind /\ ref' = ref /\ fld' = fld /\ stk' = stk /\ built' = built /\ M' = M
      /\ mutator' = mutator /\ todo' = todo
      /\ \A o \in Obj : color'[o] = color[o] \/ (o \in Kept /\ color'[o] \in {mutator, propagator})
  BY DEF Colouring
<1>3. Allocated' = Allocated /\ Held' = Held /\ sweeper' = sweeper /\ propagator' = propagator
  BY <1>2 DEF Allocated, Held, sweeper, propagator
<1>4. Kept' = Kept
  <2>1. mutator # sweeper /\ propagator # sweeper
    BY <1>1, Colours
  <2>2. \A o \in Allocated : o \in Obj
    BY DEF Allocated
  <2>3. \A o \in Allocated : color'[o] # sweeper <=> color[o] # sweeper
    BY <2>1, <2>2, <1>2 DEF Kept
  <2>. QED
    BY <2>3, <1>3 DEF Kept
<1>5. Found \subseteq Found'
  <2>1. \A o \in Found : o \in Obj /\ o \in Allocated /\ color[o] \in {mutator, propagator}
    BY DEF Found, Allocated
  <2>2. \A o \in Found : color'[o] \in {mutator, propagator}
    BY <2>1, <1>2
  <2>. QED
    BY <2>1, <2>2, <1>2, <1>3 DEF Found
<1>6. Pointed' = Pointed
  BY <1>2, <1>4 DEF Pointed
<1>7. Typed'
  BY <1>1, <1>2 DEF Typed, Colouring
<1>8. Shapes' /\ HeldFound' /\ KeptKept' /\ TodoKept' /\ Counted'
  BY <1>1, <1>2, <1>3, <1>4, <1>5, <1>6 DEF Shapes, HeldFound, KeptKept, TodoKept, Counted, References
<1>9. SeenFound'
  <2>1. SUFFICES ASSUME NEW o \in Found', color'[o] = mutator, o # walk', NEW f \in 1 .. Fields
                 PROVE  fld[o][f] \in Found' \cup {H}
    BY <1>2 DEF SeenFound
  <2>2. CASE color[o] = mutator /\ o # walk
    <3>1. o \in Found
      BY <2>2, <1>2, <1>3 DEF Found
    <3>. QED
      BY <3>1, <2>2, <1>1, <1>5 DEF SeenFound
  <2>3. CASE ~(color[o] = mutator /\ o # walk)
    BY <2>1, <2>3 DEF Colouring
  <2>. QED
    BY <2>2, <2>3
<1>. QED
  BY <1>7, <1>8, <1>9 DEF HInv, Colouring

\* What an object points to, but for a List's tail.
LEMMA PointersOf ==
  ASSUME Typed, KeptKept, NEW o \in Kept
  PROVE  /\ Pointers(o) \subseteq Kept \cup {H}
         /\ \A f \in 1 .. Fields : fld[o][f] \in Kept \cup {H}
         /\ \A f \in 2 .. Fields : fld[o][f] \in Pointers(o)
         /\ kind[o] # "list" => \A f \in 1 .. Fields : fld[o][f] \in Pointers(o)
<1>1. \A f \in 2 .. Fields : f \in 1 .. Fields
  BY HeapAssumption
<1>2. \A f \in 1 .. Fields : fld[o][f] \in Kept \cup {H}
  BY DEF KeptKept
<1>. QED
  BY <1>1, <1>2 DEF Pointers

\* Setmark by the collector, of what is kept.
LEMMA SetmarkColours ==
  ASSUME Typed, NEW c \in [Obj -> 0 .. 3], NEW R, R \subseteq Kept \cup {H}, Setmark(c, R)
  PROVE  /\ color' \in [Obj -> 0 .. 3] /\ nprop' \in BOOLEAN
         /\ \A o \in Obj : color'[o] = IF o \in R /\ c[o] # mutator THEN propagator ELSE c[o]
         /\ nprop => nprop'
         /\ \A o \in Obj : o \in R /\ c[o] # mutator => nprop'
<1>1. color' = [o \in Obj |-> IF o \in R /\ c[o] # mutator THEN propagator ELSE c[o]]
  BY DEF Setmark
<1>2. color' \in [Obj -> 0 .. 3]
  BY <1>1 DEF propagator
<1>3. nprop' = (nprop \/ \E o \in R \cap Obj : c[o] # mutator)
  BY DEF Setmark
<1>4. nprop \in BOOLEAN
  BY DEF Typed
<1>5. nprop' \in BOOLEAN /\ (nprop => nprop') /\ ((\E o \in R \cap Obj : c[o] # mutator) => nprop')
  BY <1>3, <1>4
<1>. QED
  BY <1>1, <1>2, <1>5

\* A visit goes on to the next block, and to no object less: what begins
\* before it begins no later than the one that was visited.
LEMMA VisitMoves ==
  ASSUME Typed, Layout, Layout', Visit
  PROVE  ptr \in Obj /\ ptr' \in 1 .. N + 1 /\ \A o \in Allocated' : o < ptr' => o <= ptr
<1>1. ptr \in blocks /\ ptr' \in NextBlock(blocks', ptr)
  BY DEF Visit
<1>2. ptr \in Obj /\ blocks' \subseteq Obj /\ Allocated' \subseteq blocks'
  BY <1>1 DEF Layout
<1>3. N \in Nat
  BY HeapAssumption
<1>4. ptr' \in blocks' \cup {N + 1} /\ \A o \in blocks' : ptr < o => ptr' <= o
  BY <1>1 DEF NextBlock
<1>5. ptr' \in 1 .. N + 1
  BY <1>2, <1>3, <1>4 DEF Obj
<1>6. ASSUME NEW o \in Allocated', o < ptr' PROVE o <= ptr
  <2>1. o \in Nat /\ ptr \in Nat /\ ptr' \in Nat
    BY <1>2, <1>3, <1>5 DEF Obj
  <2>2. ptr < o => ptr' <= o
    BY <1>2, <1>4
  <2>. QED
    BY <2>1, <2>2, <1>6
<1>. QED
  BY <1>2, <1>5, <1>6

\* The same, of an object that is not the one visited.
LEMMA PassesBy ==
  ASSUME NEW o \in Obj, NEW a \in Obj, NEW n \in 1 .. N + 1, o # a, o < n => o <= a
  PROVE  (o < n => o < a) /\ (o >= a => o >= n)
  BY HeapAssumption DEF Obj

\* rungc marks what a propagator points to.
LEMMA MarkKeeps ==
  ASSUME HInv, Layout, Layout', Visit, kind[ptr] # "free", color[ptr] = propagator
  PROVE  HInv'
<1>1. /\ Typed /\ Shapes /\ HeldFound /\ SeenFound /\ KeptKept /\ Passed
      /\ Found \subseteq Kept /\ Kept \subseteq Allocated /\ Allocated \subseteq Obj
  BY FoundKept DEF HInv
<1> DEFINE c == [color EXCEPT ![ptr] = mutator]
           R == Pointers(ptr)
<1>2. /\ ~Busy /\ Setmark(c, R)
      /\ walk' = IF kind[ptr] = "list" THEN ptr ELSE walk
      /\ kind' = kind /\ ref' = ref /\ fld' = fld /\ stk' = stk /\ built' = built /\ M' = M
      /\ mutator' = mutator /\ epochs' = epochs /\ todo' = todo
  BY DEF Visit, Collect
<1>3. todo = <<>> /\ walk = H
  BY <1>2 DEF Busy
<1>4. ptr \in Obj /\ ptr' \in 1 .. N + 1 /\ \A o \in Allocated' : o < ptr' => o <= ptr
  BY <1>1, VisitMoves
<1>5. /\ propagator # mutator /\ propagator # sweeper /\ sweeper # mutator
      /\ mutator \in 0 .. 3 /\ color \in [Obj -> 0 .. 3]
  BY <1>1, Colours DEF Typed
<1>6. ptr \in Found /\ ptr \in Kept /\ ptr # H
  BY <1>1, <1>4, HeapAssumption DEF Found, Allocated
<1>7. /\ R \subseteq Kept \cup {H} /\ \A f \in 2 .. Fields : fld[ptr][f] \in R
      /\ \A f \in 1 .. Fields : fld[ptr][f] \in Kept \cup {H}
      /\ kind[ptr] # "list" => \A f \in 1 .. Fields : fld[ptr][f] \in R
  BY <1>1, <1>6, PointersOf
<1>8. c \in [Obj -> 0 .. 3] /\ \A o \in Obj : c[o] = IF o = ptr THEN mutator ELSE color[o]
  BY <1>4, <1>5
<1> HIDE DEF c, R
<1>9. /\ color' \in [Obj -> 0 .. 3] /\ nprop' \in BOOLEAN
      /\ \A o \in Obj : color'[o] = IF o \in R /\ c[o] # mutator THEN propagator ELSE c[o]
      /\ nprop => nprop'
      /\ \A o \in Obj : o \in R /\ c[o] # mutator => nprop'
  BY <1>1, <1>2, <1>7, <1>8, SetmarkColours
<1>10. /\ color'[ptr] = mutator
       /\ \A o \in Obj : o # ptr => color'[o] = IF o \in R /\ color[o] # mutator THEN propagator ELSE color[o]
       /\ \A o \in Obj : o # ptr /\ o \in R /\ color[o] # mutator => nprop'
  BY <1>4, <1>8, <1>9
<1>11. \A o \in Obj : color'[o] = color[o] \/ (o \in Kept /\ color'[o] \in {mutator, propagator})
  <2>1. SUFFICES ASSUME NEW o \in Obj PROVE color'[o] = color[o] \/ (o \in Kept /\ color'[o] \in {mutator, propagator})
    OBVIOUS
  <2>2. CASE o = ptr
    BY <2>2, <1>6, <1>10
  <2>3. CASE o # ptr
    <3>1. color'[o] = color[o] \/ (o \in R /\ color'[o] = propagator)
      BY <2>3, <1>10
    <3>2. o # H
      BY HeapAssumption
    <3>. QED
      BY <3>1, <3>2, <1>7
  <2>. QED
    BY <2>2, <2>3
<1>12. \A o \in R : o \in Found' \cup {H}
  <2>1. SUFFICES ASSUME NEW o \in R, o # H PROVE o \in Allocated /\ color'[o] \in {mutator, propagator}
    BY <1>2 DEF Found, Allocated, propagator
  <2>2. o \in Kept /\ o \in Obj /\ o \in Allocated
    BY <2>1, <1>1, <1>7
  <2>. QED
    BY <2>1, <2>2, <1>10
<1>13. ASSUME NEW o \in Found', color'[o] = mutator, o # walk'
       PROVE  \/ color[o] = mutator /\ o # walk
              \/ \A f \in 1 .. Fields : fld[o][f] \in Found' \cup {H}
  <2>1. o \in Obj
    BY DEF Found, Allocated
  <2>2. CASE o = ptr
    <3>1. kind[ptr] # "list"
      BY <1>13, <2>2, <1>2
    <3>. QED
      BY <2>2, <3>1, <1>7, <1>12
  <2>3. CASE o # ptr
    <3>1. color[o] = mutator
      BY <2>1, <2>3, <1>5, <1>10, <1>13
    <3>2. o # H
      BY <2>1, HeapAssumption
    <3>. QED
      BY <3>1, <3>2, <1>3
  <2>. QED
    BY <2>2, <2>3
<1>14. Passed'
  <2>1. SUFFICES ASSUME NEW o \in Allocated
                 PROVE  /\ color'[o] = propagator /\ o < ptr' => nprop'
                        /\ color'[o] = sweeper => o >= ptr'
    BY <1>2 DEF Passed, Allocated, propagator, sweeper
  <2>2. o \in Obj /\ o \in Allocated'
    BY <1>1, <1>2 DEF Allocated
  <2>3. CASE o = ptr
    BY <2>3, <1>5, <1>10
  <2>4. CASE o # ptr
    <3>1. /\ o < ptr' => o < ptr
          /\ o >= ptr => o >= ptr'
      BY <2>2, <2>4, <1>4, PassesBy
    <3>2. color'[o] = propagator /\ o < ptr' => nprop'
      BY <2>2, <2>4, <3>1, <1>1, <1>9, <1>10 DEF Passed
    <3>3. color'[o] = sweeper => o >= ptr'
      BY <2>2, <2>4, <3>1, <1>1, <1>5, <1>10 DEF Passed
    <3>. QED
      BY <3>2, <3>3
  <2>. QED
    BY <2>3, <2>4
<1>15. Walking'
  <2>1. SUFFICES ASSUME walk' # H
                 PROVE  /\ walk' \in Found' /\ todo' = <<>>
                        /\ \A f \in 2 .. Fields : fld[walk'][f] \in Found' \cup {H}
    BY <1>2 DEF Walking
  <2>2. walk' = ptr
    BY <2>1, <1>2, <1>3
  <2>3. ptr \in Found'
    BY <1>1, <1>2, <1>6, <1>10 DEF Found, Allocated, propagator
  <2>. QED
    BY <2>2, <2>3, <1>2, <1>3, <1>7, <1>12
<1>16. walk' \in Ref /\ epochs' \in 0 .. 3
  BY <1>1, <1>2, <1>3, <1>4 DEF Typed, Ref
<1>17. Colouring
  BY <1>2, <1>4, <1>9, <1>11, <1>13, <1>14, <1>15, <1>16 DEF Colouring
<1>. QED
  BY <1>17, ColouringKeeps

\* rungc frees what it meets with the sweepers' colour.
LEMMA SweepKeeps ==
  ASSUME HInv, Layout, Layout', Visit, kind[ptr] # "free", color[ptr] = sweeper
  PROVE  HInv'
<1>1. /\ Typed /\ Shapes /\ HeldFound /\ SeenFound /\ KeptKept /\ Passed /\ Counted
      /\ Found \subseteq Kept /\ Kept \subseteq Allocated /\ Allocated \subseteq Obj
  BY FoundKept DEF HInv
<1> DEFINE a == ptr
<1>2. propagator # mutator /\ propagator # sweeper /\ sweeper # mutator
  BY <1>1, Colours
<1>3. /\ ~Busy /\ PoolFree(a) /\ nprop' = nprop /\ walk' = walk
      /\ stk' = stk /\ built' = built /\ M' = M
      /\ mutator' = mutator /\ epochs' = epochs /\ todo' = todo
  BY <1>2 DEF Visit, Collect
<1>4. todo = <<>> /\ walk = H
  BY <1>3 DEF Busy
<1>5. a \in Obj /\ ptr' \in 1 .. N + 1 /\ \A o \in Allocated' : o < ptr' => o <= a
  BY <1>1, VisitMoves
<1>6. a \notin Kept /\ a \notin Found
  BY <1>1 DEF Kept
<1>7. /\ kind' = [kind EXCEPT ![a] = "free"] /\ color' = [color EXCEPT ![a] = 0]
      /\ ref' = [ref EXCEPT ![a] = 0] /\ fld' = [fld EXCEPT ![a] = Nils]
  BY <1>3 DEF PoolFree
<1> HIDE DEF a
<1>9. /\ kind' \in [Obj -> Kind] /\ color' \in [Obj -> 0 .. 3] /\ ref' \in [Obj -> Nat]
      /\ fld' \in [Obj -> [1 .. Fields -> Ref]]
      /\ kind'[a] = "free" /\ fld'[a] = Nils
      /\ \A o \in Obj : o # a => /\ kind'[o] = kind[o] /\ color'[o] = color[o] /\ ref'[o] = ref[o]
                                 /\ fld'[o] = fld[o]
  <2>1. Nils \in [1 .. Fields -> Ref]
    BY DEF Nils, Ref
  <2>2. "free" \in Kind /\ 0 \in 0 .. 3
    BY DEF Kind
  <2>. QED
    BY <2>1, <2>2, <1>1, <1>5, <1>7 DEF Typed
<1>10. Allocated' = Allocated \ {a} /\ sweeper' = sweeper /\ propagator' = propagator
  BY <1>3, <1>9 DEF Allocated, sweeper, propagator
<1>11. Kept' = Kept
  BY <1>1, <1>6, <1>9, <1>10 DEF Kept
<1>12. Found' = Found
  BY <1>1, <1>3, <1>6, <1>9, <1>10 DEF Found
<1>13. Held' = Held
  BY <1>3 DEF Held
<1>14. \A o \in Kept : o # a /\ o \in Obj /\ fld'[o] = fld[o] /\ color'[o] = color[o] /\ ref'[o] = ref[o]
  BY <1>1, <1>6, <1>9
<1>15. Pointed' = Pointed
  <2>1. \A c \in Field : (IF c[1] \in Kept THEN fld'[c[1]][c[2]] ELSE H) = (IF c[1] \in Kept THEN fld[c[1]][c[2]] ELSE H)
    BY <1>14
  <2>. QED
    BY <2>1, <1>11 DEF Pointed, PointedIn
<1>16. Typed'
  BY <1>1, <1>3, <1>5, <1>9 DEF Typed
<1>17. Shapes'
  BY <1>1, <1>3, <1>9 DEF Shapes
<1>18. HeldFound' /\ KeptKept'
  BY <1>1, <1>11, <1>12, <1>13, <1>14 DEF HeldFound, KeptKept
<1>19. SeenFound'
  BY <1>1, <1>3, <1>12, <1>14 DEF SeenFound
<1>20. Passed'
  <2>1. SUFFICES ASSUME NEW o \in Allocated, o # a
                 PROVE  /\ color'[o] = propagator /\ o < ptr' => nprop
                        /\ color'[o] = sweeper => o >= ptr'
    BY <1>3, <1>10 DEF Passed
  <2>2. o \in Obj /\ o \in Allocated' /\ color'[o] = color[o]
    BY <2>1, <1>1, <1>9, <1>10
  <2>3. /\ o < ptr' => o < a
        /\ o >= a => o >= ptr'
    BY <2>1, <2>2, <1>5, PassesBy
  <2>. QED
    BY <2>2, <2>3, <1>1 DEF Passed, a
<1>21. Walking' /\ TodoKept'
  BY <1>3, <1>4 DEF Walking, TodoKept
<1>22. Counted'
  <2>1. SUFFICES ASSUME NEW x \in Allocated, x # a
                 PROVE  Occ(Cell, Held, x) + Occ(Field, Pointed, x) + InTodo(todo, x) <= ref'[x]
    BY <1>3, <1>10, <1>13, <1>15 DEF Counted, References
  <2>2. ref'[x] = ref[x]
    BY <2>1, <1>1, <1>9
  <2>. QED
    BY <2>2, <1>1 DEF Counted, References
<1>. QED
  BY <1>16, <1>17, <1>18, <1>19, <1>20, <1>21, <1>22 DEF HInv

\* rungc passes a block by.
LEMMA SkipKeeps ==
  ASSUME HInv, Layout, Layout', Visit, kind[ptr] = "free" \/ color[ptr] \notin {propagator, sweeper}
  PROVE  HInv'
<1>1. Typed /\ Passed /\ Allocated \subseteq Obj
  BY FoundKept DEF HInv
<1>2. /\ ~Busy /\ nprop' = nprop /\ walk' = walk
      /\ kind' = kind /\ color' = color /\ ref' = ref /\ fld' = fld
      /\ stk' = stk /\ built' = built /\ M' = M
      /\ mutator' = mutator /\ epochs' = epochs /\ todo' = todo
  BY DEF Visit, Collect, objVars
<1>3. walk = H
  BY <1>2 DEF Busy
<1>4. ptr \in Obj /\ ptr' \in 1 .. N + 1 /\ \A o \in Allocated' : o < ptr' => o <= ptr
  BY <1>1, VisitMoves
<1>5. Passed'
  <2>1. SUFFICES ASSUME NEW o \in Allocated
                 PROVE  /\ color[o] = propagator /\ o < ptr' => nprop
                        /\ color[o] = sweeper => o >= ptr'
    BY <1>2 DEF Passed, Allocated, propagator, sweeper
  <2>2. o \in Obj /\ kind[o] # "free" /\ o \in Allocated'
    BY <1>1, <1>2 DEF Allocated
  <2>3. CASE o = ptr
    BY <2>2, <2>3
  <2>4. CASE o # ptr
    <3>1. /\ o < ptr' => o < ptr
          /\ o >= ptr => o >= ptr'
      BY <2>2, <2>4, <1>4, PassesBy
    <3>. QED
      BY <3>1, <1>1 DEF Passed
  <2>. QED
    BY <2>3, <2>4
<1>6. Walking'
  BY <1>2, <1>3 DEF Walking
<1>7. /\ color' \in [Obj -> 0 .. 3] /\ nprop' \in BOOLEAN /\ epochs' \in 0 .. 3 /\ walk' \in Ref
      /\ propagator' = propagator
  BY <1>1, <1>2 DEF Typed, propagator
<1>8. \A o \in Found' : color'[o] = mutator /\ o # walk' => color[o] = mutator /\ o # walk
  BY <1>2
<1>9. \A o \in Obj : color'[o] = color[o]
  BY <1>2
<1>10. Colouring
  BY <1>2, <1>4, <1>5, <1>6, <1>7, <1>8, <1>9 DEF Colouring
<1>. QED
  BY <1>10, ColouringKeeps

\* rungc visits a block.
LEMMA VisitKeeps == ASSUME HInv, Layout, Layout', Visit PROVE HInv'
BY MarkKeeps, SweepKeeps, SkipKeeps

\* A pass that begins again has yet to go by everything.
LEMMA RestartKeeps == ASSUME HInv, DataAsHeader = FALSE, Restart PROVE HInv'
<1>1. Typed /\ Passed /\ Allocated \subseteq Obj
  BY FoundKept DEF HInv
<1>2. /\ ~Busy /\ ptr' = 1 /\ nprop' = nprop /\ walk' = walk
      /\ kind' = kind /\ color' = color /\ ref' = ref /\ fld' = fld
      /\ stk' = stk /\ built' = built /\ M' = M
      /\ mutator' = mutator /\ epochs' = epochs /\ todo' = todo
  BY DEF Restart, Misread, Collect, objVars
<1>3. walk = H
  BY <1>2 DEF Busy
<1>4. Passed'
  <2>1. ASSUME NEW o \in Obj PROVE ~(o < 1) /\ o >= 1
    BY DEF Obj
  <2>2. Allocated' = Allocated
    BY <1>2 DEF Allocated
  <2>. QED
    BY <1>1, <1>2, <2>1, <2>2 DEF Passed
<1>5. Walking'
  BY <1>2, <1>3 DEF Walking
<1>6. /\ color' \in [Obj -> 0 .. 3] /\ nprop' \in BOOLEAN /\ epochs' \in 0 .. 3 /\ walk' \in Ref
      /\ ptr' \in 1 .. N + 1
  BY <1>1, <1>2, HeapAssumption DEF Typed
<1>7. Colouring
  BY <1>2, <1>4, <1>5, <1>6 DEF Colouring
<1>. QED
  BY <1>7, ColouringKeeps

\* marklist goes on to the next element of a list.
LEMMA MarklistKeeps == ASSUME HInv, Marklist PROVE HInv'
<1>1. /\ Typed /\ Shapes /\ HeldFound /\ SeenFound /\ KeptKept /\ Passed
      /\ Found \subseteq Kept /\ Kept \subseteq Allocated /\ Allocated \subseteq Obj
  BY FoundKept DEF HInv
<1> DEFINE l == fld[walk][First]
           data == Pointers(l)
           after == fld[l][First]
<1>2. /\ walk # H /\ stk' = stk /\ built' = built /\ M' = M /\ mutator' = mutator /\ epochs' = epochs
      /\ kind' = kind /\ ref' = ref /\ fld' = fld /\ ptr' = ptr /\ todo' = todo
  BY DEF Marklist, Collect
<1>3. /\ walk \in Found /\ walk \in Kept /\ todo = <<>>
      /\ \A f \in 2 .. Fields : fld[walk][f] \in Found \cup {H}
  BY <1>1, <1>2 DEF HInv, Walking
<1>4. /\ propagator # mutator /\ propagator # sweeper /\ sweeper # mutator
      /\ mutator \in 0 .. 3 /\ color \in [Obj -> 0 .. 3] /\ nprop \in BOOLEAN /\ propagator' = propagator
      /\ epochs \in 0 .. 3 /\ ptr \in 1 .. N + 1 /\ propagator \in 0 .. 3
  BY <1>1, Colours DEF Typed, propagator
<1>5. First \in 1 .. Fields /\ \A f \in 1 .. Fields : f = First \/ f \in 2 .. Fields
  BY HeapAssumption DEF First
<1>6. l \in Kept \cup {H}
  BY <1>1, <1>3, <1>5 DEF KeptKept
<1>7. l # H => /\ l \in Kept /\ data \subseteq Kept \cup {H} /\ after \in Kept \cup {H}
               /\ \A f \in 2 .. Fields : fld[l][f] \in data
  BY <1>1, <1>5, <1>6, PointersOf
<1>8. l = fld[walk][First]
  OBVIOUS
<1>9. \/ l = H /\ walk' = H /\ color' = color /\ nprop' = nprop
      \/ l # H /\ Setmark(color, {l} \cup data) /\ walk' = l
      \/ /\ l # H /\ walk' = H
         /\ Setmark([o \in Obj |-> IF o = after THEN propagator ELSE color[o]], {l, after} \cup data)
  BY DEF Marklist
<1> HIDE DEF l, data, after
\* In each case: R is marked, and perhaps one object again.
<1> DEFINE MarksAll(R, x) ==
      /\ color' \in [Obj -> 0 .. 3] /\ nprop' \in BOOLEAN /\ (nprop => nprop')
      /\ x \in R /\ R \subseteq Kept \cup {H}
      /\ \A o \in Obj : color'[o] = IF o = x \/ (o \in R /\ color[o] # mutator) THEN propagator ELSE color[o]
      /\ \A o \in Obj : o = x \/ (o \in R /\ color[o] # mutator) => nprop'
<1>10. ASSUME NEW R, NEW x, MarksAll(R, x), l \in R, walk' = H \/ (walk' = l /\ l # H /\ data \subseteq R)
       PROVE  HInv'
  <2>1. /\ color' \in [Obj -> 0 .. 3] /\ nprop' \in BOOLEAN /\ (nprop => nprop')
        /\ x \in R /\ R \subseteq Kept \cup {H}
        /\ \A o \in Obj : color'[o] = IF o = x \/ (o \in R /\ color[o] # mutator) THEN propagator ELSE color[o]
        /\ \A o \in Obj : o = x \/ (o \in R /\ color[o] # mutator) => nprop'
    BY <1>10
  <2> HIDE DEF MarksAll
  <2>2. ASSUME NEW o \in Obj
        PROVE  color'[o] = color[o] \/ (o \in Kept /\ color'[o] \in {mutator, propagator})
    BY <2>1, HeapAssumption
  <2>3. \A o \in R : o \in Found' \cup {H}
    <3>1. SUFFICES ASSUME NEW o \in R, o # H PROVE o \in Allocated /\ color'[o] \in {mutator, propagator}
      BY <1>2 DEF Found, Allocated, propagator
    <3>2. o \in Obj /\ o \in Allocated
      BY <3>1, <2>1, <1>1
    <3>. QED
      BY <3>2, <2>1
  <2>4. Found \subseteq Found'
    <3>1. SUFFICES ASSUME NEW o \in Found PROVE o \in Allocated /\ color'[o] \in {mutator, propagator}
      BY <1>2 DEF Found, Allocated, propagator
    <3>2. o \in Obj /\ o \in Allocated /\ color[o] \in {mutator, propagator}
      BY <1>1 DEF Found
    <3>. QED
      BY <3>2, <2>1
  <2>5. ASSUME NEW o \in Found', color'[o] = mutator, o # walk'
        PROVE  \/ color[o] = mutator /\ o # walk
               \/ \A f \in 1 .. Fields : fld[o][f] \in Found' \cup {H}
    <3>1. o \in Obj
      BY DEF Found, Allocated
    <3>2. color[o] = mutator
      BY <3>1, <2>1, <2>5, <1>4
    <3>3. CASE o = walk
      BY <3>3, <1>3, <1>5, <1>8, <1>10, <2>3, <2>4
    <3>. QED
      BY <3>2, <3>3
  <2>6. Passed'
    <3>1. SUFFICES ASSUME NEW o \in Allocated
                   PROVE  /\ color'[o] = propagator /\ o < ptr => nprop'
                          /\ color'[o] = sweeper => o >= ptr
      BY <1>2 DEF Passed, Allocated, propagator, sweeper
    <3>2. o \in Obj
      BY <1>1
    <3>. QED
      BY <3>2, <1>1, <1>4, <2>1 DEF Passed
  <2>7. Walking'
    <3>1. SUFFICES ASSUME walk' # H
                   PROVE  /\ walk' \in Found' /\ todo' = <<>>
                          /\ \A f \in 2 .. Fields : fld[walk'][f] \in Found' \cup {H}
      BY <1>2 DEF Walking
    <3>2. walk' = l /\ l # H /\ data \subseteq R /\ l \in R
      BY <3>1, <1>10
    <3>. QED
      BY <3>2, <2>3, <1>2, <1>3, <1>7
  <2>8. walk' \in Ref
    BY <1>1, <1>6, <1>10 DEF Ref
  <2>9. Colouring
    BY <1>2, <1>4, <2>1, <2>2, <2>5, <2>6, <2>7, <2>8 DEF Colouring
  <2>. QED
    BY <2>9, ColouringKeeps
<1>11. CASE l = H /\ walk' = H /\ color' = color /\ nprop' = nprop
  <2>1. MarksAll({H}, H)
    <3>1. H \notin Obj
      BY HeapAssumption
    <3>2. \A o \in Obj : ~(o = H \/ (o \in {H} /\ color[o] # mutator))
      BY <3>1
    <3>. QED
      BY <1>4, <1>11, <3>2
  <2> HIDE DEF MarksAll
  <2>. QED
    BY <2>1, <1>10, <1>11
<1>12. CASE l # H /\ Setmark(color, {l} \cup data) /\ walk' = l
  <2> DEFINE R == {H, l} \cup data
             Q == {l} \cup data
  <2>1. /\ color' \in [Obj -> 0 .. 3] /\ nprop' \in BOOLEAN
        /\ \A o \in Obj : color'[o] = IF o \in Q /\ color[o] # mutator THEN propagator ELSE color[o]
        /\ nprop => nprop'
        /\ \A o \in Obj : o \in Q /\ color[o] # mutator => nprop'
    <3>1. Q \subseteq Kept \cup {H} /\ Setmark(color, Q)
      BY <1>7, <1>12
    <3> HIDE DEF Q
    <3>. QED
      BY <1>1, <1>4, <3>1, SetmarkColours
  <2>2. \A o \in Obj : o # H /\ (o \in R <=> o \in Q)
    BY HeapAssumption
  <2>3. R \subseteq Kept \cup {H} /\ H \in R /\ l \in R /\ data \subseteq R
    BY <1>7, <1>12
  <2> HIDE DEF R, Q
  <2>4. MarksAll(R, H)
    BY <2>1, <2>2, <2>3
  <2> HIDE DEF MarksAll
  <2>. QED
    BY <2>3, <2>4, <1>10, <1>12
<1>13. CASE /\ l # H /\ walk' = H
            /\ Setmark([o \in Obj |-> IF o = after THEN propagator ELSE color[o]], {l, after} \cup data)
  <2> DEFINE R == {l, after} \cup data
             c == [o \in Obj |-> IF o = after THEN propagator ELSE color[o]]
  <2>1. R \subseteq Kept \cup {H} /\ after \in R /\ l \in R /\ Setmark(c, R)
    BY <1>7, <1>13
  <2>2. c \in [Obj -> 0 .. 3] /\ \A o \in Obj : c[o] = IF o = after THEN propagator ELSE color[o]
    BY <1>4
  <2> HIDE DEF R, c
  <2>3. /\ color' \in [Obj -> 0 .. 3] /\ nprop' \in BOOLEAN
        /\ \A o \in Obj : color'[o] = IF o \in R /\ c[o] # mutator THEN propagator ELSE c[o]
        /\ nprop => nprop'
        /\ \A o \in Obj : o \in R /\ c[o] # mutator => nprop'
    BY <1>1, <2>1, <2>2, SetmarkColours
  <2>4. ASSUME NEW o \in Obj
        PROVE  /\ color'[o] = IF o = after \/ (o \in R /\ color[o] # mutator) THEN propagator ELSE color[o]
               /\ o = after \/ (o \in R /\ color[o] # mutator) => nprop'
    <3>1. CASE o = after
      BY <3>1, <2>1, <2>2, <2>3, <1>4
    <3>2. CASE o # after
      BY <3>2, <2>2, <2>3
    <3>. QED
      BY <3>1, <3>2
  <2>5. MarksAll(R, after)
    BY <2>1, <2>3, <2>4
  <2> HIDE DEF MarksAll
  <2>. QED
    BY <2>1, <2>5, <1>10, <1>13
<1>. QED
  BY <1>9, <1>11, <1>12, <1>13

\* The roots are among what Progs hold and what that points to.
LEMMA RootsIn ==
  ASSUME Typed, Shapes, HeldFound, NEW K, Found \subseteq K,
         \A o \in Found : fld[o][First] \in K \cup {H}
  PROVE  Roots \subseteq K \cup {H}
<1> DEFINE U == (UNION {{M[p]} \cup {f.mr : f \in Frames(p)} : p \in Prog})
           links == (UNION {{M[p]} \cup {f.mr : f \in Frames(p)} : p \in Prog}) \ {H}
           slots == UNION {{f.slot[s] : f \in Frames(p), s \in 1 .. Slots} : p \in Prog}
<1>1. Roots = links \cup {MP(m) : m \in links} \cup slots
  BY DEF Roots
<1>0. links = U \ {H}
  OBVIOUS
<1>2. ASSUME NEW p \in Prog, NEW f \in Frames(p)
      PROVE  f.mr \in Found \cup {H} /\ \A s \in 1 .. Slots : f.slot[s] \in Found \cup {H}
  <2>1. PICK k \in 1 .. Top(p) : f = stk[p][k]
    BY DEF Frames
  <2>. QED
    BY <2>1, HoldsFound
<1>3. links \subseteq Found
  <2>1. SUFFICES ASSUME NEW x \in links PROVE x \in Found
    OBVIOUS
  <2>2. PICK p \in Prog : x \in {M[p]} \cup {f.mr : f \in Frames(p)}
    OBVIOUS
  <2>3. x = M[p] \/ \E f \in Frames(p) : x = f.mr
    BY <2>2
  <2>4. M[p] \in Found \cup {H}
    BY HoldsFound
  <2>5. x # H
    <3> HIDE DEF U, links
    <3>. QED
      BY <1>0
  <2>. QED
    BY <2>3, <2>4, <2>5, <1>2
<1>4. slots \subseteq Found \cup {H}
  <2>1. SUFFICES ASSUME NEW x \in slots PROVE x \in Found \cup {H}
    OBVIOUS
  <2>2. PICK p \in Prog : x \in {f.slot[s] : f \in Frames(p), s \in 1 .. Slots}
    OBVIOUS
  <2>3. PICK f \in Frames(p), s \in 1 .. Slots : x = f.slot[s]
    BY <2>2
  <2>. QED
    BY <2>3, <1>2
<1> HIDE DEF links, slots
<1>5. ASSUME NEW m \in links PROVE MP(m) \in K \cup {H}
  BY <1>3 DEF MP
<1>. QED
  BY <1>1, <1>3, <1>4, <1>5

\* What Progs hold is among the roots.
LEMMA HeldRoots ==
  ASSUME Typed, Shapes, NEW c \in Cell
  PROVE  Held[c] \in Roots \cup {H}
<1> DEFINE U == (UNION {{M[p]} \cup {f.mr : f \in Frames(p)} : p \in Prog})
           links == (UNION {{M[p]} \cup {f.mr : f \in Frames(p)} : p \in Prog}) \ {H}
           slots == UNION {{f.slot[s] : f \in Frames(p), s \in 1 .. Slots} : p \in Prog}
<1>1. Roots = links \cup {MP(m) : m \in links} \cup slots
  BY DEF Roots
<1>0. links = U \ {H}
  OBVIOUS
<1>2. PICK p \in Prog, k \in 0 .. Depth, s \in 0 .. Slots : c = <<p, k, s>>
  BY DEF Cell
<1>3. Held[c] = InCell(stk, M, p, k, s)
  BY <1>2, HeldAt DEF Held
<1>4. ASSUME NEW x \in {M[p]} \cup {f.mr : f \in Frames(p)} PROVE x \in links \cup {H}
  <2>1. x \in U
    OBVIOUS
  <2> HIDE DEF U, links
  <2>. QED
    BY <1>0, <2>1
<1>5. ASSUME k # 0, ~(k > Len(stk[p])) PROVE stk[p][k] \in Frames(p)
  <2>1. Top(p) = Len(stk[p]) /\ Top(p) \in Nat
    BY StackParts
  <2>2. k \in 1 .. Top(p)
    BY <2>1, <1>5
  <2>. QED
    BY <2>2 DEF Frames
<1>6. ASSUME NEW f \in Frames(p) PROVE f.mr \in links \cup {H}
  <2>1. f.mr \in {M[p]} \cup {g.mr : g \in Frames(p)}
    OBVIOUS
  <2> HIDE DEF links
  <2>. QED
    BY <2>1, <1>4
<1>7. ASSUME NEW f \in Frames(p), NEW j \in 1 .. Slots PROVE f.slot[j] \in slots
  <2>1. f.slot[j] \in {g.slot[i] : g \in Frames(p), i \in 1 .. Slots}
    OBVIOUS
  <2>. QED
    BY <2>1
<1> HIDE DEF links, slots
<1>8. s # 0 => s \in 1 .. Slots
  BY HeapAssumption
<1>9. CASE k = 0
  BY <1>9, <1>1, <1>3, <1>4 DEF InCell
<1>10. CASE k # 0 /\ k > Len(stk[p])
  BY <1>10, <1>3 DEF InCell
<1>11. CASE k # 0 /\ ~(k > Len(stk[p]))
  <2> DEFINE f == stk[p][k]
  <2>1. f \in Frames(p) /\ Held[c] = IF s = 0 THEN f.mr ELSE f.slot[s]
    BY <1>11, <1>3, <1>5 DEF InCell
  <2> HIDE DEF f
  <2>. QED
    BY <2>1, <1>1, <1>6, <1>7, <1>8
<1>. QED
  BY <1>9, <1>10, <1>11

\* The end of a pass in which something may have become propagator.
LEMMA AgainKeeps == ASSUME HInv, EndPass, nprop PROVE HInv'
<1>1. Typed /\ Allocated \subseteq Obj
  BY FoundKept DEF HInv
<1>2. /\ ~Busy /\ ptr' = 1 /\ nprop' = FALSE /\ color' = color /\ mutator' = mutator /\ epochs' = epochs
      /\ kind' = kind /\ ref' = ref /\ fld' = fld /\ stk' = stk /\ built' = built /\ M' = M
      /\ todo' = todo /\ walk' = walk
  BY DEF EndPass, progVars
<1>3. walk = H
  BY <1>2 DEF Busy
<1>4. Passed'
  <2>1. SUFFICES ASSUME NEW o \in Allocated PROVE ~(o < 1) /\ o >= 1
    BY <1>2 DEF Passed, Allocated, propagator, sweeper
  <2>. QED
    BY <1>1, HeapAssumption DEF Obj
<1>5. Walking'
  BY <1>2, <1>3 DEF Walking
<1>6. /\ color' \in [Obj -> 0 .. 3] /\ nprop' \in BOOLEAN /\ epochs' \in 0 .. 3 /\ walk' \in Ref
      /\ ptr' \in 1 .. N + 1
  <2>1. 1 \in 1 .. N + 1
    BY HeapAssumption
  <2>. QED
    BY <2>1, <1>1, <1>2 DEF Typed
<1>7. \A o \in Found' : color'[o] = mutator /\ o # walk' => color[o] = mutator /\ o # walk
  BY <1>2
<1>8. \A o \in Obj : color'[o] = color[o]
  BY <1>2
<1>9. Colouring
  BY <1>2, <1>4, <1>5, <1>6, <1>7, <1>8 DEF Colouring
<1>. QED
  BY <1>9, ColouringKeeps

\* The end of an epoch: no propagator and nothing to be swept is left, what
\* was found becomes what is kept, and the roots are found anew.
LEMMA EpochSets ==
  ASSUME HInv, EndPass, ~nprop
  PROVE  /\ Typed' /\ Allocated' = Allocated /\ Allocated = Kept /\ Kept' = Found /\ Found' = Roots \ {H}
         /\ Roots \subseteq Found \cup {H} /\ \A o \in Found : \A f \in 1 .. Fields : fld[o][f] \in Found \cup {H}
         /\ \A o \in Found' : color'[o] = propagator /\ propagator # mutator' /\ propagator' = propagator
<1>1. /\ Typed /\ Shapes /\ HeldFound /\ SeenFound /\ KeptKept /\ Passed /\ Counted
      /\ Found \subseteq Kept /\ Kept \subseteq Allocated /\ Allocated \subseteq Obj
  BY FoundKept DEF HInv
<1> DEFINE m == (mutator + 1) % 3
<1>2. /\ ~Busy /\ ptr = N + 1 /\ ptr' = 1 /\ mutator' = m
      /\ color' = [o \in Obj |-> IF o \in Roots /\ color[o] # m THEN propagator ELSE color[o]]
      /\ nprop' = \E o \in Roots \ {H} : color[o] # m
      /\ epochs' = IF epochs < 3 THEN epochs + 1 ELSE 3
      /\ kind' = kind /\ ref' = ref /\ fld' = fld /\ stk' = stk /\ built' = built /\ M' = M
      /\ todo' = todo /\ walk' = walk
  BY DEF EndPass, progVars
<1>3. todo = <<>> /\ walk = H
  BY <1>2 DEF Busy
<1>4. /\ sweeper = m /\ m \in 0 .. 2 /\ m # mutator /\ mutator \in 0 .. 2
      /\ sweeper' = (m + 1) % 3 /\ (m + 1) % 3 # mutator /\ (m + 1) % 3 # m /\ (m + 1) % 3 # propagator
      /\ propagator # m /\ propagator # mutator /\ propagator' = propagator /\ propagator \in 0 .. 3
  <2>1. mutator \in 0 .. 2
    BY <1>1 DEF Typed
  <2>2. sweeper' = (m + 1) % 3
    BY <1>2 DEF sweeper
  <2>3. mutator = 0 \/ mutator = 1 \/ mutator = 2
    BY <2>1
  <2>. QED
    BY <2>2, <2>3 DEF sweeper, propagator
<1> HIDE DEF m
\* No propagator is left, and no block with the sweepers' colour.
<1>5. \A o \in Allocated : o \in Obj /\ color[o] # propagator /\ color[o] # m
  <2>1. SUFFICES ASSUME NEW o \in Allocated PROVE color[o] # propagator /\ color[o] # sweeper
    BY <1>1, <1>4
  <2>2. o < ptr /\ ~(o >= ptr)
    BY <1>1, <1>2, HeapAssumption DEF Obj
  <2>. QED
    BY <2>2, <1>1 DEF Passed
<1>6. Found = {o \in Allocated : color[o] = mutator}
  BY <1>5 DEF Found
<1>7. \A o \in Found : \A f \in 1 .. Fields : fld[o][f] \in Found \cup {H}
  <2>1. \A o \in Found : color[o] = mutator /\ o # walk
    BY <1>1, <1>3, <1>6, HeapAssumption
  <2>. QED
    BY <2>1, <1>1 DEF SeenFound
<1>8. Roots \subseteq Found \cup {H}
  <2>1. First \in 1 .. Fields
    BY HeapAssumption DEF First
  <2>2. \A o \in Found : fld[o][First] \in Found \cup {H}
    BY <2>1, <1>7
  <2>. QED
    BY <2>2, <1>1, RootsIn
<1>9. \A o \in Obj : color'[o] = IF o \in Roots THEN propagator ELSE color[o]
  BY <1>1, <1>2, <1>5, <1>8, HeapAssumption
<1>10. Allocated' = Allocated /\ Held' = Held
  BY <1>2 DEF Allocated, Held
<1>11. Kept' = Found
  <2>1. ASSUME NEW o \in Allocated PROVE color'[o] # sweeper' <=> color[o] = mutator
    <3>1. o \in Obj /\ color[o] \in 0 .. 3 /\ color[o] # propagator /\ color[o] # m
      BY <1>1, <1>5 DEF Typed
    <3>2. CASE o \in Roots
      BY <3>1, <3>2, <1>4, <1>6, <1>8, <1>9, HeapAssumption
    <3>3. CASE o \notin Roots
      <4>1. color[o] = mutator \/ color[o] = (m + 1) % 3
        BY <3>1, <1>4 DEF propagator, m
      <4>. QED
        BY <4>1, <3>1, <3>3, <1>4, <1>9
    <3>. QED
      BY <3>2, <3>3
  <2>. QED
    BY <2>1, <1>6, <1>10 DEF Kept
<1>12. Found' = Roots \ {H}
  <2>1. ASSUME NEW o \in Allocated PROVE color'[o] \in {mutator', propagator'} <=> o \in Roots
    BY <1>2, <1>4, <1>5, <1>9
  <2>2. \A o \in Roots \ {H} : o \in Allocated
    BY <1>1, <1>8
  <2>3. \A o \in Allocated : o # H
    BY <1>1, HeapAssumption
  <2>. QED
    BY <2>1, <2>2, <2>3, <1>10 DEF Found
<1>13. Typed'
  <2>1. color' \in [Obj -> 0 .. 3]
    BY <1>1, <1>2, <1>4 DEF Typed
  <2>2. nprop' \in BOOLEAN
    BY <1>2
  <2>3. epochs' \in 0 .. 3
    BY <1>1, <1>2 DEF Typed
  <2>4. 1 \in 1 .. N + 1
    BY HeapAssumption
  <2>. QED
    BY <2>1, <2>2, <2>3, <2>4, <1>1, <1>2, <1>4 DEF Typed
<1>14. Allocated = Kept
  BY <1>1, <1>4, <1>5 DEF Kept
<1>15. \A o \in Found' : color'[o] = propagator /\ propagator # mutator' /\ propagator' = propagator
  BY <1>1, <1>2, <1>4, <1>8, <1>9, <1>12
<1>. QED
  BY <1>7, <1>8, <1>10, <1>11, <1>12, <1>13, <1>14, <1>15

\* It keeps the invariant.
LEMMA EpochKeeps == ASSUME HInv, EndPass, ~nprop PROVE HInv'
<1>1. /\ Typed /\ Shapes /\ Counted
      /\ Found \subseteq Kept /\ Kept \subseteq Allocated /\ Allocated \subseteq Obj
  BY FoundKept DEF HInv
<1>2. /\ ~Busy /\ ptr = N + 1 /\ ptr' = 1 /\ Held' = Held
      /\ kind' = kind /\ ref' = ref /\ fld' = fld /\ stk' = stk /\ built' = built /\ M' = M
      /\ todo' = todo /\ walk' = walk
  BY DEF EndPass, progVars, Held
<1>3. todo = <<>> /\ walk = H
  BY <1>2 DEF Busy
<1>4. /\ Typed' /\ Allocated' = Allocated /\ Allocated = Kept /\ Kept' = Found /\ Found' = Roots \ {H}
      /\ Roots \subseteq Found \cup {H} /\ \A o \in Found : \A f \in 1 .. Fields : fld[o][f] \in Found \cup {H}
      /\ \A o \in Found' : color'[o] = propagator /\ propagator # mutator' /\ propagator' = propagator
  BY EpochSets
<1>5. Shapes'
  BY <1>1, <1>2 DEF Shapes
<1>6. HeldFound'
  <2>1. \A c \in Cell : Held[c] \in Roots \cup {H}
    BY <1>1, HeldRoots
  <2>. QED
    BY <2>1, <1>2, <1>4 DEF HeldFound
<1>7. SeenFound'
  BY <1>4 DEF SeenFound
<1>8. KeptKept'
  BY <1>2, <1>4 DEF KeptKept
<1>9. Passed'
  <2>1. SUFFICES ASSUME NEW o \in Allocated PROVE ~(o < 1) /\ o >= 1
    BY <1>2, <1>4 DEF Passed
  <2>. QED
    BY <1>1, HeapAssumption DEF Obj
<1>10. Walking' /\ TodoKept'
  BY <1>2, <1>3 DEF Walking, TodoKept
<1>11. Counted'
  <2>1. SUFFICES ASSUME NEW x \in Allocated
                 PROVE  Occ(Cell, Held, x) + Occ(Field, Pointed', x) + InTodo(todo, x) <= ref[x]
    BY <1>2, <1>4 DEF Counted, References
  <2>2. x \in Obj /\ x # H
    BY <1>1, HeapAssumption
  <2>3. \A c \in Field : Pointed'[c] = x => Pointed[c] = x
    <3>1. Pointed' = PointedIn(fld, Found) /\ Pointed = PointedIn(fld, Kept)
      BY <1>2, <1>4 DEF Pointed
    <3>2. \A c \in Field : PointedIn(fld, Found)[c] = x => PointedIn(fld, Kept)[c] = x
      BY <2>2, <1>1 DEF PointedIn
    <3>. QED
      BY <3>1, <3>2
  <2>4. Occ(Field, Pointed', x) <= Occ(Field, Pointed, x)
    BY <2>3, PlacesFinite, OccLess
  <2> DEFINE h == Occ(Cell, Held, x)
             b0 == Occ(Field, Pointed, x)
             b1 == Occ(Field, Pointed', x)
             t == InTodo(todo, x)
             r0 == ref[x]
  <2>5. h \in Nat /\ b0 \in Nat /\ t \in Nat /\ r0 \in Nat
    BY <2>2, <1>1, CountsNat
  <2>6. b1 \in Nat
    BY PlacesFinite, OccNat
  <2>7. h + b0 + t <= r0
    BY <2>1, <1>1 DEF Counted, References
  <2> HIDE DEF h, b0, b1, t, r0
  <2>8. b1 <= b0
    BY <2>4 DEF b0, b1
  <2>9. h + b1 + t <= r0
    BY <2>5, <2>6, <2>7, <2>8
  <2>. QED
    BY <2>9 DEF h, b1, t, r0
<1>. QED
  BY <1>4, <1>5, <1>6, <1>7, <1>8, <1>9, <1>10, <1>11 DEF HInv

\* A pass ends.
LEMMA EndPassKeeps == ASSUME HInv, EndPass PROVE HInv'
BY AgainKeeps, EpochKeeps

(***************************************************************************)
(* Every step keeps the invariant, and it holds at first.                  *)
(***************************************************************************)
\* A step that changes nothing.
LEMMA StutterKeeps == ASSUME HInv, UNCHANGED vars PROVE HInv'
<1>1. /\ kind' = kind /\ color' = color /\ ref' = ref /\ fld' = fld /\ stk' = stk /\ built' = built
      /\ M' = M /\ todo' = todo /\ walk' = walk /\ ptr' = ptr /\ mutator' = mutator
      /\ nprop' = nprop /\ epochs' = epochs
  BY DEF vars, objVars, progVars, gcVars
<1>2. Allocated' = Allocated /\ sweeper' = sweeper /\ propagator' = propagator /\ Held' = Held
  BY <1>1 DEF Allocated, sweeper, propagator, Held
<1>3. Kept' = Kept /\ Found' = Found
  BY <1>1, <1>2 DEF Kept, Found
<1>4. Pointed' = Pointed
  BY <1>1, <1>3 DEF Pointed
<1>5. Typed' /\ Shapes'
  BY <1>1 DEF HInv, Typed, Shapes
<1>6. HeldFound' /\ SeenFound' /\ KeptKept'
  BY <1>1, <1>2, <1>3 DEF HInv, HeldFound, SeenFound, KeptKept
<1>7. Passed' /\ Walking' /\ TodoKept'
  BY <1>1, <1>2, <1>3 DEF HInv, Passed, Walking, TodoKept
<1>8. Counted'
  BY <1>1, <1>2, <1>4 DEF HInv, Counted, References
<1>. QED
  BY <1>5, <1>6, <1>7, <1>8 DEF HInv

\* Every instruction.
LEMMA InstructionKeeps == ASSUME HInv, CopiesUnmarked = FALSE, NEW p \in Prog, Instruction(p) PROVE HInv'
<1>1. CASE Movp(p) \/ NewAdt(p) \/ Cons(p)
  BY <1>1, MovpKeeps, NewAdtKeeps, ConsKeeps
<1>2. CASE Load(p) \/ LoadFails(p) \/ LoadSelf(p)
  BY <1>2, LoadKeeps, LoadFailsKeeps, LoadSelfKeeps
<1>3. CASE NewFrame(p) \/ Call(p) \/ Mcall(p)
  BY <1>3, NewFrameKeeps, CallKeeps, McallKeeps
<1>4. CASE Ret(p) \/ Unwind(p) \/ Exit(p)
  BY <1>4, RetKeeps, UnwindKeeps, ExitKeeps
<1>5. CASE \E q \in Prog : Communicate(p, q) \/ Spawn(p, q)
  <2>1. PICK q \in Prog : Communicate(p, q) \/ Spawn(p, q)
    BY <1>5
  <2>. QED
    BY <2>1, CommunicateKeeps, SpawnKeeps
<1>. QED
  BY <1>1, <1>2, <1>3, <1>4, <1>5 DEF Instruction

(***************************************************************************)
(* The blocks.                                                             *)
(***************************************************************************)
\* A step that leaves them alone.
LEMMA SameLayout == ASSUME Layout, blocks' = blocks, kind' = kind PROVE Layout'
BY DEF Layout, Allocated

\* A free block is split.
LEMMA SplitLayout ==
  ASSUME NEW b \in SUBSET Obj, NEW o, NEW c \in Split(b, o)
  PROVE  c \subseteq Obj /\ b \subseteq c
BY DEF Split

\* An object is made of a free block.
LEMMA NewLayout == ASSUME Typed, Layout, NEW o \in Obj, NEW k, New(o, k) PROVE Layout'
<1>1. /\ o \in blocks /\ blocks' \in Split(blocks, o) /\ kind' = [kind EXCEPT ![o] = k]
      /\ blocks \subseteq Obj /\ Allocated \subseteq blocks
  BY DEF New, Layout
<1>2. blocks' \subseteq Obj /\ blocks \subseteq blocks'
  BY <1>1, SplitLayout
<1>3. Allocated' \subseteq Allocated \cup {o}
  BY <1>1 DEF Allocated, Typed
<1>. QED
  BY <1>1, <1>2, <1>3 DEF Layout

\* A module is made, with its data.
LEMMA LoadLayout == ASSUME Typed, Layout, NEW p \in Prog, Load(p) PROVE Layout'
<1>1. PICK ml \in Obj, mp \in Obj \cup {H} :
        /\ ml \in blocks
        /\ \E b \in Split(blocks, ml) :
             IF mp = H THEN blocks' = b ELSE mp \in b /\ blocks' \in Split(b, mp)
        /\ kind' = [o \in Obj |-> IF o = ml THEN "modlink"
                                  ELSE IF o = mp THEN "adt" ELSE kind[o]]
  BY DEF Load
<1>2. PICK b \in Split(blocks, ml) : IF mp = H THEN blocks' = b ELSE mp \in b /\ blocks' \in Split(b, mp)
  BY <1>1
<1>3. blocks \subseteq Obj /\ Allocated \subseteq blocks
  BY DEF Layout
<1>4. b \subseteq Obj /\ blocks \subseteq b
  BY <1>3, SplitLayout
<1>5. blocks' \subseteq Obj /\ b \subseteq blocks'
  BY <1>2, <1>4, SplitLayout
<1>6. mp # H => mp \in blocks'
  BY <1>2, <1>5
<1>7. Allocated' \subseteq Allocated \cup ({ml, mp} \ {H})
  BY <1>1, HeapAssumption DEF Allocated, Obj
<1>. QED
  BY <1>1, <1>3, <1>4, <1>5, <1>6, <1>7 DEF Layout

\* A block is freed, and joined with its neighbours: those are free, so no
\* object loses its beginning.
LEMMA FreeLayout == ASSUME Typed, Layout, NEW o \in Obj, PoolFree(o) PROVE Layout'
<1>1. /\ kind' = [kind EXCEPT ![o] = "free"] /\ blocks \subseteq Obj /\ Allocated \subseteq blocks
      /\ blocks' = blocks \ ({n \in blocks \cap NextBlock(blocks, o) : kind[n] = "free"}
                             \cup {n \in {o} : \E b \in blocks : kind[b] = "free" /\ o \in NextBlock(blocks, b)})
  BY DEF PoolFree, Join, Layout
<1>2. blocks' \subseteq Obj
  BY <1>1
<1>3. ASSUME NEW x \in Allocated' PROVE x \in blocks'
  <2>1. x \in Obj /\ x # o /\ kind[x] # "free"
    BY <1>1, <1>3 DEF Allocated, Typed
  <2>2. x \in blocks
    BY <1>1, <2>1 DEF Allocated
  <2>. QED
    BY <1>1, <2>1, <2>2
<1>. QED
  BY <1>2, <1>3 DEF Layout

\* An instruction.
LEMMA InstructionLayout == ASSUME Typed, Layout, NEW p \in Prog, Instruction(p) PROVE Layout'
<1>1. CASE \/ Movp(p) \/ NewFrame(p) \/ Call(p) \/ Mcall(p) \/ Ret(p) \/ Unwind(p) \/ Exit(p)
           \/ \E q \in Prog : Communicate(p, q) \/ Spawn(p, q)
  <2>1. blocks' = blocks /\ kind' = kind
    BY <1>1 DEF Movp, MovpTo, NewFrame, Call, Mcall, Ret, Unwind, Exit, Communicate, Spawn, SpawnIn, objVars
  <2>. QED
    BY <2>1, SameLayout
<1>2. CASE NewAdt(p) \/ Cons(p) \/ LoadFails(p) \/ LoadSelf(p)
  <2>1. \E o \in Obj : \E k \in Kind : New(o, k)
    BY <1>2 DEF NewAdt, Cons, LoadFails, LoadSelf, Kind
  <2>. QED
    BY <2>1, NewLayout
<1>3. CASE Load(p)
  BY <1>3, LoadLayout
<1>. QED
  BY <1>1, <1>2, <1>3 DEF Instruction

\* Every step.
LEMMA NextLayout == ASSUME Typed, Layout, DataAsHeader = FALSE, [Next]_vars PROVE Layout'
<1>1. CASE \E p \in Prog : Instruction(p) /\ Bounded
  BY <1>1, InstructionLayout
<1>2. CASE Destroy
  <2>1. Head(todo).o \in Obj
    <3>1. todo \in Seq(Item) /\ todo # <<>>
      BY <1>2 DEF Destroy, Typed, Item
    <3>2. Head(todo) \in Item
      BY <3>1
    <3>. QED
      BY <3>2 DEF Item
  <2>2. PoolFree(Head(todo).o) \/ (blocks' = blocks /\ kind' = kind)
    BY <1>2 DEF Destroy
  <2>. QED
    BY <2>1, <2>2, FreeLayout, SameLayout
<1>3. CASE Visit
  <2>1. ptr \in Obj
    BY <1>3 DEF Visit, Layout
  <2>2. PoolFree(ptr) \/ (blocks' = blocks /\ kind' = kind)
    BY <1>3 DEF Visit, objVars
  <2>. QED
    BY <2>1, <2>2, FreeLayout, SameLayout
<1>4. CASE Marklist \/ EndPass \/ Restart \/ UNCHANGED vars
  <2>1. blocks' = blocks /\ kind' = kind
    BY <1>4 DEF Marklist, EndPass, Restart, Misread, vars, objVars
  <2>. QED
    BY <2>1, SameLayout
<1>. QED
  BY <1>1, <1>2, <1>3, <1>4 DEF Next, RunGC

\* Every step.
LEMMA NextKeeps ==
  ASSUME HInv, Layout, CopiesUnmarked = FALSE, DataAsHeader = FALSE, [Next]_vars
  PROVE  HInv' /\ Layout'
<1>0. Layout'
  BY NextLayout DEF HInv
<1>1. CASE \E p \in Prog : Instruction(p) /\ Bounded
  BY <1>0, <1>1, InstructionKeeps
<1>2. CASE Destroy
  BY <1>0, <1>2, DestroyKeeps
<1>3. CASE RunGC
  BY <1>0, <1>3, VisitKeeps, MarklistKeeps, EndPassKeeps, RestartKeeps DEF RunGC
<1>4. CASE UNCHANGED vars
  BY <1>0, <1>4, StutterKeeps
<1>. QED
  BY <1>1, <1>2, <1>3, <1>4 DEF Next

\* At first the objects are the first blocks.
LEMMA InitLayout == Init => Layout
<1>1. SUFFICES ASSUME Init PROVE Layout
  OBVIOUS
<1>2. PICK mp \in {H, 2} :
        /\ kind = [o \in Obj |-> IF o = 1 THEN "modlink" ELSE IF o = mp THEN "adt" ELSE "free"]
        /\ blocks = {o \in Obj : o <= 2 \/ (o = 3 /\ mp = 2)}
  BY <1>1 DEF Init
<1>3. ASSUME NEW o \in Allocated PROVE o \in blocks
  <2>1. o \in Obj /\ (o = 1 \/ o = mp)
    BY <1>2, <1>3 DEF Allocated
  <2>2. o <= 2
    BY <2>1, <1>2, HeapAssumption
  <2>. QED
    BY <2>1, <2>2, <1>2
<1>. QED
  BY <1>2, <1>3 DEF Layout

\* The heap that disinit sets up: a Modlink, held by M, and its data, if any,
\* which only the Modlink points to.
LEMMA InitHolds == Init => HInv
<1>1. SUFFICES ASSUME Init PROVE HInv
  OBVIOUS
<1>2. PICK p \in Prog, mp \in {H, 2} :
        /\ kind = [o \in Obj |-> IF o = 1 THEN "modlink" ELSE IF o = mp THEN "adt" ELSE "free"]
        /\ ref = [o \in Obj |-> IF o \in {1, mp} THEN 1 ELSE 0]
        /\ fld = [o \in Obj |-> IF o = 1 THEN [Nils EXCEPT ![First] = mp] ELSE Nils]
        /\ stk = [q \in Prog |-> IF q = p THEN <<[slot |-> NoPtrs, mr |-> H]>> ELSE <<>>]
        /\ M = [q \in Prog |-> IF q = p THEN 1 ELSE H]
  BY <1>1 DEF Init
<1>3. /\ color = [o \in Obj |-> 0] /\ built = [q \in Prog |-> FALSE] /\ todo = <<>> /\ walk = H
      /\ ptr = 1 /\ mutator = 0 /\ nprop = FALSE /\ epochs = 0
  BY <1>1 DEF Init
<1>4. /\ 1 \in Obj /\ 2 \in Obj /\ H \notin Obj /\ H # 1 /\ H # 2 /\ First \in 1 .. Fields /\ mp \in Ref /\ mp # 1
      /\ 1 \in 1 .. N + 1
  <2>1. 1 \in Obj /\ 2 \in Obj /\ 1 \in 1 .. N + 1 /\ First \in 1 .. Fields
    BY HeapAssumption DEF Obj, First
  <2>. QED
    BY <2>1, HeapAssumption DEF Ref
<1>5. sweeper = 1 /\ propagator = 3
  BY <1>3 DEF sweeper, propagator
<1>6. /\ Nils \in [1 .. Fields -> Ref] /\ [Nils EXCEPT ![First] = mp] \in [1 .. Fields -> Ref]
      /\ \A f \in 1 .. Fields : Nils[f] = H /\ [Nils EXCEPT ![First] = mp][f] = IF f = First THEN mp ELSE H
  BY <1>4 DEF Nils, Ref
<1> DEFINE frame == [slot |-> NoPtrs, mr |-> H]
<1>7. /\ frame \in Frame /\ <<frame>> \in Seq(Frame) /\ Len(<<frame>>) = 1 /\ <<frame>>[1] = frame
      /\ frame.mr = H /\ \A s \in 1 .. Slots : frame.slot[s] = H
  <2>1. NoPtrs \in [1 .. Slots -> Ref] /\ \A s \in 1 .. Slots : NoPtrs[s] = H
    BY DEF NoPtrs, Ref
  <2>2. H \in Ref
    BY DEF Ref
  <2>3. frame \in Frame
    BY <2>1, <2>2 DEF Frame
  <2>. QED
    BY <2>1, <2>3
<1>8. Typed
  <2>1. kind \in [Obj -> Kind] /\ color \in [Obj -> 0 .. 3] /\ ref \in [Obj -> Nat]
    BY <1>2, <1>3 DEF Kind
  <2>2. fld \in [Obj -> [1 .. Fields -> Ref]]
    BY <1>2, <1>6
  <2>3. stk \in [Prog -> Seq(Frame)] /\ built \in [Prog -> BOOLEAN]
    BY <1>2, <1>3, <1>7
  <2>4. M \in [Prog -> Ref]
    BY <1>2, <1>4 DEF Ref
  <2>5. todo \in Seq([o : Obj, n : Nat]) /\ walk \in Ref
    BY <1>3 DEF Ref
  <2>6. ptr \in 1 .. N + 1 /\ mutator \in 0 .. 2 /\ epochs \in 0 .. 3
    BY <1>3, <1>4
  <2>7. nprop \in BOOLEAN
    BY <1>3
  <2>. QED
    BY <2>1, <2>2, <2>3, <2>4, <2>5, <2>6, <2>7 DEF Typed
<1>9. Allocated = {1, mp} \ {H} /\ Kept = Allocated /\ Found = Allocated
  <2>1. Allocated = {1, mp} \ {H}
    BY <1>2, <1>4 DEF Allocated, Ref
  <2>. QED
    BY <2>1, <1>3, <1>4, <1>5 DEF Kept, Found, Allocated
<1>10. ASSUME NEW o \in Obj, NEW f \in 1 .. Fields
       PROVE  fld[o][f] = IF o = 1 /\ f = First THEN mp ELSE H
  BY <1>2, <1>4, <1>6
<1>11. ASSUME NEW q \in Prog, NEW k \in 0 .. Depth, NEW s \in 0 .. Slots
       PROVE  Held[<<q, k, s>>] = IF q = p /\ k = 0 /\ s = 0 THEN 1 ELSE H
  <2>1. Held[<<q, k, s>>] = InCell(stk, M, q, k, s)
    BY HeldAt DEF Held
  <2>2. CASE k = 0
    BY <2>1, <2>2, <1>2 DEF InCell
  <2>3. CASE k # 0
    <3>1. InCell(stk, M, q, k, s) = H
      <4>1. CASE q # p
        <5>1. Len(stk[q]) = 0 /\ k > Len(stk[q])
          BY <4>1, <2>3, <1>2, HeapAssumption
        <5>. QED
          BY <5>1, <2>3 DEF InCell
      <4>2. CASE q = p
        <5>1. stk[q] = <<frame>> /\ Len(stk[q]) = 1
          BY <4>2, <1>2
        <5>2. ~(k > Len(stk[q])) => k = 1
          BY <5>1, <2>3, HeapAssumption
        <5>3. stk[q][1] = frame
          BY <5>1
        <5>4. s # 0 => s \in 1 .. Slots
          BY HeapAssumption
        <5> HIDE DEF frame
        <5>. QED
          BY <2>3, <5>2, <5>3, <5>4, <1>7 DEF InCell
      <4>. QED
        BY <4>1, <4>2
    <3>. QED
      BY <3>1, <2>1, <2>3
  <2>. QED
    BY <2>2, <2>3
<1> HIDE DEF frame
<1>12. Shapes
  <2>1. \A o \in Obj : kind[o] = "free" => fld[o] = Nils
    BY <1>2
  <2>2. ASSUME NEW q \in Prog PROVE Len(stk[q]) <= Depth /\ ~built[q]
    <3>1. Len(stk[q]) = IF q = p THEN 1 ELSE 0
      BY <1>2
    <3>. QED
      BY <3>1, <1>3, HeapAssumption
  <2>. QED
    BY <2>1, <2>2 DEF Shapes
<1>13. HeldFound
  <2>1. SUFFICES ASSUME NEW c \in Cell PROVE Held[c] \in Found \cup {H}
    BY DEF HeldFound
  <2>2. PICK q \in Prog, k \in 0 .. Depth, s \in 0 .. Slots : c = <<q, k, s>>
    BY DEF Cell
  <2>3. 1 \in Found
    BY <1>4, <1>9
  <2>. QED
    BY <2>2, <2>3, <1>11
<1>14. \A o \in Kept : \A f \in 1 .. Fields : fld[o][f] \in Kept \cup {H}
  <2>1. SUFFICES ASSUME NEW o \in Kept, NEW f \in 1 .. Fields PROVE fld[o][f] \in Kept \cup {H}
    OBVIOUS
  <2>2. o \in Obj /\ mp \in Kept \cup {H}
    BY <1>9 DEF Allocated
  <2>. QED
    BY <2>2, <1>10
<1>15. SeenFound /\ KeptKept
  BY <1>9, <1>14 DEF SeenFound, KeptKept
<1>16. Passed /\ Walking /\ TodoKept
  <2>1. \A o \in Allocated : color[o] = 0
    BY <1>3 DEF Allocated
  <2>. QED
    BY <2>1, <1>3, <1>5 DEF Passed, Walking, TodoKept
<1>17. Counted
  <2>1. SUFFICES ASSUME NEW o \in Allocated
                 PROVE  Occ(Cell, Held, o) + Occ(Field, Pointed, o) + InTodo(todo, o) <= ref[o]
    BY DEF Counted, References
  <2>2. o \in Obj /\ o # H /\ (o = 1 \/ o = mp) /\ ref[o] = 1
    BY <1>2, <1>4, <1>9
  <2>3. InTodo(todo, o) = 0
    BY <1>3, InTodoNone
  <2>4. Occ(Cell, Held, o) = Is(1, o)
    <3> DEFINE c0 == <<p, 0, 0>>
               none == [c \in Cell |-> H]
    <3>1. c0 \in Cell /\ Held[c0] = 1 /\ none[c0] = H
      <4>1. 0 \in 0 .. Depth /\ 0 \in 0 .. Slots
        BY HeapAssumption
      <4>. QED
        BY <4>1, <1>11, HeldAt
    <3>2. \A c \in Cell : c # c0 => none[c] = Held[c]
      <4>1. SUFFICES ASSUME NEW c \in Cell, c # c0 PROVE Held[c] = H
        OBVIOUS
      <4>2. PICK q \in Prog, k \in 0 .. Depth, s \in 0 .. Slots : c = <<q, k, s>>
        BY DEF Cell
      <4>. QED
        BY <4>1, <4>2, <1>11
    <3>3. \A c \in Cell : none[c] # o
      BY <2>2
    <3> HIDE DEF c0, none
    <3>4. Occ(Cell, Held, o) + Is(none[c0], o) = Occ(Cell, none, o) + Is(Held[c0], o)
      BY <3>1, <3>2, PlacesFinite, OccPut
    <3>5. Occ(Cell, none, o) = 0 /\ Occ(Cell, Held, o) \in Nat
      BY <3>3, PlacesFinite, OccNat
    <3>6. Is(none[c0], o) = 0 /\ Is(1, o) \in Nat /\ Is(Held[c0], o) = Is(1, o)
      BY <3>1, <2>2 DEF Is
    <3>. QED
      BY <3>4, <3>5, <3>6
  <2>5. Occ(Field, Pointed, o) = Is(mp, o)
    <3> DEFINE c0 == <<1, First>>
               none == [c \in Field |-> H]
    <3>0. 1 \in Kept
      BY <1>4, <1>9
    <3>1. c0 \in Field /\ Pointed[c0] = mp /\ none[c0] = H
      BY <3>0, <1>4, <1>10, PointedAt DEF Pointed
    <3>2. \A c \in Field : c # c0 => none[c] = Pointed[c]
      <4>1. SUFFICES ASSUME NEW c \in Field, c # c0 PROVE Pointed[c] = H
        OBVIOUS
      <4>2. PICK x \in Obj, f \in 1 .. Fields : c = <<x, f>>
        BY DEF Field
      <4>3. ~(x = 1 /\ f = First)
        BY <4>1, <4>2
      <4>4. fld[x][f] = H
        BY <4>3, <1>10
      <4>5. Pointed[c] = IF x \in Kept THEN fld[x][f] ELSE H
        BY <4>2, PointedAt DEF Pointed
      <4>. QED
        BY <4>4, <4>5
    <3>3. \A c \in Field : none[c] # o
      BY <2>2
    <3> HIDE DEF c0, none
    <3>4. Occ(Field, Pointed, o) + Is(none[c0], o) = Occ(Field, none, o) + Is(Pointed[c0], o)
      BY <3>1, <3>2, PlacesFinite, OccPut
    <3>5. Occ(Field, none, o) = 0 /\ Occ(Field, Pointed, o) \in Nat
      BY <3>3, PlacesFinite, OccNat
    <3>6. Is(none[c0], o) = 0 /\ Is(mp, o) \in Nat /\ Is(Pointed[c0], o) = Is(mp, o)
      BY <3>1, <2>2 DEF Is
    <3>. QED
      BY <3>4, <3>5, <3>6
  <2>6. Is(1, o) + Is(mp, o) <= 1 /\ Is(1, o) \in Nat /\ Is(mp, o) \in Nat
    BY <1>4 DEF Is
  <2>. QED
    BY <2>2, <2>3, <2>4, <2>5, <2>6
<1>. QED
  BY <1>8, <1>12, <1>13, <1>15, <1>16, <1>17 DEF HInv

(***************************************************************************)
(* What is reachable.                                                      *)
(***************************************************************************)
\* Reachable, of any roots rs and any pointers fs.
Reach(rs, fs) ==
  LET R[k \in 0 .. N] ==
        IF k = 0 THEN rs \ {H}
        ELSE R[k - 1] \cup ((UNION {{fs[o][f] : f \in 1 .. Fields} : o \in R[k - 1]}) \ {H})
  IN R[N]

Further(X, fs) == X \cup ((UNION {{fs[o][f] : f \in 1 .. Fields} : o \in X}) \ {H})

Closed(X, fs) == \A o \in X : \A f \in 1 .. Fields : fs[o][f] \in X \cup {H}

\* The roots, and what is reached from them in one step more each time.
Grows(R, rs, fs, X) ==
  /\ R[0] = rs \ {H} /\ \A k \in 1 .. N : R[k] = Further(R[k - 1], fs)
  /\ \A k \in 0 .. N : R[k] \subseteq X

\* Reachable as such a function, within any closed set that has the roots.
LEMMA ReachRecursion ==
  ASSUME NEW rs, NEW fs, NEW X, rs \ {H} \subseteq X, Closed(X, fs)
  PROVE  \E R : Grows(R, rs, fs, X) /\ Reach(rs, fs) = R[N]
<1> DEFINE S == SUBSET X
           first == rs \ {H}
           step == [k \in 1 .. N |-> [Y \in S |-> Further(Y, fs)]]
<1>1. first \in S
  OBVIOUS
<1>2. ASSUME NEW Y \in S PROVE Further(Y, fs) \in S
  <2>1. \A o \in Y : \A f \in 1 .. Fields : fs[o][f] \in X \cup {H}
    BY DEF Closed
  <2>. QED
    BY <2>1 DEF Further
<1>3. N \in Nat /\ step \in [1 .. N -> [S -> S]]
  BY <1>2, HeapAssumption
<1>4. PICK g \in [0 .. N -> S] : GoesOn(g, N, first, step)
  <2> HIDE DEF S, first, step
  <2>. QED
    BY <1>1, <1>3, StepRecursion
<1> DEFINE R[k \in 0 .. N] ==
             IF k = 0 THEN rs \ {H}
             ELSE R[k - 1] \cup ((UNION {{fs[o][f] : f \in 1 .. Fields} : o \in R[k - 1]}) \ {H})
<1>5. R = [k \in 0 .. N |-> IF k = 0 THEN first ELSE Further(R[k - 1], fs)]
  <2>1. \A k \in 0 .. N : g[k] = IF k = 0 THEN first ELSE Further(g[k - 1], fs)
    <3>1. SUFFICES ASSUME NEW k \in 0 .. N, k # 0 PROVE g[k] = Further(g[k - 1], fs)
      BY <1>4 DEF GoesOn
    <3>2. k \in 1 .. N /\ k - 1 \in 0 .. N
      BY <1>3, <3>1
    <3>3. g[k - 1] \in S /\ g[k] = step[k][g[k - 1]]
      BY <3>2, <1>4 DEF GoesOn
    <3> HIDE DEF S
    <3>. QED
      BY <3>2, <3>3
  <2>2. g = [k \in 0 .. N |-> IF k = 0 THEN first ELSE Further(g[k - 1], fs)]
    BY <2>1
  <2>3. g = [k \in 0 .. N |-> IF k = 0 THEN rs \ {H}
                              ELSE g[k - 1] \cup ((UNION {{fs[o][f] : f \in 1 .. Fields} : o \in g[k - 1]}) \ {H})]
    BY <2>2 DEF Further
  <2>4. R = [k \in 0 .. N |-> IF k = 0 THEN rs \ {H}
                              ELSE R[k - 1] \cup ((UNION {{fs[o][f] : f \in 1 .. Fields} : o \in R[k - 1]}) \ {H})]
    BY <2>3
  <2> HIDE DEF R
  <2>. QED
    BY <2>4 DEF Further
<1>6. Reach(rs, fs) = R[N]
  BY DEF Reach
<1> HIDE DEF R
<1>7. R[0] = first /\ \A k \in 1 .. N : R[k] = Further(R[k - 1], fs)
  <2>1. 0 \in 0 .. N /\ \A k \in 1 .. N : k \in 0 .. N /\ k # 0
    BY <1>3
  <2> HIDE DEF first
  <2>. QED
    BY <2>1, <1>5
<1> DEFINE T == {k \in Nat : k <= N => R[k] \in S}
<1>8. 0 \in T
  BY <1>1, <1>7
<1>9. \A k \in Nat : k \in T => k + 1 \in T
  <2>1. SUFFICES ASSUME NEW k \in Nat, R[k] \in S, k + 1 <= N PROVE R[k + 1] \in S
    BY <1>3
  <2> HIDE DEF S
  <2>2. k + 1 \in 1 .. N /\ (k + 1) - 1 = k
    BY <2>1, <1>3
  <2>3. R[k + 1] = Further(R[k], fs)
    BY <2>2, <1>7
  <2>. QED
    BY <2>1, <2>3, <1>2
<1>10. \A k \in Nat : k \in T
  <2> HIDE DEF T
  <2>. QED
    BY <1>8, <1>9, SetInduction
<1>11. \A k \in 0 .. N : R[k] \subseteq X
  BY <1>3, <1>10
<1>. QED
  BY <1>6, <1>7, <1>11 DEF Grows

\* Nothing is reachable outside a closed set.
LEMMA ReachLeast ==
  ASSUME NEW rs, NEW fs, NEW X, rs \ {H} \subseteq X, Closed(X, fs)
  PROVE  Reach(rs, fs) \subseteq X
<1>1. PICK R : Grows(R, rs, fs, X) /\ Reach(rs, fs) = R[N]
  BY ReachRecursion
<1>2. N \in 0 .. N
  BY HeapAssumption
<1>. QED
  BY <1>1, <1>2 DEF Grows

\* Steps as many as there are blocks reach all there is: each finds a block
\* more, or nothing.
LEMMA ReachClosed ==
  ASSUME NEW rs, rs \ {H} \subseteq Obj, NEW fs \in [Obj -> [1 .. Fields -> Ref]]
  PROVE  rs \ {H} \subseteq Reach(rs, fs) /\ Closed(Reach(rs, fs), fs)
<1>1. Closed(Obj, fs)
  BY DEF Closed, Ref
<1>2. PICK R : Grows(R, rs, fs, Obj) /\ Reach(rs, fs) = R[N]
  BY <1>1, ReachRecursion
<1>3. /\ R[0] = rs \ {H} /\ \A k \in 1 .. N : R[k] = Further(R[k - 1], fs)
      /\ \A k \in 0 .. N : R[k] \subseteq Obj
  BY <1>2 DEF Grows
<1>4. N \in Nat /\ IsFiniteSet(Obj) /\ Cardinality(Obj) = N
  <2>1. N \in Nat /\ 1 \in Int /\ N \in Int /\ 1 <= N
    BY HeapAssumption
  <2>2. IsFiniteSet(1 .. N) /\ Cardinality(1 .. N) = IF 1 > N THEN 0 ELSE N - 1 + 1
    BY <2>1, FS_Interval
  <2>. QED
    BY <2>1, <2>2 DEF Obj
<1>5. ASSUME NEW k \in 0 .. N PROVE IsFiniteSet(R[k]) /\ Cardinality(R[k]) \in Nat
  BY <1>3, <1>4, FS_Subset, FS_CardinalityType
<1> DEFINE T == {k \in Nat : k <= N => /\ rs \ {H} \subseteq R[k]
                                       /\ Closed(R[k], fs) \/ Cardinality(R[k]) >= k}
<1>6. 0 \in T
  <2>1. Cardinality(R[0]) \in Nat
    BY <1>4, <1>5
  <2>2. Cardinality(R[0]) >= 0 /\ rs \ {H} \subseteq R[0]
    BY <1>3, <2>1
  <2> HIDE DEF Closed
  <2>. QED
    BY <2>2
<1>7. \A k \in Nat : k \in T => k + 1 \in T
  <2>1. SUFFICES ASSUME NEW k \in Nat, k + 1 <= N, rs \ {H} \subseteq R[k],
                        Closed(R[k], fs) \/ Cardinality(R[k]) >= k
                 PROVE  /\ rs \ {H} \subseteq R[k + 1]
                        /\ Closed(R[k + 1], fs) \/ Cardinality(R[k + 1]) >= k + 1
    BY <1>4
  <2>2. k + 1 \in 1 .. N /\ k + 1 \in 0 .. N /\ k \in 0 .. N /\ (k + 1) - 1 = k
    BY <1>4, <2>1
  <2>3. R[k + 1] = Further(R[k], fs) /\ R[k] \subseteq R[k + 1]
    BY <1>3, <2>2 DEF Further
  <2>4. CASE Closed(R[k], fs)
    <3>1. R[k + 1] = R[k]
      BY <2>3, <2>4 DEF Further, Closed
    <3>. QED
      BY <2>1, <2>4, <3>1
  <2>5. CASE ~Closed(R[k], fs)
    <3>1. PICK o \in R[k], f \in 1 .. Fields : fs[o][f] \notin R[k] \cup {H}
      BY <2>5 DEF Closed
    <3> DEFINE y == fs[o][f]
    <3>2. y \in R[k + 1] /\ y \notin R[k]
      BY <2>3, <3>1 DEF Further
    <3>3. Cardinality(R[k] \cup {y}) = Cardinality(R[k]) + 1
      BY <1>5, <2>2, <3>2, FS_AddElement
    <3>4. R[k] \cup {y} \in SUBSET R[k + 1]
      BY <2>3, <3>2
    <3>5. Cardinality(R[k] \cup {y}) <= Cardinality(R[k + 1])
      BY <1>5, <2>2, <3>4, FS_Subset
    <3>6. Cardinality(R[k]) \in Nat /\ Cardinality(R[k + 1]) \in Nat /\ Cardinality(R[k]) >= k
      BY <1>5, <2>1, <2>2, <2>5
    <3>7. Cardinality(R[k + 1]) >= k + 1
      BY <3>3, <3>5, <3>6
    <3>. QED
      BY <2>1, <2>3, <3>7
  <2>. QED
    BY <2>4, <2>5
<1>8. N \in T
  <2> HIDE DEF T
  <2>. QED
    BY <1>4, <1>6, <1>7, SetInduction
<1>9. rs \ {H} \subseteq R[N] /\ (Closed(R[N], fs) \/ Cardinality(R[N]) >= N)
  BY <1>4, <1>8
<1>10. CASE Cardinality(R[N]) >= N
  <2>1. N \in 0 .. N /\ R[N] \in SUBSET Obj
    BY <1>3, <1>4
  <2>2. Cardinality(R[N]) <= N /\ (Cardinality(R[N]) = Cardinality(Obj) => R[N] = Obj) /\ Cardinality(R[N]) \in Nat
    BY <1>4, <1>5, <2>1, FS_Subset
  <2>3. R[N] = Obj
    BY <1>4, <1>10, <2>2
  <2>. QED
    BY <1>1, <1>2, <1>9, <2>3
<1>. QED
  BY <1>2, <1>9, <1>10

\* Pointers of what is not reachable do not matter.
LEMMA ReachSame ==
  ASSUME NEW rs, rs \ {H} \subseteq Obj, NEW fs \in [Obj -> [1 .. Fields -> Ref]],
         NEW gs \in [Obj -> [1 .. Fields -> Ref]], \A o \in Reach(rs, fs) : gs[o] = fs[o]
  PROVE  Reach(rs, gs) = Reach(rs, fs)
<1>1. rs \ {H} \subseteq Reach(rs, fs) /\ Closed(Reach(rs, fs), fs)
  BY ReachClosed
<1>2. rs \ {H} \subseteq Reach(rs, gs) /\ Closed(Reach(rs, gs), gs)
  BY ReachClosed
<1>3. Closed(Reach(rs, fs), gs)
  BY <1>1 DEF Closed
<1>4. Reach(rs, gs) \subseteq Reach(rs, fs)
  BY <1>1, <1>3, ReachLeast
<1>5. Closed(Reach(rs, gs), fs)
  BY <1>2, <1>4 DEF Closed
<1>6. Reach(rs, fs) \subseteq Reach(rs, gs)
  BY <1>2, <1>5, ReachLeast
<1>. QED
  BY <1>4, <1>6

\* Reachable is Reach of the roots, in this state and in the next.
LEMMA ReachableIs == Reachable = Reach(Roots, fld) /\ Reachable' = Reach(Roots', fld')
BY DEF Reachable, Reach

\* What is reachable was found by this epoch or the one before: the roots
\* are, and what is kept points only to what is kept.
LEMMA ReachableKept == ASSUME HInv PROVE Reachable \subseteq Kept /\ Roots \subseteq Kept \cup {H}
<1>1. /\ Typed /\ Shapes /\ HeldFound /\ KeptKept /\ Found \subseteq Kept
  BY FoundKept DEF HInv
<1>2. Roots \subseteq Kept \cup {H}
  <2>1. First \in 1 .. Fields
    BY HeapAssumption DEF First
  <2>2. \A o \in Found : fld[o][First] \in Kept \cup {H}
    BY <1>1, <2>1 DEF KeptKept
  <2>. QED
    BY <1>1, <2>2, RootsIn
<1>3. Closed(Kept, fld) /\ Roots \ {H} \subseteq Kept
  BY <1>1, <1>2 DEF Closed, KeptKept
<1>. QED
  BY <1>2, <1>3, ReachLeast, ReachableIs

(***************************************************************************)
(* The counts.                                                             *)
(***************************************************************************)
\* The cells that RefsCounted counts are among those of the invariant.
LEMMA CellsCounted ==
  ASSUME Typed, Shapes, NEW o \in Obj
  PROVE  LET links == {p \in Prog : M[p] = o}
             mrs == {c \in Prog \X (1 .. Depth) : c[2] <= Top(c[1]) /\ stk[c[1]][c[2]].mr = o}
             slots == {c \in Prog \X (1 .. Depth) \X (1 .. Slots) :
                         c[2] <= Top(c[1]) /\ stk[c[1]][c[2]].slot[c[3]] = o}
         IN  /\ Cardinality(links) \in Nat /\ Cardinality(mrs) \in Nat /\ Cardinality(slots) \in Nat
             /\ Cardinality(links) + Cardinality(mrs) + Cardinality(slots) <= Occ(Cell, Held, o)
<1> DEFINE links == {p \in Prog : M[p] = o}
           mrs == {c \in Prog \X (1 .. Depth) : c[2] <= Top(c[1]) /\ stk[c[1]][c[2]].mr = o}
           slots == {c \in Prog \X (1 .. Depth) \X (1 .. Slots) :
                       c[2] <= Top(c[1]) /\ stk[c[1]][c[2]].slot[c[3]] = o}
           all == {c \in Cell : Held[c] = o}
           a == [p \in links |-> <<p, 0, 0>>]
           b == [c \in mrs |-> <<c[1], c[2], 0>>]
           A == {a[p] : p \in links}
           B == {b[c] : c \in mrs}
<1>1. o # H
  BY HeapAssumption
<1>2. A \in SUBSET all /\ \A x \in A : x[2] = 0
  <2>0. SUFFICES \A p \in links : a[p] \in all /\ a[p][2] = 0
    <3> HIDE DEF links, a, all
    <3>. QED
      OBVIOUS
  <2>1. SUFFICES ASSUME NEW p \in links PROVE <<p, 0, 0>> \in all
    OBVIOUS
  <2>2. 0 \in 0 .. Depth /\ 0 \in 0 .. Slots
    BY HeapAssumption
  <2>3. <<p, 0, 0>> \in Cell /\ Held[<<p, 0, 0>>] = InCell(stk, M, p, 0, 0)
    BY <2>2, HeldAt DEF Held
  <2>. QED
    BY <2>3 DEF InCell
<1>3. B \in SUBSET all /\ \A x \in B : x[2] # 0 /\ x[3] = 0
  <2>0. SUFFICES \A c \in mrs : b[c] \in all /\ b[c][2] # 0 /\ b[c][3] = 0
    <3> HIDE DEF mrs, b, all
    <3>. QED
      OBVIOUS
  <2>1. SUFFICES ASSUME NEW c \in mrs PROVE <<c[1], c[2], 0>> \in all /\ c[2] # 0
    OBVIOUS
  <2>2. c[1] \in Prog /\ c[2] \in 0 .. Depth /\ c[2] # 0 /\ 0 \in 0 .. Slots
    BY HeapAssumption
  <2>3. ~(c[2] > Len(stk[c[1]]))
    <3>1. Top(c[1]) = Len(stk[c[1]]) /\ Top(c[1]) \in 0 .. Depth
      BY <2>2, StackParts
    <3>. QED
      BY <3>1, <2>2, HeapAssumption
  <2>4. <<c[1], c[2], 0>> \in Cell /\ Held[<<c[1], c[2], 0>>] = InCell(stk, M, c[1], c[2], 0)
    BY <2>2, HeldAt DEF Held
  <2>. QED
    BY <2>2, <2>3, <2>4 DEF InCell
<1>4. slots \in SUBSET all /\ \A x \in slots : x[2] # 0 /\ x[3] # 0
  <2>1. SUFFICES ASSUME NEW c \in slots PROVE c \in all /\ c[2] # 0 /\ c[3] # 0
    OBVIOUS
  <2>2. /\ c[1] \in Prog /\ c[2] \in 0 .. Depth /\ c[2] # 0 /\ c[3] \in 0 .. Slots /\ c[3] # 0
        /\ c = <<c[1], c[2], c[3]>>
    BY HeapAssumption
  <2>3. ~(c[2] > Len(stk[c[1]]))
    <3>1. Top(c[1]) = Len(stk[c[1]]) /\ Top(c[1]) \in 0 .. Depth
      BY <2>2, StackParts
    <3>. QED
      BY <3>1, <2>2, HeapAssumption
  <2>4. <<c[1], c[2], c[3]>> \in Cell /\ Held[<<c[1], c[2], c[3]>>] = InCell(stk, M, c[1], c[2], c[3])
    BY <2>2, HeldAt DEF Held
  <2>. QED
    BY <2>2, <2>3, <2>4 DEF InCell
<1>5. IsFiniteSet(all) /\ Cardinality(all) = Occ(Cell, Held, o)
  BY PlacesFinite, OccNat DEF Occ
<1>6. a \in Bijection(links, A)
  <2>1. \A p, q \in links : a[p] = a[q] => p = q
    OBVIOUS
  <2>2. a \in [links -> A] /\ \A x \in A : \E p \in links : a[p] = x
    OBVIOUS
  <2> HIDE DEF links, a, A
  <2>. QED
    BY <2>1, <2>2 DEF Bijection, Injection, IsInjective, Surjection
<1>7. b \in Bijection(mrs, B)
  <2>1. \A c, d \in mrs : b[c] = b[d] => c = d
    <3>1. SUFFICES ASSUME NEW c \in mrs, NEW d \in mrs, b[c] = b[d] PROVE c = d
      OBVIOUS
    <3>2. c = <<c[1], c[2]>> /\ d = <<d[1], d[2]>>
      OBVIOUS
    <3>3. c[1] = d[1] /\ c[2] = d[2]
      BY <3>1
    <3>. QED
      BY <3>2, <3>3
  <2>2. b \in [mrs -> B] /\ \A x \in B : \E c \in mrs : b[c] = x
    OBVIOUS
  <2> HIDE DEF mrs, b, B
  <2>. QED
    BY <2>1, <2>2 DEF Bijection, Injection, IsInjective, Surjection
<1>8. A \cap B = {} /\ (A \cup B) \cap slots = {} /\ (A \cup B) \cup slots \in SUBSET all
  <2> HIDE DEF A, B, slots, all
  <2>. QED
    BY <1>2, <1>3, <1>4
<1> HIDE DEF links, mrs, slots, all, a, b, A, B
<1>9. IsFiniteSet(A) /\ IsFiniteSet(B) /\ IsFiniteSet(slots) /\ IsFiniteSet(A \cup B)
  <2>1. A \cup B \in SUBSET all
    BY <1>2, <1>3
  <2>. QED
    BY <2>1, <1>2, <1>3, <1>4, <1>5, FS_Subset
<1>10. Cardinality(A) = Cardinality(links) /\ Cardinality(B) = Cardinality(mrs)
  <2>1. links \in SUBSET Prog /\ IsFiniteSet(links)
    <3>1. links \in SUBSET Prog
      BY DEF links
    <3>. QED
      BY <3>1, FiniteAssumption, FS_Subset
  <2>2. IsFiniteSet(mrs)
    <3>1. 1 \in Int /\ Depth \in Int
      BY HeapAssumption
    <3>2. IsFiniteSet(Prog \X (1 .. Depth))
      BY <3>1, FS_Interval, FS_Product, FiniteAssumption
    <3>3. mrs \in SUBSET (Prog \X (1 .. Depth))
      BY DEF mrs
    <3>. QED
      BY <3>2, <3>3, FS_Subset
  <2>3. ExistsBijection(links, A) /\ ExistsBijection(mrs, B)
    BY <1>6, <1>7 DEF ExistsBijection
  <2>. QED
    BY <2>1, <2>2, <2>3, FS_Bijection
<1>11. Cardinality(A \cup B) = Cardinality(A) + Cardinality(B)
  BY <1>8, <1>9, CardDisjoint
<1>12. Cardinality((A \cup B) \cup slots) = Cardinality(A \cup B) + Cardinality(slots)
  BY <1>8, <1>9, CardDisjoint
<1>13. Cardinality((A \cup B) \cup slots) <= Cardinality(all)
  BY <1>5, <1>8, FS_Subset
<1>14. Cardinality(A) \in Nat /\ Cardinality(B) \in Nat /\ Cardinality(slots) \in Nat
  BY <1>9, FS_CardinalityType
<1>15. /\ Cardinality(links) \in Nat /\ Cardinality(mrs) \in Nat /\ Cardinality(slots) \in Nat
       /\ Cardinality(links) + Cardinality(mrs) + Cardinality(slots) <= Occ(Cell, Held, o)
  BY <1>5, <1>10, <1>11, <1>12, <1>13, <1>14
<1>. QED
  BY <1>15 DEF links, mrs, slots

\* The invariant is stronger than RefsCounted.
LEMMA CountedRefs == ASSUME HInv PROVE RefsCounted
<1>1. Typed /\ Shapes /\ Counted /\ Kept \subseteq Allocated /\ Allocated \subseteq Obj
  BY FoundKept DEF HInv
<1>2. SUFFICES ASSUME NEW o \in Allocated
               PROVE  Cardinality({c \in Kept \X (1 .. Fields) : fld[c[1]][c[2]] = o})
                      + Cardinality({p \in Prog : M[p] = o})
                      + Cardinality({c \in Prog \X (1 .. Depth) :
                                       c[2] <= Top(c[1]) /\ stk[c[1]][c[2]].mr = o})
                      + Cardinality({c \in Prog \X (1 .. Depth) \X (1 .. Slots) :
                                       c[2] <= Top(c[1]) /\ stk[c[1]][c[2]].slot[c[3]] = o})
                      + Cardinality({i \in 1 .. Len(todo) : todo[i].o = o})
                      <= ref[o]
  BY DEF RefsCounted
<1> DEFINE fields == {c \in Kept \X (1 .. Fields) : fld[c[1]][c[2]] = o}
           links == {p \in Prog : M[p] = o}
           mrs == {c \in Prog \X (1 .. Depth) : c[2] <= Top(c[1]) /\ stk[c[1]][c[2]].mr = o}
           slots == {c \in Prog \X (1 .. Depth) \X (1 .. Slots) :
                       c[2] <= Top(c[1]) /\ stk[c[1]][c[2]].slot[c[3]] = o}
           drops == {i \in 1 .. Len(todo) : todo[i].o = o}
<1>3. o \in Obj /\ o # H
  BY <1>1, HeapAssumption
<1>4. Cardinality(fields) = Occ(Field, Pointed, o)
  <2>1. fields = {c \in Field : Pointed[c] = o}
    <3>1. ASSUME NEW c \in fields PROVE c \in {d \in Field : Pointed[d] = o}
      <4>1. c[1] \in Kept /\ c[1] \in Obj /\ c[2] \in 1 .. Fields /\ c = <<c[1], c[2]>>
        BY <1>1
      <4>2. <<c[1], c[2]>> \in Field /\ Pointed[<<c[1], c[2]>>] = fld[c[1]][c[2]]
        BY <4>1, PointedAt DEF Pointed
      <4>. QED
        BY <4>1, <4>2
    <3>2. ASSUME NEW c \in Field, Pointed[c] = o PROVE c \in fields
      <4>1. PICK x \in Obj, f \in 1 .. Fields : c = <<x, f>>
        BY DEF Field
      <4>2. Pointed[c] = IF x \in Kept THEN fld[x][f] ELSE H
        BY <4>1, PointedAt DEF Pointed
      <4>. QED
        BY <4>1, <4>2, <3>2, <1>3
    <3> HIDE DEF fields
    <3>3. \A c \in fields : c \in Field /\ Pointed[c] = o
      BY <3>1
    <3>. QED
      BY <3>2, <3>3
  <2>. QED
    BY <2>1 DEF Occ
<1>5. Cardinality(drops) = InTodo(todo, o)
  <2>1. Len(Objs(todo)) = Len(todo) /\ \A i \in 1 .. Len(todo) : Objs(todo)[i] = todo[i].o
    <3>1. todo \in Seq(Item)
      BY <1>1 DEF Typed, Item
    <3>2. Len(todo) \in Nat
      BY <3>1
    <3>. QED
      BY <3>2 DEF Objs
  <2>2. drops = {i \in 1 .. Len(Objs(todo)) : Objs(todo)[i] = o}
    BY <2>1
  <2>. QED
    BY <2>2 DEF InTodo, InSeq, Occ
<1>6. /\ Cardinality(links) \in Nat /\ Cardinality(mrs) \in Nat /\ Cardinality(slots) \in Nat
      /\ Cardinality(links) + Cardinality(mrs) + Cardinality(slots) <= Occ(Cell, Held, o)
  BY <1>1, <1>3, CellsCounted
<1>7. Occ(Cell, Held, o) + Occ(Field, Pointed, o) + InTodo(todo, o) <= ref[o]
  BY <1>1 DEF Counted, References
<1>8. /\ Occ(Cell, Held, o) \in Nat /\ Occ(Field, Pointed, o) \in Nat /\ InTodo(todo, o) \in Nat
      /\ ref[o] \in Nat
  BY <1>1, <1>3, CountsNat
<1> DEFINE h == Occ(Cell, Held, o)
           f0 == Cardinality(fields)
           l0 == Cardinality(links)
           m0 == Cardinality(mrs)
           s0 == Cardinality(slots)
           d0 == Cardinality(drops)
           r0 == ref[o]
<1>9. /\ l0 \in Nat /\ m0 \in Nat /\ s0 \in Nat /\ l0 + m0 + s0 <= h /\ h + f0 + d0 <= r0
      /\ h \in Nat /\ f0 \in Nat /\ d0 \in Nat /\ r0 \in Nat
  BY <1>4, <1>5, <1>6, <1>7, <1>8
<1>10. f0 + l0 + m0 + s0 + d0 <= r0
  <2> HIDE DEF h, f0, l0, m0, s0, d0, r0
  <2>. QED
    BY <1>9
<1>. QED
  BY <1>10

(***************************************************************************)
(* Idle epochs find all garbage.                                           *)
(***************************************************************************)
\* The roots are reachable and so is what reachable objects point to, all of
\* it kept.
LEMMA ReachableParts ==
  ASSUME HInv
  PROVE  /\ Reachable = Reach(Roots, fld) /\ Roots \ {H} \subseteq Reachable
         /\ Closed(Reachable, fld) /\ Reachable \subseteq Kept
<1>1. Reachable \subseteq Kept /\ Roots \subseteq Kept \cup {H}
  BY ReachableKept
<1>2. Kept \subseteq Obj /\ fld \in [Obj -> [1 .. Fields -> Ref]]
  BY FoundKept DEF HInv, Typed
<1>3. Roots \ {H} \subseteq Obj
  BY <1>1, <1>2
<1>4. Reachable = Reach(Roots, fld)
  BY ReachableIs
<1>5. Roots \ {H} \subseteq Reach(Roots, fld) /\ Closed(Reach(Roots, fld), fld)
  BY <1>2, <1>3, ReachClosed
<1>. QED
  BY <1>1, <1>4, <1>5

\* epochs counts how much of the garbage is known: one idle epoch finds
\* only what is reachable, the next keeps only that, and sweeps the rest.
Quiet ==
  /\ epochs >= 1 => todo = <<>> /\ Found \subseteq Reachable
  /\ epochs >= 2 => Kept \subseteq Reachable
  /\ epochs = 3 => Allocated \subseteq Reachable

\* A step of the collector that moves no reference and changes only the
\* colours of what is reachable.
Recolours ==
  /\ UNCHANGED <<kind, fld, stk, M, todo, mutator, epochs>>
  /\ epochs >= 1 => \A o \in Obj : color'[o] = color[o] \/ o \in Reachable

\* Such a step keeps what epochs counts.
LEMMA RecoloursQuiet == ASSUME HInv, Quiet, Recolours PROVE Quiet'
<1>1. /\ kind' = kind /\ fld' = fld /\ stk' = stk /\ M' = M /\ todo' = todo /\ mutator' = mutator
      /\ epochs' = epochs
      /\ epochs >= 1 => \A o \in Obj : color'[o] = color[o] \/ o \in Reachable
  BY DEF Recolours
<1>2. Reachable' = Reachable
  <2>1. Roots' = Roots
    BY <1>1 DEF Roots, MP, Frames, Top
  <2>. QED
    BY <1>1, <2>1, ReachableIs
<1>3. Allocated' = Allocated /\ sweeper' = sweeper /\ propagator' = propagator /\ Allocated \subseteq Obj
  BY <1>1 DEF Allocated, sweeper, propagator
<1>4. epochs >= 1 => Found' \subseteq Found \cup Reachable /\ Kept' \subseteq Kept \cup Reachable
  <2>1. SUFFICES ASSUME epochs >= 1, NEW o \in Allocated, o \notin Reachable
                 PROVE  (o \in Found' => o \in Found) /\ (o \in Kept' => o \in Kept)
    BY <1>3 DEF Found, Kept
  <2>2. color'[o] = color[o]
    BY <1>1, <1>3, <2>1
  <2>. QED
    BY <1>1, <1>3, <2>2 DEF Found, Kept
<1>5. epochs \in 0 .. 3
  BY DEF HInv, Typed
<1>6. epochs >= 2 => epochs >= 1
  BY <1>5
<1>. QED
  BY <1>1, <1>2, <1>3, <1>4, <1>6 DEF Quiet

\* What is reachable points to what is reachable.
LEMMA PointersReachable ==
  ASSUME HInv, NEW o \in Reachable
  PROVE  Pointers(o) \subseteq Reachable \cup {H} /\ fld[o][First] \in Reachable \cup {H}
<1>1. \A f \in 1 .. Fields : fld[o][f] \in Reachable \cup {H}
  BY ReachableParts DEF Closed
<1>2. First \in 1 .. Fields /\ 2 .. Fields \subseteq 1 .. Fields
  BY HeapAssumption DEF First
<1>. QED
  BY <1>1, <1>2 DEF Pointers

\* The visit of a propagator.
LEMMA MarkQuiet ==
  ASSUME HInv, Layout, Quiet, Visit, kind[ptr] # "free", color[ptr] = propagator
  PROVE  Quiet'
<1> DEFINE c == [color EXCEPT ![ptr] = mutator]
<1>1. /\ Setmark(c, Pointers(ptr)) /\ kind' = kind /\ fld' = fld /\ ptr \in blocks
      /\ UNCHANGED <<stk, M, todo, mutator, epochs>>
  BY DEF Visit, Collect
<1>2. Typed /\ Allocated \subseteq Obj
  BY FoundKept DEF HInv
<1>3. ptr \in Found /\ ptr \in Obj
  <2>1. ptr \in Obj
    BY <1>1 DEF Layout
  <2>. QED
    BY <2>1 DEF Found, Allocated
<1>4. ASSUME epochs >= 1, NEW o \in Obj PROVE color'[o] = color[o] \/ o \in Reachable
  <2>1. ptr \in Reachable
    BY <1>3, <1>4 DEF Quiet
  <2>2. Pointers(ptr) \subseteq Reachable \cup {H}
    BY <2>1, PointersReachable
  <2>3. color'[o] = IF o \in Pointers(ptr) /\ c[o] # mutator THEN propagator ELSE c[o]
    BY <1>1 DEF Setmark
  <2>4. o # ptr => c[o] = color[o]
    BY <1>2 DEF Typed
  <2>5. o # H
    BY HeapAssumption
  <2> HIDE DEF c
  <2>. QED
    BY <2>1, <2>2, <2>3, <2>4, <2>5
<1>5. Recolours
  BY <1>1, <1>4 DEF Recolours
<1>. QED
  BY <1>5, RecoloursQuiet

\* A block is swept.
LEMMA SweepQuiet ==
  ASSUME HInv, Layout, Quiet, Visit, kind[ptr] # "free", color[ptr] = sweeper
  PROVE  Quiet'
<1>1. Typed /\ Kept \subseteq Allocated /\ Allocated \subseteq Obj /\ propagator # sweeper /\ mutator # sweeper
  BY FoundKept, Colours DEF HInv
<1>2. /\ PoolFree(ptr) /\ ptr \in blocks /\ stk' = stk /\ M' = M /\ todo' = todo /\ mutator' = mutator /\ epochs' = epochs
  BY <1>1 DEF Visit, Collect
<1>3. ptr \in Obj /\ ptr \notin Kept
  BY <1>1, <1>2 DEF Layout, Kept
<1>4. /\ \A o \in Obj : o # ptr => kind'[o] = kind[o] /\ color'[o] = color[o] /\ fld'[o] = fld[o]
      /\ kind'[ptr] = "free" /\ fld' \in [Obj -> [1 .. Fields -> Ref]]
  <2>1. Nils \in [1 .. Fields -> Ref]
    BY DEF Nils, Ref
  <2>. QED
    BY <1>1, <1>2, <1>3, <2>1 DEF Typed, PoolFree
<1>5. Reachable' = Reachable
  <2>1. \A o \in Reachable : fld'[o] = fld[o] /\ o \in Obj
    BY <1>1, <1>3, <1>4, ReachableParts
  <2>2. Roots' = Roots
    <3> DEFINE links == (UNION {{M[p]} \cup {f.mr : f \in Frames(p)} : p \in Prog}) \ {H}
               slots == UNION {{f.slot[s] : f \in Frames(p), s \in 1 .. Slots} : p \in Prog}
    <3>1. Roots = links \cup {MP(m) : m \in links} \cup slots
      BY DEF Roots
    <3>2. links' = links /\ slots' = slots
      BY <1>2 DEF Frames, Top
    <3>3. Roots' = links \cup {MP(m)' : m \in links} \cup slots
      BY <1>2 DEF Roots, Frames, Top
    <3>4. H \notin links
      <4> DEFINE U == (UNION {{M[p]} \cup {f.mr : f \in Frames(p)} : p \in Prog})
      <4>1. links = U \ {H}
        OBVIOUS
      <4> HIDE DEF U, links
      <4>. QED
        BY <4>1
    <3> HIDE DEF links, slots
    <3>5. ASSUME NEW m \in links PROVE MP(m)' = MP(m)
      <4>1. m \in Reachable
        BY <3>1, <3>4, ReachableParts
      <4>. QED
        BY <4>1, <2>1 DEF MP
    <3>. QED
      BY <3>1, <3>3, <3>5
  <2>3. Roots \ {H} \subseteq Obj
    BY <1>1, ReachableParts
  <2>4. Reach(Roots, fld') = Reach(Roots, fld)
    <3> DEFINE rs == Roots
               fs == fld
               gs == fld'
    <3>1. /\ rs \ {H} \subseteq Obj /\ fs \in [Obj -> [1 .. Fields -> Ref]] /\ gs \in [Obj -> [1 .. Fields -> Ref]]
          /\ \A o \in Reach(rs, fs) : gs[o] = fs[o]
      BY <1>1, <1>4, <2>1, <2>3, ReachableParts DEF Typed
    <3> HIDE DEF rs, fs, gs
    <3>2. Reach(rs, gs) = Reach(rs, fs)
      BY <3>1, ReachSame
    <3>. QED
      BY <3>2 DEF rs, fs, gs
  <2>. QED
    BY <2>2, <2>4, ReachableIs
<1>6. Allocated' \subseteq Allocated /\ ptr \notin Allocated' /\ sweeper' = sweeper /\ propagator' = propagator
  BY <1>2, <1>4 DEF Allocated, sweeper, propagator
<1>7. Found' \subseteq Found /\ Kept' \subseteq Kept
  <2>1. SUFFICES ASSUME NEW o \in Allocated' PROVE (o \in Found' => o \in Found) /\ (o \in Kept' => o \in Kept)
    BY DEF Found, Kept
  <2>2. o \in Allocated /\ o \in Obj /\ color'[o] = color[o]
    BY <1>1, <1>4, <1>6
  <2>. QED
    BY <1>2, <1>6, <2>2 DEF Found, Kept
<1>. QED
  BY <1>2, <1>5, <1>6, <1>7 DEF Quiet

\* A visit.
LEMMA VisitQuiet == ASSUME HInv, Layout, Quiet, Visit PROVE Quiet'
<1>1. CASE kind[ptr] # "free" /\ color[ptr] = propagator
  BY <1>1, MarkQuiet
<1>2. CASE kind[ptr] # "free" /\ color[ptr] = sweeper
  BY <1>2, SweepQuiet
<1>3. CASE ~(kind[ptr] # "free" /\ color[ptr] \in {propagator, sweeper})
  <2>1. Recolours
    BY <1>3 DEF Visit, Collect, Recolours, objVars
  <2>. QED
    BY <2>1, RecoloursQuiet
<1>. QED
  BY <1>1, <1>2, <1>3

\* marklist goes on.
LEMMA MarklistQuiet == ASSUME HInv, Quiet, Marklist PROVE Quiet'
<1> DEFINE l == fld[walk][First]
           data == Pointers(l)
           after == fld[l][First]
           c == [o \in Obj |-> IF o = after THEN propagator ELSE color[o]]
<1>1. /\ UNCHANGED <<kind, fld, stk, M, todo, mutator, epochs>> /\ walk # H
      /\ \/ l = H /\ color' = color
         \/ l # H /\ Setmark(color, {l} \cup data)
         \/ l # H /\ Setmark(c, {l, after} \cup data)
  BY DEF Marklist, Collect
<1>2. walk \in Found
  BY <1>1 DEF HInv, Walking
<1>3. ASSUME epochs >= 1, NEW o \in Obj PROVE color'[o] = color[o] \/ o \in Reachable
  <2>1. walk \in Reachable
    BY <1>2, <1>3 DEF Quiet
  <2>2. l \in Reachable \cup {H}
    BY <2>1, PointersReachable
  <2>3. l # H => data \subseteq Reachable \cup {H} /\ after \in Reachable \cup {H}
    BY <2>2, PointersReachable
  <2>4. o # H
    BY HeapAssumption
  <2>5. CASE l = H /\ color' = color
    BY <2>5
  <2>6. CASE l # H /\ Setmark(color, {l} \cup data)
    <3>1. color'[o] = IF o \in {l} \cup data /\ color[o] # mutator THEN propagator ELSE color[o]
      BY <2>6 DEF Setmark
    <3> HIDE DEF l, data
    <3>. QED
      BY <3>1, <2>2, <2>3, <2>4, <2>6
  <2>7. CASE l # H /\ Setmark(c, {l, after} \cup data)
    <3>1. color'[o] = IF o \in {l, after} \cup data /\ c[o] # mutator THEN propagator ELSE c[o]
      BY <2>7 DEF Setmark
    <3>2. o # after => c[o] = color[o]
      OBVIOUS
    <3> HIDE DEF l, data, after, c
    <3>. QED
      BY <3>1, <3>2, <2>2, <2>3, <2>4, <2>7
  <2>. QED
    BY <1>1, <2>5, <2>6, <2>7
<1>4. Recolours
  BY <1>1, <1>3 DEF Recolours
<1>. QED
  BY <1>4, RecoloursQuiet

\* The end of a pass.
LEMMA EndPassQuiet == ASSUME HInv, Quiet, EndPass PROVE Quiet'
<1>1. CASE nprop
  <2>1. Recolours
    BY <1>1 DEF EndPass, Recolours, progVars
  <2>. QED
    BY <2>1, RecoloursQuiet
<1>2. CASE ~nprop
  <2>1. /\ Kept' = Found /\ Found' = Roots \ {H} /\ Allocated' = Allocated /\ Allocated = Kept
    BY <1>2, EpochSets
  <2>2. /\ epochs' = (IF epochs < 3 THEN epochs + 1 ELSE 3) /\ fld' = fld /\ stk' = stk /\ M' = M
        /\ todo' = todo /\ todo = <<>>
    BY <1>2 DEF EndPass, progVars, Busy
  <2>3. Reachable' = Reachable
    <3>1. Roots' = Roots
      BY <2>2 DEF Roots, MP, Frames, Top
    <3>. QED
      BY <2>2, <3>1, ReachableIs
  <2>4. Roots \ {H} \subseteq Reachable
    BY ReachableParts
  <2>5. epochs \in 0 .. 3
    BY DEF HInv, Typed
  <2>6. (epochs' >= 2 => epochs >= 1) /\ (epochs' = 3 => epochs >= 2)
    BY <2>2, <2>5
  <2>. QED
    BY <2>1, <2>2, <2>3, <2>4, <2>6 DEF Quiet
<1>. QED
  BY <1>1, <1>2

\* A pass begins again.
LEMMA RestartQuiet == ASSUME HInv, DataAsHeader = FALSE, Quiet, Restart PROVE Quiet'
<1>1. Recolours
  BY DEF Restart, Misread, Collect, Recolours, objVars
<1>. QED
  BY <1>1, RecoloursQuiet

\* An instruction starts the count anew.
LEMMA InstructionMutates == ASSUME NEW p \in Prog, Instruction(p) PROVE epochs' = 0
<1>1. CASE Movp(p) \/ NewAdt(p) \/ Cons(p)
  BY <1>1 DEF Movp, MovpTo, NewAdt, Cons, Mutate
<1>2. CASE Load(p) \/ LoadFails(p) \/ LoadSelf(p)
  BY <1>2 DEF Load, LoadFails, LoadSelf, Mutate
<1>3. CASE NewFrame(p) \/ Call(p) \/ Mcall(p)
  BY <1>3 DEF NewFrame, Call, Mcall, Mutate
<1>4. CASE Ret(p) \/ Unwind(p) \/ Exit(p)
  BY <1>4 DEF Ret, Unwind, Exit, Mutate
<1>5. CASE \E q \in Prog : Communicate(p, q) \/ Spawn(p, q)
  BY <1>5 DEF Communicate, MovpTo, Spawn, SpawnIn, Mutate
<1>. QED
  BY <1>1, <1>2, <1>3, <1>4, <1>5 DEF Instruction

\* Every step.
LEMMA NextQuiet == ASSUME HInv, Layout, DataAsHeader = FALSE, Quiet, [Next]_vars PROVE Quiet'
<1>0. epochs \in 0 .. 3
  BY DEF HInv, Typed
<1>1. CASE \E p \in Prog : Instruction(p) /\ Bounded
  <2>1. epochs' = 0
    BY <1>1, InstructionMutates
  <2>. QED
    BY <2>1 DEF Quiet
<1>2. CASE Destroy
  <2>1. todo # <<>> /\ epochs' = epochs
    BY <1>2 DEF Destroy, gcVars
  <2>2. epochs = 0
    BY <1>0, <2>1 DEF Quiet
  <2>. QED
    BY <2>1, <2>2 DEF Quiet
<1>3. CASE RunGC
  BY <1>3, VisitQuiet, MarklistQuiet, EndPassQuiet, RestartQuiet DEF RunGC
<1>4. CASE UNCHANGED vars
  <2>1. Recolours
    BY <1>4 DEF vars, objVars, progVars, gcVars, Recolours
  <2>. QED
    BY <2>1, RecoloursQuiet
<1>. QED
  BY <1>1, <1>2, <1>3, <1>4 DEF Next

(***************************************************************************)
(* The theorems.                                                           *)
(***************************************************************************)
\* Whatever the Progs execute, and however the collector's visits come
\* between, the inductive invariant holds, and objects begin where blocks do.
THEOREM HeapInvariant == ASSUME CopiesUnmarked = FALSE, DataAsHeader = FALSE PROVE Spec => [](HInv /\ Layout)
<1>1. Init => HInv /\ Layout
  BY InitHolds, InitLayout
<1>2. HInv /\ Layout /\ [Next]_vars => HInv' /\ Layout'
  BY NextKeeps
<1>. QED
  BY <1>1, <1>2, PTL DEF Spec

\* Every variable of the heap, the Progs and the collector has its type:
\* no stack or list of what is to be destroyed gets a reference to nowhere.
THEOREM HeapTyped == ASSUME CopiesUnmarked = FALSE, DataAsHeader = FALSE PROVE Spec => []TypeOK
<1>1. HInv /\ Layout => TypeOK
  BY DEF HInv, Typed, Layout, TypeOK
<1>. QED
  BY <1>1, HeapInvariant, PTL

\* The collector's invariant: what has been visited, and what a Prog holds,
\* points to nothing that this epoch has yet to find.
THEOREM NothingLost == ASSUME CopiesUnmarked = FALSE, DataAsHeader = FALSE PROVE Spec => []NoLostObject
<1>1. HInv => NoLostObject
  <2>1. SUFFICES ASSUME HInv PROVE NoLostObject
    OBVIOUS
  <2>2. Typed /\ Shapes /\ HeldFound /\ SeenFound /\ KeptKept
    BY <2>1 DEF HInv
  <2>3. ASSUME NEW p \in Prog
        PROVE  {M[p]} \cup (UNION {{f.mr} \cup {f.slot[s] : s \in 1 .. Slots} : f \in Frames(p)})
               \subseteq Found \cup {H}
    <3>1. M[p] \in Found \cup {H}
      BY <2>2, HoldsFound
    <3>2. ASSUME NEW f \in Frames(p) PROVE {f.mr} \cup {f.slot[s] : s \in 1 .. Slots} \subseteq Found \cup {H}
      <4>1. PICK k \in 1 .. Top(p) : f = stk[p][k]
        BY DEF Frames
      <4>. QED
        BY <2>2, <4>1, HoldsFound
    <3>. QED
      BY <3>1, <3>2
  <2>4. \A o \in {x \in Allocated : color[x] = mutator /\ x # walk}, f \in 1 .. Fields :
          fld[o][f] \in Found \cup {H}
    BY <2>2 DEF SeenFound, Found
  <2>. QED
    BY <2>2, <2>3, <2>4 DEF NoLostObject, Found, KeptKept
<1>. QED
  BY <1>1, HeapInvariant, PTL

\* Nothing a Prog can reach is freed, by destroy or by the collector, while
\* blocks split and join and a pass of the collector may lose its place and
\* begin again: for any heap in which no data is taken for a block's header.
\* Where it is (gc.c:303) the code does free what is reachable.
THEOREM NothingDangles == ASSUME CopiesUnmarked = FALSE, DataAsHeader = FALSE PROVE Spec => []NoDangling
<1>1. HInv => NoDangling
  BY ReachableKept, FoundKept DEF HInv, NoDangling
<1>. QED
  BY <1>1, HeapInvariant, PTL

\* A reference count is never less than the references there are.
THEOREM ReferencesCounted == ASSUME CopiesUnmarked = FALSE, DataAsHeader = FALSE PROVE Spec => []RefsCounted
<1>1. HInv => RefsCounted
  BY CountedRefs
<1>. QED
  BY <1>1, HeapInvariant, PTL

\* destroy is never called for a block that is free, as its check expects.
THEOREM DestroyedAllocated == ASSUME CopiesUnmarked = FALSE, DataAsHeader = FALSE PROVE Spec => []DestroyConsistent
<1>1. HInv => DestroyConsistent
  BY FoundKept DEF HInv, TodoKept, DestroyConsistent
<1>. QED
  BY <1>1, HeapInvariant, PTL

\* Three epochs in idle time free all garbage: what is left is reachable.
THEOREM GarbageFound == ASSUME CopiesUnmarked = FALSE, DataAsHeader = FALSE PROVE Spec => []IdleCollects
<1>1. Init => Quiet
  <2>1. Init => epochs = 0
    BY DEF Init
  <2>. QED
    BY <2>1 DEF Quiet
<1>2. HInv /\ Layout /\ Quiet /\ [Next]_vars => Quiet'
  BY NextQuiet
<1>3. Quiet => IdleCollects
  BY DEF Quiet, IdleCollects
<1>. QED
  BY <1>1, <1>2, <1>3, HeapInvariant, PTL DEF Spec
=============================================================================
