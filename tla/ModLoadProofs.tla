--------------------------- MODULE ModLoadProofs ---------------------------
(***************************************************************************)
(* Theorems about ModLoad: a module is there for as long as someone refers *)
(* to it, and a load never gives its Prog a module older than the file.    *)
(*                                                                         *)
(* References are counted as a function c from modules to numbers, and     *)
(* Good(t, c) says that the table t = [list, mod] is well formed and that  *)
(* its counts are c.  Each operation of the table changes c at one module, *)
(* so an action is a chain of such changes, from the counts of the state   *)
(* before it to those of the state after it.                               *)
(***************************************************************************)
EXTENDS ModLoad, FiniteSetTheorems, SequenceTheorems, TLAPS

Id == Nat \ {Nil}
FileKind == Kinds \cup {"dis", "none", "bad"}
Code == [vers : Nat, kind : FileKind]
Rec == [path : Path \cup {"", "boot"}, label : Nat, vers : Nat,
        kind : FileKind, ref : Id, kept : Nat]
Job == [pc : {"idle", "open", "fstat", "native", "read", "acquire"},
        m : Nat, ans : Nat, label : Nat, code : Code, since : Nat]

\* One more reference to m, which may be Nil.
More(c, m) == IF m = Nil THEN c ELSE [c EXCEPT ![m] = @ + 1]

\* A table that holds each of its modules once, with the counts c.
Good(t, c) ==
  /\ t = [list |-> t.list, mod |-> t.mod]
  /\ t.list \in Seq(Id) /\ IsInjective(t.list) /\ Range(t.list) = DOMAIN t.mod
  /\ t.mod \in [DOMAIN t.mod -> Rec]
  /\ c \in [Id -> Nat]
  /\ \A m \in DOMAIN t.mod : t.mod[m].ref = t.mod[m].kept + c[m]
  /\ \A m \in Id : c[m] > 0 => m \in DOMAIN t.mod

\* What is left of t in u is as it was, and what is kept for ever is left.
Smaller(t, u) ==
  /\ DOMAIN u.mod \subseteq DOMAIN t.mod
  /\ \A m \in DOMAIN u.mod : /\ u.mod[m].vers = t.mod[m].vers
                             /\ u.mod[m].label = t.mod[m].label
                             /\ u.mod[m].kept >= t.mod[m].kept
  /\ \A m \in DOMAIN t.mod : t.mod[m].kept > 0 => m \in DOMAIN u.mod

-----------------------------------------------------------------------------
(* Counting.                                                               *)

\* A count with one reference more is a count.
LEMMA MoreType ==
  ASSUME NEW c \in [Id -> Nat], NEW m \in Nat
  PROVE  More(c, m) \in [Id -> Nat]
  BY DEF More, Id

\* The order in which references are added does not matter.
LEMMA MoreCommutes ==
  ASSUME NEW c \in [Id -> Nat], NEW m \in Nat, NEW k \in Nat
  PROVE  More(More(c, m), k) = More(More(c, k), m)
<1>1. ASSUME m \in Id, k \in Id, m # k
      PROVE  More(More(c, m), k) = More(More(c, k), m)
  BY <1>1 DEF More, Id
<1>2. QED
  BY <1>1 DEF More, Id

\* A module that is not counted more than the others is counted as before.
LEMMA MoreAt ==
  ASSUME NEW c \in [Id -> Nat], NEW m \in Nat, NEW k \in Id
  PROVE  More(c, m)[k] = IF k = m THEN c[k] + 1 ELSE c[k]
  BY DEF More, Id

\* What is smaller than a smaller table is smaller.
LEMMA SmallerTransitive ==
  ASSUME NEW t, NEW u, NEW v, Smaller(t, u), Smaller(u, v),
         \A m \in DOMAIN t.mod : t.mod[m].kept \in Nat,
         \A m \in DOMAIN u.mod : u.mod[m].kept \in Nat,
         \A m \in DOMAIN v.mod : v.mod[m].kept \in Nat
  PROVE  Smaller(t, v)
  BY DEF Smaller

-----------------------------------------------------------------------------
(* The operations of the table.                                            *)

\* The first occurrence of m in a list without duplicates is the only one.
LEMMA RemoveFirstOnly ==
  ASSUME NEW s \in Seq(Id), IsInjective(s), NEW m \in Range(s)
  PROVE  LET r == RemoveFirst(s, m)
         IN r \in Seq(Id) /\ IsInjective(r) /\ Range(r) = Range(s) \ {m}
<1>1. PICK k \in 1..Len(s) : s[k] = m
  BY DEF Range
<1>2. {i \in 1..Len(s) : s[i] = m} = {k}
  BY <1>1 DEF IsInjective
<1>3. Min({k}) = k
  BY DEF Min
<1>4. RemoveFirst(s, m) = RemoveAt(s, k)
  BY <1>1, <1>2, <1>3 DEF RemoveFirst, SelectInSeq
<1> DEFINE a == SubSeq(s, 1, k - 1)
           b == SubSeq(s, k + 1, Len(s))
           r == a \o b
<1>5. /\ a \in Seq(Id) /\ Len(a) = k - 1 /\ \A i \in 1..(k - 1) : a[i] = s[i]
      /\ b \in Seq(Id) /\ Len(b) = Len(s) - k /\ \A i \in 1..(Len(s) - k) : b[i] = s[k + i]
  <2>1. a \in Seq(Id) /\ Len(a) = (IF 1 <= k - 1 THEN k - 1 ELSE 0)
        /\ \A i \in 1..(k - 1) : a[i] = s[1 + i - 1]
    <3>1. \A i \in 1..(k - 1) : s[i] \in Id
      BY ElementOfSeq
    <3>2. (k - 1) - 1 + 1 = k - 1 /\ k - 1 \in Int /\ 1 \in Int
      OBVIOUS
    <3>3. QED
      BY <3>1, <3>2, SubSeqProperties
  <2>2. b \in Seq(Id) /\ Len(b) = (IF k + 1 <= Len(s) THEN Len(s) - k ELSE 0)
        /\ \A i \in 1..(Len(s) - k) : b[i] = s[k + 1 + i - 1]
    <3>1. \A i \in (k + 1)..Len(s) : s[i] \in Id
      BY ElementOfSeq
    <3>2. Len(s) - (k + 1) + 1 = Len(s) - k /\ k + 1 \in Int /\ Len(s) \in Int
      OBVIOUS
    <3>3. QED
      BY <3>1, <3>2, SubSeqProperties
  <2>3. QED
    BY <2>1, <2>2
<1> HIDE DEF a, b
<1>6. /\ r \in Seq(Id) /\ Len(r) = Len(s) - 1
      /\ \A i \in 1..(Len(s) - 1) : r[i] = IF i < k THEN s[i] ELSE s[i + 1]
  <2>1. /\ r \in Seq(Id) /\ Len(r) = Len(a) + Len(b)
        /\ \A i \in 1..(Len(a) + Len(b)) : r[i] = IF i <= Len(a) THEN a[i] ELSE b[i - Len(a)]
    BY <1>5, ConcatProperties
  <2>2. Len(a) = k - 1 /\ Len(b) = Len(s) - k /\ Len(s) \in Nat /\ k \in 1..Len(s)
    BY <1>5, LenProperties
  <2>3. ASSUME NEW i \in 1..(Len(s) - 1), i < k
        PROVE  r[i] = s[i]
    BY <1>5, <2>1, <2>2, <2>3
  <2>4. ASSUME NEW i \in 1..(Len(s) - 1), ~(i < k)
        PROVE  r[i] = s[i + 1]
    <3>1. /\ i \in 1..(Len(a) + Len(b)) /\ ~(i <= Len(a))
          /\ i - Len(a) \in 1..(Len(s) - k) /\ k + (i - Len(a)) = i + 1
      BY <2>2, <2>4
    <3>2. r[i] = b[i - Len(a)] /\ b[i - Len(a)] = s[k + (i - Len(a))]
      BY <1>5, <2>1, <3>1
    <3>3. QED
      BY <3>1, <3>2
  <2>5. Len(r) = Len(s) - 1
    BY <2>1, <2>2
  <2>6. QED
    BY <2>1, <2>3, <2>4, <2>5
<1>7. RemoveFirst(s, m) = r
  BY <1>4 DEF RemoveAt, a, b
<1> HIDE DEF r
<1>8. IsInjective(r)
  <2>1. ASSUME NEW i \in 1..Len(r), NEW j \in 1..Len(r), r[i] = r[j]
        PROVE  i = j
    <3> DEFINE x == IF i < k THEN i ELSE i + 1
               y == IF j < k THEN j ELSE j + 1
    <3>1. x \in 1..Len(s) /\ y \in 1..Len(s) /\ r[i] = s[x] /\ r[j] = s[y]
      BY <1>6
    <3>2. \A v, w \in 1..Len(s) : s[v] = s[w] => v = w
      BY LenProperties DEF IsInjective
    <3>3. x = y
      BY <2>1, <3>1, <3>2
    <3>4. QED
      BY <3>3
  <2>2. QED
    BY <1>6, <2>1 DEF IsInjective
<1>9. Range(r) = Range(s) \ {m}
  <2>1. ASSUME NEW i \in 1..Len(s), i # k
        PROVE  s[i] \in Range(r)
    <3>1. CASE i < k
      BY <3>1, <1>6 DEF Range
    <3>2. CASE i > k
      <4>1. i - 1 \in 1..(Len(s) - 1) /\ ~(i - 1 < k) /\ (i - 1) + 1 = i
        BY <3>2
      <4>2. r[i - 1] = s[i]
        BY <4>1, <1>6
      <4>3. QED
        BY <4>1, <4>2, <1>6 DEF Range
    <3>3. QED
      BY <2>1, <3>1, <3>2
  <2>2. ASSUME NEW i \in 1..Len(r)
        PROVE  r[i] \in Range(s) \ {m}
    <3> DEFINE x == IF i < k THEN i ELSE i + 1
    <3>1. x \in 1..Len(s) /\ x # k /\ r[i] = s[x]
      BY <1>6
    <3>2. s[x] # m
      BY <1>1, <3>1, LenProperties DEF IsInjective
    <3>3. s[x] \in Range(s)
      BY <3>1, LenProperties DEF Range
    <3>4. QED
      BY <3>1, <3>2, <3>3
  <2>3. Range(s) = {s[i] : i \in 1..Len(s)} /\ Range(r) = {r[i] : i \in 1..Len(r)}
    BY <1>6, LenProperties DEF Range
  <2>4. s[k] = m
    BY <1>1
  <2>5. Range(s) \ {m} \subseteq Range(r)
    BY <2>1, <2>3, <2>4
  <2>6. QED
    BY <2>2, <2>3, <2>5
<1>10. QED
  BY <1>6, <1>7, <1>8, <1>9
\* A record with another count.
LEMMA RecRef ==
  ASSUME NEW r \in Rec, NEW n \in Id
  PROVE  LET s == [r EXCEPT !.ref = n]
         IN /\ s \in Rec /\ s.ref = n
            /\ s.kept = r.kept /\ s.vers = r.vers /\ s.label = r.label
  BY DEF Rec

\* A record with another number of references that are kept.
LEMMA RecKept ==
  ASSUME NEW r \in Rec, NEW n \in Nat
  PROVE  LET s == [r EXCEPT !.kept = n]
         IN /\ s \in Rec /\ s.kept = n
            /\ s.ref = r.ref /\ s.vers = r.vers /\ s.label = r.label
  BY DEF Rec

\* The parts of a record.
LEMMA RecParts ==
  ASSUME NEW r \in Rec
  PROVE  r.ref \in Nat /\ r.ref > 0 /\ r.kept \in Nat /\ r.vers \in Nat /\ r.label \in Nat
<1>1. r.ref \in Id /\ r.kept \in Nat /\ r.vers \in Nat /\ r.label \in Nat
  BY DEF Rec
<1>2. QED
  BY <1>1 DEF Id, Nil

\* A table with another count for m, which is what More or less says.
LEMMA CountSet ==
  ASSUME NEW t, NEW c \in [Id -> Nat], NEW d \in [Id -> Nat], Good(t, c),
         NEW m \in DOMAIN t.mod, NEW n \in Id, n = t.mod[m].kept + d[m],
         \A k \in Id \ {m} : d[k] = c[k],
         NEW u, u = [list |-> t.list, mod |-> [t.mod EXCEPT ![m].ref = n]]
  PROVE  Good(u, d) /\ Smaller(t, u)
<1> DEFINE S == DOMAIN t.mod
<1>1. /\ u.list = t.list /\ u.mod = [t.mod EXCEPT ![m].ref = n]
      /\ u = [list |-> u.list, mod |-> u.mod]
  OBVIOUS
<1>2. t.mod \in [S -> Rec] /\ m \in S /\ t.mod[m] \in Rec
  BY DEF Good
<1>3. /\ [t.mod[m] EXCEPT !.ref = n] \in Rec
      /\ [t.mod[m] EXCEPT !.ref = n].ref = n
      /\ [t.mod[m] EXCEPT !.ref = n].kept = t.mod[m].kept
      /\ [t.mod[m] EXCEPT !.ref = n].vers = t.mod[m].vers
      /\ [t.mod[m] EXCEPT !.ref = n].label = t.mod[m].label
  BY <1>2, RecRef
<1>4. /\ u.mod \in [S -> Rec] /\ DOMAIN u.mod = S
      /\ u.mod[m] = [t.mod[m] EXCEPT !.ref = n]
      /\ \A k \in S \ {m} : u.mod[k] = t.mod[k]
  BY <1>1, <1>2, <1>3
<1>5. S \subseteq Id
  BY ElementOfSeq DEF Good, Range
<1>6. \A k \in S : u.mod[k].ref = u.mod[k].kept + d[k]
  BY <1>3, <1>4, <1>5 DEF Good
<1>7. \A k \in Id : d[k] > 0 => k \in S
  BY <1>2, <1>5 DEF Good
<1>8. Good(u, d)
  BY <1>1, <1>4, <1>6, <1>7 DEF Good
<1>9. \A k \in S : /\ u.mod[k].vers = t.mod[k].vers /\ u.mod[k].label = t.mod[k].label
                   /\ u.mod[k].kept = t.mod[k].kept /\ t.mod[k].kept \in Nat
  BY <1>2, <1>3, <1>4, RecParts
<1>10. Smaller(t, u)
  BY <1>4, <1>9 DEF Smaller
<1>11. QED
  BY <1>8, <1>10

\* The modules of a table are not Nil.
LEMMA GoodParts ==
  ASSUME NEW t, NEW c \in [Id -> Nat], Good(t, c)
  PROVE  /\ DOMAIN t.mod \subseteq Id
         /\ \A m \in DOMAIN t.mod : t.mod[m] \in Rec /\ t.mod[m].kept \in Nat
<1>1. DOMAIN t.mod \subseteq Id
  BY ElementOfSeq DEF Good, Range
<1>2. QED
  BY <1>1, RecParts DEF Good

\* A module that is counted is in the table.
LEMMA GoodMore ==
  ASSUME NEW t, NEW c \in [Id -> Nat], NEW m \in Nat, m # Nil, Good(t, More(c, m))
  PROVE  m \in DOMAIN t.mod
<1>1. m \in Id /\ More(c, m)[m] = c[m] + 1 /\ c[m] \in Nat
  BY MoreAt DEF Id
<1>2. QED
  BY <1>1 DEF Good

\* unload takes one reference away, and the module with the last of them.
LEMMA UnloadCounts ==
  ASSUME NEW t, NEW c \in [Id -> Nat], NEW m \in Nat, Good(t, More(c, m))
  PROVE  Good(unload(t, m), c) /\ Smaller(t, unload(t, m))
<1> DEFINE d == More(c, m)
<1>1. d \in [Id -> Nat] /\ DOMAIN t.mod \subseteq Id
      /\ \A k \in DOMAIN t.mod : t.mod[k] \in Rec /\ t.mod[k].kept \in Nat
  BY MoreType, GoodParts
<1>2. CASE m = Nil
  <2>1. unload(t, m) = t /\ d = c
    BY <1>2 DEF unload, More
  <2>2. Smaller(t, t)
    BY <1>1 DEF Smaller
  <2>3. QED
    BY <2>1, <2>2
<1>3. CASE m # Nil
  <2>1. m \in Id /\ d[m] = c[m] + 1 /\ \A k \in Id \ {m} : d[k] = c[k]
    BY <1>3, MoreAt DEF Id
  <2>2. m \in DOMAIN t.mod /\ t.mod[m].ref = t.mod[m].kept + (c[m] + 1)
    BY <2>1 DEF Good
  <2>3. c[m] \in Nat /\ t.mod[m].kept \in Nat
    BY <1>1, <2>1, <2>2
  <2>4. CASE t.mod[m].ref > 1
    <3>1. t.mod[m].ref - 1 \in Id /\ t.mod[m].ref - 1 = t.mod[m].kept + c[m]
      BY <2>2, <2>3, <2>4 DEF Id, Nil
    <3>2. t = [list |-> t.list, mod |-> t.mod]
      BY DEF Good
    <3>3. unload(t, m) = [list |-> t.list, mod |-> [t.mod EXCEPT ![m].ref = t.mod[m].ref - 1]]
      BY <1>3, <2>4, <3>2 DEF unload
    <3> HIDE DEF d
    <3>4. QED
      BY <1>1, <2>1, <2>2, <3>1, <3>3, CountSet DEF d
  <2>5. CASE ~(t.mod[m].ref > 1)
    <3> DEFINE u == [list |-> RemoveFirst(t.list, m), mod |-> Restrict(t.mod, DOMAIN t.mod \ {m})]
    <3>1. unload(t, m) = u
      BY <1>3, <2>5 DEF unload
    <3>2. c[m] = 0 /\ t.mod[m].kept = 0
      BY <2>2, <2>3, <2>5
    <3>3. /\ u.list \in Seq(Id) /\ IsInjective(u.list)
          /\ Range(u.list) = DOMAIN t.mod \ {m}
      BY <2>2, RemoveFirstOnly DEF Good
    <3>4. /\ DOMAIN u.mod = DOMAIN t.mod \ {m}
          /\ \A k \in DOMAIN t.mod \ {m} : u.mod[k] = t.mod[k]
      BY DEF Restrict
    <3>5. u.mod \in [DOMAIN u.mod -> Rec]
      BY <1>1 DEF Restrict
    <3>6. u = [list |-> u.list, mod |-> u.mod]
      OBVIOUS
    <3> HIDE DEF u, d
    <3>7. Good(u, c)
      <4>1. \A k \in DOMAIN t.mod \ {m} : t.mod[k].ref = t.mod[k].kept + c[k]
        BY <1>1, <2>1 DEF Good, d
      <4>2. \A k \in Id : c[k] > 0 => k \in DOMAIN t.mod \ {m}
        <5>1. \A k \in Id : d[k] > 0 => k \in DOMAIN t.mod
          BY DEF Good, d
        <5>2. QED
          BY <2>1, <3>2, <5>1
      <4>3. QED
        BY <3>3, <3>4, <3>5, <3>6, <4>1, <4>2 DEF Good
    <3>8. Smaller(t, u)
      BY <1>1, <3>2, <3>4 DEF Smaller
    <3>9. QED
      BY <3>1, <3>7, <3>8
  <2>6. QED
    BY <2>4, <2>5
<1>4. QED
  BY <1>2, <1>3

\* Counting a reference to a module of the table.
LEMMA RefCounts ==
  ASSUME NEW t, NEW c \in [Id -> Nat], NEW m \in DOMAIN t.mod, Good(t, c)
  PROVE  Good(Ref(t, m), More(c, m)) /\ Smaller(t, Ref(t, m)) /\ m \in Id
<1> DEFINE d == More(c, m)
           n == t.mod[m].ref + 1
<1>1. m \in Id /\ t.mod[m] \in Rec
  BY GoodParts
<1>2. d \in [Id -> Nat] /\ d[m] = c[m] + 1 /\ \A k \in Id \ {m} : d[k] = c[k]
  BY <1>1, MoreType, MoreAt DEF Id
<1>3. t.mod[m].ref = t.mod[m].kept + c[m]
  BY DEF Good
<1>4. n \in Id /\ n = t.mod[m].kept + d[m]
  BY <1>1, <1>2, <1>3, RecParts DEF Id, Nil
<1>5. t = [list |-> t.list, mod |-> t.mod]
  BY DEF Good
<1>6. Ref(t, m) = [list |-> t.list, mod |-> [t.mod EXCEPT ![m].ref = n]]
  BY <1>5 DEF Ref
<1> HIDE DEF d, n
<1>7. Good(Ref(t, m), d) /\ Smaller(t, Ref(t, m))
  BY <1>2, <1>4, <1>6, CountSet
<1>8. QED
  BY <1>1, <1>7 DEF d
\* A module is entered with one reference, in a place of its own.
LEMMA EnteredCounts ==
  ASSUME NEW t, NEW c \in [Id -> Nat], Good(t, c),
         NEW label \in Nat, NEW code \in Code
  PROVE  LET f == Fresh(t)
             u == Added(t, label, code)
         IN /\ f \in Id /\ f \notin DOMAIN t.mod
            /\ Good(u, More(c, f))
            /\ DOMAIN u.mod = DOMAIN t.mod \cup {f}
            /\ \A m \in DOMAIN t.mod : u.mod[m] = t.mod[m]
            /\ u.mod[f].label = label /\ u.mod[f].vers = code.vers
<1> DEFINE S == DOMAIN t.mod
           f == Fresh(t)
           u == Added(t, label, code)
           d == More(c, f)
           r == [path |-> IF code.kind = "native" THEN "" ELSE "f",
                 label |-> label, vers |-> code.vers, kind |-> code.kind,
                 ref |-> 1, kept |-> 0]
<1>1. IsFiniteSet(S) /\ Cardinality(S) \in Nat
  <2>1. Len(t.list) \in Nat /\ DOMAIN t.list = 1..Len(t.list)
    BY DEF Good
  <2>2. IsFiniteSet(1..Len(t.list))
    BY <2>1, FS_Interval
  <2>3. t.list \in Surjection(1..Len(t.list), S)
    <3>1. t.list \in Seq(Id) /\ Range(t.list) = S
      BY DEF Good
    <3>2. S = {t.list[i] : i \in 1..Len(t.list)}
      BY <2>1, <3>1 DEF Range
    <3>3. t.list \in [1..Len(t.list) -> S]
      BY <2>1, <3>1, <3>2
    <3>4. QED
      BY <3>2, <3>3 DEF Surjection
  <2>4. QED
    BY <2>2, <2>3, FS_Surjection, FS_CardinalityType
<1>2. \E m \in 1..(Cardinality(S) + 1) : m \notin S
  <2> DEFINE n == Cardinality(S) + 1
  <2>1. IsFiniteSet(1..n) /\ Cardinality(1..n) = n
    BY <1>1, FS_Interval
  <2>2. 1..n \subseteq S => Cardinality(1..n) <= Cardinality(S)
    BY <1>1, FS_Subset
  <2>3. ~(n <= Cardinality(S))
    BY <1>1
  <2>4. ~(1..n \subseteq S)
    BY <2>1, <2>2, <2>3
  <2>5. QED
    BY <2>4
<1>3. f \in 1..(Cardinality(S) + 1) /\ f \notin S
  BY <1>2 DEF Fresh
<1>4. f \in Id
  BY <1>1, <1>3 DEF Id, Nil
<1>5. /\ u.list = << f >> \o t.list
      /\ u.mod = [m \in S \cup {f} |-> IF m \in S THEN t.mod[m] ELSE r]
      /\ u = [list |-> u.list, mod |-> u.mod]
  BY DEF Added
<1>6. r \in Rec /\ r.ref = 1 /\ r.kept = 0 /\ r.label = label /\ r.vers = code.vers
  BY DEF Rec, Code, Id, Nil, Path
<1> HIDE DEF u, f, r
<1>7. t.mod \in [S -> Rec]
  BY DEF Good
<1>8. /\ DOMAIN u.mod = S \cup {f} /\ u.mod \in [DOMAIN u.mod -> Rec]
      /\ u.mod[f] = r /\ \A m \in S : u.mod[m] = t.mod[m]
  BY <1>3, <1>5, <1>6, <1>7
<1>9. u.list \in Seq(Id) /\ IsInjective(u.list) /\ Range(u.list) = DOMAIN u.mod
  <2> DEFINE old == t.list
             new == u.list
  <2>1. << f >> \in Seq(Id) /\ Len(<< f >>) = 1 /\ << f >>[1] = f
    BY <1>4
  <2>2. /\ old \in Seq(Id) /\ Len(old) \in Nat /\ DOMAIN old = 1..Len(old)
        /\ IsInjective(old) /\ Range(old) = S
    BY DEF Good
  <2>3. /\ new \in Seq(Id) /\ Len(new) = 1 + Len(old)
        /\ \A i \in 1..(1 + Len(old)) : new[i] = IF i <= 1 THEN f ELSE old[i - 1]
    BY <1>5, <2>1, <2>2, ConcatProperties
  <2>4. DOMAIN new = 1..Len(new)
    BY <2>3
  <2> HIDE DEF old, new
  <2>5. new[1] = f /\ \A i \in 1..Len(old) : i + 1 \in DOMAIN new /\ new[i + 1] = old[i]
    <3>1. new[1] = f
      BY <2>2, <2>3
    <3>2. ASSUME NEW i \in 1..Len(old)
          PROVE  i + 1 \in DOMAIN new /\ new[i + 1] = old[i]
      <4>1. i + 1 \in 1..(1 + Len(old)) /\ ~(i + 1 <= 1) /\ (i + 1) - 1 = i
        BY <2>2
      <4>2. new[i + 1] = old[(i + 1) - 1]
        BY <2>3, <4>1
      <4>3. QED
        BY <2>3, <2>4, <4>1, <4>2
    <3>3. QED
      BY <3>1, <3>2
  <2>6. \A i \in DOMAIN new : i # 1 => i - 1 \in 1..Len(old) /\ new[i] = old[i - 1]
    <3>1. ASSUME NEW i \in DOMAIN new, i # 1
          PROVE  i - 1 \in 1..Len(old) /\ new[i] = old[i - 1]
      <4>1. i \in 1..(1 + Len(old))
        BY <2>3, <2>4
      <4>2. ~(i <= 1) /\ i - 1 \in 1..Len(old)
        BY <2>2, <3>1, <4>1
      <4>3. QED
        BY <2>3, <4>1, <4>2
    <3>2. QED
      BY <3>1
  <2>7. IsInjective(new)
    <3>1. \A i \in 1..Len(old) : old[i] # f
      BY <1>3, <2>2 DEF Range
    <3>2. \A i, j \in 1..Len(old) : old[i] = old[j] => i = j
      BY <2>2 DEF IsInjective
    <3>3. ASSUME NEW i \in DOMAIN new, NEW j \in DOMAIN new, new[i] = new[j]
          PROVE  i = j
      <4>1. CASE i = 1 \/ j = 1
        BY <2>5, <2>6, <3>1, <3>3, <4>1
      <4>2. CASE i # 1 /\ j # 1
        <5>1. i - 1 = j - 1
          BY <2>6, <3>2, <3>3, <4>2
        <5>2. QED
          BY <2>2, <2>3, <2>4, <5>1
      <4>3. QED
        BY <4>1, <4>2
    <3>4. QED
      BY <3>3 DEF IsInjective
  <2>8. Range(new) = S \cup {f}
    <3>1. ASSUME NEW m \in S
          PROVE  m \in Range(new)
      BY <2>2, <2>5 DEF Range
    <3>2. f \in Range(new)
      BY <2>2, <2>3, <2>4, <2>5 DEF Range
    <3>3. ASSUME NEW i \in DOMAIN new
          PROVE  new[i] \in S \cup {f}
      BY <2>2, <2>5, <2>6 DEF Range
    <3>4. QED
      BY <3>1, <3>2, <3>3 DEF Range
  <2>9. QED
    BY <1>8, <2>3, <2>7, <2>8 DEF new
<1>10. d \in [Id -> Nat] /\ d[f] = c[f] + 1 /\ \A m \in Id \ {f} : d[m] = c[m]
  BY <1>4, MoreType, MoreAt DEF Id
<1>11. c[f] = 0
  BY <1>3, <1>4 DEF Good
<1> HIDE DEF d
<1>12. \A m \in DOMAIN u.mod : u.mod[m].ref = u.mod[m].kept + d[m]
  <2>1. u.mod[f].ref = u.mod[f].kept + d[f]
    BY <1>6, <1>8, <1>10, <1>11
  <2>2. \A m \in S : t.mod[m].ref = t.mod[m].kept + c[m] /\ m \in Id
    BY GoodParts DEF Good
  <2>3. QED
    BY <1>3, <1>8, <1>10, <2>1, <2>2
<1>13. \A m \in Id : d[m] > 0 => m \in DOMAIN u.mod
  <2>1. \A m \in Id : c[m] > 0 => m \in S
    BY DEF Good
  <2>2. QED
    BY <1>8, <1>10, <2>1
<1>14. Good(u, d)
  BY <1>5, <1>8, <1>9, <1>10, <1>12, <1>13 DEF Good
<1>15. QED
  BY <1>3, <1>4, <1>6, <1>8, <1>14 DEF u, f, d
\* The reference a native load leaves behind is counted as kept for ever.
LEMMA KeptCounts ==
  ASSUME NEW t, NEW c \in [Id -> Nat], NEW m \in Id, Good(t, More(c, m))
  PROVE  LET u == [t EXCEPT !.mod[m].kept = @ + 1]
         IN Good(u, c) /\ Smaller(t, u)
<1> DEFINE S == DOMAIN t.mod
           d == More(c, m)
           r == [t.mod[m] EXCEPT !.kept = t.mod[m].kept + 1]
           u == [t EXCEPT !.mod[m].kept = @ + 1]
<1>1. /\ d \in [Id -> Nat] /\ d[m] = c[m] + 1 /\ \A k \in Id \ {m} : d[k] = c[k]
      /\ S \subseteq Id /\ m \in S
      /\ \A k \in S : t.mod[k] \in Rec /\ t.mod[k].kept \in Nat
  <2>1. m \in Nat /\ m # Nil
    BY DEF Id
  <2>2. d \in [Id -> Nat] /\ d[m] = c[m] + 1 /\ \A k \in Id \ {m} : d[k] = c[k]
    BY <2>1, MoreType, MoreAt
  <2> HIDE DEF d
  <2>3. Good(t, d)
    BY DEF d
  <2>4. S \subseteq Id /\ \A k \in S : t.mod[k] \in Rec /\ t.mod[k].kept \in Nat
    BY <2>2, <2>3, GoodParts
  <2>5. m \in S
    BY <2>2, <2>3 DEF Good
  <2>6. QED
    BY <2>2, <2>4, <2>5
<1>2. t = [list |-> t.list, mod |-> t.mod] /\ t.mod \in [S -> Rec]
  BY DEF Good
<1>3. u = [list |-> t.list, mod |-> [t.mod EXCEPT ![m] = r]]
  BY <1>2
<1>4. r \in Rec /\ r.ref = t.mod[m].ref /\ r.kept = t.mod[m].kept + 1
      /\ r.vers = t.mod[m].vers /\ r.label = t.mod[m].label
  <2>1. t.mod[m] \in Rec /\ t.mod[m].kept + 1 \in Nat
    BY <1>1
  <2>2. QED
    BY <2>1, RecKept
<1> HIDE DEF r, u
<1>5. /\ u = [list |-> u.list, mod |-> u.mod] /\ u.list = t.list
      /\ u.mod \in [S -> Rec] /\ DOMAIN u.mod = S
      /\ u.mod[m] = r /\ \A k \in S \ {m} : u.mod[k] = t.mod[k]
  BY <1>1, <1>2, <1>3, <1>4
<1> HIDE DEF d
<1>6. \A k \in S : t.mod[k].ref = t.mod[k].kept + d[k]
  BY DEF Good, d
<1>7. \A k \in S : u.mod[k].ref = u.mod[k].kept + c[k]
  <2>1. c[m] \in Nat
    OBVIOUS
  <2>2. u.mod[m].ref = u.mod[m].kept + c[m]
    BY <1>1, <1>4, <1>5, <1>6, <2>1
  <2>3. QED
    BY <1>1, <1>5, <1>6, <2>2
<1>8. \A k \in Id : c[k] > 0 => k \in S
  <2>1. \A k \in Id : d[k] > 0 => k \in S
    BY DEF Good, d
  <2>2. QED
    BY <1>1, <2>1
<1>9. Good(u, c)
  <2>1. IsInjective(u.list) /\ u.list \in Seq(Id) /\ Range(u.list) = S
    BY <1>5 DEF Good
  <2>2. QED
    BY <1>5, <1>7, <1>8, <2>1 DEF Good
<1>10. Smaller(t, u)
  BY <1>1, <1>4, <1>5 DEF Smaller
<1>11. QED
  BY <1>9, <1>10 DEF u

\* What is in the table is well formed.
LEMMA GoodRec ==
  ASSUME NEW t, NEW c, Good(t, c)
  PROVE  \A m \in DOMAIN t.mod : t.mod[m].kept \in Nat
  BY RecParts DEF Good

\* The end of iload turns the reference to m into p's, or drops it, and
\* drops the reference p's variable had.
LEMMA LinkedCounts ==
  ASSUME NEW t, NEW b \in [Id -> Nat], NEW p \in Progs, NEW m \in Nat,
         slot \in [Progs -> Nat], Good(t, More(More(b, slot[p]), m)), LinkedTo(t, p, m)
  PROVE  /\ slot' = [slot EXCEPT ![p] = slot'[p]] /\ slot'[p] \in {Nil, m}
         /\ Good(Table', More(b, slot'[p])) /\ Smaller(t, Table')
<1> DEFINE fails == m # Nil /\ t.mod[m].kind = "nolink"
           n == IF fails THEN Nil ELSE m
           t1 == IF fails THEN unload(t, m) ELSE t
           t2 == unload(t1, slot[p])
           s == slot[p]
<1>1. /\ modules' = t2.list /\ mod' = t2.mod /\ slot' = [slot EXCEPT ![p] = n]
      /\ slot'[p] = n /\ n \in {Nil, m} /\ n \in Nat /\ s \in Nat
  BY DEF LinkedTo, Nil
<1>2. More(b, s) \in [Id -> Nat] /\ More(b, n) \in [Id -> Nat]
  BY <1>1, MoreType
<1>3. Good(t1, More(More(b, n), s)) /\ Smaller(t, t1)
  <2>1. CASE fails
    <3>1. Good(unload(t, m), More(b, s)) /\ Smaller(t, unload(t, m))
      BY <1>2, UnloadCounts
    <3>2. n = Nil /\ More(b, Nil) = b
      BY <2>1 DEF More
    <3>3. QED
      BY <2>1, <3>1, <3>2
  <2>2. CASE ~fails
    <3>1. n = m /\ t1 = t
      BY <2>2
    <3>2. More(More(b, n), s) = More(More(b, s), m)
      BY <1>1, <3>1, MoreCommutes
    <3>3. Smaller(t, t)
      BY GoodRec DEF Smaller
    <3>4. QED
      BY <3>1, <3>2, <3>3
  <2>3. QED
    BY <2>1, <2>2
<1> HIDE DEF t1, n
<1>4. Good(t2, More(b, n)) /\ Smaller(t1, t2)
  BY <1>1, <1>2, <1>3, UnloadCounts
<1>5. t2 = [list |-> t2.list, mod |-> t2.mod]
  BY <1>4 DEF Good
<1>6. Table' = t2
  BY <1>1, <1>5 DEF Table
<1>7. Smaller(t, t2)
  <2> HIDE DEF t2
  <2>1. QED
    BY <1>3, <1>4, GoodRec, SmallerTransitive
<1>8. QED
  BY <1>1, <1>4, <1>6, <1>7
-----------------------------------------------------------------------------
(* The references of the Progs.                                            *)

\* How many q of Q have f[q] = m, and the module each load holds.
Num(Q, f, m) == Cardinality({q \in Q : f[q] = m})
Held(jb) == [q \in Progs |-> jb[q].m]

\* The references of the Progs in Q, by their variables and their loads.
Count(sl, jb, Q) == [m \in Id |-> Num(Q, sl, m) + Num(Q, Held(jb), m)]

\* Those of S for whom f is m, without p and with p.
LEMMA NumSplit ==
  ASSUME NEW S, IsFiniteSet(S), NEW p \in S, NEW f, NEW m
  PROVE  /\ Num(S \ {p}, f, m) \in Nat
         /\ Num(S, f, m) = IF f[p] = m THEN Num(S \ {p}, f, m) + 1 ELSE Num(S \ {p}, f, m)
<1> DEFINE A == {q \in S \ {p} : f[q] = m}
           B == {q \in S : f[q] = m}
<1>1. IsFiniteSet(A) /\ Cardinality(A) \in Nat /\ p \notin A
  BY FS_Subset, FS_CardinalityType
<1>2. f[p] = m => B = A \cup {p}
  OBVIOUS
<1>3. f[p] # m => B = A
  OBVIOUS
<1> HIDE DEF A, B
<1>4. Cardinality(A \cup {p}) = Cardinality(A) + 1
  BY <1>1, FS_AddElement
<1>5. Cardinality(A) \in Nat
      /\ Cardinality(B) = IF f[p] = m THEN Cardinality(A) + 1 ELSE Cardinality(A)
  BY <1>1, <1>2, <1>3, <1>4
<1>6. Num(S \ {p}, f, m) = Cardinality(A) /\ Num(S, f, m) = Cardinality(B)
  BY DEF Num, A, B
<1>7. QED
  BY <1>5, <1>6

\* Those of Q for whom f is m are counted when there is one.
LEMMA NumSome ==
  ASSUME NEW Q, IsFiniteSet(Q), NEW f, NEW m
  PROVE  Num(Q, f, m) \in Nat /\ \A q \in Q : f[q] = m => Num(Q, f, m) > 0
<1> DEFINE A == {r \in Q : f[r] = m}
<1>1. IsFiniteSet(A) /\ Cardinality(A) \in Nat
  BY FS_Subset, FS_CardinalityType
<1>2. A # {} => Cardinality(A) # 0
  BY <1>1, FS_EmptySet
<1>3. \A q \in Q : f[q] = m => A # {}
  OBVIOUS
<1> HIDE DEF A
<1>4. Cardinality(A) \in Nat /\ \A q \in Q : f[q] = m => Cardinality(A) > 0
  BY <1>1, <1>2, <1>3
<1>5. Num(Q, f, m) = Cardinality(A)
  BY DEF Num, A
<1>6. QED
  BY <1>4, <1>5

\* Nothing p does changes what the others refer to.
LEMMA CountOthers ==
  ASSUME NEW Q \in SUBSET Progs, NEW sl, NEW jb, NEW sl2, NEW jb2,
         \A q \in Q : sl2[q] = sl[q] /\ jb2[q] = jb[q]
  PROVE  Count(sl2, jb2, Q) = Count(sl, jb, Q)
<1>1. ASSUME NEW m
      PROVE  Num(Q, sl2, m) = Num(Q, sl, m) /\ Num(Q, Held(jb2), m) = Num(Q, Held(jb), m)
  <2>1. {q \in Q : sl2[q] = m} = {q \in Q : sl[q] = m}
    OBVIOUS
  <2>2. {q \in Q : Held(jb2)[q] = m} = {q \in Q : Held(jb)[q] = m}
    BY DEF Held
  <2>3. QED
    BY <2>1, <2>2 DEF Num
<1>2. QED
  BY <1>1 DEF Count

\* The references of the Progs are p's and those of the others.
LEMMA CountOne ==
  ASSUME IsFiniteSet(Progs), NEW p \in Progs,
         NEW sl \in [Progs -> Nat], NEW jb \in [Progs -> Job]
  PROVE  /\ Count(sl, jb, Progs \ {p}) \in [Id -> Nat]
         /\ Count(sl, jb, Progs) = More(More(Count(sl, jb, Progs \ {p}), sl[p]), jb[p].m)
<1> DEFINE Q == Progs \ {p}
           b == Count(sl, jb, Q)
           c == Count(sl, jb, Progs)
           d == More(More(b, sl[p]), jb[p].m)
           hd == Held(jb)
<1>1. hd[p] = jb[p].m /\ sl[p] \in Nat /\ jb[p].m \in Nat
  BY DEF Held, Job
<1>2. /\ b = [m \in Id |-> Num(Q, sl, m) + Num(Q, hd, m)]
      /\ c = [m \in Id |-> Num(Progs, sl, m) + Num(Progs, hd, m)]
  BY DEF Count
<1> HIDE DEF b, c, hd
<1>3. \A m \in Id : Num(Q, sl, m) \in Nat /\ Num(Q, hd, m) \in Nat
  BY NumSplit
<1>4. b \in [Id -> Nat]
  BY <1>2, <1>3
<1>5. More(b, sl[p]) \in [Id -> Nat] /\ d \in [Id -> Nat]
  BY <1>1, <1>4, MoreType
<1>6. ASSUME NEW m \in Id
      PROVE  d[m] = c[m]
  <2>1. More(b, sl[p])[m] = IF m = sl[p] THEN b[m] + 1 ELSE b[m]
    BY <1>1, <1>4, MoreAt
  <2>2. d[m] = IF m = jb[p].m THEN More(b, sl[p])[m] + 1 ELSE More(b, sl[p])[m]
    BY <1>1, <1>5, MoreAt
  <2>3. Num(Progs, sl, m) = IF sl[p] = m THEN Num(Q, sl, m) + 1 ELSE Num(Q, sl, m)
    BY NumSplit
  <2>4. Num(Progs, hd, m) = IF hd[p] = m THEN Num(Q, hd, m) + 1 ELSE Num(Q, hd, m)
    BY NumSplit
  <2> HIDE DEF d, Q
  <2>5. b[m] = Num(Q, sl, m) + Num(Q, hd, m) /\ c[m] = Num(Progs, sl, m) + Num(Progs, hd, m)
    BY <1>2
  <2>6. QED
    BY <1>1, <1>3, <2>1, <2>2, <2>3, <2>4, <2>5
<1>7. c = [m \in Id |-> c[m]]
  BY <1>2
<1> HIDE DEF d
<1>8. c = d
  BY <1>5, <1>6, <1>7
<1>9. QED
  BY <1>4, <1>8 DEF b, c, d

\* A Prog's references are counted.
LEMMA CountAtLeast ==
  ASSUME IsFiniteSet(Progs), NEW Q \in SUBSET Progs, NEW q \in Q,
         NEW sl \in [Progs -> Nat], NEW jb \in [Progs -> Job]
  PROVE  /\ sl[q] # Nil => Count(sl, jb, Q)[sl[q]] > 0
         /\ jb[q].m # Nil => Count(sl, jb, Q)[jb[q].m] > 0
<1>1. IsFiniteSet(Q)
  BY FS_Subset
<1>2. Held(jb)[q] = jb[q].m /\ sl[q] \in Nat /\ jb[q].m \in Nat
  BY DEF Held, Job
<1>3. \A m \in Id : Count(sl, jb, Q)[m] = Num(Q, sl, m) + Num(Q, Held(jb), m)
  BY DEF Count
<1>4. \A m \in Id : /\ Num(Q, sl, m) \in Nat /\ Num(Q, Held(jb), m) \in Nat
                    /\ sl[q] = m => Num(Q, sl, m) > 0
                    /\ Held(jb)[q] = m => Num(Q, Held(jb), m) > 0
  BY <1>1, NumSome
<1>5. ASSUME sl[q] # Nil
      PROVE  Count(sl, jb, Q)[sl[q]] > 0
  <2>1. sl[q] \in Id
    BY <1>2, <1>5 DEF Id
  <2>2. QED
    BY <1>3, <1>4, <2>1
<1>6. ASSUME jb[q].m # Nil
      PROVE  Count(sl, jb, Q)[jb[q].m] > 0
  <2>1. jb[q].m \in Id
    BY <1>2, <1>6 DEF Id
  <2>2. QED
    BY <1>2, <1>3, <1>4, <2>1
<1>7. QED
  BY <1>5, <1>6
-----------------------------------------------------------------------------
(* The invariant.                                                          *)

TypeInv ==
  /\ file \in [vers : Nat, kind : FileKind]
  /\ slot \in [Progs -> Nat]
  /\ job \in [Progs -> Job]

\* The table counts the references of the Progs, and Boot stays.
TableInv ==
  /\ Good(Table, Count(slot, job, Progs))
  /\ Boot \in DOMAIN mod /\ mod[Boot].kept > 0

\* A load that found an answer found it with lookmod; what it has read, or
\* will record, is no older than the file was when the load began.
JobRight(j, f, md) ==
  /\ j.pc = "idle" => j.m = Nil /\ j.ans = Nil
  /\ j.ans # Nil => j.ans = j.m /\ md[j.ans].vers >= j.since
  /\ j.since <= f.vers
  /\ j.pc \in {"native", "read"} => j.since <= j.label /\ j.label <= f.vers
  /\ j.pc # "acquire" => j.code.kind = "none"
  /\ j.pc = "acquire" /\ j.code.kind \notin {"none", "bad"} =>
       j.since <= j.label /\ j.label <= j.code.vers

\* A module was read from a version no older than the one it is recorded with.
VersInv ==
  /\ \A p \in Progs : JobRight(job[p], file, mod)
  /\ \A m \in DOMAIN mod : mod[m].label <= mod[m].vers

IInv == TypeInv /\ TableInv /\ VersInv
\* What is in u is of t, but for f, and what is kept for ever is left.
Follows(t, u, f) ==
  /\ \A m \in DOMAIN u.mod \ {f} : /\ m \in DOMAIN t.mod
                                   /\ u.mod[m].vers = t.mod[m].vers
                                   /\ u.mod[m].label = t.mod[m].label
                                   /\ u.mod[m].kept >= t.mod[m].kept
  /\ \A m \in DOMAIN t.mod : t.mod[m].kept > 0 => m \in DOMAIN u.mod /\ m # f

\* What is only smaller follows.
LEMMA SmallerFollows ==
  ASSUME NEW t, NEW u, NEW f, Smaller(t, u), f \notin DOMAIN t.mod
  PROVE  Follows(t, u, f)
  BY DEF Smaller, Follows

\* A step of p that touches its own variable and load and the table, in
\* which a module f may be new, of a version no older than it is recorded
\* with, keeps the invariant if it keeps p's part of it.
LEMMA TableStep ==
  ASSUME IsFiniteSet(Progs), IInv, NEW p \in Progs, NEW f \in Nat, TypeInv',
         UNCHANGED file,
         \A q \in Progs \ {p} : slot'[q] = slot[q] /\ job'[q] = job[q],
         Good(Table', More(More(Count(slot, job, Progs \ {p}), slot'[p]), job'[p].m)),
         Follows(Table, Table', f),
         f # Boot, \A q \in Progs \ {p} : job[q].m # Nil => job[q].m # f,
         f \in DOMAIN mod' => mod'[f].label <= mod'[f].vers,
         JobRight(job'[p], file, mod')
  PROVE  IInv'
<1> DEFINE Q == Progs \ {p}
<1>1. Table.mod = mod /\ (Table').mod = mod'
  BY DEF Table
<1>2. Count(slot', job', Q) = Count(slot, job, Q)
  BY CountOthers
<1>3. Good(Table', Count(slot', job', Progs))
  <2>1. slot' \in [Progs -> Nat] /\ job' \in [Progs -> Job]
    BY DEF TypeInv
  <2>2. Count(slot', job', Progs) = More(More(Count(slot', job', Q), slot'[p]), job'[p].m)
    BY <2>1, CountOne
  <2>3. QED
    BY <1>2, <2>2
<1>4. Boot \in DOMAIN mod' /\ mod'[Boot].kept > 0
  <2>1. Boot \in DOMAIN mod /\ mod[Boot].kept > 0
    BY DEF IInv, TableInv
  <2>2. Boot \in DOMAIN mod' /\ mod'[Boot].kept >= mod[Boot].kept
    BY <1>1, <2>1 DEF Follows
  <2>3. mod[Boot].kept \in Nat /\ mod'[Boot].kept \in Nat
    BY <1>1, <1>3, <2>1, <2>2, GoodRec DEF IInv, TableInv
  <2>4. QED
    BY <2>1, <2>2, <2>3
<1>5. TableInv'
  BY <1>3, <1>4 DEF TableInv
<1>6. \A m \in DOMAIN mod' : mod'[m].label <= mod'[m].vers
  BY <1>1 DEF IInv, VersInv, Follows
<1>7. ASSUME NEW q \in Q
      PROVE  JobRight(job'[q], file, mod')
  <2>1. JobRight(job[q], file, mod) /\ job'[q] = job[q] /\ (job[q].m # Nil => job[q].m # f)
    BY DEF IInv, VersInv
  <2>2. ASSUME job[q].ans # Nil
        PROVE  mod'[job[q].ans].vers = mod[job[q].ans].vers
    <3> DEFINE m == job[q].m
    <3>1. job[q].ans = m /\ m # Nil
      BY <2>1, <2>2 DEF JobRight
    <3>2. slot' \in [Progs -> Nat] /\ job' \in [Progs -> Job] /\ job' [q] \in Job
      BY DEF TypeInv
    <3>3. m \in Id
      BY <2>1, <3>1, <3>2 DEF Job, Id
    <3>4. Count(slot', job', Progs)[m] > 0
      BY <2>1, <3>1, <3>2, CountAtLeast
    <3>5. m \in DOMAIN mod'
      BY <1>1, <1>3, <3>3, <3>4 DEF Good
    <3>6. QED
      BY <1>1, <2>1, <3>1, <3>5 DEF Follows
  <2>3. QED
    BY <2>1, <2>2 DEF JobRight
<1>8. VersInv'
  BY <1>6, <1>7 DEF VersInv
<1>9. QED
  BY <1>5, <1>8 DEF IInv

\* The counts of a state, p's references apart.
LEMMA CountNow ==
  ASSUME IsFiniteSet(Progs), IInv, NEW p \in Progs
  PROVE  LET b == Count(slot, job, Progs \ {p})
         IN /\ b \in [Id -> Nat] /\ slot[p] \in Nat /\ job[p] \in Job /\ job[p].m \in Nat
            /\ Good(Table, More(More(b, slot[p]), job[p].m))
<1>1. slot \in [Progs -> Nat] /\ job \in [Progs -> Job]
  BY DEF IInv, TypeInv
<1>2. slot[p] \in Nat /\ job[p] \in Job /\ job[p].m \in Nat
  BY <1>1 DEF Job
<1>3. Good(Table, Count(slot, job, Progs))
  BY DEF IInv, TableInv
<1>4. QED
  BY <1>1, <1>2, <1>3, CountOne

\* Nil is no module.
LEMMA NilNotIn ==
  ASSUME IInv
  PROVE  /\ DOMAIN mod \subseteq Id /\ Table.mod = mod
         /\ \A m \in DOMAIN mod : mod[m].kept \in Nat /\ mod[m].vers \in Nat /\ mod[m].label \in Nat
<1>1. Good(Table, Count(slot, job, Progs)) /\ Table.list = modules /\ Table.mod = mod
  BY DEF IInv, TableInv, Table
<1>2. modules \in Seq(Id) /\ Range(modules) = DOMAIN mod
  BY <1>1 DEF Good
<1>3. DOMAIN mod \subseteq Id
  BY <1>2, ElementOfSeq DEF Range
<1>4. QED
  BY <1>1, <1>3, RecParts DEF Good

\* lookmod finds a module of the table, or none.
LEMMA LookmodIn ==
  ASSUME IInv, NEW path
  PROVE  lookmod(path) = Nil \/ lookmod(path) \in DOMAIN mod
<1>1. modules \in Seq(Id) /\ Range(modules) = DOMAIN mod
  BY DEF IInv, TableInv, Good, Table
<1> DEFINE ks == {k \in Before(path) : mod[modules[k]].path = path}
<1>2. lookmod(path) = IF ks = {} THEN Nil ELSE modules[CHOOSE k \in ks : TRUE]
  BY DEF lookmod
<1>3. ks \subseteq 1..Len(modules)
  BY DEF Before
<1> HIDE DEF ks
<1>4. ks # {} => (CHOOSE k \in ks : TRUE) \in ks
  OBVIOUS
<1>5. \A k \in 1..Len(modules) : modules[k] \in Range(modules)
  BY <1>1 DEF Range
<1>6. QED
  BY <1>1, <1>2, <1>3, <1>4, <1>5
\* The initial table has the two modules, which nobody refers to.
LEMMA InitInv ==
  ASSUME IsFiniteSet(Progs), LoadInit
  PROVE  IInv
<1>1. TypeInv
  BY DEF LoadInit, TypeInv, FileKind, Job, Idle, Code, Nil
<1> DEFINE r(path) == [path |-> path, label |-> 0, vers |-> 0, kind |-> "dis", ref |-> 1, kept |-> 1]
<1>2. /\ modules = << Boot, Sys >> /\ DOMAIN mod = {Boot, Sys}
      /\ mod[Boot] = r("boot") /\ mod[Sys] = r("$Sys")
      /\ mod = [m \in {Boot, Sys} |-> mod[m]]
  BY DEF LoadInit, Boot, Sys
<1>3. r("boot") \in Rec /\ r("$Sys") \in Rec
  BY DEF Rec, FileKind, Id, Nil, Path
<1>4. \A m \in Id : Count(slot, job, Progs)[m] = 0
  <2>1. ASSUME NEW m \in Id
        PROVE  Num(Progs, slot, m) = 0 /\ Num(Progs, Held(job), m) = 0
    <3>1. {q \in Progs : slot[q] = m} = {} /\ {q \in Progs : Held(job)[q] = m} = {}
      BY DEF LoadInit, Held, Idle, Id
    <3>2. QED
      BY <3>1, FS_EmptySet DEF Num
  <2>2. QED
    BY <2>1 DEF Count
<1>5. Count(slot, job, Progs) \in [Id -> Nat]
  <2>1. Count(slot, job, Progs) = [m \in Id |-> Count(slot, job, Progs)[m]]
    BY DEF Count
  <2>2. QED
    BY <1>4, <2>1
<1>6. Good(Table, Count(slot, job, Progs))
  <2>1. Table = [list |-> Table.list, mod |-> Table.mod] /\ Table.list = modules /\ Table.mod = mod
    BY DEF Table
  <2>2. modules \in Seq(Id) /\ IsInjective(modules) /\ Range(modules) = DOMAIN mod
    BY <1>2 DEF IsInjective, Range, Boot, Sys, Id, Nil
  <2>3. mod \in [DOMAIN mod -> Rec]
    BY <1>2, <1>3
  <2>4. \A m \in DOMAIN mod : mod[m].ref = mod[m].kept + Count(slot, job, Progs)[m]
    BY <1>2, <1>4 DEF Boot, Sys, Id, Nil
  <2>5. QED
    BY <1>4, <1>5, <2>1, <2>2, <2>3, <2>4 DEF Good
<1>7. TableInv
  BY <1>2, <1>6 DEF TableInv
<1>8. VersInv
  BY <1>2 DEF LoadInit, VersInv, JobRight, Idle, Boot, Sys, Nil
<1>9. QED
  BY <1>1, <1>7, <1>8 DEF IInv

\* A step that leaves the table, the references and the file alone.
LEMMA JobStep ==
  ASSUME IsFiniteSet(Progs), IInv, NEW p \in Progs, NEW j \in Job,
         job' = [job EXCEPT ![p] = j], j.m = job[p].m,
         UNCHANGED << file, modules, mod, slot >>, JobRight(j, file, mod)
  PROVE  IInv'
<1> DEFINE b == Count(slot, job, Progs \ {p})
<1>1. /\ b \in [Id -> Nat] /\ job \in [Progs -> Job]
      /\ Good(Table, More(More(b, slot[p]), job[p].m))
  BY CountNow DEF IInv, TypeInv
<1>2. job'[p] = j /\ TypeInv' /\ \A q \in Progs \ {p} : slot'[q] = slot[q] /\ job'[q] = job[q]
  BY <1>1 DEF IInv, TypeInv
<1>3. Table' = Table
  BY DEF Table
<1>4. Follows(Table, Table', Nil)
  BY <1>3, NilNotIn DEF Follows, Id
<1>5. Nil \in Nat /\ Nil # Boot /\ Nil \notin DOMAIN mod'
  BY NilNotIn DEF Nil, Boot, Id
<1>6. Good(Table', More(More(b, slot'[p]), job'[p].m))
  BY <1>1, <1>2, <1>3
<1>7. QED
  BY <1>2, <1>4, <1>5, <1>6, TableStep
\* Open, Fstat, ParseNativeMod and Kread.
LEMMA FileSteps ==
  ASSUME IsFiniteSet(Progs), IInv, NEW p \in Progs,
         Open(p) \/ Fstat(p) \/ ParseNativeMod(p) \/ Kread(p)
  PROVE  IInv'
<1> DEFINE j == job[p]
<1>1. /\ j \in Job /\ job \in [Progs -> Job] /\ JobRight(j, file, mod)
      /\ file \in [vers : Nat, kind : FileKind] /\ file \in Code
  BY DEF IInv, TypeInv, VersInv, Code
<1>2. CASE Open(p)
  <2> DEFINE k == [j EXCEPT !.pc = IF file.kind = "none" THEN "acquire" ELSE "fstat"]
  <2>1. j.pc = "open" /\ job' = [job EXCEPT ![p] = k] /\ UNCHANGED << file, modules, mod, slot >>
    BY <1>2 DEF Open
  <2>2. k \in Job /\ k.m = j.m
    BY <1>1 DEF Job
  <2>3. JobRight(k, file, mod)
    BY <1>1, <2>1 DEF JobRight, Job
  <2>4. QED
    BY <2>1, <2>2, <2>3, JobStep
<1>3. CASE Fstat(p)
  <2> DEFINE same == j.m # Nil /\ mod[j.m].label = file.vers
             k == IF file.kind = "none" THEN [j EXCEPT !.pc = "acquire"]
                  ELSE [j EXCEPT !.label = file.vers,
                                 !.ans = IF same THEN j.m ELSE Nil,
                                 !.pc = IF same THEN "acquire" ELSE "native"]
  <2>1. j.pc = "fstat" /\ job' = [job EXCEPT ![p] = k] /\ UNCHANGED << file, modules, mod, slot >>
    BY <1>1, <1>3 DEF Fstat
  <2>2. k \in Job /\ k.m = j.m
    BY <1>1 DEF Job, Nil
  <2>3. ASSUME same
        PROVE  mod[j.m].vers >= j.since
    <3>1. Good(Table, More(More(Count(slot, job, Progs \ {p}), slot[p]), j.m))
          /\ Count(slot, job, Progs \ {p}) \in [Id -> Nat] /\ slot[p] \in Nat /\ j.m \in Nat
      BY CountNow
    <3>2. j.m \in DOMAIN mod
      BY <2>3, <3>1, MoreType, GoodMore, NilNotIn
    <3>3. mod[j.m].label <= mod[j.m].vers /\ mod[j.m].vers \in Nat
      BY <3>2, NilNotIn DEF IInv, VersInv
    <3>4. j.since <= file.vers /\ j.since \in Nat /\ file.vers \in Nat
      BY <1>1 DEF JobRight, Job
    <3>5. QED
      BY <2>3, <3>3, <3>4
  <2>4. JobRight(k, file, mod)
    BY <1>1, <2>1, <2>3 DEF JobRight, Job, Nil
  <2>5. QED
    BY <2>1, <2>2, <2>4, JobStep
<1>4. CASE ParseNativeMod(p)
  <2> DEFINE k == IF file.kind = "native" THEN [j EXCEPT !.code = file, !.pc = "acquire"]
                  ELSE [j EXCEPT !.pc = "read"]
  <2>1. j.pc = "native" /\ job' = [job EXCEPT ![p] = k] /\ UNCHANGED << file, modules, mod, slot >>
    BY <1>1, <1>4 DEF ParseNativeMod
  <2>2. k \in Job /\ k.m = j.m
    BY <1>1 DEF Job
  <2>3. JobRight(k, file, mod)
    BY <1>1, <2>1 DEF JobRight, Job
  <2>4. QED
    BY <2>1, <2>2, <2>3, JobStep
<1>5. CASE Kread(p)
  <2>1. PICK code \in KreadOf(p) :
          job' = [job EXCEPT ![p].code = IF code.kind = "native" THEN [code EXCEPT !.kind = "bad"] ELSE code,
                             ![p].pc = "acquire"]
    BY <1>5 DEF Kread
  <2> DEFINE d == IF code.kind = "native" THEN [code EXCEPT !.kind = "bad"] ELSE code
             k == [j EXCEPT !.code = d, !.pc = "acquire"]
  <2>2. code \in Code /\ (code.kind \notin {"none", "bad"} => code = file)
    BY <1>1 DEF KreadOf, NoCode, Idle, Code, FileKind
  <2>3. d \in Code /\ (d.kind \notin {"none", "bad"} => d = file)
    BY <2>2 DEF Code, FileKind
  <2>4. j.pc = "read" /\ job' = [job EXCEPT ![p] = k] /\ UNCHANGED << file, modules, mod, slot >>
    BY <1>1, <1>5, <2>1 DEF Kread
  <2> HIDE DEF d
  <2>5. k \in Job /\ k.m = j.m
    BY <1>1, <2>3 DEF Job
  <2>6. JobRight(k, file, mod)
    BY <1>1, <2>3, <2>4 DEF JobRight, Job
  <2>7. QED
    BY <2>4, <2>5, <2>6, JobStep
<1>6. QED
  BY <1>2, <1>3, <1>4, <1>5
\* A load that ends: p's job is Idle, and the table has what is given to p.
LEMMA LinkedStep ==
  ASSUME IsFiniteSet(Progs), IInv, NEW p \in Progs, NEW t, NEW m \in Nat, NEW f \in Nat,
         LinkedTo(t, p, m), UNCHANGED file, job' = [job EXCEPT ![p] = Idle],
         Good(t, More(More(Count(slot, job, Progs \ {p}), slot[p]), m)),
         Follows(Table, t, f),
         f # Boot, \A q \in Progs \ {p} : job[q].m # Nil => job[q].m # f,
         f \in DOMAIN t.mod => t.mod[f].label <= t.mod[f].vers
  PROVE  IInv' /\ Smaller(t, Table') /\ slot'[p] \in {Nil, m}
         /\ (slot'[p] # Nil => slot'[p] \in DOMAIN mod')
<1> DEFINE b == Count(slot, job, Progs \ {p})
<1>1. b \in [Id -> Nat] /\ slot \in [Progs -> Nat] /\ job \in [Progs -> Job] /\ slot[p] \in Nat
  BY CountNow DEF IInv, TypeInv
<1>2. /\ slot' = [slot EXCEPT ![p] = slot'[p]] /\ slot'[p] \in {Nil, m}
      /\ Good(Table', More(b, slot'[p])) /\ Smaller(t, Table')
  <2> HIDE DEF b
  <2>1. Good(t, More(More(b, slot[p]), m))
    BY DEF b
  <2>2. QED
    BY <1>1, <2>1, LinkedCounts
<1>3. slot'[p] \in Nat /\ Idle \in Job /\ job'[p] = Idle /\ Idle.m = Nil
  BY <1>1, <1>2 DEF Nil, Idle, Job, Code, FileKind
<1>4. TypeInv' /\ \A q \in Progs \ {p} : slot'[q] = slot[q] /\ job'[q] = job[q]
  BY <1>1, <1>2, <1>3 DEF IInv, TypeInv
<1>5. Good(Table', More(More(b, slot'[p]), job'[p].m))
  BY <1>2, <1>3 DEF More
<1>6. (Table').mod = mod' /\ Table.mod = mod
  BY DEF Table
<1>7. \A k \in DOMAIN t.mod : t.mod[k].kept \in Nat
  BY GoodRec
<1>8. \A k \in DOMAIN mod' : mod'[k].kept \in Nat
  BY <1>2, <1>6, GoodRec
<1>9. Follows(Table, Table', f)
  <2>1. ASSUME NEW k \in DOMAIN mod', k # f
        PROVE  /\ k \in DOMAIN mod /\ mod'[k].vers = mod[k].vers
               /\ mod'[k].label = mod[k].label /\ mod'[k].kept >= mod[k].kept
    <3>1. /\ k \in DOMAIN t.mod /\ mod'[k].vers = t.mod[k].vers
          /\ mod'[k].label = t.mod[k].label /\ mod'[k].kept >= t.mod[k].kept
      BY <1>2, <1>6 DEF Smaller
    <3>2. /\ k \in DOMAIN mod /\ t.mod[k].vers = mod[k].vers
          /\ t.mod[k].label = mod[k].label /\ t.mod[k].kept >= mod[k].kept
      BY <1>6, <2>1, <3>1 DEF Follows
    <3>3. mod[k].kept \in Nat /\ t.mod[k].kept \in Nat /\ mod'[k].kept \in Nat
      BY <1>7, <1>8, <2>1, <3>1, <3>2, NilNotIn
    <3>4. QED
      BY <3>1, <3>2, <3>3
  <2>2. ASSUME NEW k \in DOMAIN mod, mod[k].kept > 0
        PROVE  k \in DOMAIN mod' /\ k # f
    <3>1. k \in DOMAIN t.mod /\ k # f
      BY <1>6, <2>2 DEF Follows
    <3>2. t.mod[k].kept >= mod[k].kept
      BY <1>6, <3>1 DEF Follows
    <3>3. t.mod[k].kept > 0
      BY <1>7, <2>2, <3>1, <3>2, NilNotIn
    <3>4. QED
      BY <1>2, <1>6, <3>1, <3>3 DEF Smaller
  <2>3. QED
    BY <1>6, <2>1, <2>2 DEF Follows
<1>10. f \in DOMAIN mod' => mod'[f].label <= mod'[f].vers
  BY <1>2, <1>6 DEF Smaller
<1>11. JobRight(job'[p], file, mod')
  BY <1>3 DEF JobRight, Idle, Nil, IInv, TypeInv
<1>12. IInv'
  BY <1>4, <1>5, <1>9, <1>10, <1>11, TableStep
<1>13. slot'[p] # Nil => slot'[p] \in DOMAIN mod'
  BY <1>1, <1>2, <1>3, <1>6, GoodMore
<1>14. QED
  BY <1>2, <1>12, <1>13

\* $self and the built-in modules.
LEMMA BuiltinStep ==
  ASSUME IsFiniteSet(Progs), IInv, NEW p \in Progs, NEW path \in Path, IloadBuiltin(p, path)
  PROVE  IInv'
<1> DEFINE b == Count(slot, job, Progs \ {p})
           m == IF path = "$self" THEN Boot ELSE lookmod(path)
           t == IF m = Nil THEN Table ELSE Ref(Table, m)
<1>1. /\ b \in [Id -> Nat] /\ slot[p] \in Nat /\ job \in [Progs -> Job]
      /\ Good(Table, More(More(b, slot[p]), job[p].m))
  BY CountNow DEF IInv, TypeInv
<1>2. job[p] = Idle /\ LinkedTo(t, p, m) /\ UNCHANGED << file, job >>
  BY DEF IloadBuiltin
<1>3. job' = [job EXCEPT ![p] = Idle]
  BY <1>1, <1>2
<1>4. m = Nil \/ m \in DOMAIN mod
  BY LookmodIn DEF IInv, TableInv
<1>5. DOMAIN mod \subseteq Id /\ Table.mod = mod
  BY NilNotIn
<1>6. m \in Nat
  BY <1>4, <1>5 DEF Id, Nil
<1>7. Good(Table, More(b, slot[p])) /\ More(b, slot[p]) \in [Id -> Nat]
  <2>1. job[p].m = Nil /\ More(More(b, slot[p]), Nil) = More(b, slot[p])
    BY <1>2 DEF Idle, More
  <2>2. QED
    BY <1>1, <2>1, MoreType
<1> HIDE DEF m
<1>8. Good(t, More(More(b, slot[p]), m)) /\ Smaller(Table, t)
  <2>1. CASE m = Nil
    BY <1>5, <1>7, <2>1, NilNotIn DEF More, Smaller
  <2>2. CASE m # Nil
    BY <1>4, <1>5, <1>7, <2>2, RefCounts
  <2>3. QED
    BY <2>1, <2>2
<1>9. /\ Nil \in Nat /\ Nil # Boot /\ Follows(Table, t, Nil)
      /\ Nil \notin DOMAIN t.mod
  BY <1>5, <1>8, SmallerFollows DEF Nil, Boot, Id, Smaller
<1> HIDE DEF t
<1>10. QED
  BY <1>2, <1>3, <1>6, <1>8, <1>9, LinkedStep

\* lookmod for a load of the file.
LEMMA IloadStep ==
  ASSUME IsFiniteSet(Progs), IInv, NEW p \in Progs, Iload(p)
  PROVE  IInv'
<1> DEFINE b == Count(slot, job, Progs \ {p})
           m == lookmod("f")
           t == IF m = Nil THEN Table ELSE Ref(Table, m)
           j == [Idle EXCEPT !.pc = "open", !.m = m, !.since = file.vers]
<1>1. /\ b \in [Id -> Nat] /\ slot[p] \in Nat /\ job \in [Progs -> Job]
      /\ Good(Table, More(More(b, slot[p]), job[p].m))
  BY CountNow DEF IInv, TypeInv
<1>2. /\ job[p] = Idle /\ job' = [job EXCEPT ![p] = j]
      /\ mod' = (IF m = Nil THEN mod ELSE Ref(Table, m).mod)
      /\ UNCHANGED << file, modules, slot >>
  BY DEF Iload
<1>3. m = Nil \/ m \in DOMAIN mod
  BY LookmodIn
<1>4. DOMAIN mod \subseteq Id /\ Table.mod = mod /\ Table.list = modules
  BY NilNotIn DEF Table
<1>5. m \in Nat
  BY <1>3, <1>4 DEF Id, Nil
<1>6. Good(Table, More(b, slot[p])) /\ More(b, slot[p]) \in [Id -> Nat]
  <2>1. job[p].m = Nil /\ More(More(b, slot[p]), Nil) = More(b, slot[p])
    BY <1>2 DEF Idle, More
  <2>2. QED
    BY <1>1, <2>1, MoreType
<1>7. Table' = t
  BY <1>2 DEF Table, Ref
<1> HIDE DEF m
<1>8. Good(t, More(More(b, slot[p]), m)) /\ Smaller(Table, t)
  <2>1. CASE m = Nil
    BY <1>4, <1>6, <2>1, NilNotIn DEF More, Smaller
  <2>2. CASE m # Nil
    BY <1>3, <1>4, <1>6, <2>2, RefCounts
  <2>3. QED
    BY <2>1, <2>2
<1> HIDE DEF t
<1>9. /\ Nil \in Nat /\ Nil # Boot /\ Follows(Table, Table', Nil)
      /\ Nil \notin DOMAIN mod'
  <2>1. DOMAIN mod' \subseteq DOMAIN mod
    BY <1>4, <1>7, <1>8 DEF Smaller, Table
  <2>2. QED
    BY <1>4, <1>7, <1>8, <2>1, SmallerFollows DEF Nil, Boot, Id
<1>10. file \in [vers : Nat, kind : FileKind] /\ slot \in [Progs -> Nat]
  BY DEF IInv, TypeInv
<1>11. /\ j \in Job /\ j.m = m /\ j.pc = "open" /\ j.ans = Nil /\ j.since = file.vers
       /\ j.code.kind = "none"
  BY <1>5, <1>10 DEF Idle, Job, Code, FileKind, Nil
<1> HIDE DEF j
<1>12. TypeInv' /\ job'[p] = j /\ slot'[p] = slot[p]
       /\ \A q \in Progs \ {p} : slot'[q] = slot[q] /\ job'[q] = job[q]
  BY <1>1, <1>2, <1>10, <1>11 DEF TypeInv
<1>13. JobRight(job'[p], file, mod')
  BY <1>10, <1>11, <1>12 DEF JobRight
<1>14. QED
  BY <1>2, <1>7, <1>8, <1>9, <1>11, <1>12, <1>13, TableStep

\* The Prog drops its Modlink.
LEMMA DropStep ==
  ASSUME IsFiniteSet(Progs), IInv, NEW p \in Progs, DropLink(p)
  PROVE  IInv'
<1> DEFINE b == Count(slot, job, Progs \ {p})
           t == unload(Table, slot[p])
<1>1. /\ b \in [Id -> Nat] /\ slot[p] \in Nat /\ job \in [Progs -> Job] /\ slot \in [Progs -> Nat]
      /\ Good(Table, More(More(b, slot[p]), job[p].m))
  BY CountNow DEF IInv, TypeInv
<1>2. /\ job[p] = Idle /\ modules' = t.list /\ mod' = t.mod
      /\ slot' = [slot EXCEPT ![p] = Nil] /\ UNCHANGED << file, job >>
  BY DEF DropLink
<1>3. Good(Table, More(b, slot[p]))
  BY <1>1, <1>2 DEF Idle, More
<1>4. Good(t, b) /\ Smaller(Table, t)
  BY <1>1, <1>3, UnloadCounts
<1>5. Table' = t
  <2>1. t = [list |-> t.list, mod |-> t.mod]
    BY <1>4 DEF Good
  <2>2. QED
    BY <1>2, <2>1 DEF Table
<1> HIDE DEF t
<1>6. /\ Nil \in Nat /\ Nil # Boot /\ Follows(Table, Table', Nil) /\ Nil \notin DOMAIN mod'
  <2>1. DOMAIN mod' \subseteq DOMAIN mod /\ DOMAIN mod \subseteq Id /\ Table.mod = mod
    BY <1>4, <1>5, NilNotIn DEF Smaller, Table
  <2>2. QED
    BY <1>4, <1>5, <2>1, SmallerFollows DEF Nil, Boot, Id
<1>7. /\ slot'[p] = Nil /\ job'[p] = Idle /\ TypeInv'
      /\ \A q \in Progs \ {p} : slot'[q] = slot[q] /\ job'[q] = job[q]
  BY <1>1, <1>2 DEF IInv, TypeInv, Nil
<1>8. Good(Table', More(More(b, slot'[p]), job'[p].m))
  BY <1>4, <1>5, <1>7 DEF Idle, More
<1>9. JobRight(job'[p], file, mod')
  BY <1>7 DEF JobRight, Idle, Nil, IInv, TypeInv
<1>10. QED
  BY <1>2, <1>6, <1>7, <1>8, <1>9, TableStep

\* The file changes: it gets newer.
LEMMA WriteStep ==
  ASSUME IInv, WriteFile
  PROVE  IInv'
<1>1. PICK k \in Kinds : file' = [vers |-> file.vers + 1, kind |-> k]
  BY DEF WriteFile
<1>2. UNCHANGED << modules, mod, slot, job >> /\ Table' = Table
  BY DEF WriteFile, Table
<1>3. TypeInv'
  BY <1>1, <1>2 DEF IInv, TypeInv, FileKind
<1>4. TableInv'
  BY <1>2 DEF IInv, TableInv
<1>5. \A p \in Progs : JobRight(job'[p], file', mod')
  <2>1. file.vers \in Nat /\ file'.vers = file.vers + 1
    BY <1>1 DEF IInv, TypeInv
  <2>2. ASSUME NEW p \in Progs
        PROVE  JobRight(job[p], file', mod)
    <3>1. job[p].since \in Nat /\ job[p].label \in Nat /\ JobRight(job[p], file, mod)
      BY DEF IInv, TypeInv, VersInv, Job
    <3>2. QED
      BY <2>1, <3>1 DEF JobRight
  <2>3. QED
    BY <1>2, <2>2
<1>6. VersInv'
  BY <1>2, <1>5 DEF IInv, VersInv
<1>7. QED
  BY <1>3, <1>4, <1>6 DEF IInv
\* The end of a load of the file.  What the Prog is given is what fstat found
\* to be of the file's version, or what was read.
LEMMA AcquireStep ==
  ASSUME IsFiniteSet(Progs), IInv, NEW p \in Progs, Acquire(p)
  PROVE  /\ IInv'
         /\ slot'[p] # Nil => mod'[slot'[p]].vers >= job[p].since
<1> DEFINE b == Count(slot, job, Progs \ {p})
           j == job[p]
           t == IF j.ans # Nil THEN Table
                ELSE IF j.code.kind = "native" THEN
                  IF j.m = Nil THEN Table ELSE [Table EXCEPT !.mod[j.m].kept = @ + 1]
                ELSE unload(Table, j.m)
           old == More(b, slot[p])
<1>1. /\ b \in [Id -> Nat] /\ slot[p] \in Nat /\ j \in Job /\ j.m \in Nat
      /\ Good(Table, More(old, j.m)) /\ old \in [Id -> Nat]
  BY CountNow, MoreType
<1>2. /\ j.pc = "acquire" /\ job' = [job EXCEPT ![p] = Idle] /\ UNCHANGED file
      /\ IF j.ans # Nil THEN LinkedTo(t, p, j.ans)
         ELSE IF j.code.kind \in {"none", "bad"} THEN LinkedTo(t, p, Nil)
         ELSE LinkedTo(Added(t, Recorded(p), j.code), p, Fresh(t))
  BY DEF Acquire
<1>3. JobRight(j, file, mod)
  BY DEF IInv, VersInv
<1>4. /\ Table.mod = mod /\ DOMAIN mod \subseteq Id /\ Nil \in Nat /\ Nil # Boot /\ Nil \notin DOMAIN mod
      /\ Smaller(Table, Table) /\ (Table').mod = mod'
  BY NilNotIn DEF Nil, Boot, Id, Smaller, Table
<1>5. j.ans \in Nat /\ j.label \in Nat /\ j.code \in Code /\ j.since \in Nat
  BY <1>1 DEF Job
<1>6. CASE j.ans # Nil
  <2>1. t = Table /\ LinkedTo(Table, p, j.ans) /\ j.ans = j.m /\ mod[j.m].vers >= j.since
    BY <1>2, <1>3, <1>6 DEF JobRight
  <2>2. Follows(Table, Table, Nil)
    BY <1>4, SmallerFollows
  <2>3. /\ IInv' /\ Smaller(Table, Table') /\ slot'[p] \in {Nil, j.m}
        /\ slot'[p] # Nil => slot'[p] \in DOMAIN mod'
    <3> HIDE DEF b, t
    <3>1. Good(Table, More(More(Count(slot, job, Progs \ {p}), slot[p]), j.m))
      BY <1>1 DEF b
    <3>2. QED
      BY <1>1, <1>2, <1>4, <2>1, <2>2, <3>1, LinkedStep
  <2>4. slot'[p] # Nil => mod'[slot'[p]].vers >= j.since
    BY <1>4, <2>1, <2>3 DEF Smaller
  <2>5. QED
    BY <2>3, <2>4
<1>7. CASE j.ans = Nil
  <2>1. Good(t, old) /\ Smaller(Table, t)
    <3>1. CASE j.code.kind = "native" /\ j.m = Nil
      BY <1>1, <1>4, <1>7, <3>1 DEF More
    <3>2. CASE j.code.kind = "native" /\ j.m # Nil
      <4>1. t = [Table EXCEPT !.mod[j.m].kept = @ + 1] /\ j.m \in Id
        BY <1>1, <1>7, <3>2 DEF Id
      <4> HIDE DEF old, t
      <4>2. QED
        BY <1>1, <4>1, KeptCounts
    <3>3. CASE j.code.kind # "native"
      <4>1. t = unload(Table, j.m)
        BY <1>7, <3>3
      <4> HIDE DEF old, t
      <4>2. QED
        BY <1>1, <4>1, UnloadCounts
    <3>4. QED
      BY <3>1, <3>2, <3>3
  <2> HIDE DEF t
  <2>2. CASE j.code.kind \in {"none", "bad"}
    <3>1. LinkedTo(t, p, Nil)
      BY <1>2, <1>7, <2>2
    <3>2. Follows(Table, t, Nil) /\ Nil \notin DOMAIN t.mod
      BY <1>4, <2>1, SmallerFollows DEF Smaller
    <3>3. Good(t, More(More(Count(slot, job, Progs \ {p}), slot[p]), Nil))
      BY <2>1 DEF More
    <3>4. IInv' /\ slot'[p] = Nil
      BY <1>2, <1>4, <3>1, <3>2, <3>3, LinkedStep
    <3>5. QED
      BY <3>4
  <2>3. CASE j.code.kind \notin {"none", "bad"}
    <3> DEFINE f == Fresh(t)
               u == Added(t, j.label, j.code)
    <3>1. LinkedTo(u, p, f)
      BY <1>2, <1>7, <2>3 DEF Recorded
    <3>2. /\ f \in Id /\ f \notin DOMAIN t.mod /\ Good(u, More(old, f))
          /\ DOMAIN u.mod = DOMAIN t.mod \cup {f}
          /\ \A k \in DOMAIN t.mod : u.mod[k] = t.mod[k]
          /\ u.mod[f].label = j.label /\ u.mod[f].vers = j.code.vers
      <4> HIDE DEF old
      <4>1. QED
        BY <1>1, <1>5, <2>1, EnteredCounts
    <3> HIDE DEF f, u
    <3>3. /\ j.since <= j.label /\ j.label <= j.code.vers
          /\ j.code.vers \in Nat
      BY <1>2, <1>3, <1>5, <2>3 DEF JobRight, Code
    <3>4. Follows(Table, u, f)
      BY <1>4, <2>1, <3>2 DEF Smaller, Follows
    <3>5. f # Boot
      BY <1>4, <2>1, <3>2 DEF IInv, TableInv, Smaller
    <3>6. \A q \in Progs \ {p} : job[q].m # Nil => job[q].m # f
      <4>1. slot \in [Progs -> Nat] /\ job \in [Progs -> Job]
        BY DEF IInv, TypeInv
      <4>2. old[f] = 0
        <5> HIDE DEF old
        <5>1. old[f] \in Nat /\ ~(old[f] > 0)
          BY <1>1, <2>1, <3>2 DEF Good
        <5>2. QED
          BY <5>1
      <4>3. b[f] = 0
        <5>1. old[f] = IF f = slot[p] THEN b[f] + 1 ELSE b[f]
          BY <1>1, <3>2, MoreAt
        <5>2. b[f] \in Nat
          BY <1>1, <3>2
        <5>3. QED
          BY <4>2, <5>1, <5>2
      <4>4. ASSUME NEW q \in Progs \ {p}, job[q].m # Nil
            PROVE  b[job[q].m] > 0
        BY <4>1, <4>4, CountAtLeast
      <4>5. QED
        BY <4>3, <4>4
    <3>7. Good(u, More(More(Count(slot, job, Progs \ {p}), slot[p]), f))
      BY <3>2
    <3>8. /\ IInv' /\ Smaller(u, Table') /\ slot'[p] \in {Nil, f}
          /\ slot'[p] # Nil => slot'[p] \in DOMAIN mod'
      <4>1. f \in Nat /\ u.mod[f].label <= u.mod[f].vers
        BY <3>2, <3>3 DEF Id
      <4>2. QED
        BY <1>2, <3>1, <3>4, <3>5, <3>6, <3>7, <4>1, LinkedStep
    <3>9. slot'[p] # Nil => mod'[slot'[p]].vers >= j.since
      <4>1. slot'[p] # Nil => mod'[slot'[p]].vers = j.code.vers
        BY <1>4, <3>2, <3>8 DEF Smaller
      <4>2. QED
        BY <1>5, <3>3, <4>1
    <3>10. QED
      BY <3>8, <3>9
  <2>4. QED
    BY <2>2, <2>3
<1>8. QED
  BY <1>6, <1>7

-----------------------------------------------------------------------------
(* The theorems.                                                           *)

\* The invariant is kept by every step.
LEMMA Invariance ==
  ASSUME IsFiniteSet(Progs), IInv, [LoadNext]_vars
  PROVE  IInv'
<1>1. CASE UNCHANGED vars
  BY <1>1 DEF vars, IInv, TypeInv, TableInv, VersInv, Table
<1>2. CASE WriteFile
  BY <1>2, WriteStep
<1>3. ASSUME NEW p \in Progs, \/ \E path \in Path : IloadBuiltin(p, path)
                              \/ Iload(p) \/ Open(p) \/ Fstat(p) \/ ParseNativeMod(p)
                              \/ Kread(p) \/ Acquire(p) \/ DropLink(p)
      PROVE  IInv'
  BY <1>3, BuiltinStep, IloadStep, FileSteps, AcquireStep, DropStep
<1>4. QED
  BY <1>1, <1>2, <1>3 DEF LoadNext

\* What IInv says in terms of ModulesCounted.
LEMMA CountedNow ==
  ASSUME IsFiniteSet(Progs), IInv
  PROVE  ModulesCounted
<1> DEFINE c == Count(slot, job, Progs)
<1>1. /\ Good(Table, c) /\ Table.list = modules /\ Table.mod = mod
      /\ slot \in [Progs -> Nat] /\ job \in [Progs -> Job] /\ DOMAIN mod \subseteq Id
  BY NilNotIn DEF IInv, TypeInv, TableInv, Table
<1>2. IsInjective(modules) /\ Range(modules) = DOMAIN mod
  BY <1>1 DEF Good
<1>3. ASSUME NEW p \in Progs
      PROVE  {slot[p], job[p].m, job[p].ans} \ {Nil} \subseteq DOMAIN mod
  <2>1. slot[p] \in Nat /\ job[p].m \in Nat
    BY <1>1 DEF Job
  <2>2. /\ slot[p] # Nil => c[slot[p]] > 0
        /\ job[p].m # Nil => c[job[p].m] > 0
    BY <1>1, CountAtLeast
  <2> HIDE DEF c
  <2>3. /\ slot[p] # Nil => slot[p] \in DOMAIN mod
        /\ job[p].m # Nil => job[p].m \in DOMAIN mod
    BY <1>1, <2>1, <2>2 DEF Good, Id
  <2>4. job[p].ans # Nil => job[p].ans = job[p].m
    BY DEF IInv, VersInv, JobRight
  <2>5. QED
    BY <2>3, <2>4
<1>4. ASSUME NEW m \in DOMAIN mod
      PROVE  /\ mod[m].ref > 0
             /\ mod[m].ref = mod[m].kept + Cardinality({p \in Progs : slot[p] = m})
                                         + Cardinality({p \in Progs : job[p].m = m})
  <2>1. mod[m] \in Rec /\ mod[m].ref = mod[m].kept + c[m]
    <3> HIDE DEF c
    <3>1. QED
      BY <1>1 DEF Good
  <2>2. {p \in Progs : Held(job)[p] = m} = {p \in Progs : job[p].m = m}
    BY DEF Held
  <2>3. c[m] = Num(Progs, slot, m) + Num(Progs, Held(job), m)
    BY <1>1 DEF Count
  <2>4. /\ Num(Progs, slot, m) = Cardinality({p \in Progs : slot[p] = m})
        /\ Num(Progs, Held(job), m) = Cardinality({p \in Progs : job[p].m = m})
    BY <2>2 DEF Num
  <2>5. Num(Progs, slot, m) \in Nat /\ Num(Progs, Held(job), m) \in Nat
    BY NumSome
  <2> HIDE DEF c
  <2>6. mod[m].ref > 0 /\ mod[m].kept \in Nat
    BY <2>1, RecParts
  <2>7. mod[m].ref = mod[m].kept + Num(Progs, slot, m) + Num(Progs, Held(job), m)
    BY <2>1, <2>3, <2>5, <2>6
  <2>8. QED
    BY <2>4, <2>6, <2>7
<1>5. QED
  BY <1>2, <1>3, <1>4 DEF ModulesCounted

\* However many Progs load and drop modules, and however the file changes
\* meanwhile, the table holds each module once, with the number of the Modlinks
\* and loads that refer to it: unload frees none that is referred to.
THEOREM ModulesKept ==
  ASSUME IsFiniteSet(Progs)
  PROVE  LoadSpec => []ModulesCounted
<1>1. LoadInit => IInv
  BY InitInv
<1>2. IInv /\ [LoadNext]_vars => IInv'
  BY Invariance
<1>3. IInv => ModulesCounted
  BY CountedNow
<1>4. QED
  BY <1>1, <1>2, <1>3, PTL DEF LoadSpec

\* A load gives its Prog no module that was read from a version of the file
\* older than the one there was when the load began.
THEOREM LoadsFresh ==
  ASSUME IsFiniteSet(Progs)
  PROVE  LoadSpec => LoadFresh
<1> DEFINE Given == \A p \in Progs :
             job[p].pc = "acquire" /\ job'[p].pc = "idle" /\ slot'[p] # Nil =>
               mod'[slot'[p]].vers >= job[p].since
<1>1. LoadInit => IInv
  BY InitInv
<1>2. IInv /\ [LoadNext]_vars => IInv'
  BY Invariance
<1>3. ASSUME IInv, [LoadNext]_vars
      PROVE  [Given]_vars
  <2>1. SUFFICES ASSUME LoadNext, NEW p \in Progs,
                        job[p].pc = "acquire", job'[p].pc = "idle", slot'[p] # Nil
                 PROVE  mod'[slot'[p]].vers >= job[p].since
    BY <1>3
  <2>2. job \in [Progs -> Job]
    BY <1>3 DEF IInv, TypeInv
  <2>3. CASE WriteFile
    BY <2>1, <2>3 DEF WriteFile
  <2>4. ASSUME NEW q \in Progs, \/ \E path \in Path : IloadBuiltin(q, path)
                                \/ Iload(q) \/ Open(q) \/ Fstat(q) \/ ParseNativeMod(q)
                                \/ Kread(q) \/ Acquire(q) \/ DropLink(q)
        PROVE  mod'[slot'[p]].vers >= job[p].since
    <3>1. CASE \/ \E path \in Path : IloadBuiltin(q, path)
               \/ DropLink(q)
      BY <2>1, <3>1 DEF IloadBuiltin, DropLink
    <3>2. CASE Iload(q)
      BY <2>1, <2>2, <3>2 DEF Iload, Idle
    <3>3. CASE Open(q)
      BY <2>1, <2>2, <3>3 DEF Open
    <3>4. CASE Fstat(q)
      BY <2>1, <2>2, <3>4 DEF Fstat
    <3>5. CASE ParseNativeMod(q)
      BY <2>1, <2>2, <3>5 DEF ParseNativeMod
    <3>6. CASE Kread(q)
      BY <2>1, <2>2, <3>6 DEF Kread
    <3>7. CASE Acquire(q)
      <4>1. CASE q = p
        BY <1>3, <2>1, <3>7, <4>1, AcquireStep
      <4>2. CASE q # p
        BY <2>1, <2>2, <3>7, <4>2 DEF Acquire
      <4>3. QED
        BY <4>1, <4>2
    <3>8. QED
      BY <2>4, <3>1, <3>2, <3>3, <3>4, <3>5, <3>6, <3>7
  <2>5. QED
    BY <2>1, <2>3, <2>4 DEF LoadNext
<1>4. QED
  BY <1>1, <1>2, <1>3, PTL DEF LoadSpec, LoadFresh
=============================================================================
