--------------------------- MODULE DisStackProofs ---------------------------
(***************************************************************************)
(* The stack of a Prog and its rescues, for every set of modules, types,   *)
(* stack sizes, patterns and errors: frames tile the extensions, and a     *)
(* frame returns to eclr when a rescue is in force for it, if errors do    *)
(* not occur while the first frame of an extension is yet to be called.    *)
(***************************************************************************)
EXTENDS DisStack, Recursion, FiniteSetTheorems, SequenceTheorems, TLAPS

(***************************************************************************)
(* The invariant.  m is a value of vm; its frames are fs[1] to fs[n], the  *)
(* oldest first, and hm[j] is the extension fs[j] is in.  The called ones  *)
(* are fs[p[1]] to fs[p[k]], which run in the modules ms[1] to ms[k].  The *)
(* first q records of exsp are for frames that are gone, and the record i  *)
(* after those is for the called frame dp[i].                              *)
(***************************************************************************)
Mods == Module \cup {"Sys"}
PCs == [mod : Mods, at : Label \cup {"eclr"}]
Regs == [PC : PCs, FP : Nat, SP : Nat, TS : Nat, EX : Nat, M : Mods]
FrameSet == [lr : PCs \cup {nil}, fp : Nat, mr : Mods \cup {nil}, t : Types \cup {nil}]
ExtSet == [TR : Types, SP : Nat \cup {nil}, TS : Nat \cup {nil}, EX : Nat \cup {nil}, l : Nat]
RecSet == [id : Nat, pat : Pattern, R : Regs, lr : PCs \cup {nil}]
Memory(S) == UNION {[A -> S] : A \in SUBSET (Nat \ {0})}
VM == [R : Regs, frm : Memory(FrameSet), ext : Memory(ExtSet), exsp : Seq(RecSet), exhdlr : Nat]

End(m, a) == a + SizeOf(m, a)
Top(m, x) == x - 1 + m.ext[x].l

\* The memory is that of frames and of extensions that do not overlap.
Stored(m) ==
  /\ m \in VM
  /\ \A a \in DOMAIN m.frm : m.frm[a].t = nil => a \in DOMAIN m.ext
  /\ \A x \in DOMAIN m.ext : x \in Ext /\ \A y \in Ext : x < y => Top(m, x) < y

\* The frames fs[1] to fs[n] are laid one after the other.
Tiled(m, n, fs, hm) ==
  /\ n \in Nat \ {0} /\ fs \in [1 .. n -> DOMAIN m.frm] /\ hm \in [1 .. n -> DOMAIN m.ext]
  /\ \A j \in 1 .. n : hm[j] <= fs[j] /\ End(m, fs[j]) <= Top(m, hm[j])
  /\ \A j \in 1 .. n : m.frm[fs[j]].t = nil <=> hm[j] = fs[j]
  /\ hm[1] = fs[1] /\ m.ext[hm[1]].EX = nil
  /\ \A j \in 2 .. n :
       IF hm[j] = fs[j]
       THEN /\ m.ext[fs[j]].EX = hm[j - 1] /\ m.ext[fs[j]].SP = End(m, fs[j - 1])
            /\ m.ext[fs[j]].TS = Top(m, hm[j - 1])
       ELSE hm[j] = hm[j - 1] /\ fs[j] = End(m, fs[j - 1])
  /\ \A i, j \in 1 .. n : i < j /\ hm[i] = hm[j] => End(m, fs[i]) <= fs[j]

\* There are no other frames and extensions.
Whole(m, n, fs, hm) ==
  /\ \A a \in DOMAIN m.frm : \E j \in 1 .. n : fs[j] = a
  /\ \A x \in DOMAIN m.ext : \E j \in 1 .. n : hm[j] = x

\* The registers r are those of a stack whose last frame is fs[j].
Describes(m, r, j, fs, hm) ==
  r.EX = hm[j] /\ r.SP = End(m, fs[j]) /\ r.TS = Top(m, hm[j])

\* The called frames.
Chained(m, n, fs, k, p, ms) ==
  /\ k \in Nat \ {0} /\ p \in [1 .. k -> 1 .. n] /\ ms \in [1 .. k -> Mods]
  /\ p[1] = 1 /\ \A i, j \in 1 .. k : i < j => p[i] < p[j]
  /\ m.R.FP = fs[p[k]] /\ m.R.M = ms[k]
  /\ \A i \in 1 .. k : i < k => ms[i] \in Module
  /\ m.frm[fs[1]].fp = NoFrame
  /\ \A i \in 2 .. k :
       /\ m.frm[fs[p[i]]].fp = fs[p[i - 1]]
       /\ ms[i - 1] = IF m.frm[fs[p[i]]].mr # nil THEN m.frm[fs[p[i]]].mr ELSE ms[i]
  /\ \A j \in 1 .. n : (\A i \in 1 .. k : p[i] # j) =>
                           m.frm[fs[j]].fp = NoFrame /\ m.frm[fs[j]].mr = nil

\* What a record e for the called frame d has saved.
Saved(m, e, d, fs, hm, p, ms) ==
  /\ e.R.FP = fs[p[d]] /\ Describes(m, e.R, p[d], fs, hm)
  /\ e.R.M = ms[d] /\ e.R.M \in Module /\ e.R.PC.mod = ms[d] /\ e.R.PC.at \in Label
  /\ d = 1 => e.lr = nil
  /\ d > 1 => e.lr # nil /\ e.lr.mod = ms[d - 1] /\ e.lr.at \in Label

\* The return address of the called frame d, with or without records for it.
Returns(lr, d, marked, ms) ==
  /\ d > 1 => lr # nil /\ lr.mod = ms[d - 1]
  /\ marked => lr # nil /\ lr.at = "eclr"
  /\ ~marked /\ d = 1 => lr = nil
  /\ ~marked /\ d > 1 => lr.at \in Label

\* The records.
Recorded(m, fs, hm, k, p, ms, q, dp) ==
  /\ q \in 0 .. Len(m.exsp) /\ dp \in [q + 1 .. Len(m.exsp) -> 1 .. k]
  /\ \A i \in q + 1 .. Len(m.exsp) : Saved(m, m.exsp[i], dp[i], fs, hm, p, ms)
  /\ \A i, j \in q + 1 .. Len(m.exsp) : i < j => dp[j] <= dp[i]
  /\ \A d \in 1 .. k :
       Returns(m.frm[fs[p[d]]].lr, d, \E i \in q + 1 .. Len(m.exsp) : dp[i] = d, ms)
  /\ \A i \in 1 .. q :
       /\ m.exsp[i].R.FP \notin DOMAIN m.frm
       /\ m.exsp[i].lr # nil /\ m.exsp[i].lr.mod = m.R.M /\ m.exsp[i].lr.at \in Label

Stack(m, n, fs, hm, k, p, ms, q, dp) ==
  /\ Stored(m) /\ Tiled(m, n, fs, hm) /\ Whole(m, n, fs, hm) /\ Describes(m, m.R, n, fs, hm)
  /\ Chained(m, n, fs, k, p, ms) /\ Recorded(m, fs, hm, k, p, ms, q, dp)

\* Between instructions: eclr is next when the frame of a record is gone.
AtRest(m, q) ==
  m.R.M \in Module /\ m.R.PC.mod = m.R.M /\ (m.R.PC.at = "eclr" <=> q > 0)

Good(m) ==
  \E n, fs, hm, k, p, ms, q, dp : Stack(m, n, fs, hm, k, p, ms, q, dp) /\ AtRest(m, q)

\* The inductive invariant.
IInv == pstate = "run" => Good(vm)

-----------------------------------------------------------------------------
(* The least and the greatest of a set of numbers. *)

\* The least of some numbers.
LEMMA MinIs ==
  ASSUME NEW S, S \subseteq Nat, S # {}
  PROVE  Min(S) \in S /\ \A y \in S : Min(S) <= y
<1>1. PICK m \in S : \A y \in S : ~(<<y, m>> \in OpToRel(<, Nat))
  BY NatLessThanWellFounded, WFMin
<1>2. \A y \in S : ~(y < m)
  BY <1>1 DEF OpToRel
<1>3. \A y \in S : m <= y
  BY <1>2
<1>. QED
  BY <1>3 DEF Min

\* The greatest of some numbers up to n.
LEMMA MaxIs ==
  ASSUME NEW n \in Nat, NEW S, S \subseteq 0 .. n, S # {}
  PROVE  Max(S) \in S /\ \A y \in S : y <= Max(S)
<1> DEFINE T == {n - y : y \in S}
<1>1. T \subseteq Nat /\ T # {}
  <2>1. \A y \in S : n - y \in Nat
    OBVIOUS
  <2>2. T # {}
    OBVIOUS
  <2>. QED
    BY <2>1, <2>2
<1>2. Min(T) \in T /\ \A y \in T : Min(T) <= y
  <2>. HIDE DEF T
  <2>. QED
    BY <1>1, MinIs
<1>3. PICK m \in S : Min(T) = n - m
  BY <1>2
<1>4. \A y \in S : y <= m
  <2>1. TAKE y \in S
  <2>2. n - m <= n - y
    BY <1>2, <1>3
  <2>. QED
    BY <2>2
<1>. QED
  BY <1>4 DEF Max

\* Numbers that grow from each to the next.
LEMMA Grows ==
  ASSUME NEW k \in Nat, NEW p \in [1 .. k -> Nat], \A i \in 1 .. k : i < k => p[i] < p[i + 1]
  PROVE  \A i, j \in 1 .. k : i < j => p[i] < p[j]
<1> DEFINE T == {d \in Nat : \A i \in 1 .. k : i + d + 1 <= k => p[i] < p[i + d + 1]}
<1>1. 0 \in T
  OBVIOUS
<1>2. ASSUME NEW d \in Nat, d \in T PROVE d + 1 \in T
  <2>1. SUFFICES ASSUME NEW i \in 1 .. k, i + (d + 1) + 1 <= k
                 PROVE  p[i] < p[i + (d + 1) + 1]
    OBVIOUS
  <2>2. i + d + 1 \in 1 .. k /\ (i + d + 1) + 1 = i + (d + 1) + 1 /\ i + d + 1 < k
    BY <2>1
  <2>3. p[i] < p[i + d + 1]
    BY <1>2, <2>1, <2>2
  <2>4. p[i + d + 1] < p[(i + d + 1) + 1] /\ p[(i + d + 1) + 1] \in Nat /\ p[i] \in Nat /\ p[i + d + 1] \in Nat
    <3>1. (i + d + 1) + 1 \in 1 .. k
      BY <2>1
    <3>. QED
      BY <2>2, <3>1
  <2>. QED
    BY <2>2, <2>3, <2>4
<1>3. \A d \in Nat : d \in T
  <2>. HIDE DEF T
  <2>. QED
    BY <1>1, <1>2, SetInduction
<1>4. SUFFICES ASSUME NEW i \in 1 .. k, NEW j \in 1 .. k, i < j PROVE p[i] < p[j]
  OBVIOUS
<1>5. j - i - 1 \in Nat /\ i + (j - i - 1) + 1 = j
  BY <1>4
<1>6. j - i - 1 \in T
  BY <1>3, <1>5
<1>7. i + (j - i - 1) + 1 <= k => p[i] < p[i + (j - i - 1) + 1]
  BY <1>6
<1>. QED
  BY <1>5, <1>7

-----------------------------------------------------------------------------
(* Frames and extensions. *)

\* What a memory of S is.
LEMMA MemoryIs ==
  ASSUME NEW S, NEW f
  PROVE  f \in Memory(S) <=> /\ f = [a \in DOMAIN f |-> f[a]] /\ DOMAIN f \subseteq Nat \ {0}
                             /\ \A a \in DOMAIN f : f[a] \in S
<1>1. ASSUME f \in Memory(S)
      PROVE  /\ f = [a \in DOMAIN f |-> f[a]] /\ DOMAIN f \subseteq Nat \ {0}
             /\ \A a \in DOMAIN f : f[a] \in S
  <2>1. PICK A \in SUBSET (Nat \ {0}) : f \in [A -> S]
    BY <1>1 DEF Memory
  <2>. QED
    BY <2>1
<1>2. ASSUME f = [a \in DOMAIN f |-> f[a]], DOMAIN f \subseteq Nat \ {0}, \A a \in DOMAIN f : f[a] \in S
      PROVE  f \in Memory(S)
  <2>1. f \in [DOMAIN f -> S]
    BY <1>2
  <2>. QED
    BY <1>2, <2>1 DEF Memory
<1>. QED
  BY <1>1, <1>2

\* The parts of m.
Parts(m) ==
  /\ m.R \in Regs /\ m.exhdlr \in Nat /\ m.exsp \in Seq(RecSet)
  /\ m.frm = [a \in DOMAIN m.frm |-> m.frm[a]] /\ DOMAIN m.frm \subseteq Nat \ {0}
  /\ \A a \in DOMAIN m.frm : m.frm[a] \in FrameSet
  /\ m.ext = [a \in DOMAIN m.ext |-> m.ext[a]] /\ DOMAIN m.ext \subseteq Nat \ {0}
  /\ \A x \in DOMAIN m.ext : m.ext[x] \in ExtSet

\* A value of vm has the parts of one.
LEMMA PartsOf ==
  ASSUME NEW m, m \in VM
  PROVE  Parts(m)
<1>1. m.R \in Regs /\ m.exhdlr \in Nat /\ m.exsp \in Seq(RecSet)
      /\ m.frm \in Memory(FrameSet) /\ m.ext \in Memory(ExtSet)
  BY DEF VM
<1>. QED
  BY <1>1, MemoryIs DEF Parts

\* A record with these parts is a value of vm.
LEMMA OfParts ==
  ASSUME NEW m, Parts(m), m = [R |-> m.R, frm |-> m.frm, ext |-> m.ext, exsp |-> m.exsp, exhdlr |-> m.exhdlr]
  PROVE  m \in VM
<1>1. m.frm \in Memory(FrameSet) /\ m.ext \in Memory(ExtSet)
  BY MemoryIs DEF Parts
<1>. QED
  BY <1>1 DEF VM, Parts

\* A frame has a size, and ends after it begins.
LEMMA SizeIs ==
  ASSUME NEW m, Stored(m), NEW a \in DOMAIN m.frm
  PROVE  /\ SizeOf(m, a) \in Types /\ SizeOf(m, a) \in Nat \ {0} /\ a \in Nat \ {0}
         /\ End(m, a) \in Nat /\ a < End(m, a)
<1>1. Parts(m)
  BY PartsOf DEF Stored
<1>2. a \in Nat \ {0} /\ m.frm[a].t \in Types \cup {nil}
  BY <1>1 DEF Parts, FrameSet
<1>3. m.frm[a].t = nil => m.ext[a].TR \in Types
  BY <1>1 DEF Stored, Parts, ExtSet
<1>4. SizeOf(m, a) \in Types
  BY <1>2, <1>3 DEF SizeOf
<1>5. SizeOf(m, a) \in Nat \ {0}
  BY <1>4, StackAssumption
<1>. QED
  BY <1>2, <1>4, <1>5 DEF End

\* An extension ends before the next one.
LEMMA TopIs ==
  ASSUME NEW m, Stored(m), NEW x \in DOMAIN m.ext
  PROVE  /\ x \in Nat \ {0} /\ x \in Ext /\ Top(m, x) \in Nat
         /\ \A y \in Ext : x < y => Top(m, x) < y
<1>1. Parts(m)
  BY PartsOf DEF Stored
<1>2. x \in Nat \ {0} /\ m.ext[x].l \in Nat
  BY <1>1 DEF Parts, ExtSet
<1>. QED
  BY <1>2 DEF Stored, Top

\* Where a frame lies.
LEMMA Within ==
  ASSUME NEW m, NEW n, NEW fs, NEW hm, Stored(m), Tiled(m, n, fs, hm), NEW j \in 1 .. n
  PROVE  /\ fs[j] \in DOMAIN m.frm /\ hm[j] \in DOMAIN m.ext /\ fs[j] \in Nat \ {0} /\ hm[j] \in Ext
         /\ hm[j] \in Nat \ {0} /\ End(m, fs[j]) \in Nat /\ Top(m, hm[j]) \in Nat
         /\ hm[j] <= fs[j] /\ fs[j] < End(m, fs[j]) /\ End(m, fs[j]) <= Top(m, hm[j])
<1>1. fs[j] \in DOMAIN m.frm /\ hm[j] \in DOMAIN m.ext /\ hm[j] <= fs[j] /\ End(m, fs[j]) <= Top(m, hm[j])
  BY DEF Tiled
<1>. QED
  BY <1>1, SizeIs, TopIs

\* No frame is laid twice.
LEMMA Apart ==
  ASSUME NEW m, NEW n, NEW fs, NEW hm, Stored(m), Tiled(m, n, fs, hm),
         NEW i \in 1 .. n, NEW j \in 1 .. n, i < j
  PROVE  fs[i] # fs[j]
<1>1. CASE hm[i] = hm[j]
  <2>1. End(m, fs[i]) <= fs[j]
    BY <1>1 DEF Tiled
  <2>. QED
    BY <2>1, Within
<1>2. CASE hm[i] # hm[j]
  <2>1. hm[i] < hm[j] \/ hm[j] < hm[i]
    BY <1>2, Within
  <2>2. ASSUME NEW u \in 1 .. n, NEW v \in 1 .. n, hm[u] < hm[v] PROVE fs[u] < fs[v]
    <3>1. Top(m, hm[u]) < hm[v]
      BY <2>2, Within, TopIs
    <3>. QED
      BY <3>1, Within
  <2>. QED
    BY <2>1, <2>2, Within
<1>. QED
  BY <1>1, <1>2

\* Frames laid one after the other are different frames.
LEMMA Distinct ==
  ASSUME NEW m, NEW n, NEW fs, NEW hm, Stored(m), Tiled(m, n, fs, hm),
         NEW i \in 1 .. n, NEW j \in 1 .. n, fs[i] = fs[j]
  PROVE  i = j
<1>1. n \in Nat
  BY DEF Tiled
<1>2. i \in Nat /\ j \in Nat /\ (i < j \/ j < i \/ i = j)
  BY <1>1
<1>. QED
  BY <1>2, Apart

\* The first frame of the extension that fs[j] is in.
LEMMA Start ==
  ASSUME NEW m, NEW n, NEW fs, NEW hm, Stored(m), Tiled(m, n, fs, hm), NEW j \in 1 .. n
  PROVE  \E s \in 1 .. j : hm[s] = fs[s] /\ \A i \in s .. j : hm[i] = hm[j]
<1> DEFINE T == {d \in Nat : d + 1 \in 1 .. n =>
                    \E s \in 1 .. d + 1 : hm[s] = fs[s] /\ \A i \in s .. d + 1 : hm[i] = hm[d + 1]}
<1>0. n \in Nat \ {0} /\ hm[1] = fs[1]
  BY DEF Tiled
<1>1. 0 \in T
  <2>1. 1 \in 1 .. 0 + 1 /\ hm[1] = fs[1] /\ \A i \in 1 .. 0 + 1 : hm[i] = hm[0 + 1]
    BY <1>0
  <2>. QED
    BY <2>1
<1>2. ASSUME NEW d \in Nat, d \in T PROVE d + 1 \in T
  <2>1. SUFFICES ASSUME (d + 1) + 1 \in 1 .. n
        PROVE \E s \in 1 .. (d + 1) + 1 : hm[s] = fs[s] /\ \A i \in s .. (d + 1) + 1 : hm[i] = hm[(d + 1) + 1]
    OBVIOUS
  <2>2. CASE hm[(d + 1) + 1] = fs[(d + 1) + 1]
    <3>1. \A i \in (d + 1) + 1 .. (d + 1) + 1 : hm[i] = hm[(d + 1) + 1]
      OBVIOUS
    <3>. QED
      BY <2>2, <3>1
  <2>3. CASE hm[(d + 1) + 1] # fs[(d + 1) + 1]
    <3>1. hm[(d + 1) + 1] = hm[d + 1]
      <4>1. (d + 1) + 1 \in 2 .. n /\ ((d + 1) + 1) - 1 = d + 1
        BY <2>1
      <4>. QED
        BY <4>1, <2>3 DEF Tiled
    <3>2. d + 1 \in 1 .. n
      BY <2>1, <1>0
    <3>3. PICK s \in 1 .. d + 1 : hm[s] = fs[s] /\ \A i \in s .. d + 1 : hm[i] = hm[d + 1]
      BY <1>2, <3>2
    <3>4. \A i \in s .. (d + 1) + 1 : hm[i] = hm[(d + 1) + 1]
      <4>1. \A i \in s .. (d + 1) + 1 : i \in s .. d + 1 \/ i = (d + 1) + 1
        OBVIOUS
      <4>. QED
        BY <4>1, <3>1, <3>3
    <3>5. s \in 1 .. (d + 1) + 1
      OBVIOUS
    <3>. QED
      BY <3>3, <3>4, <3>5
  <2>. QED
    BY <2>2, <2>3
<1>3. \A d \in Nat : d \in T
  <2>. HIDE DEF T
  <2>. QED
    BY <1>1, <1>2, SetInduction
<1>4. j - 1 \in Nat /\ (j - 1) + 1 = j
  BY <1>0
<1>5. j - 1 \in T
  BY <1>3, <1>4
<1>. QED
  BY <1>4, <1>5

-----------------------------------------------------------------------------
(* The frames that a walk of an extension finds. *)

\* The frames are a sequence of addresses.
LEMMA Listed ==
  ASSUME NEW m, NEW n, NEW fs, NEW hm, Stored(m), Tiled(m, n, fs, hm)
  PROVE  n \in Nat \ {0} /\ fs \in Seq(Nat) /\ Len(fs) = n /\ fs \in [1 .. n -> Nat]
<1>1. n \in Nat \ {0} /\ fs = [i \in 1 .. n |-> fs[i]]
  BY DEF Tiled
<1>2. fs \in [1 .. n -> Nat]
  BY <1>1, Within
<1>. QED
  BY <1>1, <1>2

\* What the walk of FramesIn does at address a, with the walks f of those above.
Walk(m, sp, a, f) ==
  IF a >= sp \/ a \notin DOMAIN m.frm THEN << >> ELSE << a >> \o f[a + SizeOf(m, a)]

\* The walk of FramesIn is well defined: addresses grow until sp.
LEMMA WalkExists ==
  ASSUME NEW m, Stored(m), NEW sp \in Nat
  PROVE  \E f \in [Nat -> Seq(Nat)] : \A a \in Nat : f[a] = Walk(m, sp, a, f)
<1> DEFINE rank == [a \in Nat |-> IF a >= sp THEN 0 ELSE sp - a]
           step == [a \in Nat |-> [f \in [Nat -> Seq(Nat)] |-> Walk(m, sp, a, f)]]
<1>1. ASSUME NEW a \in Nat, NEW f \in [Nat -> Seq(Nat)] PROVE Walk(m, sp, a, f) \in Seq(Nat)
  <2>1. CASE a >= sp \/ a \notin DOMAIN m.frm
    BY <2>1 DEF Walk
  <2>2. CASE ~(a >= sp \/ a \notin DOMAIN m.frm)
    <3>1. a + SizeOf(m, a) \in Nat
      <4>1. PICK z \in Nat : z = SizeOf(m, a)
        BY <2>2, SizeIs
      <4>2. a + z \in Nat
        OBVIOUS
      <4>. QED
        BY <4>1, <4>2
    <3>2. f[a + SizeOf(m, a)] \in Seq(Nat)
      BY <3>1
    <3>. QED
      BY <2>2, <3>2 DEF Walk
  <2>. QED
    BY <2>1, <2>2
<1>2. step \in [Nat -> [[Nat -> Seq(Nat)] -> Seq(Nat)]]
      /\ \A a \in Nat : \A f \in [Nat -> Seq(Nat)] : step[a][f] = Walk(m, sp, a, f)
  BY <1>1
<1>3. rank \in [Nat -> 0 .. sp] /\ \A a \in Nat : rank[a] = IF a >= sp THEN 0 ELSE sp - a
  OBVIOUS
<1> HIDE DEF rank, step
<1>4. ASSUME NEW a \in Nat, NEW g \in [Nat -> Seq(Nat)], NEW h \in [Nat -> Seq(Nat)],
             \A u \in Nat : rank[u] < rank[a] => g[u] = h[u]
      PROVE  step[a][g] = step[a][h]
  <2>1. CASE a >= sp \/ a \notin DOMAIN m.frm
    BY <1>2, <2>1 DEF Walk
  <2>2. CASE ~(a >= sp \/ a \notin DOMAIN m.frm)
    <3>1. SizeOf(m, a) \in Nat \ {0}
      BY <2>2, SizeIs
    <3>2. PICK c \in Nat \ {0} : c = SizeOf(m, a)
      BY <3>1
    <3>4. a + c \in Nat /\ a + c > a /\ ~(a >= sp)
      BY <2>2
    <3>6. rank[a] = sp - a /\ rank[a + c] = IF a + c >= sp THEN 0 ELSE sp - (a + c)
      BY <1>3, <3>4
    <3>7. rank[a + c] < rank[a]
      <4>1. CASE a + c >= sp
        <5>1. rank[a + c] = 0 /\ 0 < sp - a
          BY <3>4, <3>6, <4>1
        <5>. QED
          BY <3>6, <5>1
      <4>2. CASE ~(a + c >= sp)
        <5>1. rank[a + c] = sp - (a + c) /\ sp - (a + c) < sp - a
          BY <3>4, <3>6, <4>2
        <5>. QED
          BY <3>6, <5>1
      <4>. QED
        BY <4>1, <4>2
    <3>3. g[a + SizeOf(m, a)] = h[a + SizeOf(m, a)]
      BY <1>4, <3>2, <3>4, <3>7
    <3>5. Walk(m, sp, a, g) = Walk(m, sp, a, h)
      BY <3>3 DEF Walk
    <3>. QED
      BY <1>2, <3>5
  <2>. QED
    BY <2>1, <2>2
<1>5. Descends(Nat, Seq(Nat), rank, step)
  BY <1>4 DEF Descends
<1>6. Seq(Nat) # {}
  <2>1. << >> \in Seq(Nat)
    OBVIOUS
  <2>. QED
    BY <2>1
<1>7. PICK f \in [Nat -> Seq(Nat)] : Solves(f, Nat, step)
  BY <1>2, <1>3, <1>5, <1>6, RankRecursion
<1>. QED
  BY <1>2, <1>7 DEF Solves

\* FramesIn is that walk.
LEMMA FramesInWalks ==
  ASSUME NEW m, Stored(m), NEW sp \in Nat, NEW ex
  PROVE  \E f : (\A a \in Nat : f[a] = Walk(m, sp, a, f)) /\ FramesIn(m, ex, sp) = f[ex]
<1>1. PICK g \in [Nat -> Seq(Nat)] : \A a \in Nat : g[a] = Walk(m, sp, a, g)
  BY WalkExists
<1> DEFINE f[a \in Nat] == IF a >= sp \/ a \notin DOMAIN m.frm THEN << >>
                           ELSE << a >> \o f[a + SizeOf(m, a)]
<1>2. f = [a \in Nat |-> Walk(m, sp, a, f)]
  <2>1. g = [a \in Nat |-> Walk(m, sp, a, g)]
    <3>1. g = [a \in Nat |-> g[a]]
      OBVIOUS
    <3>. QED
      BY <1>1, <3>1
  <2>. QED
    BY <2>1 DEF Walk
<1>3. FramesIn(m, ex, sp) = f[ex]
  BY Zenon DEF FramesIn
<1> HIDE DEF f
<1>4. \A a \in Nat : f[a] = Walk(m, sp, a, f)
  BY <1>2
<1>. QED
  BY <1>3, <1>4

\* The extension of fs[j] has the frames from its first to that one.
LEMMA FramesInIs ==
  ASSUME NEW m, NEW n, NEW fs, NEW hm, Stored(m), Tiled(m, n, fs, hm), NEW j \in 1 .. n,
         NEW s \in 1 .. j, hm[s] = fs[s], \A i \in s .. j : hm[i] = hm[j]
  PROVE  FramesIn(m, hm[j], End(m, fs[j])) = SubSeq(fs, s, j)
<1> DEFINE sp == End(m, fs[j])
<1>0. /\ n \in Nat \ {0} /\ fs \in Seq(Nat) /\ Len(fs) = n
      /\ j \in Nat /\ s \in Nat /\ s <= j /\ j <= n /\ 1 <= s
  BY Listed
<1>1. sp \in Nat
  BY Within
<1>2. ASSUME NEW i \in s .. j PROVE i \in 1 .. n /\ fs[i] < sp
  <2>1. i \in 1 .. n /\ hm[i] = hm[j]
    BY <1>0
  <2>2. CASE i = j
    BY <2>1, <2>2, Within
  <2>3. CASE i # j
    <3>1. i < j
      BY <2>3
    <3>2. End(m, fs[i]) <= fs[j]
      BY <2>1, <3>1 DEF Tiled
    <3>. QED
      BY <2>1, <3>2, Within
  <2>. QED
    BY <2>2, <2>3
<1>3. ASSUME NEW i \in s .. j, i # j PROVE fs[i + 1] = End(m, fs[i])
  <2>1. i + 1 \in 2 .. n /\ i + 1 \in s .. j /\ (i + 1) - 1 = i /\ s < i + 1
    BY <1>0, <1>3
  <2>2. hm[i + 1] = fs[s]
    BY <2>1, <1>0
  <2>3. fs[i + 1] # fs[s]
    BY <2>1, <1>2, Apart
  <2>. QED
    BY <2>1, <2>2, <2>3 DEF Tiled
<1>4. PICK f : (\A a \in Nat : f[a] = Walk(m, sp, a, f)) /\ FramesIn(m, hm[j], sp) = f[hm[j]]
  BY <1>1, FramesInWalks
<1> DEFINE T == {d \in Nat : d <= j - s => f[fs[j - d]] = SubSeq(fs, j - d, j)}
<1>5. ASSUME NEW i \in s .. j PROVE f[fs[i]] = << fs[i] >> \o f[End(m, fs[i])]
  <2>1. i \in 1 .. n /\ fs[i] \in Nat /\ fs[i] \in DOMAIN m.frm /\ ~(fs[i] >= sp)
    BY <1>1, <1>2, Within
  <2>. QED
    BY <1>4, <2>1 DEF Walk, End
<1> HIDE DEF sp
<1>6. f[sp] = << >>
  <2>1. f[sp] = Walk(m, sp, sp, f) /\ sp >= sp
    BY <1>1, <1>4
  <2>. QED
    BY <2>1 DEF Walk
<1>7. 0 \in T
  <2>1. f[fs[j]] = << fs[j] >> \o << >>
    <3>1. j \in s .. j
      BY <1>0
    <3>. QED
      BY <1>5, <1>6, <3>1 DEF sp
  <2>2. << fs[j] >> \o << >> = << fs[j] >>
    OBVIOUS
  <2>3. SubSeq(fs, j, j) = << fs[j] >>
    <3>1. j \in 1 .. Len(fs) /\ j \in j .. Len(fs) /\ j + 1 \in Int /\ j \in Int /\ j < j + 1
      BY <1>0
    <3>2. SubSeq(fs, j, j) = << fs[j] >> \o SubSeq(fs, j + 1, j)
      BY <1>0, <3>1, SubSeqRecursiveFirst
    <3>3. SubSeq(fs, j + 1, j) = << >>
      BY <3>1, SubSeqEmpty
    <3>. QED
      BY <2>2, <3>2, <3>3
  <2>4. j - 0 = j
    BY <1>0
  <2>. QED
    BY <2>1, <2>2, <2>3, <2>4
<1>8. ASSUME NEW d \in Nat, d \in T PROVE d + 1 \in T
  <2>1. SUFFICES ASSUME d + 1 <= j - s PROVE f[fs[j - (d + 1)]] = SubSeq(fs, j - (d + 1), j)
    OBVIOUS
  <2> DEFINE i == j - (d + 1)
  <2>2. i \in s .. j /\ i # j /\ i + 1 = j - d /\ d <= j - s
    BY <1>0, <2>1
  <2>3. f[fs[i]] = << fs[i] >> \o f[fs[i + 1]]
    <3> HIDE DEF i
    <3>. QED
      BY <1>3, <1>5, <2>2
  <2>4. f[fs[i + 1]] = SubSeq(fs, i + 1, j)
    BY <1>8, <2>2
  <2> HIDE DEF i
  <2>5. << fs[i] >> \o SubSeq(fs, i + 1, j) = SubSeq(fs, i, j)
    <3>1. i \in 1 .. Len(fs) /\ j \in i .. Len(fs)
      BY <1>0, <2>2
    <3>. QED
      BY <1>0, <3>1, SubSeqRecursiveFirst
  <2>. QED
    BY <2>3, <2>4, <2>5 DEF i
<1>9. \A d \in Nat : d \in T
  <2>. HIDE DEF T
  <2>. QED
    BY <1>7, <1>8, SetInduction
<1>10. j - s \in T /\ j - s <= j - s /\ j - (j - s) = s
  <2>1. j - s \in Nat /\ j - s <= j - s /\ j - (j - s) = s
    BY <1>0
  <2>. HIDE DEF T
  <2>. QED
    BY <1>9, <2>1
<1>11. f[fs[s]] = SubSeq(fs, s, j)
  BY <1>10
<1>12. hm[j] = fs[s]
  BY <1>0
<1>. QED
  BY <1>4, <1>11, <1>12 DEF sp

-----------------------------------------------------------------------------
(* All frames, and all extensions. *)

\* The extension that starts at fs[s] comes after that of fs[s - 1].
Follows(m, n, fs, hm, s) ==
  /\ m.ext[fs[s]].EX = hm[s - 1] /\ hm[s - 1] # nil /\ s - 1 \in 1 .. n
  /\ m.ext[fs[s]].SP = End(m, fs[s - 1])
  /\ \E z \in 1 .. s - 1 :
       /\ hm[s - 1] = fs[z] /\ hm[z] = fs[z] /\ \A i \in z .. s - 1 : hm[i] = fs[z]
       /\ FramesIn(m, hm[s - 1], End(m, fs[s - 1])) = SubSeq(fs, z, s - 1)

\* The first extension has none before it; another follows one.
LEMMA Before ==
  ASSUME NEW m, NEW n, NEW fs, NEW hm, Stored(m), Tiled(m, n, fs, hm),
         NEW s \in 1 .. n, hm[s] = fs[s]
  PROVE  (s = 1 => m.ext[fs[s]].EX = nil) /\ (s > 1 => Follows(m, n, fs, hm, s))
<1>0. n \in Nat \ {0} /\ s \in Nat
  BY Listed
<1>1. s = 1 => m.ext[fs[s]].EX = nil
  BY DEF Tiled
<1>2. SUFFICES ASSUME s > 1
      PROVE    /\ m.ext[fs[s]].EX = hm[s - 1] /\ hm[s - 1] # nil /\ s - 1 \in 1 .. n
               /\ m.ext[fs[s]].SP = End(m, fs[s - 1])
               /\ \E z \in 1 .. s - 1 :
                    /\ hm[s - 1] = fs[z] /\ hm[z] = fs[z]
                    /\ \A i \in z .. s - 1 : hm[i] = fs[z]
                    /\ FramesIn(m, hm[s - 1], End(m, fs[s - 1])) = SubSeq(fs, z, s - 1)
  BY <1>1 DEF Follows
<1>3. s \in 2 .. n /\ s - 1 \in 1 .. n
  BY <1>0, <1>2
<1>4. m.ext[fs[s]].EX = hm[s - 1] /\ m.ext[fs[s]].SP = End(m, fs[s - 1])
  BY <1>3 DEF Tiled
<1>5. hm[s - 1] # nil
  BY <1>3, Within, NamesApart
<1>6. PICK z \in 1 .. s - 1 : hm[z] = fs[z] /\ \A i \in z .. s - 1 : hm[i] = hm[s - 1]
  BY <1>3, Start
<1>7. FramesIn(m, hm[s - 1], End(m, fs[s - 1])) = SubSeq(fs, z, s - 1)
  BY <1>3, <1>6, FramesInIs
<1>8. hm[z] = hm[s - 1]
  <2>1. z \in z .. s - 1
    BY <1>0
  <2>. QED
    BY <1>6, <2>1
<1>. QED
  BY <1>3, <1>4, <1>5, <1>6, <1>7, <1>8

\* There are no other extensions.
Opened(m, n, hm) == \A x \in DOMAIN m.ext : \E j \in 1 .. n : hm[j] = x

\* Every extension has its first frame.
LEMMA WholeOpened ==
  ASSUME NEW m, NEW n, NEW fs, NEW hm, Whole(m, n, fs, hm)
  PROVE  Opened(m, n, hm)
BY DEF Whole, Opened

\* Where the extension x starts.
LEMMA StartOf ==
  ASSUME NEW m, NEW n, NEW fs, NEW hm, Stored(m), Tiled(m, n, fs, hm), Opened(m, n, hm),
         NEW x \in DOMAIN m.ext
  PROVE  \E s \in 1 .. n : fs[s] = x /\ hm[s] = x
<1>0. n \in Nat \ {0}
  BY Listed
<1>1. PICK j \in 1 .. n : hm[j] = x
  BY DEF Opened
<1>2. PICK s \in 1 .. j : hm[s] = fs[s] /\ \A i \in s .. j : hm[i] = hm[j]
  BY Start
<1>3. s \in s .. j /\ s \in 1 .. n
  BY <1>0
<1>. QED
  BY <1>1, <1>2, <1>3

\* What lies below the extension x, by those below the others.
Under(m, x, f) ==
  IF m.ext[x].EX = nil THEN << >> ELSE f[m.ext[x].EX] \o FramesIn(m, m.ext[x].EX, m.ext[x].SP)

\* The recursion of LaidSeq is well defined: it goes back a frame.
LEMMA UnderExists ==
  ASSUME NEW m, NEW n, NEW fs, NEW hm, Stored(m), Tiled(m, n, fs, hm), Opened(m, n, hm)
  PROVE  \E f \in [DOMAIN m.ext -> Seq(Nat)] : \A x \in DOMAIN m.ext : f[x] = Under(m, x, f)
<1> DEFINE D == DOMAIN m.ext
           rank == [x \in D |-> CHOOSE s \in 1 .. n : fs[s] = x]
           step == [x \in D |-> [f \in [D -> Seq(Nat)] |-> Under(m, x, f)]]
<1>0. n \in Nat /\ fs \in Seq(Nat) /\ Len(fs) = n
  BY Listed
<1>1. ASSUME NEW x \in D
      PROVE  rank[x] \in 1 .. n /\ fs[rank[x]] = x /\ hm[rank[x]] = x
  <2>1. PICK s \in 1 .. n : fs[s] = x /\ hm[s] = x
    BY StartOf
  <2>2. rank[x] \in 1 .. n /\ fs[rank[x]] = x
    BY <2>1
  <2>. HIDE DEF rank
  <2>3. rank[x] = s
    BY <2>1, <2>2, Distinct
  <2>. QED
    BY <2>1, <2>2, <2>3
<1>2. rank \in [D -> 0 .. n]
  <2>1. rank = [x \in D |-> rank[x]]
    OBVIOUS
  <2>. HIDE DEF rank
  <2>2. \A x \in D : rank[x] \in 0 .. n
    <3>1. \A x \in D : rank[x] \in 1 .. n
      BY <1>1
    <3>. QED
      BY <1>0, <3>1
  <2>. QED
    BY <2>1, <2>2
<1> HIDE DEF rank
<1>3. ASSUME NEW x \in D, m.ext[x].EX # nil
      PROVE  /\ m.ext[x].EX \in D /\ rank[m.ext[x].EX] < rank[x]
             /\ FramesIn(m, m.ext[x].EX, m.ext[x].SP) \in Seq(Nat)
  <2> DEFINE s == rank[x]
  <2>1. s \in 1 .. n /\ fs[s] = x /\ hm[s] = x
    BY <1>1
  <2> HIDE DEF s
  <2>2. s > 1
    BY <2>1, <1>3, <1>0, Before
  <2>3. PICK z \in 1 .. s - 1 :
          /\ m.ext[x].EX = fs[z] /\ hm[z] = fs[z]
          /\ FramesIn(m, m.ext[x].EX, m.ext[x].SP) = SubSeq(fs, z, s - 1)
    <3>1. Follows(m, n, fs, hm, s)
      BY <2>1, <2>2, Before
    <3>. QED
      BY <2>1, <3>1 DEF Follows
  <2>4. z \in 1 .. n /\ z < s
    BY <2>1, <1>0
  <2>5. fs[z] \in D
    BY <2>3, <2>4, Within
  <2>6. rank[fs[z]] = z
    BY <2>4, <2>5, <1>1, Distinct
  <2>7. SubSeq(fs, z, s - 1) \in Seq(Nat)
    BY <1>0, <2>1, <2>4
  <2>. QED
    BY <2>3, <2>4, <2>5, <2>6, <2>7 DEF s
<1>4. ASSUME NEW x \in D, NEW f \in [D -> Seq(Nat)] PROVE Under(m, x, f) \in Seq(Nat)
  BY <1>3 DEF Under
<1>5. step \in [D -> [[D -> Seq(Nat)] -> Seq(Nat)]]
      /\ \A x \in D : \A f \in [D -> Seq(Nat)] : step[x][f] = Under(m, x, f)
  BY <1>4
<1> HIDE DEF step
<1>6. ASSUME NEW x \in D, NEW g \in [D -> Seq(Nat)], NEW h \in [D -> Seq(Nat)],
             \A u \in D : rank[u] < rank[x] => g[u] = h[u]
      PROVE  step[x][g] = step[x][h]
  <2>1. Under(m, x, g) = Under(m, x, h)
    BY <1>3, <1>6 DEF Under
  <2>. QED
    BY <1>5, <2>1
<1>7. Descends(D, Seq(Nat), rank, step)
  BY <1>6 DEF Descends
<1>8. Seq(Nat) # {}
  BY <1>0
<1>9. PICK f \in [D -> Seq(Nat)] : Solves(f, D, step)
  BY <1>0, <1>2, <1>5, <1>7, <1>8, RankRecursion
<1>. QED
  BY <1>5, <1>9 DEF Solves

\* All frames, the oldest first.
LEMMA LaidSeqIs ==
  ASSUME NEW m, NEW n, NEW fs, NEW hm, Stored(m), Tiled(m, n, fs, hm), Opened(m, n, hm),
         Describes(m, m.R, n, fs, hm)
  PROVE  LaidSeq(m) = fs
<1>0. n \in Nat \ {0} /\ fs \in Seq(Nat) /\ Len(fs) = n
  BY Listed
<1>1. PICK g \in [DOMAIN m.ext -> Seq(Nat)] : \A x \in DOMAIN m.ext : g[x] = Under(m, x, g)
  BY UnderExists
<1> DEFINE below[ex \in DOMAIN m.ext] ==
             LET sx == m.ext[ex]
             IN IF sx.EX = nil THEN << >> ELSE below[sx.EX] \o FramesIn(m, sx.EX, sx.SP)
<1>2. below = [x \in DOMAIN m.ext |-> Under(m, x, below)]
  <2>1. g = [x \in DOMAIN m.ext |-> Under(m, x, g)]
    <3>1. g = [x \in DOMAIN m.ext |-> g[x]]
      OBVIOUS
    <3>. QED
      BY <1>1, <3>1
  <2>. QED
    BY <2>1 DEF Under
<1>3. LaidSeq(m) = below[m.R.EX] \o FramesIn(m, m.R.EX, m.R.SP)
  BY Zenon DEF LaidSeq
<1> HIDE DEF below
<1>4. \A x \in DOMAIN m.ext : below[x] = Under(m, x, below)
  BY <1>2
<1> DEFINE T == {d \in Nat : \A s \in 1 .. n : s <= d + 1 /\ hm[s] = fs[s] => below[fs[s]] = SubSeq(fs, 1, s - 1)}
<1>5. ASSUME NEW s \in 1 .. n, hm[s] = fs[s], s = 1 PROVE below[fs[s]] = SubSeq(fs, 1, s - 1)
  <2>1. fs[s] \in DOMAIN m.ext /\ m.ext[fs[s]].EX = nil
    <3>1. fs[s] \in DOMAIN m.ext
      BY <1>5, Within
    <3>2. m.ext[fs[s]].EX = nil
      BY <1>5, Before
    <3>. QED
      BY <3>1, <3>2
  <2>2. below[fs[s]] = << >>
    BY <1>4, <2>1 DEF Under
  <2>3. SubSeq(fs, 1, s - 1) = << >>
    BY <1>5, SubSeqEmpty
  <2>. QED
    BY <2>2, <2>3
<1>6. 0 \in T
  <2>1. \A s \in 1 .. n : s <= 0 + 1 => s = 1
    BY <1>0
  <2>. QED
    BY <1>5, <2>1
<1>7. ASSUME NEW d \in Nat, d \in T PROVE d + 1 \in T
  <2>1. SUFFICES ASSUME NEW s \in 1 .. n, s <= (d + 1) + 1, hm[s] = fs[s]
                 PROVE  below[fs[s]] = SubSeq(fs, 1, s - 1)
    OBVIOUS
  <2>2. CASE s = 1
    BY <1>5, <2>1, <2>2
  <2>3. CASE s # 1
    <3>1. s > 1 /\ s \in Nat
      BY <1>0, <2>3
    <3>2. PICK z \in 1 .. s - 1 :
            /\ m.ext[fs[s]].EX = fs[z] /\ hm[z] = fs[z] /\ fs[z] # nil
            /\ FramesIn(m, m.ext[fs[s]].EX, m.ext[fs[s]].SP) = SubSeq(fs, z, s - 1)
      <4>1. /\ m.ext[fs[s]].EX = hm[s - 1] /\ hm[s - 1] # nil
            /\ m.ext[fs[s]].SP = End(m, fs[s - 1])
            /\ \E z \in 1 .. s - 1 :
                  /\ hm[s - 1] = fs[z] /\ hm[z] = fs[z]
                  /\ FramesIn(m, hm[s - 1], End(m, fs[s - 1])) = SubSeq(fs, z, s - 1)
        <5>1. Follows(m, n, fs, hm, s)
          BY <2>1, <3>1, Before
        <5>. QED
          BY <5>1 DEF Follows
      <4>. QED
        BY <4>1
    <3>3. z \in 1 .. n /\ z <= d + 1 /\ z \in Nat
      BY <1>0, <2>1, <3>1
    <3>4. below[fs[z]] = SubSeq(fs, 1, z - 1)
      BY <1>7, <3>2, <3>3
    <3>5. below[fs[s]] = SubSeq(fs, 1, z - 1) \o SubSeq(fs, z, s - 1)
      <4>1. fs[s] \in DOMAIN m.ext
        BY <2>1, Within
      <4>. QED
        BY <1>4, <3>2, <3>4, <4>1 DEF Under
    <3>6. /\ 1 \in 1 .. Len(fs) + 1 /\ z - 1 \in 1 - 1 .. Len(fs) /\ s - 1 \in z - 1 .. Len(fs)
          /\ (z - 1) + 1 = z
      BY <1>0, <3>1, <3>3
    <3>7. SubSeq(fs, 1, z - 1) \o SubSeq(fs, (z - 1) + 1, s - 1) = SubSeq(fs, 1, s - 1)
      BY <1>0, <3>6, ConcatAdjacentSubSeq
    <3>. QED
      BY <3>5, <3>6, <3>7
  <2>. QED
    BY <2>2, <2>3
<1>8. \A d \in Nat : d \in T
  <2>. HIDE DEF T
  <2>. QED
    BY <1>6, <1>7, SetInduction
<1>9. PICK s \in 1 .. n : hm[s] = fs[s] /\ \A i \in s .. n : hm[i] = hm[n]
  <2>1. n \in 1 .. n
    BY <1>0
  <2>. QED
    BY <2>1, Start
<1>10. below[fs[s]] = SubSeq(fs, 1, s - 1)
  <2>1. s \in T
    <3>1. s \in Nat
      BY <1>0
    <3>. HIDE DEF T
    <3>. QED
      BY <1>8, <3>1
  <2>2. s <= s + 1
    BY <1>0
  <2>. QED
    BY <1>9, <2>1, <2>2
<1>11. FramesIn(m, hm[n], End(m, fs[n])) = SubSeq(fs, s, n) /\ hm[n] = fs[s]
  <2>1. n \in 1 .. n /\ s \in s .. n
    BY <1>0
  <2>. QED
    BY <1>9, <2>1, FramesInIs
<1>12. LaidSeq(m) = SubSeq(fs, 1, s - 1) \o SubSeq(fs, s, n)
  BY <1>3, <1>10, <1>11 DEF Describes
<1>13. /\ 1 \in 1 .. Len(fs) + 1 /\ s - 1 \in 1 - 1 .. Len(fs) /\ n \in s - 1 .. Len(fs)
       /\ (s - 1) + 1 = s
  BY <1>0
<1>14. SubSeq(fs, 1, s - 1) \o SubSeq(fs, (s - 1) + 1, n) = SubSeq(fs, 1, n)
  BY <1>0, <1>13, ConcatAdjacentSubSeq
<1>15. SubSeq(fs, 1, n) = fs
  BY <1>0, SubSeqFull
<1>. QED
  BY <1>12, <1>13, <1>14, <1>15

\* The extensions below x with x, by those of the others.
Over(m, x, f) ==
  IF m.ext[x].EX = nil THEN << x >> ELSE << x >> \o f[m.ext[x].EX]

\* The recursion of Extensions is, likewise.
LEMMA OverExists ==
  ASSUME NEW m, NEW n, NEW fs, NEW hm, Stored(m), Tiled(m, n, fs, hm), Whole(m, n, fs, hm)
  PROVE  \E f \in [DOMAIN m.ext -> Seq(Nat)] : \A x \in DOMAIN m.ext : f[x] = Over(m, x, f)
<1> DEFINE D == DOMAIN m.ext
           rank == [x \in D |-> CHOOSE s \in 1 .. n : fs[s] = x]
           step == [x \in D |-> [f \in [D -> Seq(Nat)] |-> Over(m, x, f)]]
<1>0. n \in Nat
  BY Listed
<1>1. ASSUME NEW x \in D
      PROVE  rank[x] \in 1 .. n /\ fs[rank[x]] = x /\ hm[rank[x]] = x
  <2>1. PICK s \in 1 .. n : fs[s] = x /\ hm[s] = x
    BY StartOf, WholeOpened
  <2>2. rank[x] \in 1 .. n /\ fs[rank[x]] = x
    BY <2>1
  <2>. HIDE DEF rank
  <2>3. rank[x] = s
    BY <2>1, <2>2, Distinct
  <2>. QED
    BY <2>1, <2>2, <2>3
<1>2. rank \in [D -> 0 .. n]
  <2>1. rank = [x \in D |-> rank[x]]
    OBVIOUS
  <2>. HIDE DEF rank
  <2>2. \A x \in D : rank[x] \in 0 .. n
    <3>1. \A x \in D : rank[x] \in 1 .. n
      BY <1>1
    <3>. QED
      BY <1>0, <3>1
  <2>. QED
    BY <2>1, <2>2
<1> HIDE DEF rank
<1>3. ASSUME NEW x \in D, m.ext[x].EX # nil
      PROVE  m.ext[x].EX \in D /\ rank[m.ext[x].EX] < rank[x]
  <2> DEFINE s == rank[x]
  <2>1. s \in 1 .. n /\ fs[s] = x /\ hm[s] = x
    BY <1>1
  <2> HIDE DEF s
  <2>2. s > 1
    BY <2>1, <1>3, <1>0, Before
  <2>3. PICK z \in 1 .. s - 1 : m.ext[x].EX = fs[z] /\ hm[z] = fs[z]
    BY <2>1, <2>2, Before DEF Follows
  <2>4. z \in 1 .. n /\ z < s
    BY <2>1, <1>0
  <2>5. fs[z] \in D
    BY <2>3, <2>4, Within
  <2>6. rank[fs[z]] = z
    BY <2>4, <2>5, <1>1, Distinct
  <2>. QED
    BY <2>3, <2>4, <2>5, <2>6 DEF s
<1>4. ASSUME NEW x \in D, NEW f \in [D -> Seq(Nat)] PROVE Over(m, x, f) \in Seq(Nat)
  <2>1. x \in Nat
    BY TopIs
  <2>2. m.ext[x].EX # nil => f[m.ext[x].EX] \in Seq(Nat)
    BY <1>3
  <2>. QED
    BY <2>1, <2>2 DEF Over
<1>5. step \in [D -> [[D -> Seq(Nat)] -> Seq(Nat)]]
      /\ \A x \in D : \A f \in [D -> Seq(Nat)] : step[x][f] = Over(m, x, f)
  BY <1>4
<1> HIDE DEF step
<1>6. ASSUME NEW x \in D, NEW g \in [D -> Seq(Nat)], NEW h \in [D -> Seq(Nat)],
             \A u \in D : rank[u] < rank[x] => g[u] = h[u]
      PROVE  step[x][g] = step[x][h]
  <2>1. Over(m, x, g) = Over(m, x, h)
    BY <1>3, <1>6 DEF Over
  <2>. QED
    BY <1>5, <2>1
<1>7. Descends(D, Seq(Nat), rank, step)
  BY <1>6 DEF Descends
<1>8. Seq(Nat) # {}
  <2>1. << >> \in Seq(Nat)
    OBVIOUS
  <2>. QED
    BY <2>1
<1>9. PICK f \in [D -> Seq(Nat)] : Solves(f, D, step)
  BY <1>0, <1>2, <1>5, <1>7, <1>8, RankRecursion
<1>. QED
  BY <1>5, <1>9 DEF Solves

\* The one element of a sequence of one.
LEMMA RangeOne ==
  ASSUME NEW x
  PROVE  Range(<< x >>) = {x}
<1>1. DOMAIN << x >> = {1} /\ << x >>[1] = x
  OBVIOUS
<1>. QED
  BY <1>1 DEF Range

\* The elements of a sequence and the one put before it.
LEMMA RangeCons ==
  ASSUME NEW x \in Nat, NEW s \in Seq(Nat)
  PROVE  Range(<< x >> \o s) = {x} \cup Range(s)
<1> DEFINE t == << x >> \o s
<1>0. << x >> \in Seq(Nat) /\ Len(<< x >>) = 1 /\ << x >>[1] = x
  OBVIOUS
<1>1. t \in Seq(Nat) /\ Len(t) = Len(s) + 1
      /\ \A i \in 1 .. 1 + Len(s) : t[i] = IF i <= 1 THEN << x >>[i] ELSE s[i - 1]
  BY <1>0, ConcatProperties
<1>2. DOMAIN t = 1 .. Len(s) + 1 /\ DOMAIN s = 1 .. Len(s) /\ Len(s) \in Nat
  BY <1>1
<1> HIDE DEF t
<1>3. ASSUME NEW y \in Range(t) PROVE y \in {x} \cup Range(s)
  <2>1. PICK i \in 1 .. Len(s) + 1 : y = t[i]
    BY <1>2 DEF Range
  <2>2. CASE i <= 1
    BY <1>0, <1>1, <1>2, <2>1, <2>2
  <2>3. CASE i > 1
    <3>1. i - 1 \in DOMAIN s /\ y = s[i - 1]
      BY <1>1, <1>2, <2>1, <2>3
    <3>. QED
      BY <3>1 DEF Range
  <2>. QED
    BY <2>2, <2>3, <1>2
<1>4. x \in Range(t)
  <2>1. 1 \in DOMAIN t /\ t[1] = x
    BY <1>0, <1>1, <1>2
  <2>. QED
    BY <2>1 DEF Range
<1>5. ASSUME NEW y \in Range(s) PROVE y \in Range(t)
  <2>1. PICK i \in 1 .. Len(s) : y = s[i]
    BY <1>2 DEF Range
  <2>2. i + 1 \in 1 .. Len(s) + 1 /\ i + 1 > 1 /\ (i + 1) - 1 = i
    BY <1>2
  <2>3. i + 1 \in DOMAIN t /\ t[i + 1] = s[i]
    <3>1. PICK j : j = i + 1
      OBVIOUS
    <3>2. j \in 1 .. 1 + Len(s) /\ ~(j <= 1) /\ j - 1 = i
      BY <1>2, <2>2, <3>1
    <3>3. t[j] = s[j - 1]
      BY <1>1, <3>2
    <3>. QED
      BY <1>2, <2>2, <3>1, <3>2, <3>3
  <2>. QED
    BY <2>1, <2>3 DEF Range
<1>. QED
  BY <1>3, <1>4, <1>5 DEF t

\* Extensions finds all.
LEMMA ExtensionsIs ==
  ASSUME NEW m, NEW n, NEW fs, NEW hm, Stored(m), Tiled(m, n, fs, hm), Whole(m, n, fs, hm),
         Describes(m, m.R, n, fs, hm)
  PROVE  Range(Extensions(m)) = DOMAIN m.ext
<1>0. n \in Nat \ {0}
  BY Listed
<1>1. PICK g \in [DOMAIN m.ext -> Seq(Nat)] : \A x \in DOMAIN m.ext : g[x] = Over(m, x, g)
  BY OverExists
<1> DEFINE f[x \in DOMAIN m.ext] ==
             IF m.ext[x].EX = nil THEN << x >> ELSE << x >> \o f[m.ext[x].EX]
<1>2. f = [x \in DOMAIN m.ext |-> Over(m, x, f)]
  <2>1. g = [x \in DOMAIN m.ext |-> Over(m, x, g)]
    <3>1. g = [x \in DOMAIN m.ext |-> g[x]]
      OBVIOUS
    <3>. QED
      BY <1>1, <3>1
  <2>. QED
    BY <2>1 DEF Over
<1>3. Extensions(m) = f[m.R.EX]
  BY Zenon DEF Extensions
<1> HIDE DEF f
<1>4. \A x \in DOMAIN m.ext : f[x] = Over(m, x, f)
  BY <1>2
<1> DEFINE H(s) == {hm[i] : i \in 1 .. s}
           T == {d \in Nat : \A s \in 1 .. n : s <= d + 1 /\ hm[s] = fs[s] =>
                               f[fs[s]] \in Seq(Nat) /\ Range(f[fs[s]]) = H(s)}
<1>5. ASSUME NEW s \in 1 .. n, hm[s] = fs[s], s = 1
      PROVE  f[fs[s]] \in Seq(Nat) /\ Range(f[fs[s]]) = H(s)
  <2>1. fs[s] \in DOMAIN m.ext /\ m.ext[fs[s]].EX = nil /\ fs[s] \in Nat
    <3>1. fs[s] \in DOMAIN m.ext /\ fs[s] \in Nat
      BY <1>5, Within
    <3>2. m.ext[fs[s]].EX = nil
      BY <1>5, Before
    <3>. QED
      BY <3>1, <3>2
  <2>2. f[fs[s]] = << fs[s] >>
    BY <1>4, <2>1 DEF Over
  <2>3. H(s) = {fs[s]}
    BY <1>5
  <2>4. f[fs[s]] \in Seq(Nat)
    BY <2>1, <2>2
  <2>5. Range(f[fs[s]]) = {fs[s]}
    BY <2>2, RangeOne
  <2>. HIDE DEF H
  <2>. QED
    BY <2>3, <2>4, <2>5
<1>6. 0 \in T
  <2>1. \A s \in 1 .. n : s <= 0 + 1 => s = 1
    BY <1>0
  <2>. HIDE DEF H
  <2>. QED
    BY <1>5, <2>1
<1>7. ASSUME NEW d \in Nat, d \in T PROVE d + 1 \in T
  <2>. HIDE DEF H
  <2>1. SUFFICES ASSUME NEW s \in 1 .. n, s <= (d + 1) + 1, hm[s] = fs[s]
                 PROVE  f[fs[s]] \in Seq(Nat) /\ Range(f[fs[s]]) = H(s)
    OBVIOUS
  <2>2. CASE s = 1
    BY <1>5, <2>1, <2>2
  <2>3. CASE s # 1
    <3>1. s > 1 /\ s \in Nat
      BY <1>0, <2>3
    <3>2. PICK z \in 1 .. s - 1 :
            /\ m.ext[fs[s]].EX = fs[z] /\ hm[z] = fs[z] /\ fs[z] # nil
            /\ \A i \in z .. s - 1 : hm[i] = fs[z]
      <4>1. hm[s] = fs[s]
        BY <2>1
      <4>2. Follows(m, n, fs, hm, s)
        BY <3>1, <4>1, Before
      <4>. QED
        BY <4>2 DEF Follows
    <3>3. z \in 1 .. n /\ z <= d + 1 /\ z \in Nat /\ z < s
      BY <1>0, <2>1, <3>1
    <3>4. f[fs[z]] \in Seq(Nat) /\ Range(f[fs[z]]) = H(z)
      BY <1>7, <3>2, <3>3
    <3>5. f[fs[s]] = << fs[s] >> \o f[fs[z]] /\ fs[s] \in Nat
      <4>1. fs[s] \in DOMAIN m.ext /\ fs[s] \in Nat
        BY <2>1, Within
      <4>. QED
        BY <1>4, <3>2, <4>1 DEF Over
    <3>6. H(s) = {fs[s]} \cup H(z)
      <4>1. \A i \in 1 .. s : i \in 1 .. z \/ i \in z .. s - 1 \/ i = s
        BY <3>1, <3>3
      <4>2. z \in 1 .. z /\ \A i \in 1 .. z : i \in 1 .. s
        BY <3>1, <3>3
      <4>3. s \in 1 .. s
        BY <3>1
      <4>. QED
        BY <2>1, <3>2, <4>1, <4>2, <4>3 DEF H
    <3>7. Range(f[fs[s]]) = {fs[s]} \cup Range(f[fs[z]])
      BY <3>4, <3>5, RangeCons
    <3>8. f[fs[s]] \in Seq(Nat)
      BY <3>4, <3>5
    <3>. QED
      BY <3>4, <3>6, <3>7, <3>8
  <2>. QED
    BY <2>2, <2>3
<1>8. \A d \in Nat : d \in T
  <2>. HIDE DEF T
  <2>. QED
    BY <1>6, <1>7, SetInduction
<1>9. PICK s \in 1 .. n : hm[s] = fs[s] /\ \A i \in s .. n : hm[i] = hm[n]
  <2>1. n \in 1 .. n
    BY <1>0
  <2>. QED
    BY <2>1, Start
<1>10. Range(f[fs[s]]) = H(s)
  <2>1. s \in Nat /\ s <= s + 1
    BY <1>0
  <2>2. s \in T
    <3>. HIDE DEF T
    <3>. QED
      BY <1>8, <2>1
  <2>. HIDE DEF H
  <2>. QED
    BY <1>9, <2>1, <2>2
<1>11. H(s) = DOMAIN m.ext
  <2>1. \A i \in 1 .. n : hm[i] \in H(s)
    <3>1. TAKE i \in 1 .. n
    <3>2. i \in 1 .. s \/ i \in s .. n
      BY <1>0
    <3>3. s \in 1 .. s /\ s \in s .. n /\ n \in s .. n
      BY <1>0
    <3>4. hm[s] = hm[n]
      BY <1>9, <3>3
    <3>. QED
      BY <1>9, <3>2, <3>3, <3>4
  <2>2. \A x \in DOMAIN m.ext : x \in H(s)
    <3>. HIDE DEF H
    <3>. QED
      BY <2>1 DEF Whole
  <2>3. \A i \in 1 .. s : hm[i] \in DOMAIN m.ext
    <3>1. \A i \in 1 .. s : i \in 1 .. n
      BY <1>0
    <3>. QED
      BY <3>1, Within
  <2>. QED
    BY <2>2, <2>3
<1>12. m.R.EX = fs[s]
  <2>1. s \in s .. n
    BY <1>0
  <2>. QED
    BY <1>9, <2>1 DEF Describes
<1>. QED
  BY <1>3, <1>10, <1>11, <1>12

\* A part of one element.
LEMMA SubSeqOne ==
  ASSUME NEW S, NEW s \in Seq(S), NEW i \in 1 .. Len(s)
  PROVE  SubSeq(s, i, i) = << s[i] >>
<1>1. i \in 1 .. Len(s) /\ i \in i .. Len(s) /\ i + 1 \in Int /\ i \in Int /\ i < i + 1
  OBVIOUS
<1>2. SubSeq(s, i, i) = << s[i] >> \o SubSeq(s, i + 1, i)
  BY <1>1, SubSeqRecursiveFirst
<1>3. SubSeq(s, i + 1, i) = << >>
  BY <1>1, SubSeqEmpty
<1>4. << s[i] >> \in Seq(S)
  BY <1>1
<1>. QED
  BY <1>2, <1>3, <1>4, ConcatEmptySeq

\* The frames that are laid are those of memory.
LEMMA LaidIs ==
  ASSUME NEW m, NEW n, NEW fs, NEW hm, Stored(m), Tiled(m, n, fs, hm), Whole(m, n, fs, hm),
         Describes(m, m.R, n, fs, hm)
  PROVE  Laid(m) = DOMAIN m.frm
<1>0. n \in Nat \ {0} /\ fs \in Seq(Nat) /\ Len(fs) = n /\ DOMAIN fs = 1 .. n
  BY Listed
<1>1. LaidSeq(m) = fs
  BY LaidSeqIs, WholeOpened
<1>2. \A i \in 1 .. n : fs[i] \in DOMAIN m.frm
  BY Within
<1>3. \A a \in DOMAIN m.frm : \E j \in 1 .. n : fs[j] = a
  BY DEF Whole
<1>. QED
  BY <1>0, <1>1, <1>2, <1>3 DEF Laid, Range

\* The walk of the registers of fs[j] ends with fs[j].
LEMMA LastFrame ==
  ASSUME NEW m, NEW n, NEW fs, NEW hm, Stored(m), Tiled(m, n, fs, hm), NEW j \in 1 .. n
  PROVE  /\ FramesIn(m, hm[j], End(m, fs[j])) # << >>
         /\ Last(FramesIn(m, hm[j], End(m, fs[j]))) = fs[j]
<1>0. n \in Nat \ {0} /\ fs \in Seq(Nat) /\ Len(fs) = n
  BY Listed
<1>1. PICK s \in 1 .. j : hm[s] = fs[s] /\ \A i \in s .. j : hm[i] = hm[j]
  BY Start
<1>2. FramesIn(m, hm[j], End(m, fs[j])) = SubSeq(fs, s, j)
  BY <1>1, FramesInIs
<1>3. s \in Int /\ j \in Int /\ s <= j /\ \A i \in s .. j : fs[i] \in Nat
  BY <1>0
<1>4. /\ SubSeq(fs, s, j) \in Seq(Nat) /\ Len(SubSeq(fs, s, j)) = j - s + 1
      /\ \A i \in 1 .. j - s + 1 : SubSeq(fs, s, j)[i] = fs[s + i - 1]
  BY <1>3, SubSeqProperties
<1>5. j - s + 1 \in 1 .. j - s + 1 /\ s + (j - s + 1) - 1 = j
  BY <1>3
<1>6. SubSeq(fs, s, j)[j - s + 1] = fs[j]
  BY <1>4, <1>5
<1>7. SubSeq(fs, s, j) # << >>
  <2>1. Len(SubSeq(fs, s, j)) # 0
    BY <1>3, <1>4
  <2>2. Len(<< >>) = 0
    OBVIOUS
  <2>. QED
    BY <2>1, <2>2
<1>. QED
  BY <1>2, <1>4, <1>6, <1>7 DEF Last

\* The newest frame is the last one.
LEMMA NewestIs ==
  ASSUME NEW m, NEW n, NEW fs, NEW hm, Stored(m), Tiled(m, n, fs, hm), Describes(m, m.R, n, fs, hm)
  PROVE  Newest(m) = fs[n]
<1>1. n \in 1 .. n
  BY Listed
<1>2. m.R.EX = hm[n] /\ m.R.SP = End(m, fs[n])
  BY DEF Describes
<1>. QED
  BY <1>1, <1>2, LastFrame DEF Newest

\* If at most one frame is yet to be called, it is the one after R.FP.
LEMMA OneUncalledIs ==
  ASSUME NEW m, NEW n, NEW fs, NEW hm, Stored(m), Tiled(m, n, fs, hm), Whole(m, n, fs, hm),
         Describes(m, m.R, n, fs, hm), NEW j \in 1 .. n, m.R.FP = fs[j], OneUncalled(m)
  PROVE  n <= j + 1
<1>0. n \in Nat \ {0} /\ fs \in Seq(Nat) /\ Len(fs) = n
  BY Listed
<1> DEFINE i == CHOOSE z \in 1 .. Len(LaidSeq(m)) : LaidSeq(m)[z] = m.R.FP
<1>1. LaidSeq(m) = fs
  BY LaidSeqIs, WholeOpened
<1>2. i \in 1 .. n /\ fs[i] = fs[j]
  BY <1>0, <1>1
<1>3. Len(LaidSeq(m)) <= i + 1
  BY DEF OneUncalled
<1> HIDE DEF i
<1>4. i = j
  BY <1>2, Distinct
<1>. QED
  BY <1>0, <1>1, <1>3, <1>4

\* The link of a frame leads to an older one.
LEMMA LinkOf ==
  ASSUME NEW m, NEW n, NEW fs, NEW hm, NEW k, NEW p, NEW ms, Stored(m), Tiled(m, n, fs, hm),
         Chained(m, n, fs, k, p, ms), NEW j \in 1 .. n
  PROVE  m.frm[fs[j]].fp = NoFrame \/ \E z \in 1 .. n : z < j /\ m.frm[fs[j]].fp = fs[z]
<1>0. k \in Nat \ {0} /\ p \in [1 .. k -> 1 .. n] /\ p[1] = 1 /\ n \in Nat
  BY Listed DEF Chained
<1>1. CASE \A i \in 1 .. k : p[i] # j
  BY <1>1 DEF Chained
<1>2. CASE \E i \in 1 .. k : p[i] = j
  <2>1. PICK i \in 1 .. k : p[i] = j
    BY <1>2
  <2>2. CASE i = 1
    BY <1>0, <2>1, <2>2 DEF Chained
  <2>3. CASE i # 1
    <3>1. i \in 2 .. k /\ i - 1 \in 1 .. k /\ i - 1 < i
      BY <1>0, <2>3
    <3>2. m.frm[fs[j]].fp = fs[p[i - 1]] /\ p[i - 1] < j /\ p[i - 1] \in 1 .. n
      BY <1>0, <2>1, <3>1 DEF Chained
    <3>. QED
      BY <3>2
  <2>. QED
    BY <2>2, <2>3
<1>. QED
  BY <1>1, <1>2

\* The frames that the chain from a has, by those from the frames it is linked to.
Links(m, a, f) == IF a = NoFrame THEN << >> ELSE Append(f[m.frm[a].fp], a)

\* The recursion of Chain is well defined: a frame was called by an earlier one.
LEMMA LinksExists ==
  ASSUME NEW m, NEW n, NEW fs, NEW hm, NEW k, NEW p, NEW ms, Stored(m), Tiled(m, n, fs, hm),
         Whole(m, n, fs, hm), Chained(m, n, fs, k, p, ms)
  PROVE  \E f \in [DOMAIN m.frm \cup {NoFrame} -> Seq(Nat)] :
           \A a \in DOMAIN m.frm \cup {NoFrame} : f[a] = Links(m, a, f)
<1> DEFINE D == DOMAIN m.frm \cup {NoFrame}
           rank == [a \in D |-> IF a = NoFrame THEN 0 ELSE CHOOSE j \in 1 .. n : fs[j] = a]
           step == [a \in D |-> [f \in [D -> Seq(Nat)] |-> Links(m, a, f)]]
<1>0. n \in Nat /\ NoFrame \notin DOMAIN m.frm /\ NoFrame \in D /\ NoFrame \in Nat
  <2>1. \A a \in DOMAIN m.frm : a \in Nat \ {0}
    BY SizeIs
  <2>. QED
    BY <2>1, Listed DEF NoFrame
<1>1. ASSUME NEW a \in D, a # NoFrame
      PROVE  rank[a] \in 1 .. n /\ fs[rank[a]] = a
  <2>1. \E j \in 1 .. n : fs[j] = a
    BY <1>1 DEF Whole
  <2>. QED
    BY <1>1, <2>1
<1>2. rank[NoFrame] = 0
  BY <1>0
<1>3. rank \in [D -> 0 .. n]
  <2>1. rank = [a \in D |-> rank[a]]
    OBVIOUS
  <2>. HIDE DEF rank
  <2>2. ASSUME NEW a \in D PROVE rank[a] \in 0 .. n
    <3>1. CASE a = NoFrame
      BY <1>0, <1>2, <3>1
    <3>2. CASE a # NoFrame
      <4>1. rank[a] \in 1 .. n
        BY <1>1, <3>2
      <4>. QED
        BY <1>0, <4>1
    <3>. QED
      BY <3>1, <3>2
  <2>. QED
    BY <2>1, <2>2
<1> HIDE DEF rank
<1>4. ASSUME NEW a \in D, a # NoFrame
      PROVE  m.frm[a].fp \in D /\ rank[m.frm[a].fp] < rank[a]
  <2> DEFINE j == rank[a]
  <2>1. j \in 1 .. n /\ fs[j] = a
    BY <1>1, <1>4
  <2> HIDE DEF j
  <2>2. CASE m.frm[a].fp = NoFrame
    BY <1>0, <1>2, <2>1, <2>2 DEF j
  <2>3. CASE m.frm[a].fp # NoFrame
    <3>1. PICK z \in 1 .. n : z < j /\ m.frm[a].fp = fs[z]
      BY <2>1, <2>3, LinkOf
    <3>2. fs[z] \in DOMAIN m.frm
      BY Within
    <3>3. fs[z] \in D /\ fs[z] # NoFrame
      BY <1>0, <3>2
    <3>4. rank[fs[z]] = z
      BY <1>1, <3>3, Distinct
    <3>. QED
      BY <3>1, <3>3, <3>4 DEF j
  <2>. QED
    BY <2>2, <2>3
<1>5. ASSUME NEW a \in D, NEW f \in [D -> Seq(Nat)] PROVE Links(m, a, f) \in Seq(Nat)
  <2>1. CASE a = NoFrame
    BY <2>1 DEF Links
  <2>2. CASE a # NoFrame
    <3>1. a \in Nat /\ f[m.frm[a].fp] \in Seq(Nat)
      BY <1>4, <2>2, SizeIs
    <3>. QED
      BY <2>2, <3>1 DEF Links
  <2>. QED
    BY <2>1, <2>2
<1>6. step \in [D -> [[D -> Seq(Nat)] -> Seq(Nat)]]
      /\ \A a \in D : \A f \in [D -> Seq(Nat)] : step[a][f] = Links(m, a, f)
  BY <1>5
<1> HIDE DEF step
<1>7. ASSUME NEW a \in D, NEW g \in [D -> Seq(Nat)], NEW h \in [D -> Seq(Nat)],
             \A u \in D : rank[u] < rank[a] => g[u] = h[u]
      PROVE  step[a][g] = step[a][h]
  <2>1. Links(m, a, g) = Links(m, a, h)
    <3>1. a # NoFrame => g[m.frm[a].fp] = h[m.frm[a].fp]
      BY <1>4, <1>7
    <3>. QED
      BY <3>1 DEF Links
  <2>. QED
    BY <1>6, <2>1
<1>8. Descends(D, Seq(Nat), rank, step)
  BY <1>7 DEF Descends
<1>9. Seq(Nat) # {}
  <2>1. << >> \in Seq(Nat)
    OBVIOUS
  <2>. QED
    BY <2>1
<1>10. PICK f \in [D -> Seq(Nat)] : Solves(f, D, step)
  BY <1>0, <1>3, <1>6, <1>8, <1>9, RankRecursion
<1>. QED
  BY <1>6, <1>10 DEF Solves

\* The called frames.
LEMMA ChainIs ==
  ASSUME NEW m, NEW n, NEW fs, NEW hm, NEW k, NEW p, NEW ms, Stored(m), Tiled(m, n, fs, hm),
         Whole(m, n, fs, hm), Chained(m, n, fs, k, p, ms)
  PROVE  Chain(m) = [i \in 1 .. k |-> fs[p[i]]]
<1> DEFINE D == DOMAIN m.frm \cup {NoFrame}
           c == [i \in 1 .. k |-> fs[p[i]]]
<1>0. /\ k \in Nat \ {0} /\ p \in [1 .. k -> 1 .. n] /\ p[1] = 1 /\ n \in Nat
      /\ fs \in [1 .. n -> Nat] /\ m.frm[fs[1]].fp = NoFrame /\ m.R.FP = fs[p[k]]
      /\ \A i \in 2 .. k : m.frm[fs[p[i]]].fp = fs[p[i - 1]]
  BY Listed DEF Chained
<1>1. c \in Seq(Nat) /\ Len(c) = k /\ \A i \in 1 .. k : c[i] = fs[p[i]]
  <2>1. \A i \in 1 .. k : fs[p[i]] \in Nat
    BY <1>0
  <2>2. c \in [1 .. k -> Nat]
    BY <2>1
  <2>. QED
    BY <1>0, <2>2
<1> HIDE DEF c
<1>2. ASSUME NEW i \in 1 .. k PROVE c[i] \in D /\ c[i] # NoFrame
  <2>1. p[i] \in 1 .. n
    BY <1>0
  <2>2. fs[p[i]] \in DOMAIN m.frm /\ fs[p[i]] \in Nat \ {0}
    BY <2>1, Within
  <2>. QED
    BY <1>1, <2>2 DEF NoFrame
<1>3. PICK g \in [D -> Seq(Nat)] : \A a \in D : g[a] = Links(m, a, g)
  BY LinksExists
<1> DEFINE f[a \in DOMAIN m.frm \cup {NoFrame}] ==
             IF a = NoFrame THEN << >> ELSE Append(f[m.frm[a].fp], a)
<1>4. f = [a \in D |-> Links(m, a, f)]
  <2>1. g = [a \in D |-> Links(m, a, g)]
    <3>1. g = [a \in D |-> g[a]]
      OBVIOUS
    <3>. QED
      BY <1>3, <3>1
  <2>. QED
    BY <2>1 DEF Links
<1>5. Chain(m) = f[m.R.FP]
  BY Zenon DEF Chain
<1> HIDE DEF f
<1>6. \A a \in D : f[a] = Links(m, a, f)
  BY <1>4
<1> DEFINE T == {d \in Nat : d + 1 <= k => f[c[d + 1]] = SubSeq(c, 1, d + 1)}
<1>7. 0 \in T
  <2>0. 1 \in 1 .. k
    BY <1>0
  <2>1. f[c[1]] = Append(f[m.frm[c[1]].fp], c[1])
    BY <1>2, <1>6, <2>0 DEF Links
  <2>2. f[m.frm[c[1]].fp] = << >>
    <3>1. m.frm[c[1]].fp = NoFrame /\ NoFrame \in D
      BY <1>0, <1>1, <2>0
    <3>. QED
      BY <1>6, <3>1 DEF Links
  <2>3. SubSeq(c, 1, 1) = << c[1] >>
    <3>1. 1 \in 1 .. Len(c)
      BY <1>1, <2>0
    <3>. QED
      BY <1>1, <3>1, SubSeqOne
  <2>4. Append(<< >>, c[1]) = << c[1] >>
    OBVIOUS
  <2>. QED
    BY <2>1, <2>2, <2>3, <2>4
<1>8. ASSUME NEW d \in Nat, d \in T PROVE d + 1 \in T
  <2>1. SUFFICES ASSUME (d + 1) + 1 <= k PROVE f[c[(d + 1) + 1]] = SubSeq(c, 1, (d + 1) + 1)
    OBVIOUS
  <2> DEFINE i == (d + 1) + 1
  <2>2. i \in 1 .. k /\ i \in 2 .. k /\ i - 1 = d + 1 /\ i - 1 \in 1 .. k /\ i \in 1 .. Len(c)
    BY <1>0, <1>1, <2>1
  <2>3. f[c[i - 1]] = SubSeq(c, 1, i - 1)
    BY <1>8, <2>1, <2>2
  <2> HIDE DEF i
  <2>4. f[c[i]] = Append(f[m.frm[c[i]].fp], c[i])
    BY <1>2, <1>6, <2>2 DEF Links
  <2>5. m.frm[c[i]].fp = c[i - 1]
    BY <1>0, <1>1, <2>2
  <2>6. SubSeq(c, 1, i) = SubSeq(c, 1, i - 1) \o << c[i] >>
    <3>1. 1 \in 1 .. Len(c) /\ i \in 1 .. Len(c)
      BY <2>2
    <3>. QED
      BY <1>1, <3>1, SubSeqRecursiveSecond
  <2>7. Append(SubSeq(c, 1, i - 1), c[i]) = SubSeq(c, 1, i - 1) \o << c[i] >>
    <3>1. SubSeq(c, 1, i - 1) \in Seq(Nat) /\ c[i] \in Nat
      BY <1>1, <2>2
    <3>. QED
      BY <3>1, AppendIsConcat
  <2>. QED
    BY <2>3, <2>4, <2>5, <2>6, <2>7 DEF i
<1>9. \A d \in Nat : d \in T
  <2>. HIDE DEF T
  <2>. QED
    BY <1>7, <1>8, SetInduction
<1>10. f[c[k]] = SubSeq(c, 1, k)
  <2>1. k - 1 \in Nat /\ (k - 1) + 1 = k /\ k <= k
    BY <1>0
  <2>2. k - 1 \in T
    <3>. HIDE DEF T
    <3>. QED
      BY <1>9, <2>1
  <2>3. (k - 1) + 1 <= k => f[c[(k - 1) + 1]] = SubSeq(c, 1, (k - 1) + 1)
    BY <2>2
  <2>. QED
    BY <2>1, <2>3
<1>11. SubSeq(c, 1, k) = c
  BY <1>1, SubSeqFull
<1>12. m.R.FP = c[k]
  <2>1. k \in 1 .. k
    BY <1>0
  <2>. QED
    BY <1>0, <1>1, <2>1
<1>. QED
  BY <1>5, <1>10, <1>11, <1>12 DEF c

\* The modules of the called frames are ms.
LEMMA ModsOfIs ==
  ASSUME NEW m, NEW n, NEW fs, NEW hm, NEW k, NEW p, NEW ms, Stored(m), Tiled(m, n, fs, hm),
         Whole(m, n, fs, hm), Chained(m, n, fs, k, p, ms)
  PROVE  ModsOf(m) = ms
<1> DEFINE c == Chain(m)
           at(i, g) == IF i = Len(c) THEN m.R.M
                       ELSE IF m.frm[c[i + 1]].mr # nil THEN m.frm[c[i + 1]].mr ELSE g[i + 1]
           mods[i \in 1 .. Len(c)] ==
             IF i = Len(c) THEN m.R.M
             ELSE IF m.frm[c[i + 1]].mr # nil THEN m.frm[c[i + 1]].mr ELSE mods[i + 1]
<1>0. /\ k \in Nat \ {0} /\ p \in [1 .. k -> 1 .. n] /\ n \in Nat /\ fs \in [1 .. n -> Nat]
      /\ ms \in [1 .. k -> Mods] /\ m.R.M = ms[k]
      /\ \A i \in 2 .. k : ms[i - 1] = IF m.frm[fs[p[i]]].mr # nil THEN m.frm[fs[p[i]]].mr ELSE ms[i]
  BY Listed DEF Chained
<1>1. Len(c) = k /\ \A i \in 1 .. k : c[i] = fs[p[i]]
  <2>1. c = [i \in 1 .. k |-> fs[p[i]]]
    BY ChainIs
  <2>2. \A i \in 1 .. k : fs[p[i]] \in Nat
    BY <1>0
  <2>. HIDE DEF c
  <2>3. c \in [1 .. k -> Nat]
    BY <2>1, <2>2
  <2>. QED
    BY <1>0, <2>1, <2>3
<1>2. ModsOf(m) = mods
  BY Zenon DEF ModsOf
<1> HIDE DEF c
<1>3. ASSUME NEW i \in 1 .. k PROVE ms[i] = at(i, ms)
  <2>1. CASE i = k
    BY <1>0, <1>1, <2>1
  <2>2. CASE i # k
    <3>1. i + 1 \in 2 .. k /\ (i + 1) - 1 = i /\ i + 1 \in 1 .. k
      <4>1. k \in Nat
        BY <1>0
      <4>. QED
        BY <2>2, <4>1
    <3>2. c[i + 1] = fs[p[i + 1]]
      BY <1>1, <3>1
    <3>3. ms[(i + 1) - 1] = IF m.frm[fs[p[i + 1]]].mr # nil THEN m.frm[fs[p[i + 1]]].mr ELSE ms[i + 1]
      BY <1>0, <3>1
    <3>. QED
      BY <1>1, <2>2, <3>1, <3>2, <3>3
  <2>. QED
    BY <2>1, <2>2
<1>4. mods = [i \in 1 .. k |-> at(i, mods)]
  <2>1. ms = [i \in 1 .. k |-> at(i, ms)]
    <3>1. ms = [i \in 1 .. k |-> ms[i]]
      BY <1>0
    <3>. HIDE DEF at
    <3>. QED
      BY <1>3, <3>1
  <2>. QED
    BY <1>1, <2>1
<1> HIDE DEF mods
<1> DEFINE T == {d \in Nat : d < k => mods[k - d] = ms[k - d]}
<1>5. ASSUME NEW i \in 1 .. k PROVE mods[i] = at(i, mods)
  BY <1>4
<1>6. 0 \in T
  <2>1. k - 0 = k /\ k \in 1 .. k
    BY <1>0
  <2>2. mods[k] = m.R.M
    BY <1>1, <1>5, <2>1
  <2>. QED
    BY <1>0, <2>1, <2>2
<1>7. ASSUME NEW d \in Nat, d \in T PROVE d + 1 \in T
  <2>1. SUFFICES ASSUME d + 1 < k PROVE mods[k - (d + 1)] = ms[k - (d + 1)]
    OBVIOUS
  <2> DEFINE i == k - (d + 1)
  <2>2. i \in 1 .. k /\ i # k /\ i + 1 = k - d /\ d < k
    BY <1>0, <2>1
  <2>3. mods[i + 1] = ms[i + 1]
    BY <1>7, <2>2
  <2> HIDE DEF i
  <2>4. at(i, mods) = at(i, ms)
    BY <1>1, <2>2, <2>3
  <2>. HIDE DEF at
  <2>5. mods[i] = ms[i]
    BY <1>3, <1>5, <2>2, <2>4
  <2>. QED
    BY <2>5 DEF i
<1>8. \A d \in Nat : d \in T
  <2>. HIDE DEF T
  <2>. QED
    BY <1>6, <1>7, SetInduction
<1>9. ASSUME NEW i \in 1 .. k PROVE mods[i] = ms[i]
  <2>1. k - i \in Nat /\ k - i < k /\ k - (k - i) = i
    BY <1>0
  <2>2. k - i \in T
    <3>. HIDE DEF T
    <3>. QED
      BY <1>8, <2>1
  <2>3. mods[k - (k - i)] = ms[k - (k - i)]
    BY <2>1, <2>2
  <2>. QED
    BY <2>1, <2>3
<1>10. mods = ms
  <2>1. mods = [i \in 1 .. k |-> mods[i]]
    <3>. HIDE DEF at
    <3>. QED
      BY <1>4
  <2>2. ms = [i \in 1 .. k |-> ms[i]]
    BY <1>0
  <2>. QED
    BY <1>9, <2>1, <2>2
<1>. QED
  BY <1>2, <1>10

-----------------------------------------------------------------------------
(* A good stack is tiled, and its records agree with the return addresses. *)

\* Registers that describe a stack up to a frame are sound.
LEMMA DescribesSound ==
  ASSUME NEW m, NEW n, NEW fs, NEW hm, Stored(m), Tiled(m, n, fs, hm),
         NEW j \in 1 .. n, NEW r, Describes(m, r, j, fs, hm)
  PROVE  Sound(m, r)
<1>1. r.EX = hm[j] /\ r.SP = End(m, fs[j]) /\ r.TS = Top(m, hm[j])
  BY DEF Describes
<1>2. hm[j] \in DOMAIN m.ext /\ End(m, fs[j]) <= Top(m, hm[j])
  BY Within
<1>3. FramesIn(m, r.EX, r.SP) # << >> /\ Last(FramesIn(m, r.EX, r.SP)) = fs[j]
  BY <1>1, LastFrame
<1>4. Top(m, hm[j]) = hm[j] - 1 + m.ext[hm[j]].l
  BY DEF Top
<1>. QED
  BY <1>1, <1>2, <1>3, <1>4 DEF Sound, End

\* The called frame a record is for.
LEMMA RecordFor ==
  ASSUME NEW m, NEW n, NEW fs, NEW hm, NEW k, NEW p, NEW ms, NEW q, NEW dp,
         Stack(m, n, fs, hm, k, p, ms, q, dp), NEW i \in 1 .. Len(m.exsp)
  PROVE  /\ i <= q <=> m.exsp[i].R.FP \notin DOMAIN m.frm
         /\ \A d \in 1 .. k : m.exsp[i].R.FP = fs[p[d]] <=> (i > q /\ dp[i] = d)
<1>0. /\ Stored(m) /\ Tiled(m, n, fs, hm) /\ k \in Nat \ {0} /\ p \in [1 .. k -> 1 .. n]
      /\ \A d, e \in 1 .. k : d < e => p[d] < p[e]
      /\ q \in 0 .. Len(m.exsp) /\ dp \in [q + 1 .. Len(m.exsp) -> 1 .. k]
      /\ m.exsp \in Seq(RecSet)
  BY PartsOf DEF Stack, Chained, Recorded, Stored, Parts
<1>00. n \in Nat
  BY <1>0, Listed
<1>1. \A d \in 1 .. k : fs[p[d]] \in DOMAIN m.frm
  BY <1>0, Within
<1>2. ASSUME i <= q PROVE m.exsp[i].R.FP \notin DOMAIN m.frm
  <2>1. i \in 1 .. q
    BY <1>0, <1>2
  <2>. QED
    BY <2>1 DEF Stack, Recorded
<1>3. ASSUME i > q PROVE m.exsp[i].R.FP = fs[p[dp[i]]] /\ dp[i] \in 1 .. k
  <2>1. i \in q + 1 .. Len(m.exsp)
    BY <1>0, <1>3
  <2>2. Saved(m, m.exsp[i], dp[i], fs, hm, p, ms)
    BY <2>1 DEF Stack, Recorded
  <2>. QED
    BY <1>0, <2>1, <2>2 DEF Saved
<1>4. ASSUME NEW d \in 1 .. k, NEW e \in 1 .. k, fs[p[d]] = fs[p[e]] PROVE d = e
  <2>1. p[d] = p[e]
    BY <1>0, <1>4, Distinct
  <2>2. d \in Nat /\ e \in Nat /\ p[d] \in Nat /\ p[e] \in Nat
    BY <1>0, <1>00
  <2>. QED
    BY <1>0, <2>1, <2>2
<1>5. i \in Nat /\ q \in Nat
  BY <1>0
<1>. QED
  BY <1>1, <1>2, <1>3, <1>4, <1>5

\* The records whose frames are gone are the first q.
LEMMA DeadIs ==
  ASSUME NEW m, NEW n, NEW fs, NEW hm, NEW k, NEW p, NEW ms, NEW q, NEW dp,
         Stack(m, n, fs, hm, k, p, ms, q, dp)
  PROVE  Dead(m) = 1 .. q
<1>1. Laid(m) = DOMAIN m.frm
  BY LaidIs DEF Stack
<1>2. q \in 0 .. Len(m.exsp) /\ Len(m.exsp) \in Nat
  BY PartsOf DEF Stack, Recorded, Stored, Parts
<1>3. ASSUME NEW i \in Dead(m) PROVE i \in 1 .. q
  <2>1. i \in 1 .. Len(m.exsp) /\ i \in 1 .. i
    BY <1>2 DEF Dead
  <2>2. m.exsp[i].R.FP \notin DOMAIN m.frm
    BY <1>1, <2>1 DEF Dead, activated
  <2>3. i <= q
    BY <2>1, <2>2, RecordFor
  <2>. QED
    BY <1>2, <2>1, <2>3
<1>4. ASSUME NEW i \in 1 .. q PROVE i \in Dead(m)
  <2>1. i \in 1 .. Len(m.exsp)
    BY <1>2
  <2>2. \A j \in 1 .. i : j \in 1 .. Len(m.exsp) /\ j <= q
    BY <1>2
  <2>3. \A j \in 1 .. i : ~activated(m, m.exsp[j].R.FP)
    BY <1>1, <2>2, RecordFor DEF activated
  <2>. QED
    BY <2>1, <2>3 DEF Dead
<1>. QED
  BY <1>3, <1>4

\* Both invariants follow from the inductive one.
LEMMA GoodIsTiled ==
  ASSUME Good(vm)
  PROVE  StackTiled
<1>1. PICK n, fs, hm, k, p, ms, q, dp : Stack(vm, n, fs, hm, k, p, ms, q, dp)
  BY DEF Good
<1>2. /\ Stored(vm) /\ Tiled(vm, n, fs, hm) /\ Whole(vm, n, fs, hm) /\ Describes(vm, vm.R, n, fs, hm)
      /\ Chained(vm, n, fs, k, p, ms) /\ Recorded(vm, fs, hm, k, p, ms, q, dp)
  BY <1>1 DEF Stack
<1>3. n \in Nat \ {0} /\ n \in 1 .. n
  BY <1>2, Listed
<1>4. Laid(vm) = DOMAIN vm.frm
  BY <1>2, LaidIs
<1>5. DOMAIN vm.ext = Range(Extensions(vm))
  BY <1>2, ExtensionsIs
<1>6. Range(Chain(vm)) \subseteq Laid(vm)
  <2>1. Chain(vm) = [i \in 1 .. k |-> fs[p[i]]]
    BY <1>2, ChainIs
  <2>2. \A i \in 1 .. k : fs[p[i]] \in DOMAIN vm.frm
    BY <1>2, Within DEF Chained
  <2>. QED
    BY <1>4, <2>1, <2>2 DEF Range
<1>7. Sound(vm, vm.R)
  BY <1>2, <1>3, DescribesSound
<1>8. ASSUME NEW x \in DOMAIN vm.ext, vm.ext[x].EX # nil PROVE Sound(vm, vm.ext[x])
  <2>1. PICK s \in 1 .. n : fs[s] = x /\ hm[s] = x
    BY <1>2, StartOf, WholeOpened
  <2>2. s # 1
    BY <1>2, <1>8, <2>1 DEF Tiled
  <2>3. s \in 2 .. n /\ s - 1 \in 1 .. n
    BY <1>3, <2>2
  <2>4. Describes(vm, vm.ext[x], s - 1, fs, hm)
    BY <1>2, <2>1, <2>3 DEF Tiled, Describes
  <2>. QED
    BY <1>2, <2>3, <2>4, DescribesSound
<1>9. ASSUME NEW i \in 1 .. Len(vm.exsp), activated(vm, vm.exsp[i].R.FP) PROVE Sound(vm, vm.exsp[i].R)
  <2>0. q \in 0 .. Len(vm.exsp) /\ dp \in [q + 1 .. Len(vm.exsp) -> 1 .. k] /\ Len(vm.exsp) \in Nat
    BY <1>2, PartsOf DEF Recorded, Stored, Parts
  <2>1. i > q
    <3>1. i <= q <=> vm.exsp[i].R.FP \notin DOMAIN vm.frm
      BY <1>1, RecordFor
    <3>2. vm.exsp[i].R.FP \in DOMAIN vm.frm
      BY <1>4, <1>9 DEF activated
    <3>. QED
      BY <2>0, <3>1, <3>2
  <2>2. i \in q + 1 .. Len(vm.exsp)
    BY <2>0, <2>1
  <2>3. Saved(vm, vm.exsp[i], dp[i], fs, hm, p, ms)
    BY <1>2, <2>2 DEF Recorded
  <2>4. p[dp[i]] \in 1 .. n
    BY <1>2, <2>0, <2>2 DEF Chained
  <2>. QED
    BY <1>2, <2>3, <2>4, DescribesSound DEF Saved
<1>. QED
  BY <1>4, <1>5, <1>6, <1>7, <1>8, <1>9 DEF StackTiled

\* The invariant has EclrAgrees.
LEMMA GoodAgrees ==
  ASSUME Good(vm)
  PROVE  EclrAgrees
<1>1. PICK n, fs, hm, k, p, ms, q, dp : Stack(vm, n, fs, hm, k, p, ms, q, dp) /\ AtRest(vm, q)
  BY DEF Good
<1>2. /\ Stored(vm) /\ Tiled(vm, n, fs, hm) /\ Whole(vm, n, fs, hm) /\ Describes(vm, vm.R, n, fs, hm)
      /\ Chained(vm, n, fs, k, p, ms) /\ Recorded(vm, fs, hm, k, p, ms, q, dp)
  BY <1>1 DEF Stack
<1>3. /\ q \in 0 .. Len(vm.exsp) /\ dp \in [q + 1 .. Len(vm.exsp) -> 1 .. k] /\ Len(vm.exsp) \in Nat
      /\ k \in Nat \ {0} /\ p \in [1 .. k -> 1 .. n] /\ n \in Nat /\ fs \in [1 .. n -> Nat]
  <2>1. Len(vm.exsp) \in Nat
    BY <1>2, PartsOf DEF Stored, Parts
  <2>2. n \in Nat /\ fs \in [1 .. n -> Nat]
    BY <1>2, Listed
  <2>. QED
    BY <1>2, <2>1, <2>2 DEF Recorded, Chained
<1>4. Len(Chain(vm)) = k /\ \A d \in 1 .. k : Chain(vm)[d] = fs[p[d]]
  <2>1. Chain(vm) = [i \in 1 .. k |-> fs[p[i]]]
    BY <1>2, ChainIs
  <2>2. \A i \in 1 .. k : fs[p[i]] \in Nat
    BY <1>3
  <2>3. Chain(vm) \in [1 .. k -> Nat]
    BY <2>1, <2>2
  <2>. QED
    BY <1>3, <2>1, <2>3
<1>5. ModsOf(vm) = ms
  BY <1>2, ModsOfIs
<1> DEFINE lr(d) == vm.frm[fs[p[d]]].lr
           marked(d) == \E i \in q + 1 .. Len(vm.exsp) : dp[i] = d
<1>6. ASSUME NEW d \in 1 .. k PROVE marked(d) <=> RecordsOf(vm.exsp, fs[p[d]]) # {}
  <2>1. \A i \in 1 .. Len(vm.exsp) : vm.exsp[i].R.FP = fs[p[d]] <=> (i > q /\ dp[i] = d)
    BY <1>1, RecordFor
  <2>2. \A i \in q + 1 .. Len(vm.exsp) : i \in 1 .. Len(vm.exsp) /\ i > q
    BY <1>3
  <2>3. \A i \in 1 .. Len(vm.exsp) : i > q => i \in q + 1 .. Len(vm.exsp)
    BY <1>3
  <2>. QED
    BY <2>1, <2>2, <2>3 DEF RecordsOf
<1>7. ASSUME NEW d \in 1 .. k PROVE Returns(lr(d), d, marked(d), ms)
  BY <1>2 DEF Recorded
<1> HIDE DEF marked, lr
<1>8. ASSUME NEW d \in 1 .. k
      PROVE  /\ (lr(d) # nil /\ lr(d).at = "eclr") <=> RecordsOf(vm.exsp, fs[p[d]]) # {}
             /\ lr(d) # nil /\ d > 1 => lr(d).mod = ms[d - 1]
  <2>1. d = 1 \/ d > 1
    BY <1>3
  <2>. QED
    BY <1>6, <1>7, <2>1, NamesApart DEF Returns
<1>9. vm.R.PC.mod = vm.R.M /\ (AtEclr <=> q > 0)
  BY <1>1 DEF AtRest, AtEclr
<1>10. Dead(vm) # {} <=> q > 0
  <2>1. Dead(vm) = 1 .. q
    BY <1>1, DeadIs
  <2>2. q \in Nat /\ (q > 0 => 1 \in 1 .. q) /\ (~(q > 0) => 1 .. q = {})
    BY <1>3
  <2>. QED
    BY <2>1, <2>2
<1>. QED
  BY <1>4, <1>5, <1>8, <1>9, <1>10 DEF EclrAgrees, lr

-----------------------------------------------------------------------------
(* A stack of which the first frames are left. *)

Upto(f, j) == [i \in 1 .. j |-> f[i]]

\* m1 has the first j frames and their extensions.
Keeps(m, m1, j, fs, hm) ==
  /\ \A i \in 1 .. j : fs[i] \in DOMAIN m1.frm /\ m1.frm[fs[i]].t = m.frm[fs[i]].t
  /\ \A x \in DOMAIN m1.ext : \E i \in 1 .. j : x = hm[i]
  /\ \A i \in 1 .. j : hm[i] \in DOMAIN m1.ext /\ m1.ext[hm[i]] = m.ext[hm[i]]

\* m1 has only those.
Cut(m, m1, j, fs, hm) ==
  Keeps(m, m1, j, fs, hm) /\ \A a \in DOMAIN m1.frm : \E i \in 1 .. j : a = fs[i]

\* Frames and extensions that are kept are where they were.
LEMMA CutSame ==
  ASSUME NEW m, NEW n, NEW fs, NEW hm, Stored(m), Tiled(m, n, fs, hm),
         NEW m1, NEW j \in 1 .. n, Keeps(m, m1, j, fs, hm), NEW i \in 1 .. j
  PROVE  End(m1, fs[i]) = End(m, fs[i]) /\ Top(m1, hm[i]) = Top(m, hm[i])
<1>1. i \in 1 .. n
  BY Listed
<1>2. m1.frm[fs[i]].t = nil => hm[i] = fs[i]
  BY <1>1 DEF Keeps, Tiled
<1>3. m1.frm[fs[i]].t = m.frm[fs[i]].t /\ m1.ext[hm[i]] = m.ext[hm[i]]
  BY DEF Keeps
<1>4. SizeOf(m1, fs[i]) = SizeOf(m, fs[i])
  BY <1>2, <1>3 DEF SizeOf
<1>. QED
  BY <1>3, <1>4 DEF End, Top

\* The memory that is left is one of frames and extensions.
LEMMA CutStored ==
  ASSUME NEW m, NEW n, NEW fs, NEW hm, Stored(m), Tiled(m, n, fs, hm),
         NEW m1, m1 \in VM, NEW j \in 1 .. n, Cut(m, m1, j, fs, hm)
  PROVE  Stored(m1)
<1>0. \A i \in 1 .. j : i \in 1 .. n
  BY Listed
<1>1. ASSUME NEW a \in DOMAIN m1.frm, m1.frm[a].t = nil PROVE a \in DOMAIN m1.ext
  <2>1. PICK i \in 1 .. j : a = fs[i]
    BY DEF Cut, Keeps
  <2>2. m.frm[fs[i]].t = nil /\ hm[i] \in DOMAIN m1.ext
    BY <1>1, <2>1 DEF Cut, Keeps
  <2>3. hm[i] = fs[i]
    BY <1>0, <2>2 DEF Tiled
  <2>. QED
    BY <2>1, <2>2, <2>3
<1>2. ASSUME NEW x \in DOMAIN m1.ext PROVE x \in Ext /\ \A y \in Ext : x < y => Top(m1, x) < y
  <2>1. PICK i \in 1 .. j : x = hm[i]
    BY DEF Cut, Keeps
  <2>2. hm[i] \in DOMAIN m.ext /\ Top(m1, hm[i]) = Top(m, hm[i])
    BY <1>0, CutSame, Within DEF Cut
  <2>. QED
    BY <2>1, <2>2, TopIs
<1>. QED
  BY <1>1, <1>2 DEF Stored

\* The first j frames are laid as before when others go.
LEMMA KeepsTiled ==
  ASSUME NEW m, NEW n, NEW fs, NEW hm, Stored(m), Tiled(m, n, fs, hm),
         NEW m1, m1 \in VM, NEW j \in 1 .. n, Keeps(m, m1, j, fs, hm)
  PROVE  /\ Tiled(m1, j, Upto(fs, j), Upto(hm, j)) /\ Opened(m1, j, Upto(hm, j))
         /\ \A i \in 1 .. j : \A r : Describes(m, r, i, fs, hm) <=> Describes(m1, r, i, Upto(fs, j), Upto(hm, j))
<1> DEFINE f == Upto(fs, j)  h == Upto(hm, j)
<1>0. n \in Nat \ {0} /\ j \in Nat \ {0} /\ \A i \in 1 .. j : i \in 1 .. n
  BY Listed
<1>1. \A i \in 1 .. j : f[i] = fs[i] /\ h[i] = hm[i]
  BY DEF Upto
<1>2. f = [i \in 1 .. j |-> f[i]] /\ h = [i \in 1 .. j |-> h[i]]
  BY DEF Upto
<1> HIDE DEF f, h
<1>3. \A i \in 1 .. j : End(m1, fs[i]) = End(m, fs[i]) /\ Top(m1, hm[i]) = Top(m, hm[i])
  BY CutSame
<1>4. f \in [1 .. j -> DOMAIN m1.frm] /\ h \in [1 .. j -> DOMAIN m1.ext]
  <2>1. \A i \in 1 .. j : f[i] \in DOMAIN m1.frm /\ h[i] \in DOMAIN m1.ext
    BY <1>1 DEF Keeps
  <2>. QED
    BY <1>2, <2>1
<1>5. ASSUME NEW i \in 1 .. j
      PROVE  h[i] <= f[i] /\ End(m1, f[i]) <= Top(m1, h[i]) /\ (m1.frm[f[i]].t = nil <=> h[i] = f[i])
  <2>1. hm[i] <= fs[i] /\ End(m, fs[i]) <= Top(m, hm[i]) /\ (m.frm[fs[i]].t = nil <=> hm[i] = fs[i])
    BY <1>0 DEF Tiled
  <2>2. m1.frm[fs[i]].t = m.frm[fs[i]].t
    BY DEF Keeps
  <2>. QED
    BY <1>1, <1>3, <2>1, <2>2
<1>6. h[1] = f[1] /\ m1.ext[h[1]].EX = nil
  <2>1. 1 \in 1 .. j
    BY <1>0
  <2>2. hm[1] = fs[1] /\ m.ext[hm[1]].EX = nil /\ m1.ext[hm[1]] = m.ext[hm[1]]
    BY <2>1 DEF Tiled, Keeps
  <2>. QED
    BY <1>1, <2>1, <2>2
<1>7. ASSUME NEW i \in 2 .. j
      PROVE  IF h[i] = f[i]
             THEN /\ m1.ext[f[i]].EX = h[i - 1] /\ m1.ext[f[i]].SP = End(m1, f[i - 1])
                  /\ m1.ext[f[i]].TS = Top(m1, h[i - 1])
             ELSE h[i] = h[i - 1] /\ f[i] = End(m1, f[i - 1])
  <2>1. i \in 2 .. n /\ i \in 1 .. j /\ i - 1 \in 1 .. j
    BY <1>0
  <2>2. IF hm[i] = fs[i]
        THEN /\ m.ext[fs[i]].EX = hm[i - 1] /\ m.ext[fs[i]].SP = End(m, fs[i - 1])
             /\ m.ext[fs[i]].TS = Top(m, hm[i - 1])
        ELSE hm[i] = hm[i - 1] /\ fs[i] = End(m, fs[i - 1])
    BY <2>1 DEF Tiled
  <2>3. m1.ext[hm[i]] = m.ext[hm[i]]
    BY <2>1 DEF Keeps
  <2>4. f[i] = fs[i] /\ h[i] = hm[i] /\ f[i - 1] = fs[i - 1] /\ h[i - 1] = hm[i - 1]
    BY <1>1, <2>1
  <2>5. End(m1, fs[i - 1]) = End(m, fs[i - 1]) /\ Top(m1, hm[i - 1]) = Top(m, hm[i - 1])
    BY <1>3, <2>1
  <2>. QED
    BY <2>2, <2>3, <2>4, <2>5
<1>8. ASSUME NEW u \in 1 .. j, NEW v \in 1 .. j, u < v, h[u] = h[v] PROVE End(m1, f[u]) <= f[v]
  <2>1. End(m, fs[u]) <= fs[v]
    BY <1>0, <1>1, <1>8 DEF Tiled
  <2>. QED
    BY <1>1, <1>3, <2>1
<1>9. Tiled(m1, j, f, h)
  BY <1>0, <1>4, <1>5, <1>6, <1>7, <1>8 DEF Tiled
<1>10. Opened(m1, j, h)
  BY <1>1 DEF Opened, Keeps
<1>11. \A i \in 1 .. j : \A r : Describes(m, r, i, fs, hm) <=> Describes(m1, r, i, f, h)
  BY <1>1, <1>3 DEF Describes
<1>. QED
  BY <1>9, <1>10, <1>11 DEF f, h

\* So they are when there are no others.
LEMMA CutTiled ==
  ASSUME NEW m, NEW n, NEW fs, NEW hm, Stored(m), Tiled(m, n, fs, hm),
         NEW m1, m1 \in VM, NEW j \in 1 .. n, Cut(m, m1, j, fs, hm)
  PROVE  /\ Tiled(m1, j, Upto(fs, j), Upto(hm, j)) /\ Whole(m1, j, Upto(fs, j), Upto(hm, j))
         /\ \A i \in 1 .. j : \A r : Describes(m, r, i, fs, hm) <=> Describes(m1, r, i, Upto(fs, j), Upto(hm, j))
<1>1. Keeps(m, m1, j, fs, hm)
  BY DEF Cut
<1>2. /\ Tiled(m1, j, Upto(fs, j), Upto(hm, j)) /\ Opened(m1, j, Upto(hm, j))
      /\ \A i \in 1 .. j : \A r : Describes(m, r, i, fs, hm) <=> Describes(m1, r, i, Upto(fs, j), Upto(hm, j))
  BY <1>1, KeepsTiled
<1>3. \A i \in 1 .. j : Upto(fs, j)[i] = fs[i]
  BY DEF Upto
<1>4. Whole(m1, j, Upto(fs, j), Upto(hm, j))
  BY <1>2, <1>3 DEF Whole, Opened, Cut
<1>. QED
  BY <1>2, <1>4

\* The chain of the first frames.
LEMMA CutChained ==
  ASSUME NEW m, NEW n, NEW fs, NEW hm, NEW k, NEW p, NEW ms, Stored(m), Tiled(m, n, fs, hm),
         Chained(m, n, fs, k, p, ms),
         NEW m1, NEW j \in 1 .. n, NEW d \in 1 .. k, p[d] <= j, d < k => p[d + 1] > j,
         \A i \in 1 .. j : m1.frm[fs[i]].fp = m.frm[fs[i]].fp /\ m1.frm[fs[i]].mr = m.frm[fs[i]].mr,
         m1.R.FP = fs[p[d]], m1.R.M = ms[d]
  PROVE  Chained(m1, j, Upto(fs, j), d, Upto(p, d), Upto(ms, d))
<1> DEFINE f == Upto(fs, j)  pp == Upto(p, d)  mm == Upto(ms, d)
<1>0. /\ n \in Nat \ {0} /\ j \in Nat \ {0} /\ k \in Nat \ {0} /\ d \in Nat \ {0}
      /\ p \in [1 .. k -> 1 .. n] /\ ms \in [1 .. k -> Mods] /\ p[1] = 1
      /\ \A u, v \in 1 .. k : u < v => p[u] < p[v]
      /\ \A i \in 1 .. k : i < k => ms[i] \in Module
  <2>1. n \in Nat \ {0}
    BY Listed
  <2>2. /\ k \in Nat \ {0} /\ p \in [1 .. k -> 1 .. n] /\ ms \in [1 .. k -> Mods] /\ p[1] = 1
        /\ \A u, v \in 1 .. k : u < v => p[u] < p[v]
        /\ \A i \in 1 .. k : i < k => ms[i] \in Module
    BY DEF Chained
  <2>. QED
    BY <2>1, <2>2
<1>1. /\ \A i \in 1 .. j : f[i] = fs[i] /\ i \in 1 .. n
      /\ \A i \in 1 .. d : pp[i] = p[i] /\ mm[i] = ms[i] /\ i \in 1 .. k
  BY <1>0 DEF Upto
<1>2. ASSUME NEW i \in 1 .. d PROVE p[i] \in 1 .. j
  <2>1. i \in 1 .. k /\ p[i] \in 1 .. n /\ p[d] \in 1 .. n
    BY <1>0
  <2>2. i = d \/ i < d
    BY <1>0
  <2>3. p[i] <= p[d]
    BY <1>0, <2>1, <2>2
  <2>. QED
    BY <1>0, <2>1, <2>3
<1>3. pp \in [1 .. d -> 1 .. j] /\ mm \in [1 .. d -> Mods]
  <2>1. pp = [i \in 1 .. d |-> p[i]] /\ mm = [i \in 1 .. d |-> ms[i]]
    BY DEF Upto
  <2>2. \A i \in 1 .. d : ms[i] \in Mods
    BY <1>0, <1>1
  <2>. QED
    BY <1>2, <2>1, <2>2
<1> HIDE DEF f, pp, mm
<1>4. 1 \in 1 .. d /\ d \in 1 .. d /\ 1 \in 1 .. j
  BY <1>0
<1>5. pp[1] = 1 /\ \A u, v \in 1 .. d : u < v => pp[u] < pp[v]
  BY <1>0, <1>1, <1>4
<1>6. m1.R.FP = f[pp[d]] /\ m1.R.M = mm[d]
  BY <1>1, <1>2, <1>4
<1>7. \A i \in 1 .. d : i < d => mm[i] \in Module
  BY <1>0, <1>1
<1>8. m1.frm[f[1]].fp = NoFrame
  BY <1>1, <1>4 DEF Chained
<1>9. ASSUME NEW i \in 2 .. d
      PROVE  /\ m1.frm[f[pp[i]]].fp = f[pp[i - 1]]
             /\ mm[i - 1] = IF m1.frm[f[pp[i]]].mr # nil THEN m1.frm[f[pp[i]]].mr ELSE mm[i]
  <2>1. i \in 2 .. k /\ i \in 1 .. d /\ i - 1 \in 1 .. d
    BY <1>0
  <2>2. /\ m.frm[fs[p[i]]].fp = fs[p[i - 1]]
        /\ ms[i - 1] = IF m.frm[fs[p[i]]].mr # nil THEN m.frm[fs[p[i]]].mr ELSE ms[i]
    BY <2>1 DEF Chained
  <2>3. p[i] \in 1 .. j /\ p[i - 1] \in 1 .. j
    BY <1>2, <2>1
  <2>4. f[pp[i]] = fs[p[i]] /\ f[pp[i - 1]] = fs[p[i - 1]] /\ mm[i] = ms[i] /\ mm[i - 1] = ms[i - 1]
    BY <1>1, <2>1, <2>3
  <2>5. m1.frm[fs[p[i]]].fp = m.frm[fs[p[i]]].fp /\ m1.frm[fs[p[i]]].mr = m.frm[fs[p[i]]].mr
    BY <2>3
  <2>. QED
    BY <2>2, <2>4, <2>5
<1>10. ASSUME NEW z \in 1 .. j, \A i \in 1 .. d : pp[i] # z
       PROVE  m1.frm[f[z]].fp = NoFrame /\ m1.frm[f[z]].mr = nil
  <2>1. ASSUME NEW i \in 1 .. k PROVE p[i] # z
    <3>1. CASE i <= d
      <4>1. i \in 1 .. d
        BY <1>0, <3>1
      <4>. QED
        BY <1>1, <1>10, <4>1
    <3>2. CASE i > d
      <4>1. d < k /\ d + 1 \in 1 .. k /\ (i = d + 1 \/ d + 1 < i)
        BY <1>0, <3>2
      <4>2. p[d + 1] <= p[i] /\ p[d + 1] \in Nat /\ p[i] \in Nat
        BY <1>0, <4>1
      <4>3. p[i] > j
        BY <1>0, <4>1, <4>2
      <4>. QED
        BY <1>0, <4>2, <4>3
    <3>3. i \in Nat
      BY <1>0
    <3>. QED
      BY <1>0, <3>1, <3>2, <3>3
  <2>2. m.frm[fs[z]].fp = NoFrame /\ m.frm[fs[z]].mr = nil
    BY <1>1, <2>1 DEF Chained
  <2>. QED
    BY <1>1, <2>2
<1>11. Chained(m1, j, f, d, pp, mm)
  BY <1>0, <1>3, <1>5, <1>6, <1>7, <1>8, <1>9, <1>10 DEF Chained
<1>. QED
  BY <1>11 DEF f, pp, mm

\* What is saved for a frame that is left.
LEMMA CutSaved ==
  ASSUME NEW m, NEW n, NEW fs, NEW hm, NEW k, NEW p, NEW ms, Stored(m), Tiled(m, n, fs, hm),
         Chained(m, n, fs, k, p, ms),
         NEW m1, m1 \in VM, NEW j \in 1 .. n, Cut(m, m1, j, fs, hm), NEW d \in 1 .. k, p[d] <= j,
         NEW e, NEW c \in 1 .. d, Saved(m, e, c, fs, hm, p, ms)
  PROVE  Saved(m1, e, c, Upto(fs, j), Upto(hm, j), Upto(p, d), Upto(ms, d))
<1>0. /\ n \in Nat \ {0} /\ k \in Nat \ {0} /\ d \in Nat /\ c \in Nat /\ j \in Nat
      /\ p \in [1 .. k -> 1 .. n]
      /\ \A u, v \in 1 .. k : u < v => p[u] < p[v]
  <2>1. n \in Nat \ {0}
    BY Listed
  <2>2. /\ k \in Nat \ {0} /\ p \in [1 .. k -> 1 .. n]
        /\ \A u, v \in 1 .. k : u < v => p[u] < p[v]
    BY DEF Chained
  <2>. QED
    BY <2>1, <2>2
<1>1. p[c] \in 1 .. j
  <2>1. c = d \/ c < d
    BY <1>0
  <2>2. c \in 1 .. k /\ p[c] \in 1 .. n /\ p[d] \in 1 .. n
    BY <1>0
  <2>3. p[c] <= p[d]
    BY <1>0, <2>1, <2>2
  <2>. QED
    BY <1>0, <2>2, <2>3
<1>2. Upto(p, d)[c] = p[c] /\ Upto(fs, j)[p[c]] = fs[p[c]] /\ Upto(ms, d)[c] = ms[c]
  BY <1>1 DEF Upto
<1>3. Describes(m1, e.R, p[c], Upto(fs, j), Upto(hm, j))
  BY <1>1, CutTiled DEF Saved
<1>4. c > 1 => Upto(ms, d)[c - 1] = ms[c - 1]
  <2>1. c > 1 => c - 1 \in 1 .. d
    BY <1>0
  <2>. QED
    BY <2>1 DEF Upto
<1>. QED
  BY <1>2, <1>3, <1>4 DEF Saved

\* All of a sequence.
LEMMA UptoAll ==
  ASSUME NEW n \in Nat, NEW S, NEW f \in [1 .. n -> S]
  PROVE  Upto(f, n) = f
BY DEF Upto

\* m1 has the frames and extensions of m.
Alike(m, m1) ==
  /\ m1.ext = m.ext /\ DOMAIN m1.frm = DOMAIN m.frm
  /\ \A a \in DOMAIN m.frm : m1.frm[a].t = m.frm[a].t

\* Frames are laid as before when only their links change.
LEMMA AlikeTiled ==
  ASSUME NEW m, NEW n, NEW fs, NEW hm, Stored(m), Tiled(m, n, fs, hm), Whole(m, n, fs, hm),
         NEW m1, m1 \in VM, Alike(m, m1)
  PROVE  /\ Stored(m1) /\ Tiled(m1, n, fs, hm) /\ Whole(m1, n, fs, hm) /\ Cut(m, m1, n, fs, hm)
         /\ Upto(fs, n) = fs /\ Upto(hm, n) = hm
         /\ \A i \in 1 .. n : \A r : Describes(m, r, i, fs, hm) <=> Describes(m1, r, i, fs, hm)
<1>0. n \in Nat \ {0} /\ n \in 1 .. n
  BY Listed
<1>1. Upto(fs, n) = fs /\ Upto(hm, n) = hm
  BY <1>0, UptoAll DEF Tiled
<1>2. Cut(m, m1, n, fs, hm)
  <2>1. \A i \in 1 .. n : fs[i] \in DOMAIN m.frm /\ hm[i] \in DOMAIN m.ext
    BY Within
  <2>. QED
    BY <2>1 DEF Cut, Keeps, Alike, Whole
<1>3. Stored(m1)
  BY <1>0, <1>2, CutStored
<1>. QED
  BY <1>0, <1>1, <1>2, <1>3, CutTiled

\* And the same chain.
LEMMA AlikeChained ==
  ASSUME NEW m, NEW n, NEW fs, NEW hm, NEW k, NEW p, NEW ms, Stored(m), Tiled(m, n, fs, hm),
         Whole(m, n, fs, hm), Chained(m, n, fs, k, p, ms), NEW m1, m1 \in VM, Alike(m, m1),
         \A a \in DOMAIN m.frm : m1.frm[a].fp = m.frm[a].fp /\ m1.frm[a].mr = m.frm[a].mr,
         m1.R.FP = m.R.FP, m1.R.M = m.R.M
  PROVE  /\ Chained(m1, n, fs, k, p, ms)
         /\ \A e, c : c \in 1 .. k /\ Saved(m, e, c, fs, hm, p, ms) => Saved(m1, e, c, fs, hm, p, ms)
<1>0. /\ n \in Nat \ {0} /\ n \in 1 .. n /\ k \in Nat \ {0} /\ k \in 1 .. k
      /\ p \in [1 .. k -> 1 .. n] /\ ms \in [1 .. k -> Mods]
  BY Listed DEF Chained
<1>1. Upto(fs, n) = fs /\ Upto(hm, n) = hm /\ Cut(m, m1, n, fs, hm)
  BY AlikeTiled
<1>2. Upto(p, k) = p /\ Upto(ms, k) = ms
  BY <1>0, UptoAll
<1>3. p[k] <= n /\ (k < k => p[k + 1] > n)
  BY <1>0
<1>4. \A i \in 1 .. n : m1.frm[fs[i]].fp = m.frm[fs[i]].fp /\ m1.frm[fs[i]].mr = m.frm[fs[i]].mr
  BY Within
<1>5. m1.R.FP = fs[p[k]] /\ m1.R.M = ms[k]
  BY DEF Chained
<1>6. Chained(m1, n, fs, k, p, ms)
  <2>1. Chained(m1, n, Upto(fs, n), k, Upto(p, k), Upto(ms, k))
    BY <1>0, <1>3, <1>4, <1>5, CutChained, ZenonT(60)
  <2>. QED
    BY <1>1, <1>2, <2>1
<1>7. ASSUME NEW e, NEW c \in 1 .. k, Saved(m, e, c, fs, hm, p, ms)
      PROVE  Saved(m1, e, c, fs, hm, p, ms)
  <2>1. Saved(m1, e, c, Upto(fs, n), Upto(hm, n), Upto(p, k), Upto(ms, k))
    BY <1>0, <1>1, <1>3, <1>7, CutSaved
  <2>. QED
    BY <1>1, <1>2, <2>1
<1>. QED
  BY <1>6, <1>7

-----------------------------------------------------------------------------
(* The first frame. *)

\* The stack newstack makes has its first frame.
LEMMA InitGood ==
  ASSUME Init
  PROVE  Good(vm)
<1>1. PICK t \in Types, u \in Module, l \in Label :
        LET x == Min(Ext)
            len == IF SS[u] < t + 1 THEN t + 1 ELSE SS[u]
        IN vm = [R |-> [PC |-> [mod |-> u, at |-> l], FP |-> x, SP |-> x + t,
                        TS |-> x - 1 + len, EX |-> x, M |-> u],
                 frm |-> [a \in {x} |-> [lr |-> nil, fp |-> NoFrame, mr |-> nil, t |-> nil]],
                 ext |-> [a \in {x} |-> [TR |-> t, SP |-> nil, TS |-> nil,
                                         EX |-> nil, l |-> len]],
                 exsp |-> << >>, exhdlr |-> 0]
  BY DEF Init
<1> DEFINE x == Min(Ext)
           len == IF SS[u] < t + 1 THEN t + 1 ELSE SS[u]
<1>2. x \in Ext /\ x \in Nat \ {0} /\ t \in Nat \ {0} /\ SS[u] \in Nat \ {0}
  <2>1. Ext \subseteq Nat /\ Ext # {}
    BY StackAssumption
  <2>2. x \in Ext
    BY <2>1, MinIs
  <2>. QED
    BY <2>2, StackAssumption
<1>3. len \in Nat /\ t + 1 <= len
  BY <1>2
<1>4. \A y \in Ext : x < y => x + (t + 1) <= y /\ x + SS[u] <= y
  <2>1. \A y \in Ext : x < y => x + 2 * t + 1 <= y /\ x + SS[u] <= y /\ y \in Nat
    BY <1>2, ExtApart, StackAssumption
  <2>. QED
    BY <1>2, <2>1
<1>5. \A y \in Ext : x < y => x - 1 + len < y
  <2>1. TAKE y \in Ext
  <2>2. y \in Nat
    BY StackAssumption
  <2>. QED
    BY <1>2, <1>4, <2>2
<1>6. /\ vm.R = [PC |-> [mod |-> u, at |-> l], FP |-> x, SP |-> x + t, TS |-> x - 1 + len, EX |-> x, M |-> u]
      /\ vm.frm = [a \in {x} |-> [lr |-> nil, fp |-> NoFrame, mr |-> nil, t |-> nil]]
      /\ vm.ext = [a \in {x} |-> [TR |-> t, SP |-> nil, TS |-> nil, EX |-> nil, l |-> len]]
      /\ vm.exsp = << >> /\ vm.exhdlr = 0
      /\ vm = [R |-> vm.R, frm |-> vm.frm, ext |-> vm.ext, exsp |-> vm.exsp, exhdlr |-> vm.exhdlr]
  BY <1>1
<1> HIDE DEF x, len
<1>7. /\ DOMAIN vm.frm = {x} /\ vm.frm[x] = [lr |-> nil, fp |-> NoFrame, mr |-> nil, t |-> nil]
      /\ DOMAIN vm.ext = {x} /\ vm.ext[x] = [TR |-> t, SP |-> nil, TS |-> nil, EX |-> nil, l |-> len]
  BY <1>6
<1>8. vm \in VM
  <2>1. vm.R \in Regs
    <3>1. x + t \in Nat /\ x - 1 + len \in Nat
      BY <1>2, <1>3
    <3>2. [mod |-> u, at |-> l] \in PCs
      BY DEF PCs, Mods
    <3>. QED
      BY <1>2, <1>6, <3>1, <3>2 DEF Regs, Mods
  <2>2. vm.frm[x] \in FrameSet
    BY <1>7 DEF FrameSet, NoFrame
  <2>3. vm.ext[x] \in ExtSet
    BY <1>3, <1>7 DEF ExtSet
  <2>4. vm.frm = [a \in DOMAIN vm.frm |-> vm.frm[a]] /\ vm.ext = [a \in DOMAIN vm.ext |-> vm.ext[a]]
    BY <1>6
  <2>5. vm.exsp \in Seq(RecSet)
    BY <1>6
  <2>6. Parts(vm)
    BY <1>2, <1>6, <1>7, <2>1, <2>2, <2>3, <2>4, <2>5 DEF Parts
  <2>. QED
    BY <1>6, <2>6, OfParts
<1>9. SizeOf(vm, x) = t /\ End(vm, x) = x + t /\ Top(vm, x) = x - 1 + len
  BY <1>7 DEF SizeOf, End, Top
<1>10. Stored(vm)
  BY <1>2, <1>5, <1>7, <1>8, <1>9 DEF Stored
<1> DEFINE fs == [i \in 1 .. 1 |-> x]  hm == [i \in 1 .. 1 |-> x]  p == [i \in 1 .. 1 |-> 1]
           ms == [i \in 1 .. 1 |-> u]  dp == [i \in 1 .. 0 |-> 1]
<1>11. Tiled(vm, 1, fs, hm)
  <2>1. fs \in [1 .. 1 -> DOMAIN vm.frm] /\ hm \in [1 .. 1 -> DOMAIN vm.ext]
    BY <1>7
  <2>2. \A j \in 1 .. 1 : fs[j] = x /\ hm[j] = x /\ j = 1
    OBVIOUS
  <2>3. fs[1] = x /\ hm[1] = x /\ vm.ext[x].EX = nil /\ vm.frm[x].t = nil
    BY <1>7
  <2>4. x <= x /\ x + t <= x - 1 + len
    BY <1>2, <1>3
  <2>5. \A i, j \in 1 .. 1 : ~(i < j)
    BY <2>2
  <2>6. 2 .. 1 = {}
    OBVIOUS
  <2> HIDE DEF fs, hm
  <2>. QED
    BY <1>9, <2>1, <2>2, <2>3, <2>4, <2>5, <2>6 DEF Tiled
<1>12. Whole(vm, 1, fs, hm)
  <2>1. 1 \in 1 .. 1 /\ fs[1] = x /\ hm[1] = x
    OBVIOUS
  <2> HIDE DEF fs, hm
  <2>. QED
    BY <1>7, <2>1 DEF Whole
<1>13. Describes(vm, vm.R, 1, fs, hm)
  BY <1>6, <1>9 DEF Describes
<1>14. Chained(vm, 1, fs, 1, p, ms)
  <2>1. p \in [1 .. 1 -> 1 .. 1] /\ ms \in [1 .. 1 -> Mods] /\ p[1] = 1 /\ ms[1] = u /\ fs[1] = x
    BY DEF Mods
  <2>2. \A i \in 1 .. 1 : i = 1
    OBVIOUS
  <2>3. vm.R.FP = x /\ vm.R.M = u /\ vm.frm[x].fp = NoFrame
    BY <1>6, <1>7
  <2>4. 2 .. 1 = {} /\ 1 \in 1 .. 1 /\ 1 \in Nat \ {0}
    OBVIOUS
  <2>5. \A i, j \in 1 .. 1 : ~(i < j)
    BY <2>2
  <2>6. \A i \in 1 .. 1 : ~(i < 1)
    BY <2>2
  <2> HIDE DEF fs, p, ms
  <2>. QED
    BY <2>1, <2>2, <2>3, <2>4, <2>5, <2>6 DEF Chained
<1>15. Recorded(vm, fs, hm, 1, p, ms, 0, dp)
  <2>1. Len(vm.exsp) = 0 /\ 0 + 1 .. 0 = {} /\ 1 .. 0 = {} /\ 0 \in 0 .. 0
    BY <1>6
  <2>2. dp \in [0 + 1 .. 0 -> 1 .. 1]
    OBVIOUS
  <2>3. \A d \in 1 .. 1 : d = 1 /\ fs[p[d]] = x
    OBVIOUS
  <2>4. vm.frm[x].lr = nil
    BY <1>7
  <2> HIDE DEF fs, p, ms, dp, hm
  <2>5. \A d \in 1 .. 1 : Returns(vm.frm[fs[p[d]]].lr, d, \E i \in 0 + 1 .. 0 : dp[i] = d, ms)
    BY <2>1, <2>3, <2>4 DEF Returns
  <2>. QED
    BY <2>1, <2>2, <2>5 DEF Recorded
<1>16. Stack(vm, 1, fs, hm, 1, p, ms, 0, dp)
  <2> HIDE DEF fs, p, ms, dp, hm
  <2>. QED
    BY <1>10, <1>11, <1>12, <1>13, <1>14, <1>15 DEF Stack
<1>17. AtRest(vm, 0)
  BY <1>6, NamesApart DEF AtRest
<1>. QED
  <2> HIDE DEF fs, p, ms, dp, hm
  <2>. QED
    BY <1>16, <1>17 DEF Good

-----------------------------------------------------------------------------
(* A call. *)

\* The parts of a stack, as the proofs use them.
LEMMA StackParts ==
  ASSUME NEW m, NEW n, NEW fs, NEW hm, NEW k, NEW p, NEW ms, NEW q, NEW dp,
         Stack(m, n, fs, hm, k, p, ms, q, dp)
  PROVE  /\ m \in VM /\ Parts(m) /\ Stored(m) /\ Tiled(m, n, fs, hm) /\ Whole(m, n, fs, hm)
         /\ Describes(m, m.R, n, fs, hm) /\ Chained(m, n, fs, k, p, ms)
         /\ Recorded(m, fs, hm, k, p, ms, q, dp)
         /\ n \in Nat \ {0} /\ n \in 1 .. n /\ fs \in [1 .. n -> Nat]
         /\ k \in Nat \ {0} /\ k \in 1 .. k /\ p \in [1 .. k -> 1 .. n] /\ ms \in [1 .. k -> Mods]
         /\ \A u, v \in 1 .. k : u < v => p[u] < p[v]
         /\ m.exsp \in Seq(RecSet) /\ Len(m.exsp) \in Nat /\ q \in 0 .. Len(m.exsp)
         /\ dp \in [q + 1 .. Len(m.exsp) -> 1 .. k]
         /\ \A u, v \in q + 1 .. Len(m.exsp) : u < v => dp[v] <= dp[u]
<1>1. /\ m \in VM /\ Stored(m) /\ Tiled(m, n, fs, hm) /\ Whole(m, n, fs, hm)
      /\ Describes(m, m.R, n, fs, hm) /\ Chained(m, n, fs, k, p, ms)
      /\ Recorded(m, fs, hm, k, p, ms, q, dp)
  BY DEF Stack, Stored
<1>2. Parts(m)
  BY <1>1, PartsOf
<1>3. n \in Nat \ {0} /\ n \in 1 .. n /\ fs \in [1 .. n -> Nat]
  BY <1>1, Listed
<1>4. /\ k \in Nat \ {0} /\ p \in [1 .. k -> 1 .. n] /\ ms \in [1 .. k -> Mods]
      /\ \A u, v \in 1 .. k : u < v => p[u] < p[v]
  BY <1>1 DEF Chained
<1>5. m.exsp \in Seq(RecSet) /\ Len(m.exsp) \in Nat
  BY <1>2 DEF Parts
<1>6. /\ q \in 0 .. Len(m.exsp) /\ dp \in [q + 1 .. Len(m.exsp) -> 1 .. k]
      /\ \A u, v \in q + 1 .. Len(m.exsp) : u < v => dp[v] <= dp[u]
  BY <1>1 DEF Recorded
<1>7. k \in 1 .. k
  BY <1>4
<1>. QED
  BY <1>1, <1>2, <1>3, <1>4, <1>5, <1>6, <1>7

\* f with one more value.
More(f, k, v) == [i \in 1 .. k + 1 |-> IF i <= k THEN f[i] ELSE v]

\* A sequence with one more element.
LEMMA MoreIs ==
  ASSUME NEW k \in Nat, NEW f, NEW v
  PROVE  /\ More(f, k, v)[k + 1] = v /\ \A i \in 1 .. k : More(f, k, v)[i] = f[i]
         /\ \A i \in 1 .. k + 1 : i \in 1 .. k \/ i = k + 1
<1>1. \A i \in 1 .. k + 1 : i \in 1 .. k \/ i = k + 1
  OBVIOUS
<1>2. \A i \in 1 .. k : i \in 1 .. k + 1 /\ i <= k
  OBVIOUS
<1>3. k + 1 \in 1 .. k + 1 /\ ~(k + 1 <= k)
  OBVIOUS
<1>. QED
  BY <1>1, <1>2, <1>3 DEF More

\* Its type.
LEMMA MoreIn ==
  ASSUME NEW k \in Nat, NEW S, NEW f \in [1 .. k -> S], NEW v \in S
  PROVE  More(f, k, v) \in [1 .. k + 1 -> S]
<1>1. \A i \in 1 .. k + 1 : (IF i <= k THEN f[i] ELSE v) \in S
  <2>1. \A i \in 1 .. k + 1 : i <= k => i \in 1 .. k
    OBVIOUS
  <2>. QED
    BY <2>1
<1>. QED
  BY <1>1 DEF More

\* The newest frame is called, from the same module or another.
LEMMA Calling ==
  ASSUME NEW m, NEW n, NEW fs, NEW hm, NEW k, NEW p, NEW ms, NEW dp,
         Stack(m, n, fs, hm, k, p, ms, 0, dp), p[k] # n,
         ms[k] \in Module, m.R.PC.mod = ms[k], m.R.PC.at \in Label,
         NEW mr, NEW into \in Mods, ms[k] = IF mr # nil THEN mr ELSE into,
         NEW m1, m1 \in VM, m1.ext = m.ext, m1.exsp = m.exsp, DOMAIN m1.frm = DOMAIN m.frm,
         \A a \in DOMAIN m.frm : a # fs[n] => m1.frm[a] = m.frm[a],
         m1.frm[fs[n]] = [lr |-> m.R.PC, fp |-> m.R.FP, mr |-> mr, t |-> m.frm[fs[n]].t],
         m1.R.FP = fs[n], m1.R.M = into, m1.R.SP = m.R.SP, m1.R.TS = m.R.TS, m1.R.EX = m.R.EX
  PROVE  Stack(m1, n, fs, hm, k + 1, More(p, k, n), More(ms, k, into), 0, dp)
<1> DEFINE pp == More(p, k, n)  mm == More(ms, k, into)
<1>0. /\ m \in VM /\ Parts(m) /\ Stored(m) /\ Tiled(m, n, fs, hm) /\ Whole(m, n, fs, hm)
      /\ Describes(m, m.R, n, fs, hm) /\ Chained(m, n, fs, k, p, ms)
      /\ Recorded(m, fs, hm, k, p, ms, 0, dp)
      /\ n \in Nat \ {0} /\ n \in 1 .. n /\ fs \in [1 .. n -> Nat]
      /\ k \in Nat \ {0} /\ k \in 1 .. k /\ p \in [1 .. k -> 1 .. n] /\ ms \in [1 .. k -> Mods]
      /\ \A u, v \in 1 .. k : u < v => p[u] < p[v]
      /\ m.exsp \in Seq(RecSet) /\ Len(m.exsp) \in Nat /\ 0 \in 0 .. Len(m.exsp)
      /\ dp \in [0 + 1 .. Len(m.exsp) -> 1 .. k]
      /\ \A u, v \in 0 + 1 .. Len(m.exsp) : u < v => dp[v] <= dp[u]
  BY StackParts
<1>1. /\ pp \in [1 .. k + 1 -> 1 .. n] /\ pp[k + 1] = n /\ \A i \in 1 .. k : pp[i] = p[i]
      /\ \A i \in 1 .. k + 1 : i \in 1 .. k \/ i = k + 1
  <2>1. k \in Nat /\ p \in [1 .. k -> 1 .. n] /\ n \in 1 .. n
    BY <1>0
  <2>2. More(p, k, n) \in [1 .. k + 1 -> 1 .. n]
    BY <2>1, MoreIn
  <2>3. /\ More(p, k, n)[k + 1] = n /\ \A i \in 1 .. k : More(p, k, n)[i] = p[i]
        /\ \A i \in 1 .. k + 1 : i \in 1 .. k \/ i = k + 1
    BY <2>1, MoreIs
  <2>. QED
    BY <2>2, <2>3
<1>2. mm \in [1 .. k + 1 -> Mods] /\ mm[k + 1] = into /\ \A i \in 1 .. k : mm[i] = ms[i]
  <2>1. k \in Nat /\ ms \in [1 .. k -> Mods]
    BY <1>0
  <2>2. More(ms, k, into) \in [1 .. k + 1 -> Mods]
    BY <2>1, MoreIn
  <2>3. More(ms, k, into)[k + 1] = into /\ \A i \in 1 .. k : More(ms, k, into)[i] = ms[i]
    BY <2>1, MoreIs
  <2>. QED
    BY <2>2, <2>3
<1> HIDE DEF pp, mm
<1>3. \A i \in 1 .. k : i \in 1 .. k + 1 /\ i < k + 1 /\ p[i] \in 1 .. n /\ p[i] < n
  <2>1. TAKE i \in 1 .. k
  <2>2. p[i] \in 1 .. n /\ p[k] \in 1 .. n
    BY <1>0
  <2>3. i = k \/ i < k
    BY <1>0
  <2>4. p[i] <= p[k]
    BY <1>0, <2>2, <2>3
  <2>. QED
    BY <1>0, <2>2, <2>4
<1>4. \A j \in 1 .. n : fs[j] \in DOMAIN m.frm /\ (j # n => fs[j] # fs[n])
  <2>1. TAKE j \in 1 .. n
  <2>2. fs[j] \in DOMAIN m.frm
    BY <1>0, Within
  <2>3. fs[j] = fs[n] => j = n
    <3>1. Stored(m) /\ Tiled(m, n, fs, hm) /\ n \in 1 .. n
      BY <1>0
    <3>. QED
      BY <3>1, Distinct
  <2>. QED
    BY <2>2, <2>3
<1>5. \A j \in 1 .. n : j # n => m1.frm[fs[j]] = m.frm[fs[j]]
  BY <1>4
<1>6. Alike(m, m1)
  BY <1>4 DEF Alike
<1>7. Stored(m1) /\ Tiled(m1, n, fs, hm) /\ Whole(m1, n, fs, hm) /\ Describes(m1, m1.R, n, fs, hm)
  <2>1. Describes(m, m1.R, n, fs, hm)
    BY <1>0 DEF Describes
  <2>. QED
    BY <1>0, <1>6, <2>1, AlikeTiled
<1>8. Chained(m1, n, fs, k + 1, pp, mm)
  <2>1. pp[1] = 1
    BY <1>0, <1>1 DEF Chained
  <2>2. \A u, v \in 1 .. k + 1 : u < v => pp[u] < pp[v]
    <3>1. SUFFICES ASSUME NEW u \in 1 .. k + 1, NEW v \in 1 .. k + 1, u < v PROVE pp[u] < pp[v]
      OBVIOUS
    <3>2. u \in 1 .. k
      BY <1>0, <3>1
    <3>3. CASE v = k + 1
      BY <1>1, <1>3, <3>2, <3>3
    <3>4. CASE v # k + 1
      BY <1>0, <1>1, <3>1, <3>2, <3>4
    <3>. QED
      BY <3>3, <3>4
  <2>3. m1.R.FP = fs[pp[k + 1]] /\ m1.R.M = mm[k + 1]
    BY <1>1, <1>2
  <2>4. \A i \in 1 .. k + 1 : i < k + 1 => mm[i] \in Module
    <3>1. \A i \in 1 .. k : ms[i] \in Module
      <4>1. \A i \in 1 .. k : i < k \/ i = k
        BY <1>0
      <4>. QED
        BY <1>0, <4>1 DEF Chained
    <3>2. ~(k + 1 < k + 1)
      BY <1>0
    <3>. QED
      BY <1>1, <1>2, <3>1, <3>2
  <2>5. m1.frm[fs[1]].fp = NoFrame
    <3>1. 1 \in 1 .. k /\ p[1] = 1
      BY <1>0 DEF Chained
    <3>2. 1 \in 1 .. n /\ 1 # n
      BY <1>3, <3>1
    <3>. QED
      BY <1>0, <1>5, <3>2 DEF Chained
  <2>6. ASSUME NEW i \in 2 .. k + 1
        PROVE  /\ m1.frm[fs[pp[i]]].fp = fs[pp[i - 1]]
               /\ mm[i - 1] = IF m1.frm[fs[pp[i]]].mr # nil THEN m1.frm[fs[pp[i]]].mr ELSE mm[i]
    <3>1. CASE i = k + 1
      <4>1. i - 1 = k
        BY <1>0, <3>1
      <4>2. m1.frm[fs[n]].fp = fs[p[k]] /\ m1.frm[fs[n]].mr = mr
        BY <1>0 DEF Chained
      <4>. QED
        BY <1>0, <1>1, <1>2, <3>1, <4>1, <4>2
    <3>2. CASE i # k + 1
      <4>1. i \in 2 .. k /\ i \in 1 .. k /\ i - 1 \in 1 .. k
        BY <1>0, <3>2
      <4>2. /\ m.frm[fs[p[i]]].fp = fs[p[i - 1]]
            /\ ms[i - 1] = IF m.frm[fs[p[i]]].mr # nil THEN m.frm[fs[p[i]]].mr ELSE ms[i]
        BY <1>0, <4>1 DEF Chained
      <4>3. m1.frm[fs[p[i]]] = m.frm[fs[p[i]]]
        <5>1. p[i] \in 1 .. n /\ p[i] # n
          BY <1>0, <1>3, <4>1
        <5>. QED
          BY <1>5, <5>1
      <4>. QED
        BY <1>1, <1>2, <4>1, <4>2, <4>3
    <3>. QED
      BY <3>1, <3>2
  <2>7. ASSUME NEW j \in 1 .. n, \A i \in 1 .. k + 1 : pp[i] # j
        PROVE  m1.frm[fs[j]].fp = NoFrame /\ m1.frm[fs[j]].mr = nil
    <3>1. \A i \in 1 .. k : p[i] # j
      BY <1>1, <1>3, <2>7
    <3>2. j # n
      <4>1. k + 1 \in 1 .. k + 1
        BY <1>0
      <4>. QED
        BY <1>1, <2>7, <4>1
    <3>3. m.frm[fs[j]].fp = NoFrame /\ m.frm[fs[j]].mr = nil
      BY <1>0, <3>1 DEF Chained
    <3>. QED
      BY <1>5, <3>2, <3>3
  <2>8. k + 1 \in Nat \ {0}
    BY <1>0
  <2>. QED
    BY <1>1, <1>2, <2>1, <2>2, <2>3, <2>4, <2>5, <2>6, <2>7, <2>8 DEF Chained
<1>9. Recorded(m1, fs, hm, k + 1, pp, mm, 0, dp)
  <2>1. dp \in [0 + 1 .. Len(m1.exsp) -> 1 .. k + 1] /\ 0 \in 0 .. Len(m1.exsp)
    <3>1. \A i \in 0 + 1 .. Len(m.exsp) : dp[i] \in 1 .. k + 1
      BY <1>0, <1>3
    <3>. QED
      BY <1>0, <3>1
  <2>2. ASSUME NEW i \in 0 + 1 .. Len(m1.exsp) PROVE Saved(m1, m1.exsp[i], dp[i], fs, hm, pp, mm)
    <3> DEFINE e == m.exsp[i]  d == dp[i]
    <3>1. Saved(m, e, d, fs, hm, p, ms) /\ d \in 1 .. k
      BY <1>0 DEF Recorded
    <3> HIDE DEF e, d
    <3>2. pp[d] = p[d] /\ mm[d] = ms[d] /\ p[d] \in 1 .. n
      BY <1>0, <1>1, <1>2, <3>1
    <3>3. d > 1 => mm[d - 1] = ms[d - 1]
      <4>1. d > 1 => d - 1 \in 1 .. k
        BY <1>0, <3>1
      <4>. QED
        BY <1>2, <4>1
    <3>4. Describes(m1, e.R, p[d], fs, hm)
      BY <1>0, <1>6, <3>1, <3>2, AlikeTiled DEF Saved
    <3>5. Saved(m1, e, d, fs, hm, pp, mm)
      BY <3>1, <3>2, <3>3, <3>4 DEF Saved
    <3>. QED
      BY <3>5 DEF e, d
  <2>3. ASSUME NEW d \in 1 .. k + 1
        PROVE  Returns(m1.frm[fs[pp[d]]].lr, d, \E i \in 0 + 1 .. Len(m1.exsp) : dp[i] = d, mm)
    <3>1. CASE d = k + 1
      <4>1. ~ \E i \in 0 + 1 .. Len(m1.exsp) : dp[i] = d
        <5>1. \A i \in 0 + 1 .. Len(m1.exsp) : dp[i] \in 1 .. k
          BY <1>0
        <5>2. \A i \in 1 .. k : i # d
          BY <1>0, <3>1
        <5>. QED
          BY <5>1, <5>2
      <4>2. m1.frm[fs[pp[d]]].lr = m.R.PC
        BY <1>1, <3>1
      <4>3. d # 1 /\ mm[d - 1] = ms[k]
        <5>1. d - 1 = k /\ d # 1
          BY <1>0, <3>1
        <5>. QED
          BY <1>0, <1>2, <5>1
      <4>4. m.R.PC # nil
        <5>1. m.R.PC \in PCs
          BY <1>0 DEF Parts, Regs
        <5>. QED
          BY <5>1, NamesApart DEF PCs, Mods
      <4>. QED
        BY <4>1, <4>2, <4>3, <4>4 DEF Returns
    <3>2. CASE d # k + 1
      <4>1. d \in 1 .. k /\ (d > 1 => d - 1 \in 1 .. k)
        BY <1>0, <3>2
      <4>2. Returns(m.frm[fs[p[d]]].lr, d, \E i \in 0 + 1 .. Len(m.exsp) : dp[i] = d, ms)
        BY <1>0, <4>1 DEF Recorded
      <4>3. m1.frm[fs[pp[d]]] = m.frm[fs[p[d]]]
        <5>1. pp[d] = p[d] /\ p[d] \in 1 .. n /\ p[d] # n
          BY <1>0, <1>1, <1>3, <4>1
        <5>. QED
          BY <1>5, <5>1
      <4>4. d > 1 => mm[d - 1] = ms[d - 1]
        BY <1>2, <4>1
      <4>. QED
        BY <4>2, <4>3, <4>4 DEF Returns
    <3>. QED
      BY <3>1, <3>2
  <2>4. \A i \in 1 .. 0 : FALSE
    OBVIOUS
  <2>. QED
    BY <1>0, <2>1, <2>2, <2>3, <2>4 DEF Recorded
<1>. QED
  BY <1>7, <1>8, <1>9 DEF Stack, pp, mm

-----------------------------------------------------------------------------
(* Records. *)

\* s without its element i.
LEMMA WithoutIs ==
  ASSUME NEW S, NEW s \in Seq(S), NEW i \in 1 .. Len(s)
  PROVE  /\ Without(s, i) \in Seq(S) /\ Len(Without(s, i)) = Len(s) - 1
         /\ \A j \in 1 .. Len(s) - 1 : Without(s, i)[j] = IF j < i THEN s[j] ELSE s[j + 1]
<1> DEFINE u == SubSeq(s, 1, i - 1)  v == SubSeq(s, i + 1, Len(s))
<1>0. Len(s) \in Nat /\ i \in Nat /\ 1 <= i /\ i <= Len(s) /\ \A j \in 1 .. Len(s) : s[j] \in S
  OBVIOUS
<1>1. /\ u \in Seq(S) /\ Len(u) = i - 1
      /\ \A j \in 1 .. i - 1 : u[j] = s[j]
  <2>1. 1 \in Int /\ i - 1 \in Int /\ \A j \in 1 .. i - 1 : s[j] \in S
    BY <1>0
  <2>2. /\ u \in Seq(S) /\ Len(u) = IF 1 <= i - 1 THEN (i - 1) - 1 + 1 ELSE 0
        /\ \A j \in 1 .. (i - 1) - 1 + 1 : u[j] = s[1 + j - 1]
    BY <2>1, SubSeqProperties
  <2> HIDE DEF u
  <2>3. (i - 1) - 1 + 1 = i - 1 /\ \A j \in 1 .. i - 1 : 1 + j - 1 = j
    BY <1>0
  <2>. QED
    BY <1>0, <2>2, <2>3
<1>2. /\ v \in Seq(S) /\ Len(v) = Len(s) - i
      /\ \A j \in 1 .. Len(s) - i : v[j] = s[i + j]
  <2>1. i + 1 \in Int /\ Len(s) \in Int /\ \A j \in i + 1 .. Len(s) : s[j] \in S
    BY <1>0
  <2>2. /\ v \in Seq(S) /\ Len(v) = IF i + 1 <= Len(s) THEN Len(s) - (i + 1) + 1 ELSE 0
        /\ \A j \in 1 .. Len(s) - (i + 1) + 1 : v[j] = s[(i + 1) + j - 1]
    BY <2>1, SubSeqProperties
  <2> HIDE DEF v
  <2>3. Len(s) - (i + 1) + 1 = Len(s) - i /\ \A j \in 1 .. Len(s) - i : (i + 1) + j - 1 = i + j
    BY <1>0
  <2>4. Len(v) = Len(s) - i
    BY <1>0, <2>2
  <2>5. \A j \in 1 .. Len(s) - i : v[j] = s[i + j]
    BY <2>2, <2>3
  <2>. QED
    BY <2>2, <2>4, <2>5
<1> HIDE DEF u, v
<1>3. /\ u \o v \in Seq(S) /\ Len(u \o v) = Len(u) + Len(v)
      /\ \A j \in 1 .. Len(u) + Len(v) : (u \o v)[j] = IF j <= Len(u) THEN u[j] ELSE v[j - Len(u)]
  BY <1>1, <1>2, ConcatProperties
<1>4. Without(s, i) = u \o v
  BY DEF Without, u, v
<1>5. ASSUME NEW j \in 1 .. Len(s) - 1 PROVE (u \o v)[j] = IF j < i THEN s[j] ELSE s[j + 1]
  <2>1. j \in 1 .. Len(u) + Len(v)
    BY <1>0, <1>1, <1>2
  <2>2. CASE j < i
    <3>1. j <= Len(u) /\ j \in 1 .. i - 1
      BY <1>0, <1>1, <2>2
    <3>. QED
      BY <1>1, <1>3, <2>1, <2>2, <3>1
  <2>3. CASE ~(j < i)
    <3>1. ~(j <= Len(u)) /\ j - Len(u) \in 1 .. Len(s) - i /\ i + (j - Len(u)) = j + 1
      BY <1>0, <1>1, <2>3
    <3>2. (u \o v)[j] = v[j - Len(u)]
      BY <1>3, <2>1, <3>1
    <3>3. v[j - Len(u)] = s[i + (j - Len(u))]
      BY <1>2, <3>1
    <3>. QED
      BY <2>3, <3>1, <3>2, <3>3
  <2>. QED
    BY <2>2, <2>3
<1>6. Len(u) + Len(v) = Len(s) - 1
  BY <1>0, <1>1, <1>2
<1>. QED
  BY <1>3, <1>4, <1>5, <1>6

\* m1 is m with another frame a.
Reframed(m, a, g, m1) ==
  /\ m1.R = m.R /\ m1.ext = m.ext /\ m1.exsp = m.exsp /\ m1.exhdlr = m.exhdlr
  /\ m1 = [R |-> m1.R, frm |-> m1.frm, ext |-> m1.ext, exsp |-> m1.exsp, exhdlr |-> m1.exhdlr]
  /\ DOMAIN m1.frm = DOMAIN m.frm /\ m1.frm = [b \in DOMAIN m1.frm |-> m1.frm[b]]
  /\ m1.frm[a] = g /\ \A b \in DOMAIN m.frm : b # a => m1.frm[b] = m.frm[b]

\* A frame whose links change has the size it had.
LEMMA ReframedIs ==
  ASSUME NEW m, m \in VM, NEW a \in DOMAIN m.frm, NEW g \in FrameSet, NEW m1, Reframed(m, a, g, m1)
  PROVE  m1 \in VM /\ (g.t = m.frm[a].t => Alike(m, m1))
<1>1. Parts(m)
  BY PartsOf
<1>2. \A b \in DOMAIN m1.frm : m1.frm[b] \in FrameSet
  BY <1>1 DEF Reframed, Parts
<1>3. Parts(m1)
  BY <1>1, <1>2 DEF Reframed, Parts
<1>4. m1 \in VM
  BY <1>3, OfParts DEF Reframed
<1>5. g.t = m.frm[a].t => Alike(m, m1)
  BY DEF Reframed, Alike
<1>. QED
  BY <1>4, <1>5

\* A return address is set.
WithLr(m, a, v) == [m EXCEPT !.frm[a].lr = v]

\* Only the return address of a frame changes.
LEMMA SetLr ==
  ASSUME NEW m, m \in VM, NEW a \in DOMAIN m.frm, NEW v \in PCs \cup {nil}
  PROVE  \E g \in FrameSet :
           /\ Reframed(m, a, g, WithLr(m, a, v))
           /\ g.lr = v /\ g.fp = m.frm[a].fp /\ g.mr = m.frm[a].mr /\ g.t = m.frm[a].t
<1> DEFINE m1 == [m EXCEPT !.frm[a].lr = v]
           g == [m.frm[a] EXCEPT !.lr = v]
           f == [m.frm EXCEPT ![a] = g]
<1>0. Parts(m)
  BY PartsOf
<1>1. m = [R |-> m.R, frm |-> m.frm, ext |-> m.ext, exsp |-> m.exsp, exhdlr |-> m.exhdlr]
  BY DEF VM
<1>2. g \in FrameSet /\ g.lr = v /\ g.fp = m.frm[a].fp /\ g.mr = m.frm[a].mr /\ g.t = m.frm[a].t
  <2>1. m.frm[a] \in FrameSet
    BY <1>0 DEF Parts
  <2>. QED
    BY <2>1 DEF FrameSet
<1>3. m1 = [m EXCEPT !.frm = f]
  OBVIOUS
<1> HIDE DEF g
<1>4. /\ DOMAIN f = DOMAIN m.frm /\ f[a] = g /\ \A b \in DOMAIN m.frm : b # a => f[b] = m.frm[b]
      /\ f = [b \in DOMAIN f |-> f[b]]
  OBVIOUS
<1> HIDE DEF f
<1>5. /\ m1.R = m.R /\ m1.ext = m.ext /\ m1.exsp = m.exsp /\ m1.exhdlr = m.exhdlr /\ m1.frm = f
      /\ m1 = [R |-> m1.R, frm |-> m1.frm, ext |-> m1.ext, exsp |-> m1.exsp, exhdlr |-> m1.exhdlr]
  <2> HIDE DEF m1
  <2>. QED
    BY <1>1, <1>3
<1> HIDE DEF m1
<1>6. Reframed(m, a, g, m1)
  BY <1>4, <1>5 DEF Reframed
<1>. QED
  BY <1>2, <1>6 DEF m1, WithLr

\* exsp is set.
LEMMA SetExsp ==
  ASSUME NEW m, m \in VM, NEW s \in Seq(RecSet)
  PROVE  LET m1 == [m EXCEPT !.exsp = s]
         IN /\ m1 \in VM /\ m1.R = m.R /\ m1.frm = m.frm /\ m1.ext = m.ext
            /\ m1.exsp = s /\ m1.exhdlr = m.exhdlr
BY DEF VM

\* The records without one of them.
LEMMA RecordsOfIs ==
  ASSUME NEW m, NEW n, NEW fs, NEW hm, NEW k, NEW p, NEW ms, NEW dp,
         Stack(m, n, fs, hm, k, p, ms, 0, dp), NEW d \in 1 .. k
  PROVE  RecordsOf(m.exsp, fs[p[d]]) = {i \in 1 .. Len(m.exsp) : dp[i] = d}
<1>1. \A i \in 1 .. Len(m.exsp) : m.exsp[i].R.FP = fs[p[d]] <=> (i > 0 /\ dp[i] = d)
  BY RecordFor
<1>2. \A i \in 1 .. Len(m.exsp) : i > 0
  OBVIOUS
<1>. QED
  BY <1>1, <1>2 DEF RecordsOf

\* A record is dropped, and its frame returns where it should.
LEMMA UnlinkedKeeps ==
  ASSUME NEW m, NEW n, NEW fs, NEW hm, NEW k, NEW p, NEW ms, NEW dp,
         Stack(m, n, fs, hm, k, p, ms, 0, dp), NEW i \in 1 .. Len(m.exsp)
  PROVE  /\ \E dq : Stack(Unlinked(m, i), n, fs, hm, k, p, ms, 0, dq)
         /\ Unlinked(m, i).R = m.R /\ Unlinked(m, i).exhdlr = m.exhdlr
         /\ Unlinked(m, i).ext = m.ext /\ DOMAIN Unlinked(m, i).frm = DOMAIN m.frm
         /\ \A a \in DOMAIN m.frm : Unlinked(m, i).frm[a].fp = m.frm[a].fp
<1> DEFINE e == m.exsp[i]
           s == Without(m.exsp, i)
           c == dp[i]
           L == Len(m.exsp)
           m0 == restorepc(m, e, s)
           m1 == Unlinked(m, i)
           dq == [j \in 0 + 1 .. L - 1 |-> IF j < i THEN dp[j] ELSE dp[j + 1]]
<1>0. /\ m \in VM /\ Parts(m) /\ Stored(m) /\ Tiled(m, n, fs, hm) /\ Whole(m, n, fs, hm)
      /\ Describes(m, m.R, n, fs, hm) /\ Chained(m, n, fs, k, p, ms)
      /\ Recorded(m, fs, hm, k, p, ms, 0, dp)
      /\ n \in Nat \ {0} /\ n \in 1 .. n /\ fs \in [1 .. n -> Nat]
      /\ k \in Nat \ {0} /\ k \in 1 .. k /\ p \in [1 .. k -> 1 .. n] /\ ms \in [1 .. k -> Mods]
      /\ \A u, v \in 1 .. k : u < v => p[u] < p[v]
      /\ m.exsp \in Seq(RecSet) /\ L \in Nat /\ 0 \in 0 .. L
      /\ dp \in [0 + 1 .. L -> 1 .. k]
      /\ \A u, v \in 0 + 1 .. L : u < v => dp[v] <= dp[u]
  BY StackParts
<1>1. /\ s \in Seq(RecSet) /\ Len(s) = L - 1
      /\ \A j \in 1 .. L - 1 : s[j] = IF j < i THEN m.exsp[j] ELSE m.exsp[j + 1]
  <2>1. m.exsp \in Seq(RecSet)
    BY <1>0
  <2>2. /\ Without(m.exsp, i) \in Seq(RecSet) /\ Len(Without(m.exsp, i)) = Len(m.exsp) - 1
        /\ \A j \in 1 .. Len(m.exsp) - 1 :
             Without(m.exsp, i)[j] = IF j < i THEN m.exsp[j] ELSE m.exsp[j + 1]
    BY <2>1, WithoutIs
  <2>. QED
    BY <2>2
<1>2. Saved(m, e, c, fs, hm, p, ms) /\ c \in 1 .. k /\ e \in RecSet /\ L \in Nat /\ i \in Nat /\ 1 <= i /\ i <= L
  BY <1>0 DEF Recorded
<1>3. e.R.FP = fs[p[c]] /\ fs[p[c]] \in DOMAIN m.frm
  BY <1>0, <1>2, Within DEF Saved
<1>4. RecordsOf(s, fs[p[c]]) # {} <=> \E j \in 1 .. L : j # i /\ dp[j] = c
  <2>1. RecordsOf(m.exsp, fs[p[c]]) = {j \in 1 .. L : dp[j] = c}
    BY <1>2, RecordsOfIs
  <2> HIDE DEF s, c, L
  <2>2. ASSUME NEW j \in RecordsOf(s, fs[p[c]]) PROVE \E u \in 1 .. L : u # i /\ dp[u] = c
    <3>1. j \in 1 .. L - 1 /\ s[j].R.FP = fs[p[c]]
      BY <1>1 DEF RecordsOf
    <3>2. PICK u \in 1 .. L : u # i /\ s[j] = m.exsp[u]
      <4>1. CASE j < i
        BY <1>1, <1>2, <3>1, <4>1 DEF L
      <4>2. CASE ~(j < i)
        <5>1. j + 1 \in 1 .. L /\ j + 1 # i /\ s[j] = m.exsp[j + 1]
          BY <1>1, <1>2, <3>1, <4>2
        <5>. QED
          BY <5>1
      <4>. QED
        BY <4>1, <4>2
    <3>3. u \in RecordsOf(m.exsp, fs[p[c]])
      BY <3>1, <3>2 DEF RecordsOf, L
    <3>. QED
      BY <2>1, <3>2, <3>3
  <2>3. ASSUME NEW u \in 1 .. L, u # i, dp[u] = c PROVE RecordsOf(s, fs[p[c]]) # {}
    <3>1. m.exsp[u].R.FP = fs[p[c]]
      BY <2>1, <2>3 DEF RecordsOf
    <3>2. PICK j \in 1 .. L - 1 : s[j] = m.exsp[u]
      <4>1. CASE u < i
        <5>1. u \in 1 .. L - 1 /\ s[u] = m.exsp[u]
          BY <1>1, <1>2, <4>1
        <5>. QED
          BY <5>1
      <4>2. CASE ~(u < i)
        <5>1. u - 1 \in 1 .. L - 1 /\ ~(u - 1 < i) /\ (u - 1) + 1 = u
          BY <1>2, <2>3, <4>2
        <5>2. s[u - 1] = m.exsp[u]
          BY <1>1, <5>1
        <5>. QED
          BY <5>1, <5>2
      <4>. QED
        BY <4>1, <4>2
    <3>3. j \in RecordsOf(s, fs[p[c]])
      BY <1>1, <3>1, <3>2 DEF RecordsOf
    <3>. QED
      BY <3>3
  <2>. QED
    BY <2>2, <2>3
<1> DEFINE alone == \A j \in 1 .. L : j # i => dp[j] # c
<1>5. /\ m0 \in VM /\ Alike(m, m0) /\ m0.R = m.R /\ m0.ext = m.ext /\ m0.exhdlr = m.exhdlr
      /\ DOMAIN m0.frm = DOMAIN m.frm
      /\ \A b \in DOMAIN m.frm : b # fs[p[c]] \/ ~alone => m0.frm[b] = m.frm[b]
      /\ alone => m0.frm[fs[p[c]]].lr = e.lr
      /\ m0.frm[fs[p[c]]].fp = m.frm[fs[p[c]]].fp /\ m0.frm[fs[p[c]]].mr = m.frm[fs[p[c]]].mr
  <2>0. e.lr \in PCs \cup {nil}
    BY <1>2 DEF RecSet
  <2>1. CASE ~alone
    <3>1. RecordsOf(s, e.R.FP) # {}
      BY <1>3, <1>4, <2>1
    <3> HIDE DEF e, s, c, L
    <3>2. m0 = m
      BY <3>1 DEF restorepc
    <3>. QED
      BY <1>0, <2>1, <3>2 DEF Alike
  <2>2. CASE alone
    <3>1. ~(RecordsOf(s, e.R.FP) # {})
      BY <1>3, <1>4, <2>2
    <3> HIDE DEF e, s, c, L
    <3>2. m0 = WithLr(m, fs[p[c]], e.lr)
      BY <1>3, <3>1 DEF restorepc, WithLr
    <3> HIDE DEF m0
    <3>3. m \in VM /\ fs[p[c]] \in DOMAIN m.frm /\ e.lr \in PCs \cup {nil}
      BY <1>0, <1>3, <2>0
    <3>4. PICK g \in FrameSet :
            /\ Reframed(m, fs[p[c]], g, m0) /\ g.lr = e.lr
            /\ g.fp = m.frm[fs[p[c]]].fp /\ g.mr = m.frm[fs[p[c]]].mr /\ g.t = m.frm[fs[p[c]]].t
      <4>1. \E g \in FrameSet :
              /\ Reframed(m, fs[p[c]], g, WithLr(m, fs[p[c]], e.lr)) /\ g.lr = e.lr
              /\ g.fp = m.frm[fs[p[c]]].fp /\ g.mr = m.frm[fs[p[c]]].mr /\ g.t = m.frm[fs[p[c]]].t
        BY <3>3, SetLr
      <4>. QED
        BY <3>2, <4>1
    <3>6. m0 \in VM /\ Alike(m, m0)
      BY <3>3, <3>4, ReframedIs
    <3>5. /\ m0 \in VM /\ Alike(m, m0)
          /\ m0.R = m.R /\ m0.ext = m.ext /\ m0.exsp = m.exsp /\ m0.exhdlr = m.exhdlr
          /\ DOMAIN m0.frm = DOMAIN m.frm
          /\ \A b \in DOMAIN m.frm : b # fs[p[c]] => m0.frm[b] = m.frm[b]
          /\ m0.frm[fs[p[c]]].lr = e.lr /\ m0.frm[fs[p[c]]].fp = m.frm[fs[p[c]]].fp
          /\ m0.frm[fs[p[c]]].mr = m.frm[fs[p[c]]].mr
      BY <3>4, <3>6 DEF Reframed
    <3>. QED
      BY <2>2, <3>5
  <2>. QED
    BY <2>1, <2>2
<1>6. /\ m1 \in VM /\ m1.R = m.R /\ m1.frm = m0.frm /\ m1.ext = m.ext
      /\ m1.exsp = s /\ m1.exhdlr = m.exhdlr
  <2>1. m1 = [m0 EXCEPT !.exsp = s]
    BY DEF Unlinked
  <2> HIDE DEF m0, m1, s, e
  <2>. QED
    BY <1>1, <1>5, <2>1, SetExsp
<1>7. Alike(m, m1)
  <2> HIDE DEF m0, m1
  <2>. QED
    BY <1>5, <1>6 DEF Alike
<1> HIDE DEF m0, m1, s, e
<1>8. \A a \in DOMAIN m.frm : m1.frm[a].fp = m.frm[a].fp /\ m1.frm[a].mr = m.frm[a].mr
  <2> HIDE DEF c, alone
  <2>. QED
    BY <1>5, <1>6
<1>9. Stored(m1) /\ Tiled(m1, n, fs, hm) /\ Whole(m1, n, fs, hm) /\ Describes(m1, m1.R, n, fs, hm)
  BY <1>0, <1>6, <1>7, AlikeTiled
<1>10. /\ Chained(m1, n, fs, k, p, ms)
       /\ \A r, d : d \in 1 .. k /\ Saved(m, r, d, fs, hm, p, ms) => Saved(m1, r, d, fs, hm, p, ms)
  BY <1>0, <1>6, <1>7, <1>8, AlikeChained
<1> DEFINE sh(j) == IF j < i THEN j ELSE j + 1
<1>11. \A j \in 0 + 1 .. L - 1 : sh(j) \in 1 .. L /\ sh(j) # i /\ dq[j] = dp[sh(j)] /\ s[j] = m.exsp[sh(j)]
  <2>1. \A j \in 0 + 1 .. L - 1 : j \in 1 .. L - 1 /\ sh(j) \in 1 .. L /\ sh(j) # i
    BY <1>2
  <2>2. \A j \in 0 + 1 .. L - 1 : dq[j] = dp[sh(j)]
    OBVIOUS
  <2>3. \A j \in 0 + 1 .. L - 1 : s[j] = m.exsp[sh(j)]
    BY <1>1, <2>1
  <2>. QED
    BY <2>1, <2>2, <2>3
<1>12. \A u \in 1 .. L : u # i => \E j \in 0 + 1 .. L - 1 : sh(j) = u
  <2>1. SUFFICES ASSUME NEW u \in 1 .. L, u # i PROVE \E j \in 0 + 1 .. L - 1 : sh(j) = u
    OBVIOUS
  <2>2. CASE u < i
    <3>1. u \in 0 + 1 .. L - 1 /\ sh(u) = u
      BY <1>2, <2>2
    <3>. QED
      BY <3>1
  <2>3. CASE ~(u < i)
    <3>1. u - 1 \in 0 + 1 .. L - 1 /\ sh(u - 1) = u
      BY <1>2, <2>1, <2>3
    <3>. QED
      BY <3>1
  <2>. QED
    BY <2>2, <2>3
<1>13. \A u, v \in 0 + 1 .. L - 1 : u < v => sh(u) < sh(v)
  BY <1>2
<1>14. dq \in [0 + 1 .. L - 1 -> 1 .. k]
  <2>1. dq = [j \in 0 + 1 .. L - 1 |-> dq[j]]
    OBVIOUS
  <2> HIDE DEF dq, sh, L
  <2>2. \A j \in 0 + 1 .. L - 1 : dq[j] \in 1 .. k
    <3>1. \A u \in 1 .. L : u \in 0 + 1 .. L
      BY <1>0
    <3>. QED
      BY <1>0, <1>11, <3>1
  <2>. QED
    BY <2>1, <2>2
<1> HIDE DEF dq, sh
<1>15. \A u \in 1 .. L : u \in 0 + 1 .. L
  BY <1>0
<1>16. Recorded(m1, fs, hm, k, p, ms, 0, dq)
  <2>1. 0 \in 0 .. Len(m1.exsp) /\ dq \in [0 + 1 .. Len(m1.exsp) -> 1 .. k]
    BY <1>1, <1>2, <1>6, <1>14
  <2>2. ASSUME NEW j \in 0 + 1 .. Len(m1.exsp) PROVE Saved(m1, m1.exsp[j], dq[j], fs, hm, p, ms)
    <3>1. j \in 0 + 1 .. L - 1
      BY <1>1, <1>6, <2>2
    <3>2. sh(j) \in 0 + 1 .. L /\ m1.exsp[j] = m.exsp[sh(j)] /\ dq[j] = dp[sh(j)]
      BY <1>6, <1>11, <1>15, <3>1
    <3>3. Saved(m, m.exsp[sh(j)], dp[sh(j)], fs, hm, p, ms) /\ dp[sh(j)] \in 1 .. k
      BY <1>0, <3>2 DEF Recorded
    <3>. QED
      BY <1>10, <3>2, <3>3
  <2>3. ASSUME NEW u \in 0 + 1 .. Len(m1.exsp), NEW v \in 0 + 1 .. Len(m1.exsp), u < v
        PROVE  dq[v] <= dq[u]
    <3>1. u \in 0 + 1 .. L - 1 /\ v \in 0 + 1 .. L - 1
      BY <1>1, <1>6
    <3>2. sh(u) \in 0 + 1 .. L /\ sh(v) \in 0 + 1 .. L /\ sh(u) < sh(v)
      BY <1>11, <1>13, <1>15, <2>3, <3>1
    <3>3. dp[sh(v)] <= dp[sh(u)]
      BY <1>0, <3>2
    <3>. QED
      BY <1>11, <3>1, <3>3
  <2>4. ASSUME NEW d \in 1 .. k
        PROVE  Returns(m1.frm[fs[p[d]]].lr, d, \E j \in 0 + 1 .. Len(m1.exsp) : dq[j] = d, ms)
    <3> DEFINE was == \E j \in 0 + 1 .. L : dp[j] = d
               now == \E j \in 0 + 1 .. Len(m1.exsp) : dq[j] = d
    <3>0. Returns(m.frm[fs[p[d]]].lr, d, was, ms)
      BY <1>0 DEF Recorded
    <3>1. now <=> \E u \in 1 .. L : u # i /\ dp[u] = d
      <4>1. Len(m1.exsp) = L - 1
        BY <1>1, <1>6
      <4>. HIDE DEF L
      <4>. QED
        BY <1>11, <1>12, <4>1
    <3>2. fs[p[d]] \in DOMAIN m.frm
      BY <1>0, Within
    <3>3. CASE d = c /\ alone
      <4>1. ~now /\ m1.frm[fs[p[d]]].lr = e.lr
        BY <1>5, <1>6, <3>1, <3>3
      <4>2. (d = 1 => e.lr = nil) /\ (d > 1 => e.lr # nil /\ e.lr.mod = ms[d - 1] /\ e.lr.at \in Label)
        BY <1>2, <3>3 DEF Saved
      <4> HIDE DEF now
      <4>3. Returns(m1.frm[fs[p[d]]].lr, d, now, ms)
        BY <4>1, <4>2 DEF Returns
      <4>. QED
        BY <4>3 DEF now
    <3>4. CASE ~(d = c /\ alone)
      <4>1. m1.frm[fs[p[d]]] = m.frm[fs[p[d]]]
        <5>1. d # c => fs[p[d]] # fs[p[c]]
          <6>1. Stored(m) /\ Tiled(m, n, fs, hm) /\ p[d] \in 1 .. n /\ p[c] \in 1 .. n
            BY <1>0, <1>2
          <6>2. fs[p[d]] = fs[p[c]] => p[d] = p[c]
            BY <6>1, Distinct
          <6>3. d # c => d < c \/ c < d
            BY <1>0, <1>2
          <6>4. d # c => p[d] # p[c]
            BY <1>0, <1>2, <6>1, <6>3
          <6>. QED
            BY <6>2, <6>4
        <5> HIDE DEF alone, c
        <5>. QED
          BY <1>5, <1>6, <3>2, <3>4, <5>1
      <4>2. was <=> now
        <5>1. was <=> \E u \in 1 .. L : dp[u] = d
          OBVIOUS
        <5>2. d # c => ((\E u \in 1 .. L : dp[u] = d) <=> (\E u \in 1 .. L : u # i /\ dp[u] = d))
          OBVIOUS
        <5>3. d = c => (\E u \in 1 .. L : dp[u] = d) /\ (\E u \in 1 .. L : u # i /\ dp[u] = d)
          BY <3>4
        <5> HIDE DEF was, now, L, c
        <5>. QED
          BY <3>1, <5>1, <5>2, <5>3
      <4> HIDE DEF was, now
      <4>3. Returns(m1.frm[fs[p[d]]].lr, d, now, ms)
        BY <3>0, <4>1, <4>2
      <4>. QED
        BY <4>3 DEF now
    <3>. QED
      BY <3>3, <3>4
  <2>5. \A j \in 1 .. 0 : FALSE
    OBVIOUS
  <2> HIDE DEF L
  <2>. QED
    BY <2>1, <2>2, <2>3, <2>4, <2>5 DEF Recorded
<1>17. Stack(m1, n, fs, hm, k, p, ms, 0, dq)
  BY <1>9, <1>10, <1>16 DEF Stack
<1>. QED
  BY <1>5, <1>6, <1>8, <1>17 DEF m1

-----------------------------------------------------------------------------
(* The current frame is taken off. *)

\* m and its registers are records of the right kind.
Shaped(m) ==
  /\ m = [R |-> m.R, frm |-> m.frm, ext |-> m.ext, exsp |-> m.exsp, exhdlr |-> m.exhdlr]
  /\ m.R = [PC |-> m.R.PC, FP |-> m.R.FP, SP |-> m.R.SP, TS |-> m.R.TS, EX |-> m.R.EX, M |-> m.R.M]

\* A value of vm has its five fields.
LEMMA VMShaped ==
  ASSUME NEW m, m \in VM
  PROVE  Shaped(m)
<1>1. /\ m = [R |-> m.R, frm |-> m.frm, ext |-> m.ext, exsp |-> m.exsp, exhdlr |-> m.exhdlr]
      /\ m.R \in Regs
  BY DEF VM
<1>2. m.R = [PC |-> m.R.PC, FP |-> m.R.FP, SP |-> m.R.SP, TS |-> m.R.TS, EX |-> m.R.EX, M |-> m.R.M]
  BY <1>1 DEF Regs
<1>. QED
  BY <1>1, <1>2 DEF Shaped

\* What PopFrame does to each part of m.
LEMMA PopIs ==
  ASSUME NEW m, Shaped(m)
  PROVE  LET f == m.R.FP  r == m.frm[f]  m1 == PopFrame(m)
         IN
         /\ m1 = [R |-> m1.R, frm |-> m1.frm, ext |-> m1.ext, exsp |-> m1.exsp, exhdlr |-> m1.exhdlr]
         /\ m1.R = [PC |-> m1.R.PC, FP |-> m1.R.FP, SP |-> m1.R.SP, TS |-> m1.R.TS, EX |-> m1.R.EX, M |-> m1.R.M]
         /\ m1.frm = Drop(m.frm, {f}) /\ m1.exsp = m.exsp /\ m1.exhdlr = m.exhdlr
         /\ m1.R.FP = r.fp /\ m1.R.PC = r.lr
         /\ m1.R.M = IF r.mr # nil THEN r.mr ELSE m.R.M
         /\ r.t = nil => /\ m1.ext = Drop(m.ext, {f}) /\ m1.R.SP = m.ext[f].SP
                         /\ m1.R.TS = m.ext[f].TS /\ m1.R.EX = m.ext[f].EX
         /\ r.t # nil => /\ m1.ext = m.ext /\ m1.R.SP = f
                         /\ m1.R.TS = m.R.TS /\ m1.R.EX = m.R.EX
<1> DEFINE f == m.R.FP  r == m.frm[f]  m1 == PopFrame(m)
           n == [m EXCEPT !.R.FP = r.fp, !.R.SP = f, !.R.PC = r.lr,
                          !.R.M = IF r.mr # nil THEN r.mr ELSE m.R.M]
           u == IF r.t = nil THEN Unextend(n, f) ELSE n
           to == IF r.mr # nil THEN r.mr ELSE m.R.M
           rr == [m.R EXCEPT !.FP = r.fp, !.SP = f, !.PC = r.lr, !.M = to]
<1>0. m = [R |-> m.R, frm |-> m.frm, ext |-> m.ext, exsp |-> m.exsp, exhdlr |-> m.exhdlr]
  BY DEF Shaped
<1>1. m.R = [PC |-> m.R.PC, FP |-> m.R.FP, SP |-> m.R.SP, TS |-> m.R.TS, EX |-> m.R.EX, M |-> m.R.M]
  BY DEF Shaped
<1>2. /\ n = [R |-> n.R, frm |-> n.frm, ext |-> n.ext, exsp |-> n.exsp, exhdlr |-> n.exhdlr]
      /\ n.R = [PC |-> n.R.PC, FP |-> n.R.FP, SP |-> n.R.SP, TS |-> n.R.TS, EX |-> n.R.EX, M |-> n.R.M]
      /\ n.frm = m.frm /\ n.ext = m.ext /\ n.exsp = m.exsp /\ n.exhdlr = m.exhdlr
      /\ n.R.FP = r.fp /\ n.R.SP = f /\ n.R.PC = r.lr /\ n.R.TS = m.R.TS /\ n.R.EX = m.R.EX
      /\ n.R.M = to
  <2>1. n = [m EXCEPT !.R = rr]
    OBVIOUS
  <2> HIDE DEF n, to, f, r
  <2>2. /\ rr = [PC |-> rr.PC, FP |-> rr.FP, SP |-> rr.SP, TS |-> rr.TS, EX |-> rr.EX, M |-> rr.M]
        /\ rr.FP = r.fp /\ rr.SP = f /\ rr.PC = r.lr /\ rr.TS = m.R.TS /\ rr.EX = m.R.EX /\ rr.M = to
    <3>1. PICK R0 : R0 = m.R
      OBVIOUS
    <3>2. PICK a : a = r.fp
      OBVIOUS
    <3>3. PICK b : b = r.lr
      OBVIOUS
    <3>4. /\ R0 = [PC |-> R0.PC, FP |-> R0.FP, SP |-> R0.SP, TS |-> R0.TS, EX |-> R0.EX, M |-> R0.M]
          /\ rr = [R0 EXCEPT !.FP = a, !.SP = f, !.PC = b, !.M = to]
      BY <1>1, <3>1, <3>2, <3>3
    <3> HIDE DEF rr
    <3>5. rr = [PC |-> b, FP |-> a, SP |-> f, TS |-> R0.TS, EX |-> R0.EX, M |-> to]
      BY <3>4
    <3>. QED
      BY <3>1, <3>2, <3>3, <3>5
  <2> HIDE DEF rr
  <2>. QED
    BY <1>0, <2>1, <2>2
<1>3. m1 = [u EXCEPT !.frm = Drop(u.frm, {f})]
  BY DEF PopFrame
<1> HIDE DEF n, f, r, m1
<1>4. /\ u = [R |-> u.R, frm |-> u.frm, ext |-> u.ext, exsp |-> u.exsp, exhdlr |-> u.exhdlr]
      /\ u.R = [PC |-> u.R.PC, FP |-> u.R.FP, SP |-> u.R.SP, TS |-> u.R.TS, EX |-> u.R.EX, M |-> u.R.M]
      /\ u.frm = n.frm /\ u.exsp = n.exsp /\ u.exhdlr = n.exhdlr
      /\ u.R.FP = n.R.FP /\ u.R.PC = n.R.PC /\ u.R.M = n.R.M
      /\ r.t = nil => /\ u.ext = Drop(n.ext, {f}) /\ u.R.SP = n.ext[f].SP
                      /\ u.R.TS = n.ext[f].TS /\ u.R.EX = n.ext[f].EX
      /\ r.t # nil => /\ u.ext = n.ext /\ u.R.SP = n.R.SP
                      /\ u.R.TS = n.R.TS /\ u.R.EX = n.R.EX
  <2>1. CASE r.t = nil
    <3>1. u = [n EXCEPT !.R.SP = n.ext[f].SP, !.R.TS = n.ext[f].TS, !.R.EX = n.ext[f].EX,
                        !.ext = Drop(n.ext, {f})]
      BY <2>1 DEF Unextend, UnextendAs
    <3> HIDE DEF u
    <3>. QED
      BY <1>2, <2>1, <3>1
  <2>2. CASE r.t # nil
    <3>1. u = n
      BY <2>2
    <3> HIDE DEF u
    <3>. QED
      BY <1>2, <2>2, <3>1
  <2>. QED
    BY <2>1, <2>2
<1> HIDE DEF u
<1>5. /\ m1 = [R |-> m1.R, frm |-> m1.frm, ext |-> m1.ext, exsp |-> m1.exsp, exhdlr |-> m1.exhdlr]
      /\ m1.R = u.R /\ m1.frm = Drop(u.frm, {f}) /\ m1.ext = u.ext /\ m1.exsp = u.exsp /\ m1.exhdlr = u.exhdlr
  BY <1>3, <1>4
<1>. QED
  BY <1>2, <1>4, <1>5 DEF f, r, m1

\* The newest records are those for the innermost frame.
LEMMA Foremost ==
  ASSUME NEW L \in Nat, NEW k \in Nat \ {0}, NEW dp \in [0 + 1 .. L -> 1 .. k],
         \A u, v \in 0 + 1 .. L : u < v => dp[v] <= dp[u], NEW c \in Nat
  PROVE  \E q \in 0 .. L : \A i \in 1 .. L : i <= q <=> dp[i] > c
<1> DEFINE S == {i \in 0 .. L : \A j \in 1 .. i : dp[j] > c}
           q == Max(S)
<1>0. 0 + 1 = 1 /\ \A i \in 1 .. L : dp[i] \in 1 .. k /\ dp[i] \in Nat
  OBVIOUS
<1>1. S \subseteq 0 .. L /\ 0 \in S
  OBVIOUS
<1>2. q \in S /\ \A y \in S : y <= q
  <2> HIDE DEF S
  <2>. QED
    BY <1>1, MaxIs
<1> HIDE DEF q
<1>3. ASSUME NEW i \in 1 .. L, i <= q PROVE dp[i] > c
  BY <1>2, <1>3
<1>4. ASSUME NEW i \in 1 .. L, dp[i] > c PROVE i <= q
  <2>1. ASSUME NEW j \in 1 .. i PROVE dp[j] > c
    <3>1. j \in 1 .. L /\ (j = i \/ j < i)
      OBVIOUS
    <3>2. dp[i] <= dp[j]
      BY <1>0, <3>1
    <3>. QED
      BY <1>0, <1>4, <3>1, <3>2
  <2>2. i \in S
    BY <2>1
  <2>. QED
    BY <1>2, <2>2
<1>5. q \in 0 .. L
  BY <1>1, <1>2
<1>. QED
  BY <1>3, <1>4, <1>5

\* m1 has the frames of m but the newest, and its extension is gone if it is
\* the first there.
TakesOff(m, n, fs, m1) ==
  /\ m1.frm = Drop(m.frm, {fs[n]})
  /\ m.frm[fs[n]].t = nil => m1.ext = Drop(m.ext, {fs[n]})
  /\ m.frm[fs[n]].t # nil => m1.ext = m.ext
Left(m, n, fs, hm, m1) ==
  /\ DOMAIN m1.frm = (DOMAIN m.frm) \ {fs[n]} /\ \A a \in DOMAIN m1.frm : m1.frm[a] = m.frm[a]
  /\ m1.frm = [a \in DOMAIN m1.frm |-> m1.frm[a]]
  /\ DOMAIN m1.ext \subseteq DOMAIN m.ext /\ \A x \in DOMAIN m1.ext : m1.ext[x] = m.ext[x]
  /\ m1.ext = [x \in DOMAIN m1.ext |-> m1.ext[x]]
  /\ Cut(m, m1, n - 1, fs, hm)
  /\ m.frm[fs[n]].t = nil => /\ m.ext[fs[n]].EX = hm[n - 1] /\ m.ext[fs[n]].SP = End(m, fs[n - 1])
                             /\ m.ext[fs[n]].TS = Top(m, hm[n - 1])
  /\ m.frm[fs[n]].t # nil => hm[n] = hm[n - 1] /\ fs[n] = End(m, fs[n - 1])

\* What is left when the newest frame is taken off.
LEMMA TakenOff ==
  ASSUME NEW m, NEW n, NEW fs, NEW hm, Stored(m), Tiled(m, n, fs, hm), Whole(m, n, fs, hm), n > 1,
         NEW m1, TakesOff(m, n, fs, m1)
  PROVE  Left(m, n, fs, hm, m1)
<1> DEFINE f == fs[n]
           r == m.frm[f]
           j == n - 1
<1>0. /\ Parts(m) /\ Stored(m) /\ Tiled(m, n, fs, hm) /\ Whole(m, n, fs, hm)
      /\ n \in Nat \ {0} /\ n \in 1 .. n
  <2>1. n \in Nat \ {0}
    BY Listed
  <2>. QED
    BY <2>1, PartsOf DEF Stored
<1>3. j \in 1 .. n /\ j < n /\ j + 1 = n /\ n \in 2 .. n /\ n > 1
  BY <1>0
<1>5. /\ m1.frm = Drop(m.frm, {f})
      /\ r.t = nil => m1.ext = Drop(m.ext, {f})
      /\ r.t # nil => m1.ext = m.ext
  BY DEF TakesOff
<1> HIDE DEF f, r, j
<1>6. \A i \in 1 .. n : fs[i] \in DOMAIN m.frm /\ hm[i] \in DOMAIN m.ext /\ (i # n => fs[i] # f)
  <2>1. TAKE i \in 1 .. n
  <2>2. Stored(m) /\ Tiled(m, n, fs, hm) /\ n \in 1 .. n
    BY <1>0
  <2>3. fs[i] = fs[n] => i = n
    BY <2>2, Distinct
  <2>. QED
    BY <2>2, <2>3, Within DEF f
<1>7. /\ DOMAIN m1.frm = (DOMAIN m.frm) \ {f} /\ \A a \in DOMAIN m1.frm : m1.frm[a] = m.frm[a]
      /\ m1.frm = [a \in DOMAIN m1.frm |-> m1.frm[a]]
  <2>1. PICK g : g = Drop(m.frm, {f})
    OBVIOUS
  <2>2. /\ DOMAIN g = (DOMAIN m.frm) \ {f} /\ \A a \in (DOMAIN m.frm) \ {f} : g[a] = m.frm[a]
        /\ g = [a \in DOMAIN g |-> g[a]]
    BY <2>1 DEF Drop
  <2>3. g = m1.frm
    BY <1>5, <2>1
  <2>. QED
    BY <2>2, <2>3
<1>8. (r.t = nil <=> hm[n] = f) /\ hm[n] <= f /\ f \in Nat /\ hm[n] \in Nat
  BY <1>0, Within DEF Tiled, f, r
<1>9. r.t = nil => \A i \in 1 .. j : hm[i] # f
  <2>1. SUFFICES ASSUME r.t = nil, NEW i \in 1 .. j, hm[i] = f PROVE FALSE
    OBVIOUS
  <2>2. i \in 1 .. n /\ i < n /\ n \in 1 .. n
    BY <1>0, <1>3
  <2>3. hm[i] = hm[n]
    BY <1>8, <2>1
  <2>4. End(m, fs[i]) <= fs[n]
    BY <1>0, <2>2, <2>3 DEF Tiled
  <2>5. hm[i] <= fs[i] /\ fs[i] < End(m, fs[i]) /\ hm[i] \in Nat /\ fs[i] \in Nat /\ End(m, fs[i]) \in Nat
    BY <1>0, <2>2, Within
  <2>. QED
    BY <1>8, <2>1, <2>4, <2>5 DEF f
<1>10. /\ r.t = nil => m.ext[f].EX = hm[j] /\ m.ext[f].SP = End(m, fs[j]) /\ m.ext[f].TS = Top(m, hm[j])
       /\ r.t # nil => hm[n] = hm[j] /\ f = End(m, fs[j])
  <2>1. IF hm[n] = fs[n]
        THEN /\ m.ext[fs[n]].EX = hm[n - 1] /\ m.ext[fs[n]].SP = End(m, fs[n - 1])
             /\ m.ext[fs[n]].TS = Top(m, hm[n - 1])
        ELSE hm[n] = hm[n - 1] /\ fs[n] = End(m, fs[n - 1])
    BY <1>0, <1>3 DEF Tiled
  <2>. QED
    BY <1>8, <2>1 DEF f, j
<1>12. /\ DOMAIN m1.ext \subseteq DOMAIN m.ext /\ \A x \in DOMAIN m1.ext : m1.ext[x] = m.ext[x]
       /\ m1.ext = [x \in DOMAIN m1.ext |-> m1.ext[x]]
       /\ \A i \in 1 .. j : hm[i] \in DOMAIN m1.ext
       /\ \A x \in DOMAIN m1.ext : \E i \in 1 .. j : x = hm[i]
  <2>0. \A i \in 1 .. n : i \in 1 .. j \/ i = n
    BY <1>0, <1>3
  <2>1. CASE r.t = nil
    <3>1. /\ DOMAIN m1.ext = (DOMAIN m.ext) \ {f} /\ \A x \in DOMAIN m1.ext : m1.ext[x] = m.ext[x]
          /\ m1.ext = [x \in DOMAIN m1.ext |-> m1.ext[x]]
      <4>1. PICK g : g = Drop(m.ext, {f})
        OBVIOUS
      <4>2. /\ DOMAIN g = (DOMAIN m.ext) \ {f} /\ \A a \in (DOMAIN m.ext) \ {f} : g[a] = m.ext[a]
            /\ g = [a \in DOMAIN g |-> g[a]]
        BY <4>1 DEF Drop
      <4>3. g = m1.ext
        BY <1>5, <2>1, <4>1
      <4>. QED
        BY <4>2, <4>3
    <3>2. \A x \in DOMAIN m1.ext : \E i \in 1 .. j : x = hm[i]
      BY <1>0, <1>8, <2>0, <2>1, <3>1 DEF Whole
    <3>3. \A i \in 1 .. j : i \in 1 .. n
      BY <1>0, <1>3
    <3>4. \A i \in 1 .. j : hm[i] \in DOMAIN m1.ext
      BY <1>6, <1>9, <2>1, <3>1, <3>3
    <3>. QED
      BY <3>1, <3>2, <3>4
  <2>2. CASE r.t # nil
    <3>1. m1.ext = m.ext
      BY <1>5, <2>2
    <3>2. j \in 1 .. j /\ \A i \in 1 .. j : i \in 1 .. n
      BY <1>0, <1>3
    <3>3. \A x \in DOMAIN m.ext : \E i \in 1 .. j : x = hm[i]
      BY <1>0, <1>10, <2>0, <2>2, <3>2 DEF Whole
    <3>. QED
      BY <1>0, <1>6, <3>1, <3>2, <3>3 DEF Parts
  <2>. QED
    BY <2>1, <2>2
<1>13. Cut(m, m1, j, fs, hm)
  <2>1. \A i \in 1 .. j : i \in 1 .. n /\ i # n
    BY <1>0, <1>3
  <2>2. \A i \in 1 .. n : i \in 1 .. j \/ i = n
    BY <1>0, <1>3
  <2>3. \A i \in 1 .. j : fs[i] \in DOMAIN m1.frm
    BY <1>6, <1>7, <2>1
  <2>4. \A a \in DOMAIN m1.frm : \E i \in 1 .. j : a = fs[i]
    <3>1. \A a \in DOMAIN m1.frm : \E i \in 1 .. n : fs[i] = a
      BY <1>0, <1>7 DEF Whole
    <3>. QED
      BY <1>7, <2>2, <3>1 DEF f
  <2>. QED
    BY <1>7, <1>12, <2>3, <2>4 DEF Cut, Keeps
<1>. QED
  BY <1>7, <1>10, <1>12, <1>13 DEF Left, f, r, j

\* What is left when the innermost frame, which is the newest, is taken off.
LEMMA Popped ==
  ASSUME NEW m, NEW n, NEW fs, NEW hm, NEW k, NEW p, NEW ms, NEW dp,
         Stack(m, n, fs, hm, k, p, ms, 0, dp), k > 1, p[k] = n
  PROVE  \E q, dq :
           /\ Stack(PopFrame(m), n - 1, Upto(fs, n - 1), Upto(hm, n - 1),
                    k - 1, Upto(p, k - 1), Upto(ms, k - 1), q, dq)
           /\ AtRest(PopFrame(m), q)
<1> DEFINE f == fs[n]
           r == m.frm[f]
           m1 == PopFrame(m)
           L == Len(m.exsp)
           j == n - 1
           d == k - 1
<1>0. /\ m \in VM /\ Parts(m) /\ Stored(m) /\ Tiled(m, n, fs, hm) /\ Whole(m, n, fs, hm)
      /\ Describes(m, m.R, n, fs, hm) /\ Chained(m, n, fs, k, p, ms)
      /\ Recorded(m, fs, hm, k, p, ms, 0, dp)
      /\ n \in Nat \ {0} /\ n \in 1 .. n /\ fs \in [1 .. n -> Nat]
      /\ k \in Nat \ {0} /\ k \in 1 .. k /\ p \in [1 .. k -> 1 .. n] /\ ms \in [1 .. k -> Mods]
      /\ \A u, v \in 1 .. k : u < v => p[u] < p[v]
      /\ m.exsp \in Seq(RecSet) /\ L \in Nat /\ 0 \in 0 .. L
      /\ dp \in [0 + 1 .. L -> 1 .. k]
      /\ \A u, v \in 0 + 1 .. L : u < v => dp[v] <= dp[u]
  BY StackParts
<1>1. d \in 1 .. k /\ d < k /\ d + 1 = k /\ d \in Nat \ {0} /\ k \in 2 .. k
  BY <1>0
<1>2. p[d] \in 1 .. n /\ p[d] < n
  BY <1>0, <1>1
<1>3. j \in 1 .. n /\ j < n /\ j + 1 = n /\ n \in 2 .. n /\ n > 1 /\ p[d] <= j /\ p[d] \in 1 .. j
  BY <1>0, <1>2
<1>4. f = m.R.FP /\ m.R.M = ms[k] /\ r.fp = fs[p[d]] /\ ms[d] = IF r.mr # nil THEN r.mr ELSE ms[k]
  BY <1>0, <1>1 DEF Chained
<1> HIDE DEF f, r, j, d, L
<1>5. /\ m1 = [R |-> m1.R, frm |-> m1.frm, ext |-> m1.ext, exsp |-> m1.exsp, exhdlr |-> m1.exhdlr]
      /\ m1.R = [PC |-> m1.R.PC, FP |-> m1.R.FP, SP |-> m1.R.SP, TS |-> m1.R.TS, EX |-> m1.R.EX, M |-> m1.R.M]
      /\ m1.frm = Drop(m.frm, {f}) /\ m1.exsp = m.exsp /\ m1.exhdlr = m.exhdlr
      /\ m1.R.FP = r.fp /\ m1.R.PC = r.lr
      /\ m1.R.M = IF r.mr # nil THEN r.mr ELSE m.R.M
      /\ r.t = nil => /\ m1.ext = Drop(m.ext, {f}) /\ m1.R.SP = m.ext[f].SP
                      /\ m1.R.TS = m.ext[f].TS /\ m1.R.EX = m.ext[f].EX
      /\ r.t # nil => /\ m1.ext = m.ext /\ m1.R.SP = f
                      /\ m1.R.TS = m.R.TS /\ m1.R.EX = m.R.EX
  <2>1. r = m.frm[m.R.FP]
    BY <1>4 DEF r, f
  <2>. HIDE DEF m1
  <2>. QED
    BY <1>0, <1>4, <2>1, PopIs, VMShaped DEF m1
<1> HIDE DEF m1
<1>6. \A i \in 1 .. n : fs[i] \in DOMAIN m.frm /\ hm[i] \in DOMAIN m.ext
  BY <1>0, Within
<1>7. /\ DOMAIN m1.frm = (DOMAIN m.frm) \ {f} /\ \A a \in DOMAIN m1.frm : m1.frm[a] = m.frm[a]
      /\ m1.frm = [a \in DOMAIN m1.frm |-> m1.frm[a]]
      /\ DOMAIN m1.ext \subseteq DOMAIN m.ext /\ \A x \in DOMAIN m1.ext : m1.ext[x] = m.ext[x]
      /\ m1.ext = [x \in DOMAIN m1.ext |-> m1.ext[x]]
      /\ Cut(m, m1, j, fs, hm)
      /\ r.t = nil => m.ext[f].EX = hm[j] /\ m.ext[f].SP = End(m, fs[j]) /\ m.ext[f].TS = Top(m, hm[j])
      /\ r.t # nil => hm[n] = hm[j] /\ f = End(m, fs[j])
  <2>1. Stored(m) /\ Tiled(m, n, fs, hm) /\ Whole(m, n, fs, hm) /\ n > 1
    BY <1>0, <1>3
  <2>2. TakesOff(m, n, fs, m1)
    BY <1>5 DEF TakesOff, f, r
  <2>3. Left(m, n, fs, hm, m1)
    BY <2>1, <2>2, TakenOff
  <2>. QED
    BY <2>3 DEF Left, f, r, j
<1>11. Describes(m, m1.R, j, fs, hm)
  <2>1. CASE r.t = nil
    BY <1>5, <1>7, <2>1 DEF Describes
  <2>2. CASE r.t # nil
    BY <1>0, <1>5, <1>7, <2>2 DEF Describes
  <2>. QED
    BY <2>1, <2>2
<1>14. /\ r.lr # nil /\ r.lr \in PCs /\ r.lr.mod = ms[d] /\ ms[d] \in Module
       /\ (\E i \in 0 + 1 .. L : dp[i] = k) => r.lr.at = "eclr"
       /\ ~(\E i \in 0 + 1 .. L : dp[i] = k) => r.lr.at \in Label
  <2>1. Returns(r.lr, k, \E i \in 0 + 1 .. L : dp[i] = k, ms)
    BY <1>0 DEF Recorded, r, f, L
  <2>2. r.lr \in PCs \cup {nil}
    <3>1. r \in FrameSet
      BY <1>0, <1>6 DEF Parts, r, f
    <3>. QED
      BY <3>1 DEF FrameSet
  <2>3. ms[d] \in Module
    BY <1>0, <1>1 DEF Chained
  <2>4. k > 1 /\ k # 1 /\ k - 1 = d
    BY <1>0, <1>1
  <2>. QED
    BY <2>1, <2>2, <2>3, <2>4 DEF Returns
<1>15. m1 \in VM
  <2>1. m1.R \in Regs
    <3>1. m1.R.M \in Mods
      BY <1>4, <1>5, <1>14 DEF Mods
    <3>2. m1.R.FP \in Nat /\ m1.R.PC \in PCs
      BY <1>0, <1>2, <1>4, <1>5, <1>14
    <3>3. m1.R.EX \in Nat /\ m1.R.SP \in Nat /\ m1.R.TS \in Nat
      <4>1. Stored(m) /\ Tiled(m, n, fs, hm) /\ j \in 1 .. n
        BY <1>0, <1>3
      <4>2. hm[j] \in Nat /\ End(m, fs[j]) \in Nat /\ Top(m, hm[j]) \in Nat
        BY <4>1, Within
      <4>. QED
        BY <1>11, <4>2 DEF Describes
    <3>. QED
      BY <1>5, <3>1, <3>2, <3>3 DEF Regs
  <2>2. Parts(m1)
    BY <1>0, <1>5, <1>7, <2>1 DEF Parts
  <2>. QED
    BY <1>5, <2>2, OfParts
<1>16. Stored(m1)
  BY <1>0, <1>3, <1>7, <1>15, CutStored
<1>17. /\ Tiled(m1, j, Upto(fs, j), Upto(hm, j)) /\ Whole(m1, j, Upto(fs, j), Upto(hm, j))
       /\ Describes(m1, m1.R, j, Upto(fs, j), Upto(hm, j))
  <2>1. /\ Tiled(m1, j, Upto(fs, j), Upto(hm, j)) /\ Whole(m1, j, Upto(fs, j), Upto(hm, j))
        /\ \A i \in 1 .. j : \A x : Describes(m, x, i, fs, hm) <=> Describes(m1, x, i, Upto(fs, j), Upto(hm, j))
    BY <1>0, <1>3, <1>7, <1>15, CutTiled
  <2>2. j \in 1 .. j
    BY <1>0, <1>3
  <2>. QED
    BY <1>11, <2>1, <2>2
<1>18. Chained(m1, j, Upto(fs, j), d, Upto(p, d), Upto(ms, d))
  <2>1. d < k => p[d + 1] > j
    BY <1>0, <1>1, <1>3
  <2>2. \A i \in 1 .. j : m1.frm[fs[i]].fp = m.frm[fs[i]].fp /\ m1.frm[fs[i]].mr = m.frm[fs[i]].mr
    BY <1>7 DEF Cut, Keeps
  <2>3. m1.R.FP = fs[p[d]] /\ m1.R.M = ms[d]
    BY <1>4, <1>5
  <2>. QED
    BY <1>0, <1>1, <1>3, <2>1, <2>2, <2>3, CutChained
<1>19. PICK q \in 0 .. L : \A i \in 1 .. L : i <= q <=> dp[i] > d
  BY <1>0, <1>1, Foremost
<1>20. \A i \in 1 .. L : i \in 0 + 1 .. L /\ dp[i] \in 1 .. k /\ (i <= q <=> dp[i] = k)
  <2>1. \A i \in 1 .. L : i \in 0 + 1 .. L
    BY <1>0
  <2>2. \A c \in 1 .. k : c > d <=> c = k
    BY <1>0, <1>1
  <2>. QED
    BY <1>0, <1>19, <2>1, <2>2
<1>21. q \in Nat /\ q <= L /\ \A i \in q + 1 .. L : i \in 1 .. L /\ ~(i <= q)
  BY <1>0
<1> DEFINE dq == [i \in q + 1 .. L |-> dp[i]]
<1>22. Recorded(m1, Upto(fs, j), Upto(hm, j), d, Upto(p, d), Upto(ms, d), q, dq)
  <2>0. Len(m1.exsp) = L
    BY <1>5 DEF L
  <2>1. \A i \in q + 1 .. L : dq[i] = dp[i] /\ dp[i] \in 1 .. d
    <3>1. \A c \in 1 .. k : c # k => c \in 1 .. d
      BY <1>0, <1>1
    <3>. QED
      BY <1>20, <1>21, <3>1
  <2>2. dq \in [q + 1 .. L -> 1 .. d]
    BY <2>1
  <2> HIDE DEF dq
  <2>3. ASSUME NEW i \in q + 1 .. L
        PROVE  Saved(m1, m1.exsp[i], dq[i], Upto(fs, j), Upto(hm, j), Upto(p, d), Upto(ms, d))
    <3>1. Saved(m, m.exsp[i], dp[i], fs, hm, p, ms)
      BY <1>0, <1>20, <1>21 DEF Recorded, L
    <3>2. PICK e, c : e = m.exsp[i] /\ c = dp[i]
      OBVIOUS
    <3>3. c \in 1 .. d /\ Saved(m, e, c, fs, hm, p, ms)
      BY <2>1, <3>1, <3>2
    <3>4. Saved(m1, e, c, Upto(fs, j), Upto(hm, j), Upto(p, d), Upto(ms, d))
      BY <1>0, <1>1, <1>3, <1>7, <1>15, <3>3, CutSaved
    <3>. QED
      BY <1>5, <2>1, <3>2, <3>4
  <2>4. ASSUME NEW u \in q + 1 .. L, NEW v \in q + 1 .. L, u < v PROVE dq[v] <= dq[u]
    BY <1>0, <1>20, <1>21, <2>1, <2>4
  <2>5. ASSUME NEW c \in 1 .. d
        PROVE  Returns(m1.frm[Upto(fs, j)[Upto(p, d)[c]]].lr, c, \E i \in q + 1 .. L : dq[i] = c, Upto(ms, d))
    <3>1. c \in 1 .. k /\ c # k /\ (c > 1 => c - 1 \in 1 .. d)
      BY <1>0, <1>1
    <3>2. p[c] \in 1 .. j
      <4>1. p[c] \in 1 .. n /\ p[c] < n
        <5>1. c < k
          BY <1>0, <3>1
        <5>. QED
          BY <1>0, <3>1, <5>1
      <4>. QED
        BY <1>0, <1>3, <4>1
    <3>3. Upto(p, d)[c] = p[c] /\ Upto(fs, j)[p[c]] = fs[p[c]] /\ (c > 1 => Upto(ms, d)[c - 1] = ms[c - 1])
      BY <3>1, <3>2 DEF Upto
    <3>4. Returns(m.frm[fs[p[c]]].lr, c, \E i \in 0 + 1 .. L : dp[i] = c, ms)
      BY <1>0, <3>1 DEF Recorded, L
    <3>5. (\E i \in 0 + 1 .. L : dp[i] = c) <=> (\E i \in q + 1 .. L : dq[i] = c)
      <4>1. ASSUME NEW i \in 0 + 1 .. L, dp[i] = c PROVE i \in q + 1 .. L
        <5>1. i \in 1 .. L
          BY <1>0
        <5>2. ~(i <= q)
          BY <1>20, <3>1, <4>1, <5>1
        <5>. QED
          BY <1>21, <5>1, <5>2
      <4>2. \A i \in q + 1 .. L : i \in 0 + 1 .. L /\ dq[i] = dp[i]
        BY <1>20, <1>21, <2>1
      <4>. QED
        BY <4>1, <4>2
    <3>6. m1.frm[fs[p[c]]] = m.frm[fs[p[c]]]
      BY <1>7, <3>2 DEF Cut, Keeps
    <3>. QED
      BY <3>3, <3>4, <3>5, <3>6 DEF Returns
  <2>6. ASSUME NEW i \in 1 .. q
        PROVE  /\ m1.exsp[i].R.FP \notin DOMAIN m1.frm
               /\ m1.exsp[i].lr # nil /\ m1.exsp[i].lr.mod = m1.R.M /\ m1.exsp[i].lr.at \in Label
    <3>1. i \in 1 .. L /\ i <= q
      BY <1>0, <1>21
    <3>2. Saved(m, m.exsp[i], k, fs, hm, p, ms)
      <4>1. i \in 0 + 1 .. Len(m.exsp) /\ dp[i] = k
        BY <1>20, <3>1 DEF L
      <4>2. Saved(m, m.exsp[i], dp[i], fs, hm, p, ms)
        BY <1>0, <4>1 DEF Recorded
      <4>. QED
        BY <4>1, <4>2
    <3>3. k > 1 /\ k - 1 = d
      BY <1>1, <1>0
    <3>4. m.exsp[i].R.FP = f
      BY <3>2 DEF Saved, f
    <3>5. m.exsp[i].lr # nil /\ m.exsp[i].lr.mod = ms[d] /\ m.exsp[i].lr.at \in Label
      BY <3>2, <3>3 DEF Saved
    <3>. QED
      BY <1>4, <1>5, <1>7, <3>4, <3>5
  <2>. QED
    BY <1>21, <2>0, <2>2, <2>3, <2>4, <2>5, <2>6 DEF Recorded
<1> HIDE DEF dq
<1>23. Stack(m1, j, Upto(fs, j), Upto(hm, j), d, Upto(p, d), Upto(ms, d), q, dq)
  BY <1>16, <1>17, <1>18, <1>22 DEF Stack
<1>24. AtRest(m1, q)
  <2>1. (\E i \in 0 + 1 .. L : dp[i] = k) <=> q > 0
    <3>1. ASSUME NEW i \in 0 + 1 .. L, dp[i] = k PROVE q > 0
      <4>1. i \in 1 .. L /\ i \in Nat /\ i > 0
        BY <1>0
      <4>. QED
        BY <1>20, <1>21, <3>1, <4>1
    <3>2. ASSUME q > 0 PROVE \E i \in 0 + 1 .. L : dp[i] = k
      <4>1. 1 \in 1 .. L /\ 1 <= q
        BY <1>0, <1>21, <3>2
      <4>. QED
        BY <1>20, <4>1
    <3>. QED
      BY <3>1, <3>2
  <2>2. m1.R.M = ms[d] /\ m1.R.PC = r.lr
    BY <1>4, <1>5
  <2>3. "eclr" \notin Label
    BY NamesApart
  <2>. QED
    BY <1>14, <2>1, <2>2, <2>3 DEF AtRest
<1>. QED
  BY <1>23, <1>24 DEF m1, j, d

-----------------------------------------------------------------------------
(* The newest frame is called. *)

\* m1 is m with other registers r and another frame a.
Rebuilt(m, a, g, r, m1) ==
  /\ m1.R = r /\ m1.ext = m.ext /\ m1.exsp = m.exsp /\ m1.exhdlr = m.exhdlr
  /\ m1 = [R |-> m1.R, frm |-> m1.frm, ext |-> m1.ext, exsp |-> m1.exsp, exhdlr |-> m1.exhdlr]
  /\ DOMAIN m1.frm = DOMAIN m.frm /\ m1.frm = [b \in DOMAIN m1.frm |-> m1.frm[b]]
  /\ m1.frm[a] = g /\ \A b \in DOMAIN m.frm : b # a => m1.frm[b] = m.frm[b]

\* A frame and the registers change.
LEMMA RebuiltIs ==
  ASSUME NEW m, m \in VM, NEW a \in DOMAIN m.frm, NEW g \in FrameSet, NEW r \in Regs,
         NEW m1, Rebuilt(m, a, g, r, m1)
  PROVE  m1 \in VM
<1>1. Parts(m)
  BY PartsOf
<1>2. \A b \in DOMAIN m1.frm : m1.frm[b] \in FrameSet
  BY <1>1 DEF Rebuilt, Parts
<1>3. Parts(m1)
  BY <1>1, <1>2 DEF Rebuilt, Parts
<1>. QED
  BY <1>3, OfParts DEF Rebuilt

\* The parts of what call and mcall do.
LEMMA LinkedIs ==
  ASSUME NEW m, m \in VM, NEW f \in DOMAIN m.frm
  PROVE  Rebuilt(m, f, [lr |-> m.R.PC, fp |-> m.R.FP, mr |-> m.frm[f].mr, t |-> m.frm[f].t],
                 [PC |-> m.R.PC, FP |-> f, SP |-> m.R.SP, TS |-> m.R.TS, EX |-> m.R.EX, M |-> m.R.M],
                 Linked(m, f))
<1> DEFINE g == [m.frm[f] EXCEPT !.lr = m.R.PC, !.fp = m.R.FP]
           h == [m.frm EXCEPT ![f] = g]
           r == [m.R EXCEPT !.FP = f]
           m1 == Linked(m, f)
<1>0. Parts(m)
  BY PartsOf
<1>1. /\ m = [R |-> m.R, frm |-> m.frm, ext |-> m.ext, exsp |-> m.exsp, exhdlr |-> m.exhdlr]
      /\ m.frm[f] \in FrameSet /\ m.R \in Regs
  BY <1>0 DEF VM, Parts
<1>2. g = [lr |-> m.R.PC, fp |-> m.R.FP, mr |-> m.frm[f].mr, t |-> m.frm[f].t]
  <2>1. PICK G, a, b : G = m.frm[f] /\ a = m.R.PC /\ b = m.R.FP
    OBVIOUS
  <2>2. [G EXCEPT !.lr = a, !.fp = b] = [lr |-> a, fp |-> b, mr |-> G.mr, t |-> G.t]
    <3>1. G = [lr |-> G.lr, fp |-> G.fp, mr |-> G.mr, t |-> G.t]
      BY <1>1, <2>1 DEF FrameSet
    <3>2. PICK G1 : G1 = [G EXCEPT !.lr = a]
      OBVIOUS
    <3>3. G1 = [lr |-> a, fp |-> G.fp, mr |-> G.mr, t |-> G.t]
      BY <3>1, <3>2
    <3>4. [G1 EXCEPT !.fp = b] = [lr |-> a, fp |-> b, mr |-> G.mr, t |-> G.t]
      BY <3>3
    <3>. QED
      BY <3>2, <3>4
  <2>. QED
    BY <2>1, <2>2
<1>3. r = [PC |-> m.R.PC, FP |-> f, SP |-> m.R.SP, TS |-> m.R.TS, EX |-> m.R.EX, M |-> m.R.M]
  <2>1. PICK R0 : R0 = m.R
    OBVIOUS
  <2>2. [R0 EXCEPT !.FP = f] = [PC |-> R0.PC, FP |-> f, SP |-> R0.SP, TS |-> R0.TS, EX |-> R0.EX, M |-> R0.M]
    <3>1. R0 \in Regs
      BY <1>1, <2>1
    <3>. QED
      BY <3>1 DEF Regs
  <2>. QED
    BY <2>1, <2>2
<1>4. m1 = [m EXCEPT !.frm = h, !.R = r]
  BY DEF Linked
<1> HIDE DEF g, r
<1>5. /\ DOMAIN h = DOMAIN m.frm /\ h[f] = g /\ \A b \in DOMAIN m.frm : b # f => h[b] = m.frm[b]
      /\ h = [b \in DOMAIN h |-> h[b]]
  OBVIOUS
<1> HIDE DEF h, m1
<1>6. /\ m1.R = r /\ m1.ext = m.ext /\ m1.exsp = m.exsp /\ m1.exhdlr = m.exhdlr /\ m1.frm = h
      /\ m1 = [R |-> m1.R, frm |-> m1.frm, ext |-> m1.ext, exsp |-> m1.exsp, exhdlr |-> m1.exhdlr]
  BY <1>1, <1>4
<1>7. Rebuilt(m, f, g, r, m1)
  BY <1>5, <1>6 DEF Rebuilt
<1>. QED
  BY <1>2, <1>3, <1>7 DEF m1

\* What call changes.
LEMMA CalledIs ==
  ASSUME NEW m, m \in VM, NEW f \in DOMAIN m.frm, f = Newest(m), NEW l
  PROVE  Rebuilt(m, f, [lr |-> m.R.PC, fp |-> m.R.FP, mr |-> m.frm[f].mr, t |-> m.frm[f].t],
                 [PC |-> [mod |-> m.R.M, at |-> l], FP |-> f, SP |-> m.R.SP, TS |-> m.R.TS,
                  EX |-> m.R.EX, M |-> m.R.M], Called(m, l))
<1> DEFINE m1 == Linked(m, f)
           m2 == Called(m, l)
           g == [lr |-> m.R.PC, fp |-> m.R.FP, mr |-> m.frm[f].mr, t |-> m.frm[f].t]
           pc == [mod |-> m.R.M, at |-> l]
           r1 == [PC |-> m.R.PC, FP |-> f, SP |-> m.R.SP, TS |-> m.R.TS, EX |-> m.R.EX, M |-> m.R.M]
           r2 == [PC |-> pc, FP |-> f, SP |-> m.R.SP, TS |-> m.R.TS, EX |-> m.R.EX, M |-> m.R.M]
<1>1. Rebuilt(m, f, g, r1, m1)
  BY LinkedIs
<1>2. m2 = [m1 EXCEPT !.R.PC = pc]
  BY DEF Called
<1>3. [r1 EXCEPT !.PC = pc] = r2
  <2> HIDE DEF pc
  <2>. QED
    OBVIOUS
<1> HIDE DEF r1, r2, m1, m2, g, pc
<1>4. m2 = [m1 EXCEPT !.R = r2]
  BY <1>1, <1>2, <1>3 DEF Rebuilt
<1>5. /\ m2.R = r2 /\ m2.ext = m1.ext /\ m2.exsp = m1.exsp /\ m2.exhdlr = m1.exhdlr /\ m2.frm = m1.frm
      /\ m2 = [R |-> m2.R, frm |-> m2.frm, ext |-> m2.ext, exsp |-> m2.exsp, exhdlr |-> m2.exhdlr]
  BY <1>1, <1>4 DEF Rebuilt
<1>6. Rebuilt(m, f, g, r2, m2)
  BY <1>1, <1>5 DEF Rebuilt
<1>. QED
  BY <1>6 DEF r2, m2, g, pc

\* What mcall changes.
LEMMA McalledIs ==
  ASSUME NEW m, m \in VM, NEW f \in DOMAIN m.frm, f = Newest(m), NEW n, NEW pc
  PROVE  Rebuilt(m, f, [lr |-> m.R.PC, fp |-> m.R.FP, mr |-> m.R.M, t |-> m.frm[f].t],
                 [PC |-> pc, FP |-> f, SP |-> m.R.SP, TS |-> m.R.TS,
                  EX |-> m.R.EX, M |-> n], Mcalled(m, n, pc))
<1> DEFINE m1 == Linked(m, f)
           m2 == Mcalled(m, n, pc)
           g1 == [lr |-> m.R.PC, fp |-> m.R.FP, mr |-> m.frm[f].mr, t |-> m.frm[f].t]
           g2 == [lr |-> m.R.PC, fp |-> m.R.FP, mr |-> m.R.M, t |-> m.frm[f].t]
           r1 == [PC |-> m.R.PC, FP |-> f, SP |-> m.R.SP, TS |-> m.R.TS, EX |-> m.R.EX, M |-> m.R.M]
           r2 == [PC |-> pc, FP |-> f, SP |-> m.R.SP, TS |-> m.R.TS, EX |-> m.R.EX, M |-> n]
           to == m.R.M
           h == [m1.frm EXCEPT ![f] = g2]
<1>1. Rebuilt(m, f, g1, r1, m1)
  BY LinkedIs
<1>2. m2 = [m1 EXCEPT !.frm[f].mr = to, !.R.M = n, !.R.PC = pc]
  BY DEF Mcalled
<1>3. [r1 EXCEPT !.M = n, !.PC = pc] = r2
  <2>1. PICK r : r = [r1 EXCEPT !.M = n]
    OBVIOUS
  <2>2. r = [PC |-> m.R.PC, FP |-> f, SP |-> m.R.SP, TS |-> m.R.TS, EX |-> m.R.EX, M |-> n]
    BY <2>1
  <2>3. [r EXCEPT !.PC = pc] = r2
    BY <2>2
  <2>. QED
    BY <2>1, <2>3
<1>4. [g1 EXCEPT !.mr = to] = g2
  <2> HIDE DEF to
  <2>1. [g1 EXCEPT !.mr = to] = [lr |-> m.R.PC, fp |-> m.R.FP, mr |-> to, t |-> m.frm[f].t]
    OBVIOUS
  <2>. QED
    BY <2>1 DEF to
<1> HIDE DEF r1, r2, m1, m2, g1, g2, to
<1>5. m2 = [m1 EXCEPT !.frm = h, !.R = r2]
  BY <1>1, <1>2, <1>3, <1>4 DEF Rebuilt
<1>6. /\ DOMAIN h = DOMAIN m.frm /\ h[f] = g2 /\ \A b \in DOMAIN m.frm : b # f => h[b] = m.frm[b]
      /\ h = [b \in DOMAIN h |-> h[b]]
  BY <1>1 DEF Rebuilt
<1> HIDE DEF h
<1>7. /\ m2.R = r2 /\ m2.ext = m1.ext /\ m2.exsp = m1.exsp /\ m2.exhdlr = m1.exhdlr /\ m2.frm = h
      /\ m2 = [R |-> m2.R, frm |-> m2.frm, ext |-> m2.ext, exsp |-> m2.exsp, exhdlr |-> m2.exhdlr]
  BY <1>1, <1>5 DEF Rebuilt
<1>8. Rebuilt(m, f, g2, r2, m2)
  BY <1>1, <1>6, <1>7 DEF Rebuilt
<1>. QED
  BY <1>8 DEF r2, m2, g2

\* The newest frame is yet to be called unless it is R.FP.
LEMMA UncalledIs ==
  ASSUME NEW m, NEW n, NEW fs, NEW hm, NEW k, NEW p, NEW ms, NEW q, NEW dp,
         Stack(m, n, fs, hm, k, p, ms, q, dp)
  PROVE  /\ Newest(m) = fs[n] /\ fs[n] \in DOMAIN m.frm
         /\ Uncalled(m) <=> p[k] # n
         /\ p[k] # n => m.frm[fs[n]].mr = nil
<1>0. /\ Stored(m) /\ Tiled(m, n, fs, hm) /\ Describes(m, m.R, n, fs, hm) /\ Chained(m, n, fs, k, p, ms)
      /\ n \in Nat \ {0} /\ n \in 1 .. n
      /\ k \in Nat \ {0} /\ k \in 1 .. k /\ p \in [1 .. k -> 1 .. n]
      /\ \A u, v \in 1 .. k : u < v => p[u] < p[v]
  BY StackParts
<1>1. Newest(m) = fs[n] /\ fs[n] \in DOMAIN m.frm
  BY <1>0, NewestIs, Within
<1>2. m.R.FP = fs[p[k]] /\ p[k] \in 1 .. n
  BY <1>0 DEF Chained
<1>3. fs[n] = fs[p[k]] => n = p[k]
  BY <1>0, <1>2, Distinct
<1>4. ASSUME p[k] # n PROVE m.frm[fs[n]].mr = nil
  <2>1. ASSUME NEW i \in 1 .. k PROVE p[i] # n
    <3>1. i = k \/ i < k
      BY <1>0
    <3>2. p[i] \in 1 .. n /\ p[i] <= p[k]
      BY <1>0, <1>2, <3>1
    <3>. QED
      BY <1>0, <1>2, <1>4, <3>2
  <2>. QED
    BY <1>0, <2>1 DEF Chained
<1>. QED
  BY <1>1, <1>2, <1>3, <1>4 DEF Uncalled

\* The registers between instructions.
LEMMA RestIs ==
  ASSUME NEW m, NEW n, NEW fs, NEW hm, NEW k, NEW p, NEW ms, NEW dp,
         Stack(m, n, fs, hm, k, p, ms, 0, dp), AtRest(m, 0)
  PROVE  /\ m.R \in Regs /\ m.R.PC \in PCs /\ m.R.M = ms[k] /\ ms[k] \in Module
         /\ m.R.PC.mod = ms[k] /\ m.R.PC.at \in Label /\ ms[k] # nil
<1>1. m.R \in Regs /\ m.R.M = ms[k]
  <2>1. Parts(m) /\ Chained(m, n, fs, k, p, ms)
    BY StackParts
  <2>. QED
    BY <2>1 DEF Parts, Chained
<1>2. m.R.PC \in PCs
  BY <1>1 DEF Regs
<1>3. m.R.PC.at \in Label
  BY <1>2 DEF PCs, AtRest
<1>. QED
  BY <1>1, <1>2, <1>3, NamesApart DEF AtRest

\* call leaves a good stack.
LEMMA CalledKeeps ==
  ASSUME NEW m, NEW n, NEW fs, NEW hm, NEW k, NEW p, NEW ms, NEW dp,
         Stack(m, n, fs, hm, k, p, ms, 0, dp), AtRest(m, 0), Uncalled(m), NEW l \in Label
  PROVE  Good(Called(m, l))
<1> DEFINE m1 == Called(m, l)
           f == fs[n]
           g == [lr |-> m.R.PC, fp |-> m.R.FP, mr |-> m.frm[f].mr, t |-> m.frm[f].t]
           r == [PC |-> [mod |-> m.R.M, at |-> l], FP |-> f, SP |-> m.R.SP, TS |-> m.R.TS,
                 EX |-> m.R.EX, M |-> m.R.M]
<1>0. /\ m \in VM /\ f = Newest(m) /\ f \in DOMAIN m.frm /\ p[k] # n /\ m.frm[f].mr = nil /\ Parts(m)
  BY UncalledIs, StackParts
<1>1. /\ m.R \in Regs /\ m.R.PC \in PCs /\ m.R.M = ms[k] /\ ms[k] \in Module
      /\ m.R.PC.mod = ms[k] /\ m.R.PC.at \in Label /\ ms[k] # nil
  BY RestIs
<1>2. Rebuilt(m, f, g, r, m1)
  BY <1>0, CalledIs
<1>3. g \in FrameSet /\ g = [lr |-> m.R.PC, fp |-> m.R.FP, mr |-> nil, t |-> m.frm[f].t]
  <2>1. m.frm[f] \in FrameSet
    BY <1>0 DEF Parts
  <2>2. m.frm[f].t \in Types \cup {nil} /\ m.R.FP \in Nat
    BY <1>1, <2>1 DEF FrameSet, Regs
  <2>. QED
    BY <1>0, <1>1, <2>2 DEF FrameSet
<1>4. r \in Regs /\ r.FP = f /\ r.M = ms[k] /\ r.SP = m.R.SP /\ r.TS = m.R.TS /\ r.EX = m.R.EX
      /\ r.PC.mod = ms[k] /\ r.PC.at = l
  <2>1. /\ f \in Nat /\ m.R.SP \in Nat /\ m.R.TS \in Nat /\ m.R.EX \in Nat /\ m.R.M \in Mods
    BY <1>0, <1>1 DEF Regs, Parts
  <2>2. [mod |-> m.R.M, at |-> l] \in PCs
    BY <2>1 DEF PCs
  <2>3. r \in Regs
    BY <2>1, <2>2 DEF Regs
  <2>. QED
    BY <1>1, <2>3
<1> HIDE DEF m1, f, g, r
<1>5. m1 \in VM
  BY <1>0, <1>2, <1>3, <1>4, RebuiltIs
<1>6. /\ m1.ext = m.ext /\ m1.exsp = m.exsp /\ DOMAIN m1.frm = DOMAIN m.frm
      /\ \A a \in DOMAIN m.frm : a # fs[n] => m1.frm[a] = m.frm[a]
      /\ m1.frm[fs[n]] = [lr |-> m.R.PC, fp |-> m.R.FP, mr |-> nil, t |-> m.frm[fs[n]].t]
      /\ m1.R = r
  BY <1>2, <1>3 DEF Rebuilt, f
<1>7. Stack(m1, n, fs, hm, k + 1, More(p, k, n), More(ms, k, ms[k]), 0, dp)
  <2>1. ms[k] \in Mods
    BY <1>1 DEF Mods
  <2>2. m1.R.FP = fs[n] /\ m1.R.M = ms[k] /\ m1.R.SP = m.R.SP /\ m1.R.TS = m.R.TS /\ m1.R.EX = m.R.EX
    BY <1>4, <1>6 DEF f
  <2>3. ms[k] = IF nil # nil THEN nil ELSE ms[k]
    OBVIOUS
  <2>. QED
    BY <1>0, <1>1, <1>5, <1>6, <2>1, <2>2, <2>3, Calling
<1>8. AtRest(m1, 0)
  <2>1. l # "eclr"
    BY NamesApart
  <2>. QED
    BY <1>1, <1>4, <1>6, <2>1 DEF AtRest
<1>. QED
  BY <1>7, <1>8 DEF Good, m1

\* So does mcall, and the entry of a built-in function.
LEMMA McalledKeeps ==
  ASSUME NEW m, NEW n, NEW fs, NEW hm, NEW k, NEW p, NEW ms, NEW dp,
         Stack(m, n, fs, hm, k, p, ms, 0, dp), AtRest(m, 0), Uncalled(m),
         NEW into \in Mods, NEW pc \in PCs
  PROVE  /\ Stack(Mcalled(m, into, pc), n, fs, hm, k + 1, More(p, k, n), More(ms, k, into), 0, dp)
         /\ Mcalled(m, into, pc).R.M = into /\ Mcalled(m, into, pc).R.PC = pc
         /\ Mcalled(m, into, pc).R.FP = fs[n] /\ Mcalled(m, into, pc).exsp = m.exsp
         /\ Mcalled(m, into, pc).exhdlr = m.exhdlr
         /\ Mcalled(m, into, pc).frm[fs[n]].mr # nil
<1> DEFINE m1 == Mcalled(m, into, pc)
           f == fs[n]
           g == [lr |-> m.R.PC, fp |-> m.R.FP, mr |-> m.R.M, t |-> m.frm[f].t]
           r == [PC |-> pc, FP |-> f, SP |-> m.R.SP, TS |-> m.R.TS, EX |-> m.R.EX, M |-> into]
<1>0. /\ m \in VM /\ f = Newest(m) /\ f \in DOMAIN m.frm /\ p[k] # n /\ Parts(m)
  BY UncalledIs, StackParts
<1>1. /\ m.R \in Regs /\ m.R.PC \in PCs /\ m.R.M = ms[k] /\ ms[k] \in Module
      /\ m.R.PC.mod = ms[k] /\ m.R.PC.at \in Label /\ ms[k] # nil
  BY RestIs
<1>2. Rebuilt(m, f, g, r, m1)
  BY <1>0, McalledIs
<1>3. g \in FrameSet /\ g = [lr |-> m.R.PC, fp |-> m.R.FP, mr |-> ms[k], t |-> m.frm[f].t]
  <2>1. m.frm[f] \in FrameSet
    BY <1>0 DEF Parts
  <2>2. m.frm[f].t \in Types \cup {nil} /\ m.R.FP \in Nat /\ m.R.M \in Mods
    BY <1>1, <2>1 DEF FrameSet, Regs
  <2>. QED
    BY <1>0, <1>1, <2>2 DEF FrameSet
<1>4. r \in Regs /\ r.FP = f /\ r.M = into /\ r.SP = m.R.SP /\ r.TS = m.R.TS /\ r.EX = m.R.EX
      /\ r.PC = pc
  <2>1. /\ f \in Nat /\ m.R.SP \in Nat /\ m.R.TS \in Nat /\ m.R.EX \in Nat
    BY <1>0, <1>1 DEF Regs, Parts
  <2>2. r \in Regs
    BY <2>1 DEF Regs
  <2>. QED
    BY <2>2
<1> HIDE DEF m1, f, g, r
<1>5. m1 \in VM
  BY <1>0, <1>2, <1>3, <1>4, RebuiltIs
<1>6. /\ m1.ext = m.ext /\ m1.exsp = m.exsp /\ m1.exhdlr = m.exhdlr /\ DOMAIN m1.frm = DOMAIN m.frm
      /\ \A a \in DOMAIN m.frm : a # fs[n] => m1.frm[a] = m.frm[a]
      /\ m1.frm[fs[n]] = [lr |-> m.R.PC, fp |-> m.R.FP, mr |-> ms[k], t |-> m.frm[fs[n]].t]
      /\ m1.R = r
  BY <1>2, <1>3 DEF Rebuilt, f
<1>7. Stack(m1, n, fs, hm, k + 1, More(p, k, n), More(ms, k, into), 0, dp)
  <2>2. m1.R.FP = fs[n] /\ m1.R.M = into /\ m1.R.SP = m.R.SP /\ m1.R.TS = m.R.TS /\ m1.R.EX = m.R.EX
    BY <1>4, <1>6 DEF f
  <2>3. ms[k] = IF ms[k] # nil THEN ms[k] ELSE into
    BY <1>1
  <2>. QED
    BY <1>0, <1>1, <1>5, <1>6, <2>2, <2>3, Calling
<1>8. m1.frm[fs[n]].mr = ms[k]
  BY <1>6
<1>. QED
  BY <1>1, <1>4, <1>6, <1>7, <1>8 DEF m1, f

-----------------------------------------------------------------------------
(* Sys->rescue. *)

\* A stack is not about the program counter and exhdlr.
LEMMA Same ==
  ASSUME NEW m, NEW n, NEW fs, NEW hm, NEW k, NEW p, NEW ms, NEW q, NEW dp,
         Stack(m, n, fs, hm, k, p, ms, q, dp),
         NEW m1, m1 \in VM, m1.frm = m.frm, m1.ext = m.ext, m1.exsp = m.exsp,
         m1.R.FP = m.R.FP, m1.R.SP = m.R.SP, m1.R.TS = m.R.TS, m1.R.EX = m.R.EX, m1.R.M = m.R.M
  PROVE  Stack(m1, n, fs, hm, k, p, ms, q, dp)
<1>3. Alike(m, m1)
  BY DEF Alike
<1>4. Stored(m1) /\ Tiled(m1, n, fs, hm) /\ Whole(m1, n, fs, hm) /\ Describes(m1, m1.R, n, fs, hm)
  <2>1. Describes(m, m1.R, n, fs, hm)
    BY DEF Stack, Describes
  <2>. QED
    BY <1>3, <2>1, AlikeTiled, Listed DEF Stack
<1>5. /\ Chained(m1, n, fs, k, p, ms)
      /\ \A e, d : d \in 1 .. k /\ Saved(m, e, d, fs, hm, p, ms) => Saved(m1, e, d, fs, hm, p, ms)
  BY <1>3, AlikeChained DEF Stack
<1>6. Recorded(m1, fs, hm, k, p, ms, q, dp)
  BY <1>5 DEF Stack, Recorded
<1>. QED
  BY <1>4, <1>5, <1>6 DEF Stack

\* The stack does not depend on the rescue that is being handled.
LEMMA HandlerFree ==
  ASSUME NEW m, NEW n, NEW fs, NEW hm, NEW k, NEW p, NEW ms, NEW q, NEW dp,
         Stack(m, n, fs, hm, k, p, ms, q, dp), NEW c \in Nat
  PROVE  Stack([m EXCEPT !.exhdlr = c], n, fs, hm, k, p, ms, q, dp)
<1> DEFINE m1 == [m EXCEPT !.exhdlr = c]
<1>1. m \in VM
  BY DEF Stack, Stored
<1>2. /\ m1 \in VM /\ m1.R = m.R /\ m1.frm = m.frm /\ m1.ext = m.ext /\ m1.exsp = m.exsp
  BY <1>1 DEF VM
<1> HIDE DEF m1
<1>3. Stack(m1, n, fs, hm, k, p, ms, q, dp)
  BY <1>2, Same
<1>. QED
  BY <1>3 DEF m1

\* The native function has another program counter to return to.
At(m, l) == [m EXCEPT !.R.PC.at = l]

\* The program counter moves within its module.
LEMMA AtKeeps ==
  ASSUME NEW m, NEW n, NEW fs, NEW hm, NEW k, NEW p, NEW ms, NEW dp,
         Stack(m, n, fs, hm, k, p, ms, 0, dp), AtRest(m, 0), NEW l \in Label
  PROVE  /\ Stack(At(m, l), n, fs, hm, k, p, ms, 0, dp) /\ AtRest(At(m, l), 0)
         /\ At(m, l).exsp = m.exsp /\ (Uncalled(m) => Uncalled(At(m, l)))
         /\ (OneUncalled(m) /\ Uncalled(m) => p[k] = n - 1)
<1> DEFINE m1 == At(m, l)
           pc == [mod |-> m.R.M, at |-> l]
           r == [PC |-> pc, FP |-> m.R.FP, SP |-> m.R.SP, TS |-> m.R.TS, EX |-> m.R.EX, M |-> m.R.M]
<1>0. /\ m \in VM /\ Parts(m) /\ Stored(m) /\ Tiled(m, n, fs, hm) /\ Whole(m, n, fs, hm)
      /\ Describes(m, m.R, n, fs, hm) /\ Chained(m, n, fs, k, p, ms)
      /\ n \in Nat \ {0} /\ k \in 1 .. k /\ p \in [1 .. k -> 1 .. n]
  BY StackParts
<1>1. /\ m.R \in Regs /\ m.R.PC \in PCs /\ m.R.M = ms[k] /\ ms[k] \in Module
      /\ m.R.PC.mod = ms[k]
  BY RestIs
<1>2. m1 = [m EXCEPT !.R = r]
  <2>1. PICK R0, c : R0 = m.R /\ c = m.R.PC
    OBVIOUS
  <2>2. [c EXCEPT !.at = l] = pc
    <3>1. c \in PCs /\ c.mod = m.R.M
      BY <1>1, <2>1
    <3>. QED
      BY <3>1 DEF PCs
  <2> HIDE DEF pc
  <2>3. [R0 EXCEPT !.PC = pc] = [PC |-> pc, FP |-> R0.FP, SP |-> R0.SP, TS |-> R0.TS, EX |-> R0.EX, M |-> R0.M]
    <3>1. R0 \in Regs
      BY <1>1, <2>1
    <3>. QED
      BY <3>1 DEF Regs
  <2>4. r = [m.R EXCEPT !.PC = [m.R.PC EXCEPT !.at = l]]
    BY <2>1, <2>2, <2>3
  <2> HIDE DEF r
  <2>5. m1 = [m EXCEPT !.R = [m.R EXCEPT !.PC = [m.R.PC EXCEPT !.at = l]]]
    BY DEF At
  <2>. QED
    BY <2>4, <2>5
<1>3. r \in Regs /\ r.FP = m.R.FP /\ r.SP = m.R.SP /\ r.TS = m.R.TS /\ r.EX = m.R.EX /\ r.M = m.R.M
      /\ r.PC.mod = m.R.M /\ r.PC.at = l
  <2>1. pc \in PCs
    BY <1>1 DEF PCs, Mods
  <2>2. m.R.FP \in Nat /\ m.R.SP \in Nat /\ m.R.TS \in Nat /\ m.R.EX \in Nat /\ m.R.M \in Mods
    BY <1>1 DEF Regs
  <2>. QED
    BY <2>1, <2>2 DEF Regs
<1> HIDE DEF m1, r
<1>4. /\ m1 \in VM /\ m1.frm = m.frm /\ m1.ext = m.ext /\ m1.exsp = m.exsp /\ m1.R = r
  <2>1. /\ m1 = [R |-> r, frm |-> m.frm, ext |-> m.ext, exsp |-> m.exsp, exhdlr |-> m.exhdlr]
    BY <1>0, <1>2 DEF VM
  <2>. QED
    BY <1>0, <1>3, <2>1 DEF VM
<1>5. Stack(m1, n, fs, hm, k, p, ms, 0, dp)
  BY <1>3, <1>4, Same
<1>6. AtRest(m1, 0)
  BY <1>1, <1>3, <1>4, NamesApart DEF AtRest
<1>7. Uncalled(m) => Uncalled(m1)
  BY <1>5, UncalledIs
<1>8. ASSUME OneUncalled(m), Uncalled(m) PROVE p[k] = n - 1
  <2>1. p[k] # n
    BY <1>8, UncalledIs
  <2>2. p[k] \in 1 .. n /\ m.R.FP = fs[p[k]]
    BY <1>0 DEF Chained
  <2>3. n <= p[k] + 1
    BY <1>0, <1>8, <2>2, OneUncalledIs
  <2>. QED
    BY <1>0, <2>1, <2>2, <2>3
<1>. QED
  BY <1>4, <1>5, <1>6, <1>7, <1>8 DEF m1

\* A record has an identity of its own.
LEMMA FreeId ==
  ASSUME NEW s \in Seq(RecSet), Len(s) < MaxRec
  PROVE  Min((1 .. MaxRec) \ {s[i].id : i \in 1 .. Len(s)}) \in Nat
<1> DEFINE ids == {s[i].id : i \in 1 .. Len(s)}
           F == (1 .. MaxRec) \ ids
           L == Len(s)
<1>0. MaxRec \in Nat /\ L \in Nat
  BY StackAssumption
<1>1. F # {}
  <2>1. SUFFICES ASSUME F = {} PROVE FALSE
    OBVIOUS
  <2> DEFINE g == [y \in 1 .. MaxRec |-> CHOOSE i \in 1 .. L : s[i].id = y]
  <2>2. \A y \in 1 .. MaxRec : \E i \in 1 .. L : s[i].id = y
    BY <2>1
  <2>3. \A y \in 1 .. MaxRec : g[y] \in 1 .. L /\ s[g[y]].id = y
    BY <2>2
  <2>4. g \in Injection(1 .. MaxRec, 1 .. L)
    <3>1. g \in [1 .. MaxRec -> 1 .. L]
      BY <2>3
    <3> HIDE DEF g
    <3>2. \A a, b \in 1 .. MaxRec : g[a] = g[b] => a = b
      BY <2>3
    <3>. QED
      BY <3>1, <3>2 DEF Injection, IsInjective
  <2> HIDE DEF g
  <2>5. /\ IsFiniteSet(1 .. MaxRec) /\ Cardinality(1 .. MaxRec) = MaxRec
        /\ IsFiniteSet(1 .. L) /\ Cardinality(1 .. L) = L
    <3>1. /\ IsFiniteSet(1 .. MaxRec) /\ Cardinality(1 .. MaxRec) = IF 1 > MaxRec THEN 0 ELSE MaxRec - 1 + 1
          /\ IsFiniteSet(1 .. L) /\ Cardinality(1 .. L) = IF 1 > L THEN 0 ELSE L - 1 + 1
      <4>1. 1 \in Int /\ MaxRec \in Int /\ L \in Int
        BY <1>0
      <4> HIDE DEF L
      <4>. QED
        BY <4>1, FS_Interval
    <3>. QED
      BY <1>0, <3>1
  <2>6. Cardinality(1 .. MaxRec) <= Cardinality(1 .. L)
    BY <2>4, <2>5, FS_Injection
  <2>. QED
    BY <1>0, <2>5, <2>6
<1>2. F \subseteq Nat
  BY <1>0
<1>3. Min(F) \in F
  <2> HIDE DEF F
  <2>. QED
    BY <1>1, <1>2, MinIs
<1>. QED
  BY <1>2, <1>3

\* The registers a record keeps.
LEMMA SavedRegsIs ==
  ASSUME NEW m, m.R \in Regs, NEW f
  PROVE  SavedRegs(m, f) =
           [PC |-> m.frm[f].lr, FP |-> m.frm[f].fp,
            SP |-> IF m.frm[f].t # nil THEN f ELSE m.ext[f].SP,
            TS |-> IF m.frm[f].t # nil THEN m.R.TS ELSE m.ext[f].TS,
            EX |-> IF m.frm[f].t # nil THEN m.R.EX ELSE m.ext[f].EX,
            M |-> m.frm[f].mr]
<1>1. PICK R0, a, b, c, sx, t :
        R0 = m.R /\ a = m.frm[f].lr /\ b = m.frm[f].fp /\ c = m.frm[f].mr /\ sx = m.ext[f] /\ t = m.frm[f].t
  OBVIOUS
<1>2. R0 \in Regs
  BY <1>1
<1>3. PICK r : r = [R0 EXCEPT !.PC = a, !.FP = b, !.M = c, !.SP = f]
  OBVIOUS
<1>4. r = [PC |-> a, FP |-> b, SP |-> f, TS |-> R0.TS, EX |-> R0.EX, M |-> c]
  BY <1>2, <1>3 DEF Regs
<1>5. r = SavedRegsAsIs(m, f)
  BY <1>1, <1>3 DEF SavedRegsAsIs
<1>6. SavedRegs(m, f) = IF t # nil THEN r ELSE [r EXCEPT !.SP = sx.SP, !.TS = sx.TS, !.EX = sx.EX]
  BY <1>1, <1>5 DEF SavedRegs
<1>7. PICK x, y, z : x = sx.SP /\ y = sx.TS /\ z = sx.EX
  OBVIOUS
<1>8. [r EXCEPT !.SP = x, !.TS = y, !.EX = z] = [PC |-> a, FP |-> b, SP |-> x, TS |-> y, EX |-> z, M |-> c]
  <2>1. PICK r1 : r1 = [r EXCEPT !.SP = x]
    OBVIOUS
  <2>2. r1 = [PC |-> a, FP |-> b, SP |-> x, TS |-> R0.TS, EX |-> R0.EX, M |-> c]
    BY <1>4, <2>1
  <2>3. PICK r2 : r2 = [r1 EXCEPT !.TS = y]
    OBVIOUS
  <2>4. r2 = [PC |-> a, FP |-> b, SP |-> x, TS |-> y, EX |-> R0.EX, M |-> c]
    BY <2>2, <2>3
  <2>5. [r2 EXCEPT !.EX = z] = [PC |-> a, FP |-> b, SP |-> x, TS |-> y, EX |-> z, M |-> c]
    BY <2>4
  <2>. QED
    BY <2>1, <2>3, <2>5
<1>9. CASE t # nil
  BY <1>1, <1>4, <1>6, <1>9
<1>10. CASE t = nil
  BY <1>1, <1>6, <1>7, <1>8, <1>10
<1>. QED
  BY <1>9, <1>10

\* s with one more record in front.
LEMMA ConsIs ==
  ASSUME NEW S, NEW s \in Seq(S), NEW e \in S
  PROVE  /\ << e >> \o s \in Seq(S) /\ Len(<< e >> \o s) = Len(s) + 1
         /\ (<< e >> \o s)[1] = e
         /\ \A i \in 2 .. Len(s) + 1 : (<< e >> \o s)[i] = s[i - 1]
<1>1. << e >> \in Seq(S) /\ Len(<< e >>) = 1 /\ << e >>[1] = e
  OBVIOUS
<1>2. /\ << e >> \o s \in Seq(S) /\ Len(<< e >> \o s) = 1 + Len(s)
      /\ \A i \in 1 .. 1 + Len(s) : (<< e >> \o s)[i] = IF i <= 1 THEN << e >>[i] ELSE s[i - 1]
  <2>1. PICK u : u = << e >>
    OBVIOUS
  <2>2. /\ u \o s \in Seq(S) /\ Len(u \o s) = Len(u) + Len(s)
        /\ \A i \in 1 .. Len(u) + Len(s) : (u \o s)[i] = IF i <= Len(u) THEN u[i] ELSE s[i - Len(u)]
    BY <1>1, <2>1, ConcatProperties
  <2>. QED
    BY <1>1, <2>1, <2>2
<1>3. PICK v : v = << e >> \o s
  OBVIOUS
<1>4. Len(s) \in Nat
  OBVIOUS
<1>5. v[1] = e
  BY <1>1, <1>2, <1>3, <1>4
<1>6. ASSUME NEW i \in 2 .. Len(s) + 1 PROVE v[i] = s[i - 1]
  <2>1. i \in 1 .. 1 + Len(s) /\ ~(i <= 1)
    BY <1>4
  <2>. QED
    BY <1>2, <1>3, <2>1
<1>7. 1 + Len(s) = Len(s) + 1
  BY <1>4
<1>. QED
  BY <1>2, <1>3, <1>5, <1>6, <1>7

\* rescue keeps the stack: its record is for the frame that called it.
LEMMA RescuedKeeps ==
  ASSUME NEW m, NEW n, NEW fs, NEW hm, NEW k, NEW p, NEW ms, NEW dp,
         Stack(m, n, fs, hm, k, p, ms, 0, dp), k > 1, p[k] = n, p[k - 1] = n - 1,
         m.frm[fs[n]].mr # nil, \A i \in 1 .. Len(m.exsp) : dp[i] # k,
         Len(m.exsp) < MaxRec, NEW pat \in Pattern
  PROVE  \E dq : Stack(Rescued(m, pat), n, fs, hm, k, p, ms, 0, dq)
<1> DEFINE cf == fs[n]
           bf == fs[n - 1]
           L == Len(m.exsp)
           d == k - 1
           same == RecordsOf(m.exsp, bf)
           back == IF m.frm[bf].mr # nil THEN m.frm[bf].mr ELSE m.frm[cf].mr
           e == [id |-> Min((1..MaxRec) \ {m.exsp[i].id : i \in 1..Len(m.exsp)}),
                 pat |-> pat, R |-> SavedRegs(m, cf),
                 lr |-> IF same = {} THEN m.frm[bf].lr ELSE m.exsp[Min(same)].lr]
           m0 == IF same = {} THEN WithLr(m, bf, [mod |-> back, at |-> "eclr"]) ELSE m
           m1 == Rescued(m, pat)
           dq == [i \in 0 + 1 .. L + 1 |-> IF i = 1 THEN d ELSE dp[i - 1]]
<1>0. /\ m \in VM /\ Parts(m) /\ Stored(m) /\ Tiled(m, n, fs, hm) /\ Whole(m, n, fs, hm)
      /\ Describes(m, m.R, n, fs, hm) /\ Chained(m, n, fs, k, p, ms)
      /\ Recorded(m, fs, hm, k, p, ms, 0, dp)
      /\ n \in Nat \ {0} /\ n \in 1 .. n /\ fs \in [1 .. n -> Nat]
      /\ k \in Nat \ {0} /\ k \in 1 .. k /\ p \in [1 .. k -> 1 .. n] /\ ms \in [1 .. k -> Mods]
      /\ \A u, v \in 1 .. k : u < v => p[u] < p[v]
      /\ m.exsp \in Seq(RecSet) /\ L \in Nat /\ 0 \in 0 .. L
      /\ dp \in [0 + 1 .. L -> 1 .. k]
      /\ \A u, v \in 0 + 1 .. L : u < v => dp[v] <= dp[u]
  BY StackParts
<1>1. d \in 1 .. k /\ d < k /\ k \in 2 .. k /\ d \in Nat \ {0} /\ d # k /\ k # 1
  BY <1>0
<1>2. n - 1 \in 1 .. n /\ n \in 2 .. n /\ p[d] = n - 1 /\ n - 1 # n
  BY <1>0, <1>1
<1>3. m.R.FP = cf /\ m.frm[cf].fp = bf /\ m.frm[cf].mr = ms[d] /\ ms[d] \in Module /\ ms[d] # nil
  BY <1>0, <1>1, <1>2, NamesApart DEF Chained
<1>4. \A i \in 1 .. n : fs[i] \in DOMAIN m.frm
  BY <1>0, Within
<1>5. cf \in DOMAIN m.frm /\ bf \in DOMAIN m.frm /\ cf # bf
  <2>1. Stored(m) /\ Tiled(m, n, fs, hm) /\ n \in 1 .. n /\ n - 1 \in 1 .. n /\ n # n - 1
    BY <1>0, <1>2
  <2>2. fs[n] = fs[n - 1] => n = n - 1
    BY <2>1, Distinct
  <2>. QED
    BY <1>4, <2>1, <2>2
<1>6. same = {i \in 1 .. L : dp[i] = d}
  <2>1. RecordsOf(m.exsp, fs[p[d]]) = {i \in 1 .. Len(m.exsp) : dp[i] = d}
    BY <1>1, RecordsOfIs
  <2>. QED
    BY <1>2, <2>1
<1>7. \A i \in 1 .. L : i \in 0 + 1 .. L /\ dp[i] \in 1 .. d
  <2>1. \A i \in 1 .. L : i \in 0 + 1 .. L
    BY <1>0
  <2>2. \A c \in 1 .. k : c # k => c \in 1 .. d
    BY <1>0, <1>1
  <2>. QED
    BY <1>0, <2>1, <2>2

\* The registers saved are those of the stack without cf.
<1>8. /\ m.frm[cf].t = nil => /\ m.ext[cf].EX = hm[n - 1] /\ m.ext[cf].SP = End(m, bf)
                              /\ m.ext[cf].TS = Top(m, hm[n - 1])
      /\ m.frm[cf].t # nil => hm[n] = hm[n - 1] /\ cf = End(m, bf)
  <2>1. IF hm[n] = fs[n]
        THEN /\ m.ext[fs[n]].EX = hm[n - 1] /\ m.ext[fs[n]].SP = End(m, fs[n - 1])
             /\ m.ext[fs[n]].TS = Top(m, hm[n - 1])
        ELSE hm[n] = hm[n - 1] /\ fs[n] = End(m, fs[n - 1])
    BY <1>0, <1>2 DEF Tiled
  <2>2. m.frm[fs[n]].t = nil <=> hm[n] = fs[n]
    BY <1>0 DEF Tiled
  <2>. QED
    BY <2>1, <2>2
<1>9. /\ m.frm[cf].lr # nil /\ m.frm[cf].lr \in PCs /\ m.frm[cf].lr.mod = ms[d] /\ m.frm[cf].lr.at \in Label
      /\ m.frm[bf].lr \in PCs \cup {nil} /\ m.frm[bf].mr \in Mods \cup {nil}
  <2>1. Returns(m.frm[fs[p[k]]].lr, k, \E i \in 0 + 1 .. Len(m.exsp) : dp[i] = k, ms)
    BY <1>0 DEF Recorded
  <2>2. ~ \E i \in 0 + 1 .. Len(m.exsp) : dp[i] = k
    <3>1. \A i \in 0 + 1 .. Len(m.exsp) : i \in 1 .. Len(m.exsp)
      BY <1>0
    <3>. QED
      BY <3>1
  <2>3. m.frm[cf] \in FrameSet /\ m.frm[bf] \in FrameSet
    BY <1>0, <1>5 DEF Parts
  <2>4. m.frm[cf].lr \in PCs \cup {nil} /\ m.frm[bf].lr \in PCs \cup {nil} /\ m.frm[bf].mr \in Mods \cup {nil}
    BY <2>3 DEF FrameSet
  <2>5. k > 1 /\ k - 1 = d
    BY <1>0, <1>1
  <2>. QED
    BY <2>1, <2>2, <2>4, <2>5 DEF Returns
<1>10. SavedRegs(m, cf) =
         [PC |-> m.frm[cf].lr, FP |-> bf, SP |-> End(m, bf), TS |-> Top(m, hm[n - 1]),
          EX |-> hm[n - 1], M |-> ms[d]]
  <2>1. SavedRegs(m, cf) =
           [PC |-> m.frm[cf].lr, FP |-> m.frm[cf].fp,
            SP |-> IF m.frm[cf].t # nil THEN cf ELSE m.ext[cf].SP,
            TS |-> IF m.frm[cf].t # nil THEN m.R.TS ELSE m.ext[cf].TS,
            EX |-> IF m.frm[cf].t # nil THEN m.R.EX ELSE m.ext[cf].EX,
            M |-> m.frm[cf].mr]
    <3>1. m.R \in Regs
      BY <1>0 DEF Parts
    <3> HIDE DEF cf
    <3>. QED
      BY <3>1, SavedRegsIs
  <2>2. m.R.TS = Top(m, hm[n]) /\ m.R.EX = hm[n]
    BY <1>0 DEF Describes
  <2> HIDE DEF cf, bf, d
  <2>3. CASE m.frm[cf].t = nil
    BY <1>3, <1>8, <2>1, <2>3
  <2>4. CASE m.frm[cf].t # nil
    BY <1>3, <1>8, <2>1, <2>2, <2>4
  <2>. QED
    BY <2>3, <2>4
<1>11. back \in Mods /\ (d > 1 => back = ms[d - 1])
  <2>1. back \in Mods
    BY <1>3, <1>9 DEF Mods
  <2>2. ASSUME d > 1 PROVE back = ms[d - 1]
    <3>1. d \in 2 .. k
      BY <1>1, <2>2
    <3>2. ms[d - 1] = IF m.frm[fs[p[d]]].mr # nil THEN m.frm[fs[p[d]]].mr ELSE ms[d]
      BY <1>0, <3>1 DEF Chained
    <3>. QED
      BY <1>2, <1>3, <3>2
  <2>. QED
    BY <2>1, <2>2
<1>12. same # {} => Min(same) \in same
  <2>1. same \subseteq Nat
    BY <1>6
  <2> HIDE DEF same
  <2>. QED
    BY <2>1, MinIs
<1> DEFINE elr == IF same = {} THEN m.frm[bf].lr ELSE m.exsp[Min(same)].lr
<1>13. /\ elr \in PCs \cup {nil} /\ (d = 1 => elr = nil)
       /\ (d > 1 => elr # nil /\ elr.mod = ms[d - 1] /\ elr.at \in Label)
  <2>1. CASE same = {}
    <3>1. Returns(m.frm[fs[p[d]]].lr, d, \E i \in 0 + 1 .. Len(m.exsp) : dp[i] = d, ms)
      BY <1>0, <1>1 DEF Recorded
    <3>2. ~ \E i \in 0 + 1 .. Len(m.exsp) : dp[i] = d
      <4>1. \A i \in 0 + 1 .. Len(m.exsp) : i \in 1 .. Len(m.exsp)
        BY <1>0
      <4>. QED
        BY <1>6, <2>1, <4>1
    <3>. QED
      BY <1>2, <1>9, <2>1, <3>1, <3>2 DEF Returns
  <2>2. CASE same # {}
    <3>1. PICK i \in 1 .. L : dp[i] = d /\ i = Min(same)
      BY <1>6, <1>12, <2>2
    <3>2. i \in 0 + 1 .. Len(m.exsp)
      BY <1>7
    <3>3. Saved(m, m.exsp[i], dp[i], fs, hm, p, ms)
      BY <1>0, <3>2 DEF Recorded
    <3>4. m.exsp[i] \in RecSet
      BY <1>0
    <3>5. m.exsp[i].lr \in PCs \cup {nil}
      BY <3>4 DEF RecSet
    <3>6. elr = m.exsp[i].lr
      BY <2>2, <3>1
    <3> HIDE DEF elr
    <3>. QED
      BY <3>1, <3>3, <3>5, <3>6 DEF Saved
  <2>. QED
    BY <2>1, <2>2
<1> HIDE DEF elr
<1>14. /\ e.R = [PC |-> m.frm[cf].lr, FP |-> bf, SP |-> End(m, bf), TS |-> Top(m, hm[n - 1]),
                 EX |-> hm[n - 1], M |-> ms[d]]
       /\ e.lr = elr /\ e.pat = pat /\ e \in RecSet
  <2>1. SavedRegs(m, cf) \in Regs
    <3>1. bf \in Nat /\ End(m, bf) \in Nat /\ Top(m, hm[n - 1]) \in Nat /\ hm[n - 1] \in Nat
      BY <1>0, <1>2, Within
    <3>2. ms[d] \in Mods
      BY <1>3 DEF Mods
    <3> HIDE DEF cf, bf, d
    <3>. QED
      BY <1>9, <1>10, <3>1, <3>2 DEF Regs
  <2>2. Min((1..MaxRec) \ {m.exsp[i].id : i \in 1..Len(m.exsp)}) \in Nat
    BY <1>0, FreeId
  <2>3. PICK id, R0 : id = Min((1..MaxRec) \ {m.exsp[i].id : i \in 1..Len(m.exsp)}) /\ R0 = SavedRegs(m, cf)
    OBVIOUS
  <2>4. e = [id |-> id, pat |-> pat, R |-> R0, lr |-> elr]
    BY <2>3 DEF elr
  <2>5. id \in Nat /\ R0 \in Regs
    BY <2>1, <2>2, <2>3
  <2> HIDE DEF e
  <2>6. e \in RecSet /\ e.R = R0 /\ e.lr = elr /\ e.pat = pat
    BY <1>13, <2>4, <2>5 DEF RecSet
  <2>. QED
    BY <1>10, <2>3, <2>6
<1>15. m1 = [m0 EXCEPT !.exsp = << e >> \o m.exsp]
  BY <1>3 DEF Rescued, WithLr
<1> HIDE DEF e, back
<1>16. /\ m0 \in VM /\ Alike(m, m0) /\ m0.R = m.R /\ m0.ext = m.ext
       /\ \A b \in DOMAIN m.frm : b # bf \/ same # {} => m0.frm[b] = m.frm[b]
       /\ m0.frm[bf].fp = m.frm[bf].fp /\ m0.frm[bf].mr = m.frm[bf].mr
       /\ same = {} => m0.frm[bf].lr # nil /\ m0.frm[bf].lr.mod = back /\ m0.frm[bf].lr.at = "eclr"
  <2>1. CASE same # {}
    <3>1. m0 = m
      BY <2>1
    <3>. QED
      BY <1>0, <2>1, <3>1 DEF Alike
  <2>2. CASE same = {}
    <3>1. PICK v : v = [mod |-> back, at |-> "eclr"]
      OBVIOUS
    <3>2. v \in PCs /\ v # nil /\ v.mod = back /\ v.at = "eclr"
      BY <1>11, <3>1, NamesApart DEF PCs, Mods
    <3>3. PICK m2 : m2 = WithLr(m, bf, v)
      OBVIOUS
    <3>4. m0 = m2
      BY <2>2, <3>1, <3>3
    <3>5. PICK g \in FrameSet :
            /\ Reframed(m, bf, g, m2)
            /\ g.lr = v /\ g.fp = m.frm[bf].fp /\ g.mr = m.frm[bf].mr /\ g.t = m.frm[bf].t
      <4>1. m \in VM /\ bf \in DOMAIN m.frm /\ v \in PCs \cup {nil}
        BY <1>0, <1>5, <3>2
      <4> HIDE DEF bf
      <4>. QED
        BY <3>3, <4>1, SetLr
    <3>6. m2 \in VM /\ Alike(m, m2)
      BY <1>0, <1>5, <3>5, ReframedIs
    <3> HIDE DEF m0, bf
    <3>. QED
      BY <2>2, <3>2, <3>4, <3>5, <3>6 DEF Reframed
  <2>. QED
    BY <2>1, <2>2
<1> HIDE DEF m0
<1>17. /\ m1 \in VM /\ m1.R = m.R /\ m1.frm = m0.frm /\ m1.ext = m.ext
       /\ m1.exsp = << e >> \o m.exsp
  <2>1. << e >> \o m.exsp \in Seq(RecSet)
    BY <1>0, <1>14, ConsIs
  <2>2. PICK s, mm : s = << e >> \o m.exsp /\ mm = m0
    OBVIOUS
  <2>3. m1 = [mm EXCEPT !.exsp = s]
    BY <1>15, <2>2
  <2> HIDE DEF m1
  <2>4. mm \in VM /\ s \in Seq(RecSet)
    BY <1>16, <2>1, <2>2
  <2>5. m1 \in VM /\ m1.R = mm.R /\ m1.frm = mm.frm /\ m1.ext = mm.ext /\ m1.exsp = s
    BY <2>3, <2>4, SetExsp
  <2>. QED
    BY <1>16, <2>2, <2>5
<1>18. /\ Len(m1.exsp) = L + 1 /\ m1.exsp[1] = e
       /\ \A i \in 2 .. L + 1 : m1.exsp[i] = m.exsp[i - 1]
  BY <1>0, <1>14, <1>17, ConsIs
<1> HIDE DEF m1
<1>19. Alike(m, m1)
  BY <1>16, <1>17 DEF Alike
<1>20. \A a \in DOMAIN m.frm : m1.frm[a].fp = m.frm[a].fp /\ m1.frm[a].mr = m.frm[a].mr
  <2> HIDE DEF bf, same
  <2>. QED
    BY <1>16, <1>17
<1>21. Stored(m1) /\ Tiled(m1, n, fs, hm) /\ Whole(m1, n, fs, hm) /\ Describes(m1, m1.R, n, fs, hm)
       /\ \A r : Describes(m, r, n - 1, fs, hm) => Describes(m1, r, n - 1, fs, hm)
  BY <1>0, <1>2, <1>17, <1>19, AlikeTiled
<1>22. /\ Chained(m1, n, fs, k, p, ms)
       /\ \A r, c : c \in 1 .. k /\ Saved(m, r, c, fs, hm, p, ms) => Saved(m1, r, c, fs, hm, p, ms)
  BY <1>0, <1>17, <1>19, <1>20, AlikeChained
<1>23. \A i \in 0 + 1 .. L + 1 : i = 1 \/ (i # 1 /\ i \in 2 .. L + 1 /\ i - 1 \in 1 .. L)
  BY <1>0
<1>24. /\ \A i \in 0 + 1 .. L + 1 : dq[i] = IF i = 1 THEN d ELSE dp[i - 1]
       /\ dq = [i \in 0 + 1 .. L + 1 |-> dq[i]]
  OBVIOUS
<1> HIDE DEF dq
<1>25. \A i \in 0 + 1 .. L + 1 : dq[i] \in 1 .. d
  <2>1. d \in 1 .. d
    BY <1>1
  <2> HIDE DEF L, d
  <2>. QED
    BY <1>7, <1>23, <1>24, <2>1
<1>26. Recorded(m1, fs, hm, k, p, ms, 0, dq)
  <2>1. 0 \in 0 .. Len(m1.exsp) /\ dq \in [0 + 1 .. L + 1 -> 1 .. k]
    <3>1. \A c \in 1 .. d : c \in 1 .. k
      BY <1>0, <1>1
    <3>2. L + 1 \in Nat
      BY <1>0
    <3> HIDE DEF L, d
    <3>. QED
      BY <1>18, <1>24, <1>25, <3>1, <3>2
  <2>2. ASSUME NEW i \in 0 + 1 .. L + 1 PROVE Saved(m1, m1.exsp[i], dq[i], fs, hm, p, ms)
    <3>1. CASE i = 1
      <4>1. m1.exsp[i] = e /\ dq[i] = d
        BY <1>18, <1>24, <3>1
      <4>2. Describes(m1, e.R, n - 1, fs, hm)
        BY <1>14, <1>21 DEF Describes
      <4>3. Saved(m1, e, d, fs, hm, p, ms)
        <5>1. /\ e.R.FP = bf /\ e.R.M = ms[d] /\ e.R.PC = m.frm[cf].lr
          BY <1>14
        <5> HIDE DEF d, cf
        <5>. QED
          BY <1>2, <1>3, <1>9, <1>13, <1>14, <4>2, <5>1 DEF Saved
      <4>. QED
        BY <4>1, <4>3
    <3>2. CASE i # 1
      <4>1. i \in 2 .. L + 1 /\ i - 1 \in 1 .. L /\ i - 1 \in 0 + 1 .. L
        BY <1>7, <1>23, <3>2
      <4>2. Saved(m, m.exsp[i - 1], dp[i - 1], fs, hm, p, ms) /\ dp[i - 1] \in 1 .. k
        BY <1>0, <4>1 DEF Recorded
      <4>3. m1.exsp[i] = m.exsp[i - 1] /\ dq[i] = dp[i - 1]
        BY <1>18, <1>24, <3>2, <4>1
      <4>. QED
        BY <1>22, <4>2, <4>3
    <3>. QED
      BY <3>1, <3>2
  <2>3. ASSUME NEW u \in 0 + 1 .. L + 1, NEW v \in 0 + 1 .. L + 1, u < v PROVE dq[v] <= dq[u]
    <3>1. v # 1 /\ v - 1 \in 1 .. L
      BY <1>0, <2>3
    <3>2. CASE u = 1
      <4>1. dq[u] = d /\ dq[v] \in 1 .. d
        BY <1>24, <1>25, <3>2
      <4>. QED
        BY <1>1, <4>1
    <3>3. CASE u # 1
      <4>1. u - 1 \in 0 + 1 .. L /\ v - 1 \in 0 + 1 .. L /\ u - 1 < v - 1
        BY <1>0, <2>3, <3>1, <3>3
      <4>2. dp[v - 1] <= dp[u - 1]
        BY <1>0, <4>1
      <4>. QED
        BY <1>24, <3>1, <3>3, <4>2
    <3>. QED
      BY <3>2, <3>3
  <2>4. ASSUME NEW c \in 1 .. k
        PROVE  Returns(m1.frm[fs[p[c]]].lr, c, \E i \in 0 + 1 .. L + 1 : dq[i] = c, ms)
    <3> DEFINE was == \E i \in 0 + 1 .. L : dp[i] = c
               now == \E i \in 0 + 1 .. L + 1 : dq[i] = c
    <3>0. Returns(m.frm[fs[p[c]]].lr, c, was, ms) /\ fs[p[c]] \in DOMAIN m.frm
      BY <1>0, <1>4 DEF Recorded
    <3>1. was => now
      <4>1. SUFFICES ASSUME NEW i \in 0 + 1 .. L, dp[i] = c PROVE now
        OBVIOUS
      <4>2. i + 1 \in 0 + 1 .. L + 1 /\ i + 1 # 1 /\ (i + 1) - 1 = i
        BY <1>0
      <4>3. dq[i + 1] = c
        BY <1>24, <4>1, <4>2
      <4>. QED
        BY <4>2, <4>3
    <3>2. c # d => (now => was)
      <4>1. SUFFICES ASSUME c # d, NEW i \in 0 + 1 .. L + 1, dq[i] = c PROVE was
        OBVIOUS
      <4>2. i # 1
        BY <1>24, <4>1
      <4>3. i - 1 \in 1 .. L /\ i - 1 \in 0 + 1 .. L /\ dp[i - 1] = c
        BY <1>7, <1>23, <1>24, <4>1, <4>2
      <4>. QED
        BY <4>3
    <3>3. c = d => now
      <4>1. 1 \in 0 + 1 .. L + 1
        BY <1>0
      <4>2. dq[1] = d
        BY <1>24, <4>1
      <4>. QED
        BY <4>1, <4>2
    <3>4. was /\ c = d => same # {}
      <4>1. SUFFICES ASSUME NEW i \in 0 + 1 .. L, dp[i] = d PROVE same # {}
        OBVIOUS
      <4>2. i \in 1 .. L
        BY <1>0
      <4>. QED
        BY <1>6, <4>1, <4>2
    <3>5. c = d => fs[p[c]] = bf
      BY <1>2
    <3>6. same # {} /\ c = d => was
      BY <1>6, <1>7
    <3>7. c # d => fs[p[c]] # bf
      <4>1. SUFFICES ASSUME c # d, fs[p[c]] = fs[p[d]] PROVE FALSE
        BY <1>2
      <4>2. Stored(m) /\ Tiled(m, n, fs, hm) /\ p[c] \in 1 .. n /\ p[d] \in 1 .. n
        BY <1>0, <1>1
      <4>3. p[c] = p[d]
        BY <4>1, <4>2, Distinct
      <4>4. c < d \/ d < c
        BY <1>0, <1>1, <4>1
      <4>. QED
        BY <1>0, <1>1, <4>2, <4>3, <4>4
    <3> HIDE DEF was, now, bf, same, d, L
    <3>8. CASE c = d /\ same = {}
      <4>1. m1.frm[fs[p[c]]].lr # nil /\ m1.frm[fs[p[c]]].lr.mod = back /\ m1.frm[fs[p[c]]].lr.at = "eclr"
        BY <1>16, <1>17, <3>5, <3>8
      <4>2. now
        BY <3>3, <3>8
      <4>3. Returns(m1.frm[fs[p[c]]].lr, c, now, ms)
        BY <1>11, <3>8, <4>1, <4>2 DEF Returns
      <4>. QED
        BY <4>3 DEF now
    <3>9. CASE ~(c = d /\ same = {})
      <4>1. m1.frm[fs[p[c]]] = m.frm[fs[p[c]]]
        BY <1>16, <1>17, <3>0, <3>7, <3>9
      <4>2. was <=> now
        BY <3>1, <3>2, <3>3, <3>6, <3>9
      <4>3. Returns(m1.frm[fs[p[c]]].lr, c, now, ms)
        BY <3>0, <4>1, <4>2
      <4>. QED
        BY <4>3 DEF now
    <3>. QED
      BY <3>8, <3>9
  <2>5. \A i \in 1 .. 0 : FALSE
    OBVIOUS
  <2> HIDE DEF L
  <2>. QED
    BY <1>18, <2>1, <2>2, <2>3, <2>4, <2>5 DEF Recorded
<1>27. Stack(m1, n, fs, hm, k, p, ms, 0, dq)
  BY <1>21, <1>22, <1>26 DEF Stack
<1>. QED
  BY <1>27 DEF m1

-----------------------------------------------------------------------------
(* A frame is built. *)

\* One more frame, at a, in the extension h.
LEMMA Grown ==
  ASSUME NEW m, NEW n, NEW fs, NEW hm, NEW k, NEW p, NEW ms, NEW q, NEW dp,
         Stack(m, n, fs, hm, k, p, ms, q, dp),
         NEW m1, Stored(m1), NEW a, a \notin DOMAIN m.frm, DOMAIN m1.frm = DOMAIN m.frm \cup {a},
         \A b \in DOMAIN m.frm : m1.frm[b] = m.frm[b],
         m1.frm[a].fp = NoFrame, m1.frm[a].mr = nil,
         NEW h, DOMAIN m1.ext = DOMAIN m.ext \cup {h}, \A x \in DOMAIN m.ext : m1.ext[x] = m.ext[x],
         h <= a, End(m1, a) <= Top(m1, h), m1.frm[a].t = nil <=> h = a,
         IF h = a THEN /\ m1.ext[a].EX = hm[n] /\ m1.ext[a].SP = End(m, fs[n])
                       /\ m1.ext[a].TS = Top(m, hm[n])
         ELSE h = hm[n] /\ a = End(m, fs[n]),
         \A i \in 1 .. n : hm[i] = h => End(m, fs[i]) <= a,
         m1.R.FP = m.R.FP, m1.R.M = m.R.M, m1.exsp = m.exsp,
         m1.R.EX = h, m1.R.SP = End(m1, a), m1.R.TS = Top(m1, h),
         \A i \in 1 .. q : m.exsp[i].R.FP # a
  PROVE  Stack(m1, n + 1, More(fs, n, a), More(hm, n, h), k, p, ms, q, dp)
<1> DEFINE f == More(fs, n, a)  hh == More(hm, n, h)
<1>0. /\ m \in VM /\ Parts(m) /\ Stored(m) /\ Tiled(m, n, fs, hm) /\ Whole(m, n, fs, hm)
      /\ Chained(m, n, fs, k, p, ms) /\ Recorded(m, fs, hm, k, p, ms, q, dp)
      /\ n \in Nat \ {0} /\ n \in 1 .. n /\ fs \in [1 .. n -> Nat]
      /\ k \in Nat \ {0} /\ k \in 1 .. k /\ p \in [1 .. k -> 1 .. n] /\ ms \in [1 .. k -> Mods]
      /\ q \in 0 .. Len(m.exsp) /\ dp \in [q + 1 .. Len(m.exsp) -> 1 .. k]
  BY StackParts
<1>1. \A i \in 1 .. n : fs[i] \in DOMAIN m.frm /\ hm[i] \in DOMAIN m.ext
  BY <1>0, Within
<1>2. /\ f[n + 1] = a /\ hh[n + 1] = h /\ \A i \in 1 .. n : f[i] = fs[i] /\ hh[i] = hm[i]
      /\ \A i \in 1 .. n + 1 : i \in 1 .. n \/ i = n + 1
  <2>1. n \in Nat
    BY <1>0
  <2>2. /\ More(fs, n, a)[n + 1] = a /\ \A i \in 1 .. n : More(fs, n, a)[i] = fs[i]
        /\ \A i \in 1 .. n + 1 : i \in 1 .. n \/ i = n + 1
    BY <2>1, MoreIs
  <2>3. /\ More(hm, n, h)[n + 1] = h /\ \A i \in 1 .. n : More(hm, n, h)[i] = hm[i]
    BY <2>1, MoreIs
  <2>. QED
    BY <2>2, <2>3
<1>3. f \in [1 .. n + 1 -> DOMAIN m1.frm] /\ hh \in [1 .. n + 1 -> DOMAIN m1.ext]
  <2>1. f = [i \in 1 .. n + 1 |-> f[i]] /\ hh = [i \in 1 .. n + 1 |-> hh[i]]
    BY DEF More
  <2> HIDE DEF f, hh
  <2>2. \A i \in 1 .. n + 1 : f[i] \in DOMAIN m1.frm /\ hh[i] \in DOMAIN m1.ext
    BY <1>1, <1>2
  <2>. QED
    BY <2>1, <2>2
<1> HIDE DEF f, hh
<1>4. \A i \in 1 .. n : End(m1, fs[i]) = End(m, fs[i]) /\ Top(m1, hm[i]) = Top(m, hm[i])
  <2>1. TAKE i \in 1 .. n
  <2>2. m1.frm[fs[i]] = m.frm[fs[i]] /\ m1.ext[hm[i]] = m.ext[hm[i]]
    BY <1>1
  <2>3. m.frm[fs[i]].t = nil => fs[i] = hm[i]
    BY <1>0 DEF Tiled
  <2>4. SizeOf(m1, fs[i]) = SizeOf(m, fs[i])
    BY <2>2, <2>3 DEF SizeOf
  <2>. QED
    BY <2>2, <2>4 DEF End, Top
<1>5. Tiled(m1, n + 1, f, hh)
  <2>1. ASSUME NEW j \in 1 .. n + 1
        PROVE  hh[j] <= f[j] /\ End(m1, f[j]) <= Top(m1, hh[j]) /\ (m1.frm[f[j]].t = nil <=> hh[j] = f[j])
    <3>1. CASE j = n + 1
      BY <1>2, <3>1
    <3>2. CASE j \in 1 .. n
      <4>1. hm[j] <= fs[j] /\ End(m, fs[j]) <= Top(m, hm[j]) /\ (m.frm[fs[j]].t = nil <=> hm[j] = fs[j])
        BY <1>0, <3>2 DEF Tiled
      <4>. QED
        BY <1>1, <1>2, <1>4, <3>2, <4>1
    <3>. QED
      BY <1>2, <3>1, <3>2
  <2>2. hh[1] = f[1] /\ m1.ext[hh[1]].EX = nil
    <3>1. 1 \in 1 .. n
      BY <1>0
    <3>2. hm[1] = fs[1] /\ m.ext[hm[1]].EX = nil
      BY <1>0 DEF Tiled
    <3>. QED
      BY <1>1, <1>2, <3>1, <3>2
  <2>3. ASSUME NEW j \in 2 .. n + 1
        PROVE  IF hh[j] = f[j]
               THEN /\ m1.ext[f[j]].EX = hh[j - 1] /\ m1.ext[f[j]].SP = End(m1, f[j - 1])
                    /\ m1.ext[f[j]].TS = Top(m1, hh[j - 1])
               ELSE hh[j] = hh[j - 1] /\ f[j] = End(m1, f[j - 1])
    <3>1. CASE j = n + 1
      <4>1. j - 1 = n
        BY <1>0, <3>1
      <4>. QED
        BY <1>0, <1>2, <1>4, <3>1, <4>1
    <3>2. CASE j # n + 1
      <4>1. j \in 2 .. n /\ j \in 1 .. n /\ j - 1 \in 1 .. n
        BY <1>0, <3>2
      <4>2. IF hm[j] = fs[j]
            THEN /\ m.ext[fs[j]].EX = hm[j - 1] /\ m.ext[fs[j]].SP = End(m, fs[j - 1])
                 /\ m.ext[fs[j]].TS = Top(m, hm[j - 1])
            ELSE hm[j] = hm[j - 1] /\ fs[j] = End(m, fs[j - 1])
        BY <1>0, <4>1 DEF Tiled
      <4>3. m1.ext[hm[j]] = m.ext[hm[j]]
        BY <1>1, <4>1
      <4>. QED
        BY <1>2, <1>4, <4>1, <4>2, <4>3
    <3>. QED
      BY <3>1, <3>2
  <2>4. ASSUME NEW i \in 1 .. n + 1, NEW j \in 1 .. n + 1, i < j, hh[i] = hh[j]
        PROVE  End(m1, f[i]) <= f[j]
    <3>1. i \in 1 .. n
      BY <1>0, <2>4
    <3>2. CASE j = n + 1
      BY <1>2, <1>4, <2>4, <3>1, <3>2
    <3>3. CASE j # n + 1
      <4>1. j \in 1 .. n
        BY <1>2, <3>3
      <4>2. End(m, fs[i]) <= fs[j]
        BY <1>0, <1>2, <2>4, <3>1, <4>1 DEF Tiled
      <4>. QED
        BY <1>2, <1>4, <3>1, <4>1, <4>2
    <3>. QED
      BY <3>2, <3>3
  <2>5. n + 1 \in Nat \ {0}
    BY <1>0
  <2>. QED
    BY <1>3, <2>1, <2>2, <2>3, <2>4, <2>5 DEF Tiled
<1>6. Whole(m1, n + 1, f, hh)
  <2>1. n + 1 \in 1 .. n + 1 /\ \A i \in 1 .. n : i \in 1 .. n + 1
    BY <1>0
  <2>2. \A b \in DOMAIN m.frm : \E j \in 1 .. n : fs[j] = b
    BY <1>0 DEF Whole
  <2>3. \A x \in DOMAIN m.ext : \E j \in 1 .. n : hm[j] = x
    BY <1>0 DEF Whole
  <2>4. ASSUME NEW b \in DOMAIN m1.frm PROVE \E j \in 1 .. n + 1 : f[j] = b
    <3>1. CASE b = a
      BY <1>2, <2>1, <3>1
    <3>2. CASE b # a
      <4>1. PICK j \in 1 .. n : fs[j] = b
        BY <2>2, <3>2
      <4>. QED
        BY <1>2, <2>1, <4>1
    <3>. QED
      BY <3>1, <3>2
  <2>5. ASSUME NEW x \in DOMAIN m1.ext PROVE \E j \in 1 .. n + 1 : hh[j] = x
    <3>1. CASE x = h
      BY <1>2, <2>1, <3>1
    <3>2. CASE x # h
      <4>1. PICK j \in 1 .. n : hm[j] = x
        BY <2>3, <3>2
      <4>. QED
        BY <1>2, <2>1, <4>1
    <3>. QED
      BY <3>1, <3>2
  <2>. QED
    BY <2>4, <2>5 DEF Whole
<1>7. Describes(m1, m1.R, n + 1, f, hh)
  BY <1>2 DEF Describes
<1>8. \A i \in 1 .. k : p[i] \in 1 .. n /\ f[p[i]] = fs[p[i]] /\ hh[p[i]] = hm[p[i]] /\ m1.frm[fs[p[i]]] = m.frm[fs[p[i]]]
  BY <1>0, <1>1, <1>2
<1>9. Chained(m1, n + 1, f, k, p, ms)
  <2>1. p \in [1 .. k -> 1 .. n + 1]
    <3>1. \A i \in 1 .. n : i \in 1 .. n + 1
      BY <1>0
    <3>. QED
      BY <1>0, <3>1
  <2>2. m1.frm[f[1]].fp = NoFrame
    <3>1. 1 \in 1 .. n
      BY <1>0
    <3>. QED
      BY <1>0, <1>1, <1>2, <3>1 DEF Chained
  <2>3. ASSUME NEW i \in 2 .. k
        PROVE  /\ m1.frm[f[p[i]]].fp = f[p[i - 1]]
               /\ ms[i - 1] = IF m1.frm[f[p[i]]].mr # nil THEN m1.frm[f[p[i]]].mr ELSE ms[i]
    <3>1. i \in 1 .. k /\ i - 1 \in 1 .. k
      BY <1>0
    <3>2. /\ m.frm[fs[p[i]]].fp = fs[p[i - 1]]
          /\ ms[i - 1] = IF m.frm[fs[p[i]]].mr # nil THEN m.frm[fs[p[i]]].mr ELSE ms[i]
      BY <1>0 DEF Chained
    <3>. QED
      BY <1>8, <3>1, <3>2
  <2>4. ASSUME NEW j \in 1 .. n + 1, \A i \in 1 .. k : p[i] # j
        PROVE  m1.frm[f[j]].fp = NoFrame /\ m1.frm[f[j]].mr = nil
    <3>1. CASE j = n + 1
      BY <1>2, <3>1
    <3>2. CASE j \in 1 .. n
      <4>1. m.frm[fs[j]].fp = NoFrame /\ m.frm[fs[j]].mr = nil
        BY <1>0, <2>4, <3>2 DEF Chained
      <4>. QED
        BY <1>1, <1>2, <3>2, <4>1
    <3>. QED
      BY <1>2, <3>1, <3>2
  <2>5. /\ p[1] = 1 /\ \A i, j \in 1 .. k : i < j => p[i] < p[j]
        /\ m.R.FP = fs[p[k]] /\ m.R.M = ms[k]
        /\ \A i \in 1 .. k : i < k => ms[i] \in Module
    BY <1>0 DEF Chained
  <2>6. m1.R.FP = f[p[k]]
    BY <1>0, <1>8, <2>5
  <2>. QED
    BY <1>0, <2>1, <2>2, <2>3, <2>4, <2>5, <2>6 DEF Chained
<1>10. Recorded(m1, f, hh, k, p, ms, q, dp)
  <2>1. ASSUME NEW i \in q + 1 .. Len(m.exsp) PROVE Saved(m1, m.exsp[i], dp[i], f, hh, p, ms)
    <3>1. PICK e, d : e = m.exsp[i] /\ d = dp[i]
      OBVIOUS
    <3>2. d \in 1 .. k /\ Saved(m, e, d, fs, hm, p, ms)
      BY <1>0, <3>1 DEF Recorded
    <3>3. Describes(m1, e.R, p[d], f, hh)
      <4>1. p[d] \in 1 .. n
        BY <1>8, <3>2
      <4>. QED
        BY <1>2, <1>4, <3>2, <4>1 DEF Saved, Describes
    <3>4. Saved(m1, e, d, f, hh, p, ms)
      BY <1>8, <3>2, <3>3 DEF Saved
    <3>. QED
      BY <3>1, <3>4
  <2>2. \A i \in 1 .. q : m.exsp[i].R.FP \notin DOMAIN m1.frm
    BY <1>0 DEF Recorded
  <2>3. ASSUME NEW d \in 1 .. k
        PROVE  Returns(m1.frm[f[p[d]]].lr, d, \E i \in q + 1 .. Len(m.exsp) : dp[i] = d, ms)
    <3>1. Returns(m.frm[fs[p[d]]].lr, d, \E i \in q + 1 .. Len(m.exsp) : dp[i] = d, ms)
      BY <1>0 DEF Recorded
    <3>. QED
      BY <1>8, <3>1
  <2>4. /\ \A i, j \in q + 1 .. Len(m.exsp) : i < j => dp[j] <= dp[i]
        /\ \A i \in 1 .. q : m.exsp[i].lr # nil /\ m.exsp[i].lr.mod = m.R.M /\ m.exsp[i].lr.at \in Label
    BY <1>0 DEF Recorded
  <2>5. q \in 0 .. Len(m.exsp) /\ dp \in [q + 1 .. Len(m.exsp) -> 1 .. k]
    BY <1>0
  <2>6. m1.exsp = m.exsp /\ m1.R.M = m.R.M
    OBVIOUS
  <2>7. \A i \in 1 .. q : /\ m1.exsp[i].R.FP \notin DOMAIN m1.frm
                          /\ m1.exsp[i].lr # nil /\ m1.exsp[i].lr.mod = m1.R.M /\ m1.exsp[i].lr.at \in Label
    BY <2>2, <2>4, <2>6
  <2>8. \A i \in q + 1 .. Len(m1.exsp) : Saved(m1, m1.exsp[i], dp[i], f, hh, p, ms)
    BY <2>1, <2>6
  <2>9. \A d \in 1 .. k :
          Returns(m1.frm[f[p[d]]].lr, d, \E i \in q + 1 .. Len(m1.exsp) : dp[i] = d, ms)
    BY <2>3, <2>6
  <2>10. /\ \A i, j \in q + 1 .. Len(m1.exsp) : i < j => dp[j] <= dp[i]
         /\ q \in 0 .. Len(m1.exsp) /\ dp \in [q + 1 .. Len(m1.exsp) -> 1 .. k]
    BY <2>4, <2>5, <2>6
  <2>. QED
    BY <2>7, <2>8, <2>9, <2>10 DEF Recorded
<1>. QED
  BY <1>5, <1>6, <1>7, <1>9, <1>10 DEF Stack, f, hh

\* The parts of what NewFrame and Extend do.
LEMMA NewFrameIs ==
  ASSUME NEW m, m = [R |-> m.R, frm |-> m.frm, ext |-> m.ext, exsp |-> m.exsp, exhdlr |-> m.exhdlr],
         NEW a, NEW t, NEW m1, m1 = NewFrame(m, a, t)
  PROVE  /\ m1 = [R |-> m1.R, frm |-> m1.frm, ext |-> m1.ext, exsp |-> m1.exsp, exhdlr |-> m1.exhdlr]
         /\ m1.R = m.R /\ m1.ext = m.ext /\ m1.exsp = m.exsp /\ m1.exhdlr = m.exhdlr
         /\ DOMAIN m1.frm = DOMAIN m.frm \cup {a} /\ m1.frm = [b \in DOMAIN m1.frm |-> m1.frm[b]]
         /\ m1.frm[a] = [lr |-> nil, fp |-> NoFrame, mr |-> nil, t |-> t]
         /\ \A b \in DOMAIN m.frm : b # a => m1.frm[b] = m.frm[b]
<1> DEFINE g == [lr |-> nil, fp |-> NoFrame, mr |-> nil, t |-> t]
           f == [b \in DOMAIN m.frm \cup {a} |-> IF b = a THEN g ELSE m.frm[b]]
<1>1. m1 = [m EXCEPT !.frm = f]
  BY DEF NewFrame
<1> HIDE DEF g
<1>2. /\ DOMAIN f = DOMAIN m.frm \cup {a} /\ f = [b \in DOMAIN f |-> f[b]] /\ f[a] = g
      /\ \A b \in DOMAIN m.frm : b # a => f[b] = m.frm[b]
  OBVIOUS
<1> HIDE DEF f
<1>3. /\ m1.R = m.R /\ m1.ext = m.ext /\ m1.exsp = m.exsp /\ m1.exhdlr = m.exhdlr /\ m1.frm = f
      /\ m1 = [R |-> m1.R, frm |-> m1.frm, ext |-> m1.ext, exsp |-> m1.exsp, exhdlr |-> m1.exhdlr]
  BY <1>1
<1>4. /\ DOMAIN m1.frm = DOMAIN m.frm \cup {a} /\ m1.frm = [b \in DOMAIN m1.frm |-> m1.frm[b]]
      /\ m1.frm[a] = g /\ \A b \in DOMAIN m.frm : b # a => m1.frm[b] = m.frm[b]
  BY <1>2, <1>3
<1>. QED
  BY <1>3, <1>4 DEF g

\* What extend changes.
LEMMA ExtendIs ==
  ASSUME NEW m, m \in VM, NEW t, NEW x, NEW l,
         l = IF SS[m.R.M] < t + 1 THEN 2 * t + 1 ELSE SS[m.R.M],
         NEW m1, m1 = Extend(m, t, x)
  PROVE  /\ m1 = [R |-> m1.R, frm |-> m1.frm, ext |-> m1.ext, exsp |-> m1.exsp, exhdlr |-> m1.exhdlr]
         /\ m1.R = [PC |-> m.R.PC, FP |-> m.R.FP, SP |-> x + t, TS |-> x - 1 + l, EX |-> x, M |-> m.R.M]
         /\ m1.frm = m.frm /\ m1.exsp = m.exsp /\ m1.exhdlr = m.exhdlr
         /\ DOMAIN m1.ext = DOMAIN m.ext \cup {x} /\ m1.ext = [y \in DOMAIN m1.ext |-> m1.ext[y]]
         /\ m1.ext[x] = [TR |-> t, SP |-> m.R.SP, TS |-> m.R.TS, EX |-> m.R.EX, l |-> l]
         /\ \A y \in DOMAIN m.ext : y # x => m1.ext[y] = m.ext[y]
<1> DEFINE g == [TR |-> t, SP |-> m.R.SP, TS |-> m.R.TS, EX |-> m.R.EX, l |-> l]
           f == [y \in DOMAIN m.ext \cup {x} |-> IF y = x THEN g ELSE m.ext[y]]
<1>0. /\ m = [R |-> m.R, frm |-> m.frm, ext |-> m.ext, exsp |-> m.exsp, exhdlr |-> m.exhdlr]
      /\ m.R \in Regs
  BY DEF VM
<1>1. PICK R0, ts, sp : R0 = m.R /\ ts = x - 1 + l /\ sp = x + t
  OBVIOUS
<1>2. m1 = [m EXCEPT !.ext = f, !.R.EX = x, !.R.TS = ts, !.R.SP = sp]
  <2>1. m1 = [m EXCEPT !.ext = f, !.R.EX = x, !.R.TS = x - 1 + l, !.R.SP = x + t]
    BY DEF Extend
  <2> HIDE DEF f
  <2>. QED
    BY <1>1, <2>1
<1>3. PICK r : r = [R0 EXCEPT !.EX = x, !.TS = ts, !.SP = sp]
  OBVIOUS
<1>4. r = [PC |-> R0.PC, FP |-> R0.FP, SP |-> sp, TS |-> ts, EX |-> x, M |-> R0.M]
  <2>1. R0 \in Regs
    BY <1>0, <1>1
  <2>2. PICK r1 : r1 = [R0 EXCEPT !.EX = x]
    OBVIOUS
  <2>3. r1 = [PC |-> R0.PC, FP |-> R0.FP, SP |-> R0.SP, TS |-> R0.TS, EX |-> x, M |-> R0.M]
    BY <2>1, <2>2 DEF Regs
  <2>4. PICK r2 : r2 = [r1 EXCEPT !.TS = ts]
    OBVIOUS
  <2>5. r2 = [PC |-> R0.PC, FP |-> R0.FP, SP |-> R0.SP, TS |-> ts, EX |-> x, M |-> R0.M]
    BY <2>3, <2>4
  <2>6. [r2 EXCEPT !.SP = sp] = [PC |-> R0.PC, FP |-> R0.FP, SP |-> sp, TS |-> ts, EX |-> x, M |-> R0.M]
    BY <2>5
  <2>. QED
    BY <1>3, <2>2, <2>4, <2>6
<1> HIDE DEF g
<1>5. /\ DOMAIN f = DOMAIN m.ext \cup {x} /\ f = [b \in DOMAIN f |-> f[b]] /\ f[x] = g
      /\ \A b \in DOMAIN m.ext : b # x => f[b] = m.ext[b]
  OBVIOUS
<1> HIDE DEF f
<1>6. m1 = [m EXCEPT !.ext = f, !.R = r]
  <2>1. PICK m2 : m2 = [m EXCEPT !.ext = f]
    OBVIOUS
  <2>2. m2 = [R |-> R0, frm |-> m.frm, ext |-> f, exsp |-> m.exsp, exhdlr |-> m.exhdlr]
    BY <1>0, <1>1, <2>1
  <2>3. m1 = [m2 EXCEPT !.R = [m2.R EXCEPT !.EX = x, !.TS = ts, !.SP = sp]]
    BY <1>2, <2>1
  <2>4. m2.R = R0
    BY <2>2
  <2>5. m1 = [m2 EXCEPT !.R = r]
    BY <1>3, <2>3, <2>4
  <2>. QED
    BY <2>1, <2>5
<1>7. /\ m1.R = r /\ m1.ext = f /\ m1.exsp = m.exsp /\ m1.exhdlr = m.exhdlr /\ m1.frm = m.frm
      /\ m1 = [R |-> m1.R, frm |-> m1.frm, ext |-> m1.ext, exsp |-> m1.exsp, exhdlr |-> m1.exhdlr]
  BY <1>0, <1>6
<1>8. /\ DOMAIN m1.ext = DOMAIN m.ext \cup {x} /\ m1.ext = [y \in DOMAIN m1.ext |-> m1.ext[y]]
      /\ m1.ext[x] = g /\ \A y \in DOMAIN m.ext : y # x => m1.ext[y] = m.ext[y]
  BY <1>5, <1>7
<1>. QED
  BY <1>1, <1>4, <1>7, <1>8 DEF g

\* A frame is built in the extension or in a new one.
LEMMA PlacedKeeps ==
  ASSUME NEW m, NEW n, NEW fs, NEW hm, NEW k, NEW p, NEW ms, NEW dp,
         Stack(m, n, fs, hm, k, p, ms, 0, dp), AtRest(m, 0), NEW t \in Types, DOMAIN m.ext # Ext
  PROVE  Good(Placed(m, t))
<1> DEFINE sp == m.R.SP
           nsp == sp + t
           x == Min(Ext \ DOMAIN m.ext)
<1>0. /\ m \in VM /\ Parts(m) /\ Stored(m) /\ Tiled(m, n, fs, hm)
      /\ Describes(m, m.R, n, fs, hm) /\ Chained(m, n, fs, k, p, ms)
      /\ n \in Nat \ {0} /\ n \in 1 .. n
  BY StackParts
<1>1. /\ m.R \in Regs /\ m.R.PC \in PCs /\ m.R.M = ms[k] /\ m.R.M \in Module
      /\ m = [R |-> m.R, frm |-> m.frm, ext |-> m.ext, exsp |-> m.exsp, exhdlr |-> m.exhdlr]
  BY <1>0, RestIs DEF VM
<1>2. /\ sp = End(m, fs[n]) /\ m.R.EX = hm[n] /\ m.R.TS = Top(m, hm[n])
      /\ sp \in Nat /\ m.R.TS \in Nat /\ hm[n] \in Nat /\ hm[n] \in DOMAIN m.ext /\ hm[n] \in Ext
      /\ fs[n] < sp /\ fs[n] \in Nat /\ hm[n] <= fs[n] /\ t \in Nat \ {0} /\ t # nil
  <2>1. sp = End(m, fs[n]) /\ m.R.EX = hm[n] /\ m.R.TS = Top(m, hm[n])
    BY <1>0 DEF Describes
  <2>2. t \in Nat \ {0} /\ t # nil
    BY StackAssumption, NamesApart
  <2>. QED
    BY <1>0, <2>1, <2>2, Within
<1>3. \A i \in 1 .. n : /\ hm[i] \in DOMAIN m.ext /\ hm[i] \in Ext /\ hm[i] \in Nat /\ fs[i] \in Nat /\ hm[i] <= fs[i]
                        /\ fs[i] < End(m, fs[i]) /\ End(m, fs[i]) <= Top(m, hm[i])
                        /\ End(m, fs[i]) \in Nat /\ Top(m, hm[i]) \in Nat
                        /\ \A y \in Ext : hm[i] < y => Top(m, hm[i]) < y
  <2>1. TAKE i \in 1 .. n
  <2>2. hm[i] \in DOMAIN m.ext
    BY <1>0, Within
  <2>3. \A y \in Ext : hm[i] < y => Top(m, hm[i]) < y
    BY <1>0, <2>2, TopIs
  <2>. QED
    BY <1>0, <2>2, <2>3, Within
<1>4. \A i \in 1 .. n : hm[i] = hm[n] => End(m, fs[i]) <= sp
  <2>1. SUFFICES ASSUME NEW i \in 1 .. n, hm[i] = hm[n] PROVE End(m, fs[i]) <= sp
    OBVIOUS
  <2>2. CASE i = n
    BY <1>2, <2>2
  <2>3. CASE i # n
    <3>1. i < n
      BY <1>0, <2>3
    <3>2. End(m, fs[i]) <= fs[n]
      BY <1>0, <2>1, <3>1 DEF Tiled
    <3>. QED
      BY <1>2, <1>3, <3>2
  <2>. QED
    BY <2>2, <2>3
<1>5. \A b \in DOMAIN m.frm : \E i \in 1 .. n : fs[i] = b
  <2>1. Whole(m, n, fs, hm)
    BY StackParts
  <2>. QED
    BY <2>1 DEF Whole
<1>6. CASE ~(nsp >= m.R.TS)
  <2> DEFINE r == [PC |-> m.R.PC, FP |-> m.R.FP, SP |-> nsp, TS |-> m.R.TS, EX |-> m.R.EX, M |-> m.R.M]
  <2>1. PICK m2 : m2 = [m EXCEPT !.R.SP = nsp]
    OBVIOUS
  <2>2. /\ m2 = [R |-> m2.R, frm |-> m2.frm, ext |-> m2.ext, exsp |-> m2.exsp, exhdlr |-> m2.exhdlr]
        /\ m2.R = r /\ m2.frm = m.frm /\ m2.ext = m.ext /\ m2.exsp = m.exsp
        /\ m2.exhdlr = m.exhdlr
    <3>1. PICK R0, v : R0 = m.R /\ v = nsp
      OBVIOUS
    <3>2. [R0 EXCEPT !.SP = v] = [PC |-> R0.PC, FP |-> R0.FP, SP |-> v, TS |-> R0.TS, EX |-> R0.EX, M |-> R0.M]
      <4>1. R0 \in Regs
        BY <1>1, <3>1
      <4>. QED
        BY <4>1 DEF Regs
    <3>3. [m.R EXCEPT !.SP = nsp] = r
      BY <3>1, <3>2
    <3>4. m2 = [m EXCEPT !.R = [m.R EXCEPT !.SP = nsp]]
      BY <2>1
    <3> HIDE DEF r, nsp
    <3>. QED
      BY <1>1, <3>3, <3>4
  <2>3. PICK m1 : m1 = NewFrame(m2, sp, t)
    OBVIOUS
  <2>4. m1 = Placed(m, t)
    BY <1>6, <2>1, <2>3 DEF Placed
  <2>5. /\ m1 = [R |-> m1.R, frm |-> m1.frm, ext |-> m1.ext, exsp |-> m1.exsp, exhdlr |-> m1.exhdlr]
        /\ m1.R = r /\ m1.ext = m.ext /\ m1.exsp = m.exsp /\ m1.exhdlr = m.exhdlr
        /\ DOMAIN m1.frm = DOMAIN m.frm \cup {sp} /\ m1.frm = [b \in DOMAIN m1.frm |-> m1.frm[b]]
        /\ m1.frm[sp] = [lr |-> nil, fp |-> NoFrame, mr |-> nil, t |-> t]
        /\ \A b \in DOMAIN m.frm : b # sp => m1.frm[b] = m.frm[b]
    <3> HIDE DEF r, sp
    <3>. QED
      BY <2>2, <2>3, NewFrameIs
  <2>6. sp \notin DOMAIN m.frm
    <3>1. SUFFICES ASSUME NEW i \in 1 .. n, fs[i] = sp PROVE FALSE
      BY <1>5
    <3>2. hm[i] # hm[n]
      BY <1>3, <1>4, <3>1
    <3>3. CASE hm[i] < hm[n]
      BY <1>2, <1>3, <3>1, <3>3
    <3>4. CASE hm[n] < hm[i]
      <4>1. Top(m, hm[n]) < hm[i] /\ sp <= Top(m, hm[n])
        BY <1>0, <1>2, <1>3, <3>4
      <4>. QED
        BY <1>2, <1>3, <3>1, <4>1
    <3>. QED
      BY <1>2, <1>3, <3>2, <3>3, <3>4
  <2>7. nsp \in Nat /\ r \in Regs /\ r.FP = m.R.FP /\ r.M = m.R.M /\ r.EX = hm[n] /\ r.SP = nsp
        /\ r.TS = m.R.TS /\ r.PC = m.R.PC
    <3>1. nsp \in Nat
      BY <1>2
    <3>2. m.R.FP \in Nat /\ m.R.TS \in Nat /\ m.R.EX \in Nat /\ m.R.M \in Mods
      BY <1>1 DEF Regs
    <3> HIDE DEF nsp
    <3>. QED
      BY <1>1, <1>2, <3>1, <3>2 DEF Regs
  <2>8. m1.frm[sp].fp = NoFrame /\ m1.frm[sp].mr = nil /\ m1.frm[sp].t = t /\ m1.frm[sp].lr = nil
        /\ m1.frm[sp] \in FrameSet
    BY <2>5 DEF FrameSet, NoFrame
  <2> HIDE DEF r
  <2>9. /\ \A b \in DOMAIN m1.frm : m1.frm[b] \in FrameSet /\ b \in Nat \ {0}
        /\ \A b \in DOMAIN m.frm : m1.frm[b] = m.frm[b]
    <3>1. sp \in Nat \ {0}
      BY <1>2
    <3>2. \A b \in DOMAIN m.frm : m.frm[b] \in FrameSet /\ b \in Nat \ {0}
      BY <1>0 DEF Parts
    <3> HIDE DEF sp
    <3>. QED
      BY <2>5, <2>6, <2>8, <3>1, <3>2
  <2>10. m1 \in VM
    <3>1. Parts(m1)
      <4>1. DOMAIN m1.frm \subseteq Nat \ {0} /\ \A b \in DOMAIN m1.frm : m1.frm[b] \in FrameSet
        BY <2>9
      <4>2. m1.R \in Regs /\ m1.exhdlr \in Nat /\ m1.exsp \in Seq(RecSet)
        BY <1>0, <2>5, <2>7 DEF Parts
      <4>3. /\ m1.ext = [a \in DOMAIN m1.ext |-> m1.ext[a]] /\ DOMAIN m1.ext \subseteq Nat \ {0}
            /\ \A y \in DOMAIN m1.ext : m1.ext[y] \in ExtSet
        BY <1>0, <2>5 DEF Parts
      <4>. QED
        BY <2>5, <4>1, <4>2, <4>3 DEF Parts
    <3>. QED
      BY <2>5, <3>1, OfParts
  <2>11. Stored(m1)
    <3>1. \A y \in DOMAIN m.ext : Top(m1, y) = Top(m, y)
      BY <2>5 DEF Top
    <3>2. \A y \in DOMAIN m1.ext : y \in Ext /\ \A z \in Ext : y < z => Top(m1, y) < z
      BY <1>0, <2>5, <3>1 DEF Stored
    <3>3. \A a \in DOMAIN m1.frm : m1.frm[a].t = nil => a \in DOMAIN m1.ext
      <4> HIDE DEF sp
      <4>. QED
        BY <1>0, <1>2, <2>5, <2>8, <2>9 DEF Stored
    <3>. QED
      BY <2>10, <3>2, <3>3 DEF Stored
  <2>12. /\ End(m1, sp) = nsp /\ Top(m1, hm[n]) = m.R.TS
    BY <1>2, <2>5, <2>8 DEF End, SizeOf, Top
  <2>13. hm[n] <= sp /\ hm[n] # sp /\ nsp <= m.R.TS
    BY <1>2, <1>6
  <2>14. DOMAIN m1.ext = DOMAIN m.ext \cup {hm[n]}
    BY <1>2, <2>5
  <2>15. Stack(m1, n + 1, More(fs, n, sp), More(hm, n, hm[n]), k, p, ms, 0, dp)
    <3>1. PICK a, h : a = sp /\ h = hm[n]
      OBVIOUS
    <3>2. /\ a \notin DOMAIN m.frm /\ DOMAIN m1.frm = DOMAIN m.frm \cup {a}
          /\ \A b \in DOMAIN m.frm : m1.frm[b] = m.frm[b]
          /\ m1.frm[a].fp = NoFrame /\ m1.frm[a].mr = nil
      BY <2>5, <2>6, <2>8, <2>9, <3>1
    <3>3. DOMAIN m1.ext = DOMAIN m.ext \cup {h} /\ \A y \in DOMAIN m.ext : m1.ext[y] = m.ext[y]
      BY <2>5, <2>14, <3>1
    <3>4. h <= a /\ End(m1, a) <= Top(m1, h) /\ (m1.frm[a].t = nil <=> h = a) /\ h # a
      BY <1>2, <2>8, <2>12, <2>13, <3>1
    <3>5. h = hm[n] /\ a = End(m, fs[n]) /\ \A i \in 1 .. n : hm[i] = h => End(m, fs[i]) <= a
      BY <1>2, <1>4, <3>1
    <3>6. /\ m1.R.FP = m.R.FP /\ m1.R.M = m.R.M /\ m1.exsp = m.exsp
          /\ m1.R.EX = h /\ m1.R.SP = End(m1, a) /\ m1.R.TS = Top(m1, h)
      BY <2>5, <2>7, <2>12, <3>1
    <3>7. \A i \in 1 .. 0 : m.exsp[i].R.FP # a
      OBVIOUS
    <3>8. IF h = a THEN /\ m1.ext[a].EX = hm[n] /\ m1.ext[a].SP = End(m, fs[n])
                        /\ m1.ext[a].TS = Top(m, hm[n])
          ELSE h = hm[n] /\ a = End(m, fs[n])
      BY <3>4, <3>5
    <3>9. Stack(m1, n + 1, More(fs, n, a), More(hm, n, h), k, p, ms, 0, dp)
      BY <2>11, <3>2, <3>3, <3>4, <3>5, <3>6, <3>7, <3>8, Grown
    <3>. QED
      BY <3>1, <3>9
  <2>16. AtRest(m1, 0)
    BY <2>5, <2>7 DEF AtRest
  <2>. QED
    BY <2>4, <2>15, <2>16 DEF Good
<1>7. CASE nsp >= m.R.TS
  <2>1. PICK l : l = IF SS[m.R.M] < t + 1 THEN 2 * t + 1 ELSE SS[m.R.M]
    OBVIOUS
  <2>2. l \in Nat /\ t + 1 <= l
    <3>1. SS[m.R.M] \in Nat
      BY <1>1, StackAssumption
    <3>. QED
      BY <1>2, <2>1, <3>1
  <2>3. x \in Ext /\ x \notin DOMAIN m.ext /\ x \in Nat \ {0}
    <3>1. Ext \ DOMAIN m.ext # {} /\ Ext \ DOMAIN m.ext \subseteq Nat
      <4>1. DOMAIN m.ext \subseteq Ext
        BY <1>0 DEF Stored
      <4>. QED
        BY <4>1, StackAssumption
    <3>2. x \in Ext \ DOMAIN m.ext
      BY <3>1, MinIs
    <3>. QED
      BY <3>2, StackAssumption
  <2>4. \A y \in Ext : x < y => x - 1 + l < y
    <3>1. SUFFICES ASSUME NEW y \in Ext, x < y PROVE x - 1 + l < y
      OBVIOUS
    <3>2. y \in Nat /\ x + 2 * t + 1 <= y /\ x + SS[m.R.M] <= y
      BY <1>1, <2>3, <3>1, ExtApart, StackAssumption
    <3>3. SS[m.R.M] \in Nat
      BY <1>1, StackAssumption
    <3>4. CASE SS[m.R.M] < t + 1
      BY <1>2, <2>1, <2>3, <3>2, <3>3, <3>4
    <3>5. CASE ~(SS[m.R.M] < t + 1)
      BY <1>2, <2>1, <2>3, <3>2, <3>3, <3>5
    <3>. QED
      BY <3>4, <3>5
  <2> HIDE DEF x
  <2> DEFINE r == [PC |-> m.R.PC, FP |-> m.R.FP, SP |-> x + t, TS |-> x - 1 + l, EX |-> x, M |-> m.R.M]
             g == [TR |-> t, SP |-> m.R.SP, TS |-> m.R.TS, EX |-> m.R.EX, l |-> l]
  <2>5. PICK m2 : m2 = Extend(m, t, x)
    OBVIOUS
  <2>6. PICK m1 : m1 = NewFrame(m2, x, nil)
    OBVIOUS
  <2>7. m1 = Placed(m, t)
    BY <1>7, <2>5, <2>6 DEF Placed, x
  <2>8. /\ m2 = [R |-> m2.R, frm |-> m2.frm, ext |-> m2.ext, exsp |-> m2.exsp, exhdlr |-> m2.exhdlr]
        /\ m2.R = r /\ m2.frm = m.frm /\ m2.exsp = m.exsp /\ m2.exhdlr = m.exhdlr
        /\ DOMAIN m2.ext = DOMAIN m.ext \cup {x} /\ m2.ext = [y \in DOMAIN m2.ext |-> m2.ext[y]]
        /\ m2.ext[x] = g /\ \A y \in DOMAIN m.ext : y # x => m2.ext[y] = m.ext[y]
    BY <1>0, <2>1, <2>5, ExtendIs
  <2>9. /\ m1 = [R |-> m1.R, frm |-> m1.frm, ext |-> m1.ext, exsp |-> m1.exsp, exhdlr |-> m1.exhdlr]
        /\ m1.R = m2.R /\ m1.ext = m2.ext /\ m1.exsp = m2.exsp /\ m1.exhdlr = m2.exhdlr
        /\ DOMAIN m1.frm = DOMAIN m2.frm \cup {x} /\ m1.frm = [b \in DOMAIN m1.frm |-> m1.frm[b]]
        /\ m1.frm[x] = [lr |-> nil, fp |-> NoFrame, mr |-> nil, t |-> nil]
        /\ \A b \in DOMAIN m2.frm : b # x => m1.frm[b] = m2.frm[b]
    <3>1. m2 = [R |-> m2.R, frm |-> m2.frm, ext |-> m2.ext, exsp |-> m2.exsp, exhdlr |-> m2.exhdlr]
      BY <2>8
    <3>. QED
      BY <2>6, <3>1, NewFrameIs
  <2>10. x \notin DOMAIN m.frm
    <3>1. SUFFICES ASSUME NEW i \in 1 .. n, fs[i] = x PROVE FALSE
      BY <1>5
    <3>2. hm[i] # x
      BY <1>3, <2>3
    <3>3. hm[i] < x
      BY <1>3, <2>3, <3>1, <3>2
    <3>4. Top(m, hm[i]) < x
      BY <1>3, <2>3, <3>3
    <3>. QED
      BY <1>3, <2>3, <3>1, <3>4
  <2>11. r \in Regs /\ r.FP = m.R.FP /\ r.M = m.R.M /\ r.EX = x /\ r.SP = x + t /\ r.TS = x - 1 + l
         /\ r.PC = m.R.PC
    <3>1. x + t \in Nat /\ x - 1 + l \in Nat /\ x \in Nat
      BY <1>2, <2>2, <2>3
    <3>2. m.R.FP \in Nat /\ m.R.M \in Mods
      BY <1>1 DEF Regs
    <3>. QED
      BY <1>1, <3>1, <3>2 DEF Regs
  <2>12. g \in ExtSet /\ g.TR = t /\ g.SP = sp /\ g.TS = m.R.TS /\ g.EX = hm[n] /\ g.l = l
    BY <1>2, <2>2 DEF ExtSet
  <2>13. m1.frm[x].fp = NoFrame /\ m1.frm[x].mr = nil /\ m1.frm[x].t = nil /\ m1.frm[x] \in FrameSet
    BY <2>9 DEF FrameSet, NoFrame
  <2> HIDE DEF r, g
  <2>14. /\ DOMAIN m1.frm = DOMAIN m.frm \cup {x} /\ DOMAIN m1.ext = DOMAIN m.ext \cup {x}
         /\ \A b \in DOMAIN m.frm : m1.frm[b] = m.frm[b]
         /\ \A y \in DOMAIN m.ext : m1.ext[y] = m.ext[y]
         /\ m1.ext[x] = g /\ m1.R = r /\ m1.exsp = m.exsp /\ m1.exhdlr = m.exhdlr
    BY <2>3, <2>8, <2>9, <2>10
  <2>15. m1 \in VM
    <3>1. /\ DOMAIN m1.frm \subseteq Nat \ {0} /\ \A b \in DOMAIN m1.frm : m1.frm[b] \in FrameSet
          /\ DOMAIN m1.ext \subseteq Nat \ {0} /\ \A y \in DOMAIN m1.ext : m1.ext[y] \in ExtSet
      <4>1. /\ DOMAIN m.frm \subseteq Nat \ {0} /\ \A b \in DOMAIN m.frm : m.frm[b] \in FrameSet
            /\ DOMAIN m.ext \subseteq Nat \ {0} /\ \A y \in DOMAIN m.ext : m.ext[y] \in ExtSet
        BY <1>0 DEF Parts
      <4>. QED
        BY <2>3, <2>12, <2>13, <2>14, <4>1
    <3>2. m1.R \in Regs /\ m1.exhdlr \in Nat /\ m1.exsp \in Seq(RecSet)
      BY <1>0, <2>11, <2>14 DEF Parts
    <3>3. m1.ext = [y \in DOMAIN m1.ext |-> m1.ext[y]] /\ m1.frm = [b \in DOMAIN m1.frm |-> m1.frm[b]]
      BY <2>8, <2>9
    <3>4. Parts(m1)
      BY <3>1, <3>2, <3>3 DEF Parts
    <3>. QED
      BY <2>9, <3>4, OfParts
  <2>16. \A y \in DOMAIN m.ext : Top(m1, y) = Top(m, y)
    BY <2>14 DEF Top
  <2>17. Top(m1, x) = x - 1 + l /\ End(m1, x) = x + t
    BY <2>12, <2>13, <2>14 DEF Top, End, SizeOf
  <2>18. Stored(m1)
    <3>1. \A y \in DOMAIN m1.ext : y \in Ext /\ \A z \in Ext : y < z => Top(m1, y) < z
      <4>1. \A y \in DOMAIN m.ext : y \in Ext /\ \A z \in Ext : y < z => Top(m1, y) < z
        BY <1>0, <2>16 DEF Stored
      <4>2. \A z \in Ext : x < z => Top(m1, x) < z
        BY <2>4, <2>17
      <4>. QED
        BY <2>3, <2>14, <4>1, <4>2
    <3>2. \A a \in DOMAIN m1.frm : m1.frm[a].t = nil => a \in DOMAIN m1.ext
      BY <1>0, <2>14 DEF Stored
    <3>. QED
      BY <2>15, <3>1, <3>2 DEF Stored
  <2>19. Stack(m1, n + 1, More(fs, n, x), More(hm, n, x), k, p, ms, 0, dp)
    <3>1. /\ x \notin DOMAIN m.frm /\ DOMAIN m1.frm = DOMAIN m.frm \cup {x}
          /\ \A b \in DOMAIN m.frm : m1.frm[b] = m.frm[b]
          /\ m1.frm[x].fp = NoFrame /\ m1.frm[x].mr = nil
      BY <2>10, <2>13, <2>14
    <3>2. DOMAIN m1.ext = DOMAIN m.ext \cup {x} /\ \A y \in DOMAIN m.ext : m1.ext[y] = m.ext[y]
      BY <2>14
    <3>3. x <= x /\ End(m1, x) <= Top(m1, x) /\ (m1.frm[x].t = nil <=> x = x)
      BY <1>2, <2>2, <2>3, <2>13, <2>17
    <3>4. \A i \in 1 .. n : hm[i] = x => End(m, fs[i]) <= x
      BY <1>3, <2>3
    <3>5. /\ m1.R.FP = m.R.FP /\ m1.R.M = m.R.M /\ m1.exsp = m.exsp
          /\ m1.R.EX = x /\ m1.R.SP = End(m1, x) /\ m1.R.TS = Top(m1, x)
      BY <2>11, <2>14, <2>17
    <3>6. \A i \in 1 .. 0 : m.exsp[i].R.FP # x
      OBVIOUS
    <3>7. IF x = x THEN /\ m1.ext[x].EX = hm[n] /\ m1.ext[x].SP = End(m, fs[n])
                        /\ m1.ext[x].TS = Top(m, hm[n])
          ELSE x = hm[n] /\ x = End(m, fs[n])
      BY <1>2, <2>12, <2>14
    <3>. QED
      BY <2>18, <3>1, <3>2, <3>3, <3>4, <3>5, <3>6, <3>7, Grown
  <2>20. AtRest(m1, 0)
    BY <2>11, <2>14 DEF AtRest
  <2>. QED
    BY <2>7, <2>19, <2>20 DEF Good
<1>. QED
  BY <1>6, <1>7

-----------------------------------------------------------------------------
(* A frame is copied to a new Prog. *)

\* What is left of a stack when a frame that was not called is taken off.
LEMMA CutUncalled ==
  ASSUME NEW m, NEW n, NEW fs, NEW hm, NEW k, NEW p, NEW ms, NEW dp,
         Stack(m, n, fs, hm, k, p, ms, 0, dp), p[k] = n - 1,
         NEW m1, m1 \in VM, Cut(m, m1, n - 1, fs, hm), Describes(m, m1.R, n - 1, fs, hm),
         \A a \in DOMAIN m1.frm : m1.frm[a] = m.frm[a],
         m1.R.FP = m.R.FP, m1.R.M = m.R.M, m1.exsp = m.exsp
  PROVE  Stack(m1, n - 1, Upto(fs, n - 1), Upto(hm, n - 1), k, p, ms, 0, dp)
<1> DEFINE j == n - 1
<1>0. /\ m \in VM /\ Parts(m) /\ Stored(m) /\ Tiled(m, n, fs, hm) /\ Whole(m, n, fs, hm)
      /\ Chained(m, n, fs, k, p, ms) /\ Recorded(m, fs, hm, k, p, ms, 0, dp)
      /\ n \in Nat \ {0} /\ n \in 1 .. n /\ fs \in [1 .. n -> Nat]
      /\ k \in Nat \ {0} /\ k \in 1 .. k /\ p \in [1 .. k -> 1 .. n] /\ ms \in [1 .. k -> Mods]
      /\ \A u, v \in 1 .. k : u < v => p[u] < p[v]
      /\ dp \in [0 + 1 .. Len(m.exsp) -> 1 .. k] /\ 0 \in 0 .. Len(m.exsp)
  BY StackParts
<1>1. j \in 1 .. n /\ j \in 1 .. j /\ p[k] <= j /\ (k < k => p[k + 1] > j)
  BY <1>0
<1>2. Upto(p, k) = p /\ Upto(ms, k) = ms
  BY <1>0, UptoAll
<1> HIDE DEF j
<1>3. Stored(m1)
  BY <1>0, <1>1, CutStored DEF j
<1>4. /\ Tiled(m1, j, Upto(fs, j), Upto(hm, j)) /\ Whole(m1, j, Upto(fs, j), Upto(hm, j))
      /\ Describes(m1, m1.R, j, Upto(fs, j), Upto(hm, j))
  <2>1. /\ Tiled(m1, j, Upto(fs, j), Upto(hm, j)) /\ Whole(m1, j, Upto(fs, j), Upto(hm, j))
        /\ \A i \in 1 .. j : \A x : Describes(m, x, i, fs, hm) <=> Describes(m1, x, i, Upto(fs, j), Upto(hm, j))
    BY <1>0, <1>1, CutTiled DEF j
  <2>. QED
    BY <1>1, <2>1 DEF j
<1>5. \A i \in 1 .. j : fs[i] \in DOMAIN m1.frm /\ m1.frm[fs[i]] = m.frm[fs[i]]
  BY DEF Cut, Keeps, j
<1>6. Chained(m1, j, Upto(fs, j), k, p, ms)
  <2>1. m1.R.FP = fs[p[k]] /\ m1.R.M = ms[k]
    BY <1>0 DEF Chained
  <2>2. \A i \in 1 .. j : m1.frm[fs[i]].fp = m.frm[fs[i]].fp /\ m1.frm[fs[i]].mr = m.frm[fs[i]].mr
    BY <1>5
  <2>3. Chained(m1, j, Upto(fs, j), k, Upto(p, k), Upto(ms, k))
    BY <1>0, <1>1, <2>1, <2>2, CutChained, ZenonT(60)
  <2>. QED
    BY <1>2, <2>3
<1>7. ASSUME NEW e, NEW c \in 1 .. k, Saved(m, e, c, fs, hm, p, ms)
      PROVE  Saved(m1, e, c, Upto(fs, j), Upto(hm, j), p, ms)
  <2>1. Cut(m, m1, j, fs, hm)
    BY DEF j
  <2>2. Saved(m1, e, c, Upto(fs, j), Upto(hm, j), Upto(p, k), Upto(ms, k))
    BY <1>0, <1>1, <1>7, <2>1, CutSaved
  <2>. QED
    BY <1>2, <2>2
<1>8. \A d \in 1 .. k : p[d] \in 1 .. j /\ Upto(fs, j)[p[d]] = fs[p[d]]
  <2>1. SUFFICES ASSUME NEW d \in 1 .. k PROVE p[d] \in 1 .. j
    BY DEF Upto
  <2>2. p[d] \in 1 .. n /\ p[k] \in 1 .. n /\ (d = k \/ d < k)
    <3>1. k \in Nat \ {0} /\ p \in [1 .. k -> 1 .. n] /\ k \in 1 .. k
      BY <1>0
    <3>. QED
      BY <3>1
  <2>3. p[d] <= p[k]
    BY <1>0, <2>2
  <2>4. p[d] \in Nat /\ p[k] \in Nat /\ j \in Nat /\ p[d] >= 1
    BY <1>0, <1>1, <2>2
  <2>. QED
    BY <1>1, <2>3, <2>4
<1>9. Recorded(m1, Upto(fs, j), Upto(hm, j), k, p, ms, 0, dp)
  <2>1. m1.exsp = m.exsp
    OBVIOUS
  <2>2. \A i \in 0 + 1 .. Len(m.exsp) : Saved(m1, m.exsp[i], dp[i], Upto(fs, j), Upto(hm, j), p, ms)
    BY <1>0, <1>7 DEF Recorded
  <2>3. \A d \in 1 .. k : Returns(m1.frm[Upto(fs, j)[p[d]]].lr, d, \E i \in 0 + 1 .. Len(m.exsp) : dp[i] = d, ms)
    <3>1. TAKE d \in 1 .. k
    <3>2. m1.frm[Upto(fs, j)[p[d]]] = m.frm[fs[p[d]]]
      BY <1>5, <1>8
    <3>. QED
      BY <1>0, <3>2 DEF Recorded
  <2>4. \A u, v \in 0 + 1 .. Len(m.exsp) : u < v => dp[v] <= dp[u]
    BY <1>0 DEF Recorded
  <2>5. \A i \in 1 .. 0 : FALSE
    OBVIOUS
  <2>. QED
    BY <1>0, <2>1, <2>2, <2>3, <2>4, <2>5 DEF Recorded
<1>. QED
  BY <1>3, <1>4, <1>6, <1>9 DEF Stack, j

\* spawn takes off the frame it has copied.
LEMMA SpawnKeeps ==
  ASSUME Good(vm), AtRest(vm, 0), Spawn
  PROVE  Good(vm')
<1>1. PICK n, fs, hm, k, p, ms, dp : Stack(vm, n, fs, hm, k, p, ms, 0, dp)
  <2>1. PICK n, fs, hm, k, p, ms, q, dp : Stack(vm, n, fs, hm, k, p, ms, q, dp) /\ AtRest(vm, q)
    BY DEF Good
  <2>2. q = 0
    <3>1. q \in 0 .. Len(vm.exsp) /\ Len(vm.exsp) \in Nat
      BY <2>1, StackParts
    <3>. QED
      BY <2>1, <3>1 DEF AtRest
  <2>. QED
    BY <2>1, <2>2
<1> DEFINE m == vm
           f == fs[n]
           sp == vm.R.FP + SizeOf(vm, vm.R.FP)
           u == IF vm.frm[f].t = nil THEN UnextendAs(vm, f, sp) ELSE [vm EXCEPT !.R.SP = sp]
           m1 == [u EXCEPT !.frm = Drop(u.frm, {f})]
<1>0. /\ vm \in VM /\ Parts(vm) /\ Stored(vm) /\ Tiled(vm, n, fs, hm) /\ Whole(vm, n, fs, hm)
      /\ Describes(vm, vm.R, n, fs, hm) /\ Chained(vm, n, fs, k, p, ms)
      /\ n \in Nat \ {0} /\ n \in 1 .. n /\ fs \in [1 .. n -> Nat]
      /\ k \in 1 .. k /\ p \in [1 .. k -> 1 .. n]
  BY <1>1, StackParts
<1>2. f = Newest(vm) /\ f \in DOMAIN vm.frm
  BY <1>1, UncalledIs
<1>3. vm' = m1
  BY <1>2 DEF Spawn, Go
<1>4. p[k] = n - 1
  <2>1. p[k] # n
    BY <1>1, UncalledIs DEF Spawn
  <2>2. p[k] \in 1 .. n /\ vm.R.FP = fs[p[k]]
    BY <1>0 DEF Chained
  <2>3. OneUncalled(vm)
    BY DEF Spawn
  <2>4. n <= p[k] + 1
    BY <1>0, <2>2, <2>3, OneUncalledIs
  <2>5. n \in Nat /\ p[k] \in Nat /\ p[k] <= n
    <3>1. n \in Nat \ {0}
      BY <1>0
    <3>. QED
      BY <2>2, <3>1
  <2>. QED
    BY <2>1, <2>4, <2>5
<1>5. n - 1 \in 1 .. n /\ n > 1
  BY <1>0, <1>4
<1>6. sp = End(vm, fs[n - 1]) /\ sp \in Nat
  <2>1. vm.R.FP = fs[n - 1]
    BY <1>0, <1>4 DEF Chained
  <2>2. End(vm, fs[n - 1]) \in Nat
    BY <1>0, <1>5, Within
  <2>. QED
    BY <2>1, <2>2 DEF End
<1> HIDE DEF f, sp
<1>7. /\ vm = [R |-> vm.R, frm |-> vm.frm, ext |-> vm.ext, exsp |-> vm.exsp, exhdlr |-> vm.exhdlr]
      /\ vm.R = [PC |-> vm.R.PC, FP |-> vm.R.FP, SP |-> vm.R.SP, TS |-> vm.R.TS, EX |-> vm.R.EX, M |-> vm.R.M]
      /\ vm.R \in Regs
  BY <1>0 DEF VM, Regs
<1>8. /\ u = [R |-> u.R, frm |-> u.frm, ext |-> u.ext, exsp |-> u.exsp, exhdlr |-> u.exhdlr]
      /\ u.R = [PC |-> u.R.PC, FP |-> u.R.FP, SP |-> u.R.SP, TS |-> u.R.TS, EX |-> u.R.EX, M |-> u.R.M]
      /\ u.frm = vm.frm /\ u.exsp = vm.exsp /\ u.exhdlr = vm.exhdlr
      /\ u.R.FP = vm.R.FP /\ u.R.PC = vm.R.PC /\ u.R.M = vm.R.M /\ u.R.SP = sp
      /\ vm.frm[f].t = nil => /\ u.ext = Drop(vm.ext, {f}) /\ u.R.TS = vm.ext[f].TS /\ u.R.EX = vm.ext[f].EX
      /\ vm.frm[f].t # nil => /\ u.ext = vm.ext /\ u.R.TS = vm.R.TS /\ u.R.EX = vm.R.EX
  <2>1. CASE vm.frm[f].t = nil
    <3>1. u = [vm EXCEPT !.R.SP = sp, !.R.TS = vm.ext[f].TS, !.R.EX = vm.ext[f].EX,
                         !.ext = Drop(vm.ext, {f})]
      BY <2>1 DEF UnextendAs
    <3> HIDE DEF u
    <3>. QED
      BY <1>7, <2>1, <3>1
  <2>2. CASE vm.frm[f].t # nil
    <3>1. u = [vm EXCEPT !.R.SP = sp]
      BY <2>2
    <3> HIDE DEF u
    <3>. QED
      BY <1>7, <2>2, <3>1
  <2>. QED
    BY <2>1, <2>2
<1> HIDE DEF u
<1>9. /\ m1 = [R |-> m1.R, frm |-> m1.frm, ext |-> m1.ext, exsp |-> m1.exsp, exhdlr |-> m1.exhdlr]
      /\ m1.R = u.R /\ m1.frm = Drop(vm.frm, {f}) /\ m1.ext = u.ext /\ m1.exsp = vm.exsp /\ m1.exhdlr = vm.exhdlr
  BY <1>8
<1> HIDE DEF m1
<1>10. /\ DOMAIN m1.frm = (DOMAIN vm.frm) \ {fs[n]} /\ \A a \in DOMAIN m1.frm : m1.frm[a] = vm.frm[a]
       /\ m1.frm = [a \in DOMAIN m1.frm |-> m1.frm[a]]
       /\ DOMAIN m1.ext \subseteq DOMAIN vm.ext /\ \A x \in DOMAIN m1.ext : m1.ext[x] = vm.ext[x]
       /\ m1.ext = [x \in DOMAIN m1.ext |-> m1.ext[x]]
       /\ Cut(vm, m1, n - 1, fs, hm)
       /\ vm.frm[fs[n]].t = nil => /\ vm.ext[fs[n]].EX = hm[n - 1] /\ vm.ext[fs[n]].SP = End(vm, fs[n - 1])
                                   /\ vm.ext[fs[n]].TS = Top(vm, hm[n - 1])
       /\ vm.frm[fs[n]].t # nil => hm[n] = hm[n - 1] /\ fs[n] = End(vm, fs[n - 1])
  <2>1. Stored(vm) /\ Tiled(vm, n, fs, hm) /\ Whole(vm, n, fs, hm) /\ n > 1
    BY <1>0, <1>5
  <2>2. TakesOff(vm, n, fs, m1)
    BY <1>8, <1>9 DEF TakesOff, f
  <2>3. Left(vm, n, fs, hm, m1)
    BY <2>1, <2>2, TakenOff
  <2>. QED
    BY <2>3 DEF Left
<1>11. Describes(vm, m1.R, n - 1, fs, hm)
  <2>1. vm.R.EX = hm[n] /\ vm.R.TS = Top(vm, hm[n])
    BY <1>0 DEF Describes
  <2>2. CASE vm.frm[f].t = nil
    BY <1>6, <1>8, <1>9, <1>10, <2>2 DEF Describes, f
  <2>3. CASE vm.frm[f].t # nil
    BY <1>6, <1>8, <1>9, <1>10, <2>1, <2>3 DEF Describes, f
  <2>. QED
    BY <2>2, <2>3
<1>12. m1 \in VM
  <2>1. m1.R \in Regs
    <3>1. m1.R.EX \in Nat /\ m1.R.SP \in Nat /\ m1.R.TS \in Nat
      <4>1. hm[n - 1] \in Nat /\ End(vm, fs[n - 1]) \in Nat /\ Top(vm, hm[n - 1]) \in Nat
        BY <1>0, <1>5, Within
      <4>. QED
        BY <1>11, <4>1 DEF Describes
    <3>2. vm.R.PC \in PCs /\ vm.R.FP \in Nat /\ vm.R.M \in Mods
      BY <1>7 DEF Regs
    <3>3. m1.R.PC \in PCs /\ m1.R.FP \in Nat /\ m1.R.M \in Mods
      BY <1>8, <1>9, <3>2
    <3>4. m1.R = [PC |-> m1.R.PC, FP |-> m1.R.FP, SP |-> m1.R.SP, TS |-> m1.R.TS, EX |-> m1.R.EX, M |-> m1.R.M]
      BY <1>8, <1>9
    <3>. QED
      BY <3>1, <3>3, <3>4 DEF Regs
  <2>2. Parts(m1)
    BY <1>0, <1>9, <1>10, <2>1 DEF Parts
  <2>. QED
    BY <1>9, <2>2, OfParts
<1>13. Stack(m1, n - 1, Upto(fs, n - 1), Upto(hm, n - 1), k, p, ms, 0, dp)
  <2>1. /\ m1.R.FP = vm.R.FP /\ m1.R.M = vm.R.M /\ m1.exsp = vm.exsp
    BY <1>8, <1>9
  <2>. QED
    BY <1>1, <1>4, <1>10, <1>11, <1>12, <2>1, CutUncalled
<1>14. AtRest(m1, 0)
  BY <1>8, <1>9 DEF AtRest
<1>. QED
  BY <1>3, <1>13, <1>14 DEF Good

-----------------------------------------------------------------------------
(* eclr. *)

\* The rest of a sequence.
LEMMA RestOf ==
  ASSUME NEW S, NEW s \in Seq(S), NEW q \in 0 .. Len(s)
  PROVE  /\ SubSeq(s, q + 1, Len(s)) \in Seq(S) /\ Len(SubSeq(s, q + 1, Len(s))) = Len(s) - q
         /\ \A i \in 1 .. Len(s) - q : SubSeq(s, q + 1, Len(s))[i] = s[i + q]
<1> DEFINE L == Len(s)
<1>1. L \in Nat /\ q \in Nat /\ q <= L /\ q + 1 \in Int /\ L \in Int
  <2>1. L \in Nat
    BY LenProperties
  <2>. QED
    BY <2>1
<1>2. \A i \in 1 .. L : s[i] \in S
  BY ElementOfSeq
<1> HIDE DEF L
<1>3. \A i \in q + 1 .. L : s[i] \in S
  <2>1. \A i \in q + 1 .. L : i \in 1 .. L
    BY <1>1
  <2>. QED
    BY <1>2, <2>1
<1>4. /\ SubSeq(s, q + 1, L) \in Seq(S)
      /\ Len(SubSeq(s, q + 1, L)) = IF q + 1 <= L THEN L - (q + 1) + 1 ELSE 0
      /\ \A i \in 1 .. L - (q + 1) + 1 : SubSeq(s, q + 1, L)[i] = s[q + 1 + i - 1]
  BY <1>1, <1>3, SubSeqProperties
<1>5. (IF q + 1 <= L THEN L - (q + 1) + 1 ELSE 0) = L - q /\ L - (q + 1) + 1 = L - q
  BY <1>1
<1>6. \A i \in 1 .. L - q : q + 1 + i - 1 = i + q
  BY <1>1
<1>. QED
  BY <1>4, <1>5, <1>6 DEF L

\* The records for frames that are gone are dropped.
LEMMA Cleared ==
  ASSUME NEW m, NEW n, NEW fs, NEW hm, NEW k, NEW p, NEW ms, NEW q, NEW dp,
         Stack(m, n, fs, hm, k, p, ms, q, dp),
         NEW m1, m1 \in VM, m1.frm = m.frm, m1.ext = m.ext,
         m1.exsp = SubSeq(m.exsp, q + 1, Len(m.exsp)),
         m1.R.FP = m.R.FP, m1.R.SP = m.R.SP, m1.R.TS = m.R.TS, m1.R.EX = m.R.EX, m1.R.M = m.R.M
  PROVE  \E dq : Stack(m1, n, fs, hm, k, p, ms, 0, dq)
<1> DEFINE L == Len(m.exsp)
           dq == [i \in 0 + 1 .. L - q |-> dp[i + q]]
<1>0. /\ Recorded(m, fs, hm, k, p, ms, q, dp) /\ k \in Nat \ {0}
      /\ m.exsp \in Seq(RecSet) /\ L \in Nat /\ q \in 0 .. L
      /\ dp \in [q + 1 .. L -> 1 .. k]
      /\ \A u, v \in q + 1 .. L : u < v => dp[v] <= dp[u]
  BY StackParts
<1>1. q \in Nat /\ L \in Nat /\ q <= L /\ L - q \in Nat
  BY <1>0
<1>2. /\ m1.exsp \in Seq(RecSet) /\ Len(m1.exsp) = L - q
      /\ \A i \in 1 .. L - q : m1.exsp[i] = m.exsp[i + q]
  BY <1>0, RestOf
<1> HIDE DEF L
<1>3. Alike(m, m1)
  BY DEF Alike
<1>4. Stored(m1) /\ Tiled(m1, n, fs, hm) /\ Whole(m1, n, fs, hm) /\ Describes(m1, m1.R, n, fs, hm)
  <2>1. Describes(m, m1.R, n, fs, hm)
    BY DEF Stack, Describes
  <2>. QED
    BY <1>3, <2>1, AlikeTiled, Listed DEF Stack
<1>5. /\ Chained(m1, n, fs, k, p, ms)
      /\ \A e, d : d \in 1 .. k /\ Saved(m, e, d, fs, hm, p, ms) => Saved(m1, e, d, fs, hm, p, ms)
  BY <1>3, AlikeChained DEF Stack
<1>6. \A i \in 0 + 1 .. L - q : /\ i \in 1 .. L - q /\ i + q \in q + 1 .. L /\ dq[i] = dp[i + q]
  BY <1>1
<1>7. \A i \in q + 1 .. L : i - q \in 0 + 1 .. L - q /\ (i - q) + q = i
  BY <1>1
<1>8. dq \in [0 + 1 .. L - q -> 1 .. k]
  <2>1. \A i \in 0 + 1 .. L - q : dp[i + q] \in 1 .. k
    BY <1>0, <1>6
  <2>. QED
    BY <2>1
<1> HIDE DEF dq
<1>9. Recorded(m1, fs, hm, k, p, ms, 0, dq)
  <2>1. \A i \in 0 + 1 .. L - q : Saved(m1, m1.exsp[i], dq[i], fs, hm, p, ms)
    <3>1. TAKE i \in 0 + 1 .. L - q
    <3>2. Saved(m, m.exsp[i + q], dp[i + q], fs, hm, p, ms) /\ dp[i + q] \in 1 .. k
      BY <1>0, <1>6 DEF Recorded, L
    <3>. QED
      BY <1>2, <1>5, <1>6, <3>2
  <2>2. \A u, v \in 0 + 1 .. L - q : u < v => dq[v] <= dq[u]
    <3>1. \A u, v \in 0 + 1 .. L - q : u < v => u + q < v + q
      BY <1>1
    <3>. QED
      BY <1>0, <1>6, <3>1
  <2>3. \A d \in 1 .. k :
          Returns(m1.frm[fs[p[d]]].lr, d, \E i \in 0 + 1 .. L - q : dq[i] = d, ms)
    <3>1. TAKE d \in 1 .. k
    <3>2. (\E i \in q + 1 .. L : dp[i] = d) <=> (\E i \in 0 + 1 .. L - q : dq[i] = d)
      <4>1. ASSUME NEW i \in q + 1 .. L, dp[i] = d PROVE \E z \in 0 + 1 .. L - q : dq[z] = d
        <5>1. i - q \in 0 + 1 .. L - q /\ dq[i - q] = dp[i]
          BY <1>6, <1>7
        <5>. QED
          BY <4>1, <5>1
      <4>2. ASSUME NEW i \in 0 + 1 .. L - q, dq[i] = d PROVE \E z \in q + 1 .. L : dp[z] = d
        BY <1>6, <4>2
      <4>. QED
        BY <4>1, <4>2
    <3>3. Returns(m.frm[fs[p[d]]].lr, d, \E i \in q + 1 .. L : dp[i] = d, ms)
      BY <1>0 DEF Recorded, L
    <3>. QED
      BY <3>2, <3>3 DEF Returns
  <2>4. 0 \in 0 .. Len(m1.exsp) /\ \A i \in 1 .. 0 : FALSE
    BY <1>1, <1>2
  <2>. QED
    BY <1>2, <1>8, <2>1, <2>2, <2>3, <2>4 DEF Recorded
<1>. QED
  BY <1>4, <1>5, <1>9 DEF Stack

\* eclr drops the records whose frames are gone, and goes on where they say.
LEMMA EclrKeeps ==
  ASSUME Good(vm), AtEclr, Eclr
  PROVE  Good(vm')
<1>1. PICK n, fs, hm, k, p, ms, q, dp : Stack(vm, n, fs, hm, k, p, ms, q, dp) /\ AtRest(vm, q)
  BY DEF Good
<1> DEFINE L == Len(vm.exsp)
           s == SubSeq(vm.exsp, q + 1, L)
           m == [vm EXCEPT !.exsp = s]
           m1 == [m EXCEPT !.R.PC = vm.exsp[q].lr]
<1>0. /\ vm \in VM /\ Parts(vm) /\ Recorded(vm, fs, hm, k, p, ms, q, dp)
      /\ vm.exsp \in Seq(RecSet) /\ L \in Nat /\ q \in 0 .. L
  BY <1>1, StackParts
<1>2. q \in Nat /\ q > 0 /\ q \in 1 .. L
  <2>1. q \in Nat /\ q > 0
    BY <1>0, <1>1 DEF AtRest, AtEclr
  <2>. QED
    BY <1>0, <2>1
<1> HIDE DEF L
<1>3. \A i \in 1 .. q : vm.exsp[i].lr # nil /\ vm.exsp[i].lr.mod = vm.R.M /\ vm.exsp[i].lr.at \in Label
  BY <1>0 DEF Recorded
<1>4. Dead(vm) = 1 .. q
  BY <1>1, DeadIs
<1>5. Cardinality(Dead(vm)) = q
  <2>1. Cardinality(1 .. q) = IF q < 1 THEN 0 ELSE q - 1 + 1
    BY <1>2, FS_Interval
  <2>. QED
    BY <1>2, <1>4, <2>1
<1>6. {j \in Dead(vm) : vm.exsp[j].lr # nil} = 1 .. q
  BY <1>3, <1>4
<1>7. Max(1 .. q) = q /\ 1 .. q # {}
  <2>1. 1 .. q \subseteq 0 .. q /\ 1 .. q # {} /\ q \in 1 .. q
    BY <1>2
  <2>2. Max(1 .. q) \in 1 .. q /\ \A y \in 1 .. q : y <= Max(1 .. q)
    BY <1>2, <2>1, MaxIs
  <2>. QED
    BY <1>2, <2>1, <2>2
<1>8. vm' = m1
  BY <1>5, <1>6, <1>7 DEF Eclr, Go, L
<1>9. vm.exsp[q] \in RecSet /\ vm.exsp[q].lr \in PCs
  <2>1. vm.exsp[q] \in RecSet
    BY <1>0, <1>2, ElementOfSeq DEF L
  <2>2. vm.exsp[q].lr \in PCs \cup {nil}
    BY <2>1 DEF RecSet
  <2>. QED
    BY <1>2, <1>3, <2>1, <2>2
<1>10. s \in Seq(RecSet)
  BY <1>0, RestOf DEF L
<1> HIDE DEF s
<1>11. /\ m \in VM /\ m.R = vm.R /\ m.frm = vm.frm /\ m.ext = vm.ext
       /\ m.exsp = s /\ m.exhdlr = vm.exhdlr
  BY <1>0, <1>10, SetExsp
<1> HIDE DEF m
<1>12. /\ m1 \in VM /\ m1.frm = m.frm /\ m1.ext = m.ext /\ m1.exsp = m.exsp
       /\ m1.R.PC = vm.exsp[q].lr
       /\ m1.R.FP = m.R.FP /\ m1.R.SP = m.R.SP /\ m1.R.TS = m.R.TS /\ m1.R.EX = m.R.EX /\ m1.R.M = m.R.M
  <2>1. PICK r, c : r = m.R /\ c = vm.exsp[q].lr
    OBVIOUS
  <2>2. r \in Regs /\ c \in PCs
    BY <1>9, <1>11, <2>1 DEF VM
  <2>3. PICK r1 : r1 = [r EXCEPT !.PC = c]
    OBVIOUS
  <2>4. /\ r1 \in Regs /\ r1.PC = c /\ r1.FP = r.FP /\ r1.SP = r.SP /\ r1.TS = r.TS /\ r1.EX = r.EX /\ r1.M = r.M
    BY <2>2, <2>3 DEF Regs
  <2>5. m1 = [m EXCEPT !.R = r1]
    BY <2>1, <2>3
  <2> HIDE DEF m1
  <2>6. m1 \in VM /\ m1.R = r1 /\ m1.frm = m.frm /\ m1.ext = m.ext /\ m1.exsp = m.exsp
    BY <1>11, <2>4, <2>5 DEF VM
  <2>. QED
    BY <2>1, <2>4, <2>6
<1> HIDE DEF m1
<1>13. PICK dq : Stack(m1, n, fs, hm, k, p, ms, 0, dq)
  <2>1. Stack(vm, n, fs, hm, k, p, ms, q, dp)
    BY <1>1
  <2>2. /\ m1 \in VM /\ m1.frm = vm.frm /\ m1.ext = vm.ext /\ m1.exsp = SubSeq(vm.exsp, q + 1, Len(vm.exsp))
        /\ m1.R.FP = vm.R.FP /\ m1.R.SP = vm.R.SP /\ m1.R.TS = vm.R.TS /\ m1.R.EX = vm.R.EX /\ m1.R.M = vm.R.M
    BY <1>11, <1>12 DEF s, L
  <2>. QED
    BY <2>1, <2>2, Cleared
<1>14. AtRest(m1, 0)
  <2>1. q \in 1 .. q
    BY <1>2
  <2>2. m1.R.PC.mod = vm.R.M /\ m1.R.PC.at \in Label /\ m1.R.M = vm.R.M
    BY <1>3, <1>11, <1>12, <2>1
  <2>3. vm.R.M \in Module /\ "eclr" \notin Label
    BY <1>1, NamesApart DEF AtRest
  <2>. QED
    BY <2>2, <2>3 DEF AtRest
<1>. QED
  BY <1>8, <1>13, <1>14 DEF Good

-----------------------------------------------------------------------------
(* The calls of Sys, and frame, call, mcall and ret. *)

\* The frame f is current, and remembers its caller's module.
CalledBy(m, f) == m.R.FP = f /\ m.frm[f].mr # nil

\* The stack in a built-in function.
LEMMA EnteredKeeps ==
  ASSUME NEW m, NEW n, NEW fs, NEW hm, NEW k, NEW p, NEW ms, NEW dp,
         Stack(m, n, fs, hm, k, p, ms, 0, dp), AtRest(m, 0), Uncalled(m)
  PROVE  /\ Stack(Entered(m), n, fs, hm, k + 1, More(p, k, n), More(ms, k, "Sys"), 0, dp)
         /\ Entered(m).exsp = m.exsp /\ Entered(m).exhdlr = m.exhdlr
         /\ CalledBy(Entered(m), fs[n])
         /\ More(p, k, n)[k + 1] = n /\ More(p, k, n)[k] = p[k] /\ k + 1 > 1
<1>1. /\ k \in Nat \ {0} /\ k \in 1 .. k /\ Len(m.exsp) \in Nat /\ dp \in [0 + 1 .. Len(m.exsp) -> 1 .. k]
  BY StackParts
<1>2. m.R.PC \in PCs /\ "Sys" \in Mods
  BY RestIs DEF Mods
<1>3. More(p, k, n)[k + 1] = n /\ More(p, k, n)[k] = p[k]
  BY <1>1, MoreIs
<1>4. k + 1 > 1
  BY <1>1
<1>. QED
  BY <1>2, <1>3, <1>4, McalledKeeps DEF Entered, CalledBy

\* No record is for a frame yet to be called.
LEMMA NotAbove ==
  ASSUME NEW m, NEW n, NEW fs, NEW hm, NEW k, NEW p, NEW ms, NEW dp,
         Stack(m, n, fs, hm, k, p, ms, 0, dp)
  PROVE  \A i \in 1 .. Len(m.exsp) : dp[i] # k + 1
<1>1. /\ k \in Nat \ {0} /\ Len(m.exsp) \in Nat /\ dp \in [0 + 1 .. Len(m.exsp) -> 1 .. k]
  BY StackParts
<1>2. \A i \in 1 .. Len(m.exsp) : i \in 0 + 1 .. Len(m.exsp)
  BY <1>1
<1>3. \A d \in 1 .. k : d # k + 1
  BY <1>1
<1>. QED
  BY <1>1, <1>2, <1>3

\* The current frame is taken off.
LEMMA Left0 ==
  ASSUME NEW m, NEW n, NEW fs, NEW hm, NEW k, NEW p, NEW ms, NEW dp,
         Stack(m, n, fs, hm, k, p, ms, 0, dp), k > 1, p[k] = n
  PROVE  Good(PopFrame(m))
<1>1. \E q, dq :
           /\ Stack(PopFrame(m), n - 1, Upto(fs, n - 1), Upto(hm, n - 1),
                    k - 1, Upto(p, k - 1), Upto(ms, k - 1), q, dq)
           /\ AtRest(PopFrame(m), q)
  BY Popped
<1>. QED
  BY <1>1 DEF Good

\* What the steps below start from.
LEMMA Running ==
  ASSUME Good(vm), ~AtEclr
  PROVE  /\ AtRest(vm, 0)
         /\ \E n, fs, hm, k, p, ms, dp : Stack(vm, n, fs, hm, k, p, ms, 0, dp)
<1>1. PICK n, fs, hm, k, p, ms, q, dp : Stack(vm, n, fs, hm, k, p, ms, q, dp) /\ AtRest(vm, q)
  BY DEF Good
<1>2. q = 0
  <2>1. q \in 0 .. Len(vm.exsp) /\ Len(vm.exsp) \in Nat
    BY <1>1, StackParts
  <2>. QED
    BY <1>1, <2>1 DEF AtRest, AtEclr
<1>. QED
  BY <1>1, <1>2

\* Sys->rescue leaves a good stack.
LEMMA RescueKeeps ==
  ASSUME Good(vm), ~AtEclr, NEW pat \in Pattern, NEW l \in Label, Sys_rescue(pat, l)
  PROVE  Good(vm')
<1>1. PICK n, fs, hm, k, p, ms, dp : Stack(vm, n, fs, hm, k, p, ms, 0, dp)
  BY Running
<1> DEFINE m1 == At(vm, l)
           m2 == Entered(m1)
           m3 == Rescued(m2, pat)
           p2 == More(p, k, n)
           ms2 == More(ms, k, "Sys")
<1>2. Uncalled(vm) /\ OneUncalled(vm) /\ Len(vm.exsp) < MaxRec /\ vm' = PopFrame(m3)
  BY DEF Sys_rescue, Go, At
<1> HIDE DEF m3
<1>3. /\ Stack(m1, n, fs, hm, k, p, ms, 0, dp) /\ AtRest(m1, 0) /\ Uncalled(m1) /\ m1.exsp = vm.exsp
      /\ p[k] = n - 1
  <2>1. AtRest(vm, 0)
    BY Running
  <2>. QED
    BY <1>1, <1>2, <2>1, AtKeeps
<1> HIDE DEF m1
<1>4. /\ Stack(m2, n, fs, hm, k + 1, p2, ms2, 0, dp) /\ m2.exsp = m1.exsp
      /\ m2.frm[fs[n]].mr # nil /\ p2[k + 1] = n /\ p2[k] = p[k] /\ k + 1 > 1
      /\ \A i \in 1 .. Len(m1.exsp) : dp[i] # k + 1
  <2>1. PICK mm : mm = m1
    OBVIOUS
  <2>2. Stack(mm, n, fs, hm, k, p, ms, 0, dp) /\ AtRest(mm, 0) /\ Uncalled(mm)
    BY <1>3, <2>1
  <2>3. /\ Stack(Entered(mm), n, fs, hm, k + 1, More(p, k, n), More(ms, k, "Sys"), 0, dp)
        /\ Entered(mm).exsp = mm.exsp
        /\ Entered(mm).frm[fs[n]].mr # nil
        /\ More(p, k, n)[k + 1] = n /\ More(p, k, n)[k] = p[k] /\ k + 1 > 1
    <3>1. Stack(Entered(mm), n, fs, hm, k + 1, More(p, k, n), More(ms, k, "Sys"), 0, dp)
      BY <2>2, EnteredKeeps
    <3>2. Entered(mm).exsp = mm.exsp
      BY <2>2, EnteredKeeps
    <3>3. CalledBy(Entered(mm), fs[n])
      BY <2>2, EnteredKeeps
    <3>4. More(p, k, n)[k + 1] = n /\ More(p, k, n)[k] = p[k]
      <4>1. k \in Nat /\ k \in 1 .. k
        BY <2>2, StackParts
      <4>. QED
        BY <4>1, MoreIs
    <3>5. k + 1 > 1
      BY <2>2, EnteredKeeps
    <3>. QED
      BY <3>1, <3>2, <3>3, <3>4, <3>5 DEF CalledBy
  <2>4. \A i \in 1 .. Len(mm.exsp) : dp[i] # k + 1
    BY <2>2, NotAbove
  <2>. QED
    BY <2>1, <2>3, <2>4
<1> HIDE DEF m2, p2, ms2
<1>5. \E dq : Stack(m3, n, fs, hm, k + 1, p2, ms2, 0, dq)
  <2>1. PICK k2 : k2 = k + 1
    OBVIOUS
  <2>2. /\ Stack(m2, n, fs, hm, k2, p2, ms2, 0, dp) /\ k2 > 1 /\ p2[k2] = n /\ p2[k2 - 1] = n - 1
        /\ m2.frm[fs[n]].mr # nil /\ \A i \in 1 .. Len(m2.exsp) : dp[i] # k2
        /\ Len(m2.exsp) < MaxRec
    <3>1. p2[k] = n - 1 /\ m2.exsp = vm.exsp /\ m2.exsp = m1.exsp
      BY <1>3, <1>4
    <3>2. k2 > 1 /\ p2[k2] = n
      BY <1>4, <2>1
    <3>3. p2[k2 - 1] = n - 1
      <4>1. k \in Nat
        BY <1>1, StackParts
      <4>2. k2 - 1 = k
        BY <2>1, <4>1
      <4>. QED
        BY <3>1, <4>2
    <3>4. Len(m2.exsp) < MaxRec
      BY <1>2, <3>1
    <3>5. Stack(m2, n, fs, hm, k2, p2, ms2, 0, dp) /\ m2.frm[fs[n]].mr # nil
      BY <1>4, <2>1
    <3>6. \A i \in 1 .. Len(m2.exsp) : dp[i] # k2
      BY <1>4, <2>1, <3>1
    <3>. QED
      BY <3>2, <3>3, <3>4, <3>5, <3>6
  <2>3. \E dq : Stack(Rescued(m2, pat), n, fs, hm, k2, p2, ms2, 0, dq)
    BY <2>2, RescuedKeeps, ZenonT(60)
  <2>. QED
    BY <2>1, <2>3 DEF m3
<1>6. PICK dq : Stack(m3, n, fs, hm, k + 1, p2, ms2, 0, dq)
  BY <1>5
<1>. QED
  BY <1>2, <1>4, <1>6, Left0

\* exhdlr is cleared, and a record unlinked.
LEMMA Unlinks ==
  ASSUME NEW m, NEW n, NEW fs, NEW hm, NEW k, NEW p, NEW ms, NEW dp,
         Stack(m, n, fs, hm, k, p, ms, 0, dp), NEW m1, m1 = [m EXCEPT !.exhdlr = 0]
  PROVE  /\ Stack(m1, n, fs, hm, k, p, ms, 0, dp) /\ m1.exsp = m.exsp
         /\ \A i \in 1 .. Len(m.exsp) : \E dq : Stack(Unlinked(m1, i), n, fs, hm, k, p, ms, 0, dq)
<1>1. Stack([m EXCEPT !.exhdlr = 0], n, fs, hm, k, p, ms, 0, dp)
  BY HandlerFree
<1>2. m1.exsp = m.exsp
  <2>1. m \in VM
    BY StackParts
  <2>. QED
    BY <2>1 DEF VM
<1>3. Stack(m1, n, fs, hm, k, p, ms, 0, dp)
  BY <1>1
<1>4. \A i \in 1 .. Len(m.exsp) : \E dq : Stack(Unlinked(m1, i), n, fs, hm, k, p, ms, 0, dq)
  BY <1>2, <1>3, UnlinkedKeeps
<1>. QED
  BY <1>2, <1>3, <1>4

\* Sys->unrescue does.
LEMMA UnrescueKeeps ==
  ASSUME Good(vm), ~AtEclr, Sys_unrescue
  PROVE  Good(vm')
<1>1. PICK n, fs, hm, k, p, ms, dp : Stack(vm, n, fs, hm, k, p, ms, 0, dp)
  BY Running
<1> DEFINE m2 == Entered(vm)
           m3 == [m2 EXCEPT !.exhdlr = 0]
           p2 == More(p, k, n)
           ms2 == More(ms, k, "Sys")
<1>2. /\ Uncalled(vm)
      /\ \/ vm' = PopFrame(m3)
         \/ m3.exsp # << >> /\ vm' = PopFrame(Unlinked(m3, 1))
  BY DEF Sys_unrescue, Go
<1>3. AtRest(vm, 0)
  BY Running
<1>4. /\ Stack(m2, n, fs, hm, k + 1, p2, ms2, 0, dp) /\ p2[k + 1] = n /\ k + 1 > 1
  BY <1>1, <1>2, <1>3, EnteredKeeps
<1> HIDE DEF m2, p2, ms2
<1>5. /\ Stack(m3, n, fs, hm, k + 1, p2, ms2, 0, dp) /\ m3.exsp = m2.exsp
      /\ \A i \in 1 .. Len(m2.exsp) : \E dq : Stack(Unlinked(m3, i), n, fs, hm, k + 1, p2, ms2, 0, dq)
  BY <1>4, Unlinks
<1> HIDE DEF m3
<1>6. CASE vm' = PopFrame(m3)
  BY <1>4, <1>5, <1>6, Left0
<1>7. CASE m3.exsp # << >> /\ vm' = PopFrame(Unlinked(m3, 1))
  <2>1. 1 \in 1 .. Len(m2.exsp)
    <3>1. m3.exsp \in Seq(RecSet)
      BY <1>5, StackParts
    <3>2. Len(m3.exsp) \in Nat /\ Len(m3.exsp) # 0
      BY <1>7, <3>1, EmptySeq, LenProperties
    <3>. QED
      BY <1>5, <3>2
  <2>2. PICK dq : Stack(Unlinked(m3, 1), n, fs, hm, k + 1, p2, ms2, 0, dq)
    BY <1>5, <2>1
  <2>. QED
    BY <1>4, <1>7, <2>2, Left0
<1>. QED
  BY <1>2, <1>6, <1>7

\* rescued: the records and exhdlr are as before an error, or the call returns.
LEMMA RescuedSteps ==
  ASSUME Good(vm), ~AtEclr, NEW flag, Sys_rescued(flag)
  PROVE  \/ Good(vm')
         \/ \E m, e, n, fs, hm, k, p, ms, dp :
              Stack(m, n, fs, hm, k, p, ms, 0, dp) /\ Error(m, e)
<1>1. PICK n, fs, hm, k, p, ms, dp : Stack(vm, n, fs, hm, k, p, ms, 0, dp)
  BY Running
<1> DEFINE m2 == Entered(vm)
           m3 == [m2 EXCEPT !.exhdlr = 0]
           I == {j \in 1 .. Len(m2.exsp) : m2.exsp[j].id = m2.exhdlr}
           u == IF I = {} THEN m3 ELSE Unlinked(m3, Min(I))
           p2 == More(p, k, n)
           ms2 == More(ms, k, "Sys")
<1>2. /\ Uncalled(vm)
      /\ \/ vm' = PopFrame(m2)
         \/ vm' = PopFrame(m3)
         \/ vm' = PopFrame(u)
         \/ \E e : Error(m2, e)
         \/ \E e : Error(u, e)
  BY DEF Sys_rescued, Go
<1>3. AtRest(vm, 0)
  BY Running
<1>4. /\ Stack(m2, n, fs, hm, k + 1, p2, ms2, 0, dp) /\ p2[k + 1] = n /\ k + 1 > 1
  BY <1>1, <1>2, <1>3, EnteredKeeps
<1> HIDE DEF m2, p2, ms2
<1>5. /\ Stack(m3, n, fs, hm, k + 1, p2, ms2, 0, dp) /\ m3.exsp = m2.exsp
      /\ \A i \in 1 .. Len(m2.exsp) : \E dq : Stack(Unlinked(m3, i), n, fs, hm, k + 1, p2, ms2, 0, dq)
  BY <1>4, Unlinks
<1> HIDE DEF m3
<1>6. \E dq : Stack(u, n, fs, hm, k + 1, p2, ms2, 0, dq)
  <2>1. CASE I = {}
    BY <1>5, <2>1
  <2>2. CASE I # {}
    <3>1. I \subseteq 1 .. Len(m2.exsp) /\ Len(m2.exsp) \in Nat
      BY <1>4, StackParts
    <3>2. I \subseteq Nat
      BY <3>1
    <3>3. Min(I) \in 1 .. Len(m2.exsp)
      BY <2>2, <3>1, <3>2, MinIs
    <3>. QED
      BY <1>5, <2>2, <3>3
  <2>. QED
    BY <2>1, <2>2
<1> HIDE DEF u, I
<1>7. CASE vm' = PopFrame(m2)
  BY <1>4, <1>7, Left0
<1>8. CASE vm' = PopFrame(m3)
  BY <1>4, <1>5, <1>8, Left0
<1>9. CASE vm' = PopFrame(u)
  <2>1. PICK dq : Stack(u, n, fs, hm, k + 1, p2, ms2, 0, dq)
    BY <1>6
  <2>. QED
    BY <1>4, <1>9, <2>1, Left0
<1>10. CASE \E e : Error(m2, e)
  BY <1>4, <1>10
<1>11. CASE \E e : Error(u, e)
  BY <1>6, <1>11
<1>. QED
  BY <1>2, <1>7, <1>8, <1>9, <1>10, <1>11

\* frame does.
LEMMA FrameKeeps ==
  ASSUME Good(vm), ~AtEclr, NEW t \in Types, Frame(t)
  PROVE  Good(vm')
<1>1. AtRest(vm, 0) /\ \E n, fs, hm, k, p, ms, dp : Stack(vm, n, fs, hm, k, p, ms, 0, dp)
  BY Running
<1>2. DOMAIN vm.ext # Ext /\ vm' = Placed(vm, t)
  BY DEF Frame, Go
<1>. QED
  BY <1>1, <1>2, PlacedKeeps

\* call does.
LEMMA CallKeeps ==
  ASSUME Good(vm), ~AtEclr, NEW l \in Label, Call(l)
  PROVE  Good(vm')
<1>1. AtRest(vm, 0) /\ \E n, fs, hm, k, p, ms, dp : Stack(vm, n, fs, hm, k, p, ms, 0, dp)
  BY Running
<1>2. Uncalled(vm) /\ vm' = Called(vm, l)
  BY DEF Call, Go
<1>. QED
  BY <1>1, <1>2, CalledKeeps

\* mcall does.
LEMMA McallKeeps ==
  ASSUME Good(vm), ~AtEclr, NEW into \in Module, NEW l \in Label, Mcall(into, l)
  PROVE  Good(vm')
<1>1. PICK n, fs, hm, k, p, ms, dp : Stack(vm, n, fs, hm, k, p, ms, 0, dp)
  BY Running
<1> DEFINE pc == [mod |-> into, at |-> l]
           m1 == Mcalled(vm, into, pc)
<1>2. Uncalled(vm) /\ vm' = m1
  BY DEF Mcall, Go
<1>3. pc \in PCs /\ into \in Mods /\ pc.mod = into /\ pc.at = l
  BY DEF PCs, Mods
<1> HIDE DEF pc
<1>4. AtRest(vm, 0)
  BY Running
<1>5. /\ Stack(m1, n, fs, hm, k + 1, More(p, k, n), More(ms, k, into), 0, dp)
      /\ m1.R.M = into /\ m1.R.PC = pc
  BY <1>1, <1>2, <1>3, <1>4, McalledKeeps
<1> HIDE DEF m1
<1>6. AtRest(m1, 0)
  BY <1>3, <1>5, NamesApart DEF AtRest
<1>. QED
  BY <1>2, <1>5, <1>6 DEF Good

\* ret does, or the first frame returns and the Prog ends.
LEMMA RetSteps ==
  ASSUME Good(vm), ~AtEclr, Ret
  PROVE  Good(vm') \/ Error(vm, << >>)
<1>1. PICK n, fs, hm, k, p, ms, dp : Stack(vm, n, fs, hm, k, p, ms, 0, dp)
  BY Running
<1>2. p[k] = n
  BY <1>1, UncalledIs DEF Ret
<1>3. CASE vm.frm[vm.R.FP].fp = NoFrame
  BY <1>3 DEF Ret
<1>4. CASE vm.frm[vm.R.FP].fp # NoFrame
  <2>1. vm' = PopFrame(vm)
    BY <1>4 DEF Ret, Go
  <2>2. k > 1
    <3>1. k \in Nat \ {0} /\ Chained(vm, n, fs, k, p, ms)
      BY <1>1, StackParts
    <3>2. k # 1
      BY <1>4, <3>1 DEF Chained
    <3>. QED
      BY <3>1, <3>2
  <2>. QED
    BY <1>1, <1>2, <2>1, <2>2, Left0
<1>. QED
  BY <1>3, <1>4

-----------------------------------------------------------------------------
(* Unwinding. *)

\* m1 is s without its first n records, which were f's.
Shed(s, f, n, m1) ==
  /\ Shaped(m1) /\ m1.R = s.R /\ m1.ext = s.ext /\ m1.exhdlr = s.exhdlr
  /\ DOMAIN m1.frm = DOMAIN s.frm /\ \A b \in DOMAIN s.frm : b # f => m1.frm[b] = s.frm[b]
  /\ m1.frm[f].t = s.frm[f].t /\ m1.frm[f].fp = s.frm[f].fp
  /\ m1.exsp \in Seq(RecSet) /\ Len(m1.exsp) = Len(s.exsp) - n
  /\ \A i \in 1 .. Len(s.exsp) - n : m1.exsp[i] = s.exsp[i + n]

\* popex drops the newest records while they are those of f.
LEMMA PopExIs ==
  ASSUME NEW s, Shaped(s), s.exsp \in Seq(RecSet), NEW f \in DOMAIN s.frm, s.frm[f] \in FrameSet,
         NEW n \in 0 .. Len(s.exsp), \A j \in 1 .. n : s.exsp[j].R.FP = f,
         n < Len(s.exsp) => s.exsp[n + 1].R.FP # f
  PROVE  Shed(s, f, n, PopEx(s, f))
<1> DEFINE L == Len(s.exsp)
           S == {i \in 0 .. L : \A j \in 1 .. i : s.exsp[j].R.FP = f}
           m1 == PopEx(s, f)
           rest == SubSeq(s.exsp, n + 1, L)
<1>1. L \in Nat /\ n \in Nat /\ n <= L
  <2>1. L \in Nat
    BY LenProperties
  <2>. QED
    BY <2>1
<1> HIDE DEF L
<1>2. Max(S) = n
  <2>1. n \in S /\ S \subseteq 0 .. L
    BY <1>1 DEF L
  <2>2. Max(S) \in S /\ \A y \in S : y <= Max(S)
    <3> HIDE DEF S
    <3>1. S # {}
      BY <2>1
    <3>. QED
      BY <1>1, <2>1, <3>1, MaxIs
  <2>3. n <= Max(S) /\ Max(S) \in 0 .. L
    BY <2>1, <2>2
  <2>4. CASE n < Max(S)
    <3>1. n + 1 \in 1 .. Max(S) /\ n < L
      BY <1>1, <2>3, <2>4
    <3>2. s.exsp[n + 1].R.FP = f
      BY <2>2, <3>1
    <3>. QED
      BY <3>1, <3>2 DEF L
  <2> HIDE DEF S
  <2>. QED
    BY <1>1, <2>3, <2>4
<1>3. m1 = IF n = 0 THEN s ELSE [s EXCEPT !.frm[f].lr = s.exsp[n].lr, !.exsp = rest]
  BY <1>2 DEF PopEx, L
<1>4. rest \in Seq(RecSet) /\ Len(rest) = L - n /\ \A i \in 1 .. L - n : rest[i] = s.exsp[i + n]
  BY RestOf DEF L
<1> HIDE DEF S, m1, rest
<1>5. CASE n = 0
  <2>1. m1 = s /\ L - n = L /\ \A i \in 1 .. L - n : i + n = i
    BY <1>1, <1>3, <1>5
  <2>. QED
    BY <2>1 DEF Shed, L, m1
<1>6. CASE n # 0
  <2>1. PICK F, v : F = s.frm /\ v = s.exsp[n].lr
    OBVIOUS
  <2>2. PICK g : g = [F[f] EXCEPT !.lr = v]
    OBVIOUS
  <2>3. g.t = F[f].t /\ g.fp = F[f].fp
    <3>1. F[f] \in FrameSet
      BY <2>1
    <3>. QED
      BY <2>2, <3>1 DEF FrameSet
  <2>4. PICK G : G = [F EXCEPT ![f] = g]
    OBVIOUS
  <2>5. DOMAIN G = DOMAIN F /\ G[f] = g /\ \A b \in DOMAIN F : b # f => G[b] = F[b]
    BY <2>1, <2>4
  <2>6. m1 = [s EXCEPT !.frm = G, !.exsp = rest]
    BY <1>3, <1>6, <2>1, <2>2, <2>4
  <2>7. /\ m1 = [R |-> m1.R, frm |-> m1.frm, ext |-> m1.ext, exsp |-> m1.exsp, exhdlr |-> m1.exhdlr]
        /\ m1.R = s.R /\ m1.ext = s.ext /\ m1.exhdlr = s.exhdlr /\ m1.frm = G /\ m1.exsp = rest
    <3>1. s = [R |-> s.R, frm |-> s.frm, ext |-> s.ext, exsp |-> s.exsp, exhdlr |-> s.exhdlr]
      BY DEF Shaped
    <3>. QED
      BY <2>6, <3>1
  <2>8. Shaped(m1)
    BY <2>7 DEF Shaped
  <2>. QED
    BY <1>4, <2>1, <2>3, <2>5, <2>7, <2>8 DEF Shed, L, m1
<1>. QED
  BY <1>5, <1>6

\* s is m without the called frames after c, and without their records.
Unwound(m, s, c, Q, fs, k, p, dp) ==
  /\ Shaped(s) /\ s.exhdlr = m.exhdlr /\ s.R.FP = fs[p[c]]
  /\ DOMAIN s.frm = {a \in DOMAIN m.frm : \A i \in 1 .. k : i > c => a # fs[p[i]]}
  /\ s.frm = [a \in DOMAIN s.frm |-> s.frm[a]] /\ \A a \in DOMAIN s.frm : s.frm[a] = m.frm[a]
  /\ s.ext = [x \in DOMAIN s.ext |-> s.ext[x]]
  /\ DOMAIN s.ext = {x \in DOMAIN m.ext : \A i \in 1 .. k : i > c => x # fs[p[i]]}
  /\ \A x \in DOMAIN s.ext : s.ext[x] = m.ext[x]
  /\ Q \in 0 .. Len(m.exsp) /\ \A i \in 1 .. Len(m.exsp) : i <= Q <=> dp[i] > c
  /\ s.exsp \in Seq(RecSet) /\ Len(s.exsp) = Len(m.exsp) - Q
  /\ \A i \in 1 .. Len(m.exsp) - Q : s.exsp[i] = m.exsp[i + Q]

\* Before the first step of unwind.
LEMMA NotYet ==
  ASSUME NEW m, NEW n, NEW fs, NEW hm, NEW k, NEW p, NEW ms, NEW dp,
         Stack(m, n, fs, hm, k, p, ms, 0, dp)
  PROVE  Unwound(m, m, k, 0, fs, k, p, dp)
<1>0. /\ m \in VM /\ Parts(m) /\ Chained(m, n, fs, k, p, ms) /\ k \in Nat \ {0}
      /\ m.exsp \in Seq(RecSet) /\ Len(m.exsp) \in Nat /\ dp \in [0 + 1 .. Len(m.exsp) -> 1 .. k]
  BY StackParts
<1>1. Shaped(m)
  BY <1>0, VMShaped
<1>2. \A i \in 1 .. k : ~(i > k)
  BY <1>0
<1>3. \A i \in 1 .. Len(m.exsp) : i <= 0 <=> dp[i] > k
  <2>1. \A i \in 1 .. Len(m.exsp) : ~(i <= 0) /\ i \in 0 + 1 .. Len(m.exsp)
    BY <1>0
  <2>2. \A d \in 1 .. k : ~(d > k)
    BY <1>0
  <2>. QED
    BY <1>0, <2>1, <2>2
<1>4. 0 \in 0 .. Len(m.exsp) /\ Len(m.exsp) - 0 = Len(m.exsp) /\ \A i \in 1 .. Len(m.exsp) - 0 : i + 0 = i
  BY <1>0
<1>5. m.R.FP = fs[p[k]]
  BY <1>0 DEF Chained
<1>6. m.ext = [x \in DOMAIN m.ext |-> m.ext[x]] /\ m.frm = [x \in DOMAIN m.frm |-> m.frm[x]]
  BY <1>0 DEF Parts
<1>. QED
  BY <1>0, <1>1, <1>2, <1>3, <1>4, <1>5, <1>6 DEF Unwound

\* A frame that is the first of an extension, or no extension's.
LEMMA OpensOrNot ==
  ASSUME NEW m, NEW n, NEW fs, NEW hm, Stored(m), Tiled(m, n, fs, hm), Whole(m, n, fs, hm),
         NEW j \in 1 .. n
  PROVE  m.frm[fs[j]].t = nil <=> fs[j] \in DOMAIN m.ext
<1>1. fs[j] \in DOMAIN m.frm
  BY Within
<1>2. ASSUME m.frm[fs[j]].t = nil PROVE fs[j] \in DOMAIN m.ext
  BY <1>1, <1>2 DEF Stored
<1>3. ASSUME fs[j] \in DOMAIN m.ext PROVE m.frm[fs[j]].t = nil
  <2>1. PICK s \in 1 .. n : fs[s] = fs[j] /\ hm[s] = fs[j]
    BY <1>3, StartOf, WholeOpened
  <2>2. s = j
    BY <2>1, Distinct
  <2>. QED
    BY <2>1, <2>2 DEF Tiled
<1>. QED
  BY <1>2, <1>3

\* A step of unwind takes off a frame and its records.
LEMMA UnwindStep ==
  ASSUME NEW m, NEW n, NEW fs, NEW hm, NEW k, NEW p, NEW ms, NEW dp,
         Stack(m, n, fs, hm, k, p, ms, 0, dp),
         NEW s, NEW c \in 1 .. k, c > 1, NEW Q, Unwound(m, s, c, Q, fs, k, p, dp)
  PROVE  \E Q1 : Unwound(m, PopFrame(PopEx(s, s.R.FP)), c - 1, Q1, fs, k, p, dp)
<1> DEFINE L == Len(m.exsp)
           f == fs[p[c]]
           d == c - 1
           m1 == PopEx(s, f)
           m2 == PopFrame(m1)
<1>0. /\ m \in VM /\ Parts(m) /\ Stored(m) /\ Tiled(m, n, fs, hm) /\ Whole(m, n, fs, hm)
      /\ Chained(m, n, fs, k, p, ms) /\ Recorded(m, fs, hm, k, p, ms, 0, dp)
      /\ k \in Nat \ {0} /\ p \in [1 .. k -> 1 .. n]
      /\ \A u, v \in 1 .. k : u < v => p[u] < p[v]
      /\ L \in Nat /\ dp \in [0 + 1 .. L -> 1 .. k]
      /\ \A u, v \in 0 + 1 .. L : u < v => dp[v] <= dp[u]
  BY StackParts
<1>1. /\ c \in Nat /\ d \in Nat /\ d \in 1 .. k /\ d < c /\ c \in 2 .. k
      /\ \A i \in 1 .. k : (i > d <=> i > c \/ i = c)
  BY <1>0
<1>2. /\ Shaped(s) /\ s.exhdlr = m.exhdlr /\ s.R.FP = f
      /\ DOMAIN s.frm = {a \in DOMAIN m.frm : \A i \in 1 .. k : i > c => a # fs[p[i]]}
      /\ \A a \in DOMAIN s.frm : s.frm[a] = m.frm[a]
      /\ s.ext = [x \in DOMAIN s.ext |-> s.ext[x]]
      /\ DOMAIN s.ext = {x \in DOMAIN m.ext : \A i \in 1 .. k : i > c => x # fs[p[i]]}
      /\ \A x \in DOMAIN s.ext : s.ext[x] = m.ext[x]
      /\ Q \in 0 .. L /\ \A i \in 1 .. L : i <= Q <=> dp[i] > c
      /\ s.exsp \in Seq(RecSet) /\ Len(s.exsp) = L - Q
      /\ \A i \in 1 .. L - Q : s.exsp[i] = m.exsp[i + Q]
  BY DEF Unwound
<1> HIDE DEF d, L
<1>3. PICK Q1 \in 0 .. L : \A i \in 1 .. L : i <= Q1 <=> dp[i] > d
  BY <1>0, <1>1, Foremost
<1>4. Q \in Nat /\ Q1 \in Nat /\ Q <= Q1 /\ Q1 <= L /\ Q <= L
  <2>1. Q \in Nat /\ Q1 \in Nat /\ Q1 <= L /\ Q <= L
    BY <1>0, <1>2
  <2>2. CASE Q > 0
    <3>1. Q \in 1 .. L /\ Q <= Q
      BY <1>0, <2>1, <2>2
    <3>2. dp[Q] > c /\ dp[Q] \in Nat
      <4>1. Q \in 0 + 1 .. L
        BY <3>1
      <4>. QED
        BY <1>0, <1>2, <3>1, <4>1
    <3>3. dp[Q] > d
      BY <1>1, <3>2
    <3>. QED
      BY <1>3, <2>1, <3>1, <3>3
  <2>3. CASE Q = 0
    BY <2>1, <2>3
  <2>. QED
    BY <2>1, <2>2, <2>3
<1>5. /\ p[c] \in 1 .. n /\ f \in DOMAIN m.frm /\ \A i \in 1 .. k : i # c => f # fs[p[i]]
  <2>1. p[c] \in 1 .. n
    BY <1>0
  <2>2. f \in DOMAIN m.frm
    BY <1>0, <2>1, Within
  <2>3. ASSUME NEW i \in 1 .. k, fs[p[c]] = fs[p[i]] PROVE i = c
    <3>1. p[i] \in 1 .. n
      BY <1>0
    <3>2. p[c] = p[i]
      BY <1>0, <2>1, <2>3, <3>1, Distinct
    <3>3. ~(p[i] < p[c]) /\ ~(p[c] < p[i])
      BY <1>0, <2>1, <3>2
    <3>. QED
      BY <1>0, <1>1, <3>3
  <2>. QED
    BY <2>1, <2>2, <2>3
<1>6. /\ m.frm[f].fp = fs[p[d]] /\ m.frm[f] \in FrameSet
      /\ (m.frm[f].t = nil <=> f \in DOMAIN m.ext)
  <2>1. m.frm[f].fp = fs[p[d]]
    BY <1>0, <1>1 DEF Chained, d
  <2>2. m.frm[f] \in FrameSet
    BY <1>0, <1>5 DEF Parts
  <2>3. m.frm[f].t = nil <=> f \in DOMAIN m.ext
    BY <1>0, <1>5, OpensOrNot
  <2>. QED
    BY <2>1, <2>2, <2>3
<1>7. \A i \in 1 .. L : m.exsp[i].R.FP = f <=> dp[i] = c
  <2>1. TAKE i \in 1 .. L
  <2>2. m.exsp[i].R.FP = fs[p[c]] <=> (i > 0 /\ dp[i] = c)
    BY RecordFor DEF L
  <2>3. i > 0
    BY <1>0
  <2>. QED
    BY <2>2, <2>3
<1> HIDE DEF f
<1>8. f \in DOMAIN s.frm /\ s.frm[f] = m.frm[f]
  BY <1>1, <1>2, <1>5
<1>9. Shed(s, f, Q1 - Q, m1)
  <2>1. Q1 - Q \in 0 .. Len(s.exsp)
    BY <1>0, <1>2, <1>4
  <2>2. \A j \in 1 .. Q1 - Q : s.exsp[j].R.FP = f
    <3>1. TAKE j \in 1 .. Q1 - Q
    <3>2. j \in 1 .. L - Q /\ j + Q \in 1 .. L /\ j + Q <= Q1 /\ ~(j + Q <= Q)
      BY <1>0, <1>4
    <3>3. dp[j + Q] > d /\ ~(dp[j + Q] > c) /\ dp[j + Q] \in 1 .. k
      <4>1. j + Q \in 0 + 1 .. L
        BY <3>2
      <4>. QED
        BY <1>0, <1>2, <1>3, <3>2, <4>1
    <3>4. dp[j + Q] = c
      BY <1>1, <3>3
    <3>. QED
      BY <1>2, <1>7, <3>2, <3>4
  <2>3. ASSUME Q1 - Q < Len(s.exsp) PROVE s.exsp[(Q1 - Q) + 1].R.FP # f
    <3>1. PICK j : j = (Q1 - Q) + 1
      OBVIOUS
    <3>2. j \in 1 .. L - Q /\ j + Q \in 1 .. L /\ ~(j + Q <= Q1)
      BY <1>0, <1>2, <1>4, <2>3, <3>1
    <3>3. dp[j + Q] # c
      BY <1>1, <1>3, <3>2
    <3>. QED
      BY <1>2, <1>7, <3>1, <3>2, <3>3
  <2>4. PICK z : z = Q1 - Q
    OBVIOUS
  <2>5. /\ Shaped(s) /\ s.exsp \in Seq(RecSet) /\ f \in DOMAIN s.frm /\ s.frm[f] \in FrameSet
        /\ z \in 0 .. Len(s.exsp) /\ \A j \in 1 .. z : s.exsp[j].R.FP = f
        /\ z < Len(s.exsp) => s.exsp[z + 1].R.FP # f
    BY <1>2, <1>6, <1>8, <2>1, <2>2, <2>3, <2>4
  <2>6. Shed(s, f, z, PopEx(s, f))
    BY <2>5, PopExIs
  <2>. QED
    BY <2>4, <2>6
<1> HIDE DEF m1
<1>10. /\ Shaped(m1) /\ m1.R.FP = f /\ m1.ext = s.ext /\ m1.exhdlr = s.exhdlr
       /\ DOMAIN m1.frm = DOMAIN s.frm /\ \A b \in DOMAIN s.frm : b # f => m1.frm[b] = s.frm[b]
       /\ m1.frm[f].t = m.frm[f].t /\ m1.frm[f].fp = m.frm[f].fp
       /\ m1.exsp \in Seq(RecSet) /\ Len(m1.exsp) = Len(s.exsp) - (Q1 - Q)
       /\ \A i \in 1 .. Len(s.exsp) - (Q1 - Q) : m1.exsp[i] = s.exsp[i + (Q1 - Q)]
  BY <1>2, <1>8, <1>9 DEF Shed
<1>11. /\ Shaped(m2)
       /\ m2.frm = Drop(m1.frm, {f}) /\ m2.exsp = m1.exsp /\ m2.exhdlr = m1.exhdlr
       /\ m2.R.FP = m.frm[f].fp
       /\ m.frm[f].t = nil => m2.ext = Drop(m1.ext, {f})
       /\ m.frm[f].t # nil => m2.ext = m1.ext
  <2> HIDE DEF m2
  <2>. QED
    BY <1>10, PopIs DEF m2, Shaped
<1> HIDE DEF m2
<1>12. /\ DOMAIN m2.frm = {a \in DOMAIN m.frm : \A i \in 1 .. k : i > d => a # fs[p[i]]}
       /\ m2.frm = [a \in DOMAIN m2.frm |-> m2.frm[a]] /\ \A a \in DOMAIN m2.frm : m2.frm[a] = m.frm[a]
  <2>1. PICK g : g = Drop(m1.frm, {f})
    OBVIOUS
  <2>2. /\ DOMAIN g = (DOMAIN m1.frm) \ {f} /\ \A a \in (DOMAIN m1.frm) \ {f} : g[a] = m1.frm[a]
        /\ g = [a \in DOMAIN g |-> g[a]]
    BY <2>1 DEF Drop
  <2>3. /\ DOMAIN m2.frm = (DOMAIN s.frm) \ {f} /\ \A a \in DOMAIN m2.frm : m2.frm[a] = s.frm[a]
        /\ m2.frm = [a \in DOMAIN m2.frm |-> m2.frm[a]]
    BY <1>10, <1>11, <2>1, <2>2
  <2>4. \A a \in DOMAIN m.frm :
          (\A i \in 1 .. k : i > d => a # fs[p[i]]) <=> (a # f /\ \A i \in 1 .. k : i > c => a # fs[p[i]])
    BY <1>1 DEF f
  <2>. QED
    BY <1>2, <2>3, <2>4
<1>13. /\ m2.ext = [x \in DOMAIN m2.ext |-> m2.ext[x]]
       /\ DOMAIN m2.ext = {x \in DOMAIN m.ext : \A i \in 1 .. k : i > d => x # fs[p[i]]}
       /\ \A x \in DOMAIN m2.ext : m2.ext[x] = m.ext[x]
  <2>1. /\ m2.ext = [x \in DOMAIN m2.ext |-> m2.ext[x]]
        /\ DOMAIN m2.ext = (DOMAIN s.ext) \ {f} /\ \A x \in DOMAIN m2.ext : m2.ext[x] = s.ext[x]
    <3>1. CASE m.frm[f].t = nil
      <4>1. PICK g : g = Drop(m1.ext, {f})
        OBVIOUS
      <4>2. /\ DOMAIN g = (DOMAIN m1.ext) \ {f} /\ \A a \in (DOMAIN m1.ext) \ {f} : g[a] = m1.ext[a]
            /\ g = [x \in DOMAIN g |-> g[x]]
        BY <4>1 DEF Drop
      <4>3. m2.ext = g
        BY <1>11, <3>1, <4>1
      <4>. QED
        BY <1>10, <4>2, <4>3
    <3>2. CASE m.frm[f].t # nil
      <4>1. f \notin DOMAIN s.ext
        BY <1>2, <1>6, <3>2
      <4>2. m2.ext = s.ext
        BY <1>10, <1>11, <3>2
      <4>. QED
        BY <1>2, <4>1, <4>2
    <3>. QED
      BY <3>1, <3>2
  <2>2. \A a \in DOMAIN m.ext :
          (\A i \in 1 .. k : i > d => a # fs[p[i]]) <=> (a # f /\ \A i \in 1 .. k : i > c => a # fs[p[i]])
    BY <1>1 DEF f
  <2>. QED
    BY <1>2, <2>1, <2>2
<1>14. /\ m2.exsp \in Seq(RecSet) /\ Len(m2.exsp) = L - Q1
       /\ \A i \in 1 .. L - Q1 : m2.exsp[i] = m.exsp[i + Q1]
  <2>1. Len(s.exsp) - (Q1 - Q) = L - Q1
    BY <1>0, <1>2, <1>4
  <2>2. \A i \in 1 .. L - Q1 : i + (Q1 - Q) \in 1 .. L - Q /\ (i + (Q1 - Q)) + Q = i + Q1
    BY <1>0, <1>4
  <2>3. \A i \in 1 .. L - Q1 : m1.exsp[i] = s.exsp[i + (Q1 - Q)]
    BY <1>10, <2>1
  <2>4. \A i \in 1 .. L - Q1 : s.exsp[i + (Q1 - Q)] = m.exsp[i + Q1]
    BY <1>2, <2>2
  <2>. QED
    BY <1>10, <1>11, <2>1, <2>3, <2>4
<1>15. m2.exhdlr = m.exhdlr /\ m2.R.FP = fs[p[d]]
  BY <1>2, <1>6, <1>10, <1>11
<1>16. Unwound(m, m2, d, Q1, fs, k, p, dp)
  BY <1>3, <1>11, <1>12, <1>13, <1>14, <1>15 DEF Unwound, L
<1>17. f = s.R.FP
  BY <1>2
<1>. QED
  BY <1>16, <1>17 DEF m2, m1, d

\* A step of the loop.
Toward(s, to) == IF s.R.FP = to THEN s ELSE PopFrame(PopEx(s, s.R.FP))
Steps(f, m, to, N) == f = [i \in 0 .. N |-> IF i = 0 THEN m ELSE Toward(f[i - 1], to)]

\* The loop can be followed for any number of steps.
LEMMA LoopExists ==
  ASSUME NEW m, NEW to, NEW N \in Nat
  PROVE  \E f : Steps(f, m, to, N)
<1> DEFINE T == {t \in Nat : \E f : Steps(f, m, to, t)}
<1>1. 0 \in T
  <2> DEFINE f == [i \in 0 .. 0 |-> m]
  <2>1. \A i \in 0 .. 0 : i = 0
    OBVIOUS
  <2>2. f = [i \in 0 .. 0 |-> IF i = 0 THEN m ELSE Toward(f[i - 1], to)]
    BY <2>1
  <2> HIDE DEF f
  <2>3. Steps(f, m, to, 0)
    BY <2>2 DEF Steps
  <2>. QED
    BY <2>3
<1>2. \A t \in Nat : t \in T => t + 1 \in T
  <2>1. SUFFICES ASSUME NEW t \in Nat, t \in T PROVE t + 1 \in T
    OBVIOUS
  <2>2. PICK f : Steps(f, m, to, t)
    BY <2>1
  <2>3. \A i \in 0 .. t : f[i] = IF i = 0 THEN m ELSE Toward(f[i - 1], to)
    BY <2>2 DEF Steps
  <2> DEFINE g == [i \in 0 .. t + 1 |-> IF i <= t THEN f[i] ELSE Toward(f[t], to)]
  <2>4. \A i \in 0 .. t + 1 : g[i] = IF i = 0 THEN m ELSE Toward(g[i - 1], to)
    <3>1. TAKE i \in 0 .. t + 1
    <3>2. CASE i = 0
      <4>1. 0 \in 0 .. t /\ 0 <= t
        BY <2>1
      <4>2. g[i] = f[0]
        BY <3>2, <4>1
      <4>. QED
        BY <2>3, <3>2, <4>1, <4>2
    <3>3. CASE i # 0 /\ i <= t
      <4>1. i \in 0 .. t /\ i - 1 \in 0 .. t /\ i - 1 \in 0 .. t + 1 /\ i - 1 <= t
        BY <2>1, <3>3
      <4>2. g[i] = f[i] /\ g[i - 1] = f[i - 1]
        BY <3>3, <4>1
      <4> HIDE DEF g
      <4>. QED
        BY <2>3, <3>3, <4>1, <4>2
    <3>4. CASE i = t + 1
      <4>1. t \in 0 .. t + 1 /\ t <= t /\ ~(t + 1 <= t) /\ t + 1 # 0 /\ (t + 1) - 1 = t /\ t + 1 \in 0 .. t + 1
        BY <2>1
      <4>2. g[t + 1] = Toward(f[t], to) /\ g[t] = f[t]
        BY <4>1
      <4> HIDE DEF g
      <4>. QED
        BY <3>4, <4>1, <4>2
    <3>5. i = 0 \/ (i # 0 /\ i <= t) \/ i = t + 1
      BY <2>1
    <3> HIDE DEF g
    <3>. QED
      BY <3>2, <3>3, <3>4, <3>5
  <2>5. g = [i \in 0 .. t + 1 |-> g[i]]
    OBVIOUS
  <2> HIDE DEF g
  <2>6. g = [i \in 0 .. t + 1 |-> IF i = 0 THEN m ELSE Toward(g[i - 1], to)]
    BY <2>4, <2>5
  <2>7. Steps(g, m, to, t + 1)
    BY <2>6 DEF Steps
  <2>. QED
    BY <2>1, <2>7
<1>. HIDE DEF T
<1>3. N \in T
  BY <1>1, <1>2, SetInduction
<1>. QED
  BY <1>3 DEF T

\* The frames that were called are no more than the frames.
LEMMA Deep ==
  ASSUME NEW m, NEW n, NEW fs, NEW hm, NEW k, NEW p, NEW ms, NEW q, NEW dp,
         Stack(m, n, fs, hm, k, p, ms, q, dp)
  PROVE  Cardinality(DOMAIN m.frm) \in Nat /\ k <= Cardinality(DOMAIN m.frm)
<1> DEFINE D == DOMAIN m.frm
           g == [i \in 1 .. k |-> fs[p[i]]]
<1>0. /\ Stored(m) /\ Tiled(m, n, fs, hm) /\ Whole(m, n, fs, hm) /\ n \in Nat \ {0}
      /\ k \in Nat \ {0} /\ p \in [1 .. k -> 1 .. n]
      /\ \A u, v \in 1 .. k : u < v => p[u] < p[v]
  BY StackParts
<1>1. IsFiniteSet(D)
  <2>1. fs \in [1 .. n -> D] /\ \A a \in D : \E j \in 1 .. n : fs[j] = a
    BY <1>0 DEF Tiled, Whole
  <2>2. IsFiniteSet(1 .. n)
    BY <1>0, FS_Interval
  <2> HIDE DEF D
  <2>3. fs \in Surjection(1 .. n, D)
    BY <2>1 DEF Surjection
  <2>. QED
    BY <2>2, <2>3, FS_Surjection
<1>2. \A i \in 1 .. k : fs[p[i]] \in D
  <2>1. \A i \in 1 .. k : p[i] \in 1 .. n
    BY <1>0
  <2>. QED
    BY <1>0, <2>1, Within
<1>3. ASSUME NEW i \in 1 .. k, NEW j \in 1 .. k, fs[p[i]] = fs[p[j]] PROVE i = j
  <2>1. p[i] \in 1 .. n /\ p[j] \in 1 .. n
    BY <1>0
  <2>2. \A a, b \in 1 .. n : fs[a] = fs[b] => a = b
    <3>1. Stored(m) /\ Tiled(m, n, fs, hm)
      BY <1>0
    <3>. QED
      BY <3>1, Distinct
  <2>3. ~(i < j) /\ ~(j < i)
    <3>1. p[i] = p[j]
      BY <1>3, <2>1, <2>2
    <3>. QED
      BY <1>0, <2>1, <3>1
  <2>4. i \in Int /\ j \in Int
    OBVIOUS
  <2>. QED
    BY <2>3, <2>4
<1> HIDE DEF D
<1>4. g \in [1 .. k -> D] /\ \A i \in 1 .. k : g[i] = fs[p[i]]
  BY <1>2
<1> HIDE DEF g
<1>5. g \in Injection(1 .. k, D)
  BY <1>3, <1>4 DEF Injection, IsInjective
<1>6. Cardinality(1 .. k) <= Cardinality(D)
  BY <1>1, <1>5, FS_Injection
<1>7. Cardinality(1 .. k) = k
  <2>1. Cardinality(1 .. k) = IF 1 > k THEN 0 ELSE k - 1 + 1
    BY <1>0, FS_Interval
  <2>. QED
    BY <1>0, <2>1
<1>8. Cardinality(D) \in Nat
  BY <1>1, FS_CardinalityType
<1>. QED
  BY <1>6, <1>7, <1>8 DEF D

\* Unwind stops at the frame of the handler.
LEMMA UnwindSteps ==
  ASSUME NEW m, NEW to, NEW N, N = Cardinality(DOMAIN m.frm), N \in Nat
  PROVE  \E f : Steps(f, m, to, N) /\ Unwind(m, to) = f[N]
<1>1. PICK g : Steps(g, m, to, N)
  BY LoopExists
<1> DEFINE after[i \in 0 .. Cardinality(DOMAIN m.frm)] ==
             IF i = 0 THEN m
             ELSE LET s == after[i - 1] IN IF s.R.FP = to THEN s ELSE PopFrame(PopEx(s, s.R.FP))
<1>2. Steps(after, m, to, N)
  <2>1. g = [i \in 0 .. Cardinality(DOMAIN m.frm) |-> IF i = 0 THEN m
               ELSE LET s == g[i - 1] IN IF s.R.FP = to THEN s ELSE PopFrame(PopEx(s, s.R.FP))]
    BY <1>1 DEF Steps, Toward
  <2>2. after = [i \in 0 .. Cardinality(DOMAIN m.frm) |-> IF i = 0 THEN m
                   ELSE LET s == after[i - 1] IN IF s.R.FP = to THEN s ELSE PopFrame(PopEx(s, s.R.FP))]
    BY <2>1
  <2> HIDE DEF after
  <2>. QED
    BY <2>2 DEF Steps, Toward
<1>3. Unwind(m, to) = after[Cardinality(DOMAIN m.frm)]
  BY Zenon DEF Unwind
<1> HIDE DEF after
<1>. QED
  BY <1>2, <1>3

\* unwind leaves the called frames up to that of the handler.
LEMMA UnwindIs ==
  ASSUME NEW m, NEW n, NEW fs, NEW hm, NEW k, NEW p, NEW ms, NEW dp,
         Stack(m, n, fs, hm, k, p, ms, 0, dp), NEW d \in 1 .. k
  PROVE  \E Q : Unwound(m, Unwind(m, fs[p[d]]), d, Q, fs, k, p, dp)
<1> DEFINE N == Cardinality(DOMAIN m.frm)
           to == fs[p[d]]
<1>0. /\ Stored(m) /\ Tiled(m, n, fs, hm) /\ k \in Nat \ {0} /\ p \in [1 .. k -> 1 .. n]
      /\ \A u, v \in 1 .. k : u < v => p[u] < p[v]
  BY StackParts
<1>1. N \in Nat /\ k <= N
  BY Deep
<1>2. PICK f : Steps(f, m, to, N) /\ Unwind(m, to) = f[N]
  BY <1>1, UnwindSteps
<1> HIDE DEF N, to
<1>3. f[0] = m /\ \A i \in 1 .. N : f[i] = Toward(f[i - 1], to)
  <2>1. 0 \in 0 .. N /\ \A i \in 1 .. N : i \in 0 .. N /\ i # 0
    BY <1>1
  <2>2. \A i \in 0 .. N : f[i] = IF i = 0 THEN m ELSE Toward(f[i - 1], to)
    BY <1>2 DEF Steps
  <2>. QED
    BY <2>1, <2>2
<1> DEFINE Reached(t) == \E c \in d .. k : \E Q :
                           /\ Unwound(m, f[t], c, Q, fs, k, p, dp)
                           /\ c = d \/ c + t = k
           T == {t \in Nat : t <= N => Reached(t)}
<1>4. d \in Nat /\ d >= 1 /\ d <= k /\ k \in d .. k /\ d \in d .. k /\ \A c \in d .. k : c \in 1 .. k /\ c \in Nat
  BY <1>0
<1>5. 0 \in T
  <2>1. Unwound(m, f[0], k, 0, fs, k, p, dp)
    BY <1>3, NotYet
  <2>2. k + 0 = k
    BY <1>0
  <2>. QED
    BY <1>4, <2>1, <2>2
<1>6. \A t \in Nat : t \in T => t + 1 \in T
  <2> HIDE DEF Reached
  <2>1. SUFFICES ASSUME NEW t \in Nat, t \in T, t + 1 <= N PROVE Reached(t + 1)
    OBVIOUS
  <2>2. t <= N /\ t + 1 \in 1 .. N /\ (t + 1) - 1 = t
    BY <1>1, <2>1
  <2>3. PICK c, Q : c \in d .. k /\ Unwound(m, f[t], c, Q, fs, k, p, dp) /\ (c = d \/ c + t = k)
    <3>1. Reached(t)
      BY <2>1, <2>2
    <3>. QED
      BY <3>1 DEF Reached
  <2>4. f[t + 1] = Toward(f[t], to) /\ f[t].R.FP = fs[p[c]]
    <3>1. f[t].R.FP = fs[p[c]]
      BY <2>3 DEF Unwound
    <3>. QED
      BY <1>3, <2>2, <3>1
  <2>5. CASE c = d
    <3>1. f[t + 1] = f[t]
      BY <2>4, <2>5 DEF Toward, to
    <3>. QED
      BY <1>4, <2>3, <2>5, <3>1 DEF Reached
  <2>6. CASE c # d
    <3>1. c \in 1 .. k /\ c > 1 /\ c - 1 \in d .. k /\ (c - 1) + (t + 1) = k /\ d < c
      BY <1>0, <1>4, <2>3, <2>6
    <3>2. fs[p[c]] # to
      <4>1. p[c] \in 1 .. n /\ p[d] \in 1 .. n /\ p[d] < p[c]
        BY <1>0, <3>1
      <4>2. p[c] # p[d]
        BY <4>1
      <4>. QED
        BY <1>0, <4>1, <4>2, Distinct DEF to
    <3>3. f[t + 1] = PopFrame(PopEx(f[t], f[t].R.FP))
      BY <2>4, <3>2 DEF Toward
    <3>4. PICK s : s = f[t]
      OBVIOUS
    <3>5. Unwound(m, s, c, Q, fs, k, p, dp)
      BY <2>3, <3>4
    <3>6. PICK Q1 : Unwound(m, PopFrame(PopEx(s, s.R.FP)), c - 1, Q1, fs, k, p, dp)
      BY <3>1, <3>5, UnwindStep
    <3>7. Unwound(m, f[t + 1], c - 1, Q1, fs, k, p, dp)
      BY <3>3, <3>4, <3>6
    <3>. QED
      BY <3>1, <3>7 DEF Reached
  <2>. QED
    BY <2>5, <2>6
<1>7. N \in T
  <2> HIDE DEF T
  <2>. QED
    BY <1>1, <1>5, <1>6, SetInduction
<1>8. PICK c, Q : c \in d .. k /\ Unwound(m, f[N], c, Q, fs, k, p, dp) /\ (c = d \/ c + N = k)
  <2>1. N <= N
    BY <1>1
  <2>. QED
    BY <1>7, <2>1
<1>9. c = d
  BY <1>1, <1>4, <1>8
<1>. QED
  BY <1>2, <1>8, <1>9 DEF to

\* The records left are for the frames left.
LEMMA RecordedAfter ==
  ASSUME NEW m, NEW n, NEW fs, NEW hm, NEW k, NEW p, NEW ms, NEW dp,
         Stack(m, n, fs, hm, k, p, ms, 0, dp), NEW d \in 1 .. k, NEW j, j = p[d],
         NEW Q \in 0 .. Len(m.exsp), \A i \in 1 .. Len(m.exsp) : i <= Q <=> dp[i] > d,
         NEW m1, m1 \in VM, Cut(m, m1, j, fs, hm), \A i \in 1 .. j : m1.frm[fs[i]] = m.frm[fs[i]],
         Len(m1.exsp) = Len(m.exsp) - Q, \A i \in 1 .. Len(m.exsp) - Q : m1.exsp[i] = m.exsp[i + Q]
  PROVE  \E dq : Recorded(m1, Upto(fs, j), Upto(hm, j), d, Upto(p, d), Upto(ms, d), 0, dq)
<1> DEFINE L == Len(m.exsp)
           dq == [i \in 0 + 1 .. L - Q |-> dp[i + Q]]
<1>0. /\ Stored(m) /\ Tiled(m, n, fs, hm) /\ Chained(m, n, fs, k, p, ms)
      /\ Recorded(m, fs, hm, k, p, ms, 0, dp)
      /\ n \in Nat \ {0} /\ k \in Nat \ {0} /\ p \in [1 .. k -> 1 .. n]
      /\ \A u, v \in 1 .. k : u < v => p[u] < p[v]
      /\ L \in Nat /\ dp \in [0 + 1 .. L -> 1 .. k]
      /\ \A u, v \in 0 + 1 .. L : u < v => dp[v] <= dp[u]
  BY StackParts
<1>1. /\ \A i \in 1 .. L : i <= Q <=> dp[i] > d
      /\ Len(m1.exsp) = L - Q /\ \A i \in 1 .. L - Q : m1.exsp[i] = m.exsp[i + Q]
  OBVIOUS
<1> HIDE DEF L
<1>2. Q \in Nat /\ L \in Nat /\ Q <= L /\ L - Q \in Nat
  BY <1>0 DEF L
<1>3. j \in 1 .. n /\ d \in Nat /\ d >= 1 /\ p[d] <= j
  BY <1>0
<1>4. \A i \in 0 + 1 .. L - Q :
        /\ i \in 1 .. L - Q /\ i + Q \in 0 + 1 .. L /\ i + Q \in 1 .. L /\ ~(i + Q <= Q) /\ dq[i] = dp[i + Q]
  BY <1>2
<1>5. \A i \in 0 + 1 .. L : i > Q => i - Q \in 0 + 1 .. L - Q /\ (i - Q) + Q = i /\ i \in 1 .. L
  BY <1>2
<1>6. \A i \in 0 + 1 .. L - Q : dp[i + Q] \in 1 .. d
  <2>1. TAKE i \in 0 + 1 .. L - Q
  <2>2. dp[i + Q] \in 1 .. k /\ ~(dp[i + Q] > d)
    BY <1>0, <1>1, <1>4
  <2>. QED
    BY <1>3, <2>2
<1>7. dq \in [0 + 1 .. L - Q -> 1 .. d]
  BY <1>6
<1> HIDE DEF dq
<1>8. ASSUME NEW i \in 0 + 1 .. L - Q
      PROVE  Saved(m1, m1.exsp[i], dq[i], Upto(fs, j), Upto(hm, j), Upto(p, d), Upto(ms, d))
  <2>1. Saved(m, m.exsp[i + Q], dp[i + Q], fs, hm, p, ms)
    BY <1>0, <1>4 DEF Recorded, L
  <2>2. PICK e, c : e = m.exsp[i + Q] /\ c = dp[i + Q]
    OBVIOUS
  <2>3. c \in 1 .. d /\ Saved(m, e, c, fs, hm, p, ms)
    BY <1>6, <2>1, <2>2
  <2>4. Saved(m1, e, c, Upto(fs, j), Upto(hm, j), Upto(p, d), Upto(ms, d))
    BY <1>0, <1>3, <2>3, CutSaved
  <2>. QED
    BY <1>1, <1>4, <2>2, <2>4
<1>9. \A u, v \in 0 + 1 .. L - Q : u < v => dq[v] <= dq[u]
  <2>1. \A u, v \in 0 + 1 .. L - Q : u < v => u + Q < v + Q
    BY <1>2
  <2>. QED
    BY <1>0, <1>4, <2>1
<1>10. ASSUME NEW c \in 1 .. d
       PROVE  Returns(m1.frm[Upto(fs, j)[Upto(p, d)[c]]].lr, c, \E i \in 0 + 1 .. L - Q : dq[i] = c, Upto(ms, d))
  <2>1. c \in 1 .. k /\ (c > 1 => c - 1 \in 1 .. d) /\ (c = d \/ c < d) /\ ~(c > d)
    BY <1>0, <1>3
  <2>2. p[c] \in 1 .. j
    <3>1. p[c] \in 1 .. n /\ p[d] \in 1 .. n
      BY <1>0, <2>1
    <3>2. p[c] <= p[d]
      BY <1>0, <2>1, <3>1
    <3>. QED
      BY <3>1, <3>2
  <2>3. Upto(p, d)[c] = p[c] /\ Upto(fs, j)[p[c]] = fs[p[c]] /\ (c > 1 => Upto(ms, d)[c - 1] = ms[c - 1])
    BY <2>1, <2>2 DEF Upto
  <2>4. Returns(m.frm[fs[p[c]]].lr, c, \E i \in 0 + 1 .. L : dp[i] = c, ms)
    BY <1>0, <2>1 DEF Recorded, L
  <2>5. (\E i \in 0 + 1 .. L : dp[i] = c) <=> (\E i \in 0 + 1 .. L - Q : dq[i] = c)
    <3>1. ASSUME NEW i \in 0 + 1 .. L, dp[i] = c PROVE \E z \in 0 + 1 .. L - Q : dq[z] = c
      <4>1. i \in 1 .. L /\ i \in Nat
        BY <1>2
      <4>2. ~(i <= Q)
        BY <1>1, <2>1, <3>1, <4>1
      <4>3. i > Q
        BY <1>2, <4>1, <4>2
      <4>4. i - Q \in 0 + 1 .. L - Q /\ dq[i - Q] = dp[i]
        BY <1>4, <1>5, <4>3
      <4>. QED
        BY <3>1, <4>4
    <3>2. ASSUME NEW i \in 0 + 1 .. L - Q, dq[i] = c PROVE \E z \in 0 + 1 .. L : dp[z] = c
      BY <1>4, <3>2
    <3>. QED
      BY <3>1, <3>2
  <2>6. m1.frm[fs[p[c]]] = m.frm[fs[p[c]]]
    BY <2>2
  <2>. QED
    BY <2>3, <2>4, <2>5, <2>6 DEF Returns
<1>11. PICK M : M = Len(m1.exsp)
  OBVIOUS
<1>12. M = L - Q /\ 0 \in 0 .. M /\ \A i \in 1 .. 0 : FALSE
  BY <1>1, <1>2, <1>11
<1>13. PICK f1, h1, p1, s1 : f1 = Upto(fs, j) /\ h1 = Upto(hm, j) /\ p1 = Upto(p, d) /\ s1 = Upto(ms, d)
  OBVIOUS
<1>14. \A c \in 1 .. d : Returns(m1.frm[f1[p1[c]]].lr, c, \E i \in 0 + 1 .. M : dq[i] = c, s1)
  BY <1>10, <1>12, <1>13
<1>15. \A i \in 0 + 1 .. M : Saved(m1, m1.exsp[i], dq[i], f1, h1, p1, s1)
  BY <1>8, <1>12, <1>13
<1>16. Recorded(m1, f1, h1, d, p1, s1, 0, dq)
  BY <1>7, <1>9, <1>11, <1>12, <1>14, <1>15 DEF Recorded
<1>. QED
  BY <1>13, <1>16

\* An error that a rescue handles.
LEMMA HandledKeeps ==
  ASSUME NEW m, NEW n, NEW fs, NEW hm, NEW k, NEW p, NEW ms, NEW dp,
         Stack(m, n, fs, hm, k, p, ms, 0, dp), ~OpensExtension(m),
         NEW err, Handlers(m, err) # {}
  PROVE  Good(Handled(m, err))
<1> DEFINE L == Len(m.exsp)
           I == Min(Handlers(m, err))
           h == m.exsp[I]
           d == dp[I]
           j == p[d]
           u == Unwind(m, h.R.FP)
           m2 == [u EXCEPT !.R = h.R]
           m1 == [m2 EXCEPT !.frm = Restrict(m2.frm, Laid(m2)), !.exhdlr = h.id]
<1>0. /\ m \in VM /\ Parts(m) /\ Stored(m) /\ Tiled(m, n, fs, hm) /\ Whole(m, n, fs, hm)
      /\ Describes(m, m.R, n, fs, hm) /\ Chained(m, n, fs, k, p, ms)
      /\ Recorded(m, fs, hm, k, p, ms, 0, dp)
      /\ n \in Nat \ {0} /\ fs \in [1 .. n -> Nat] /\ k \in Nat \ {0}
      /\ p \in [1 .. k -> 1 .. n] /\ ms \in [1 .. k -> Mods]
      /\ \A a, b \in 1 .. k : a < b => p[a] < p[b]
      /\ m.exsp \in Seq(RecSet) /\ L \in Nat /\ dp \in [0 + 1 .. L -> 1 .. k]
  BY StackParts
<1>a. Stored(m) /\ Tiled(m, n, fs, hm) /\ Whole(m, n, fs, hm) /\ Chained(m, n, fs, k, p, ms)
  BY <1>0
<1>b. \A a, b \in 1 .. n : fs[a] = fs[b] => a = b
  BY <1>a, Distinct
<1>c. \A b \in 1 .. n : \E s \in 1 .. b : hm[s] = fs[s] /\ \A z \in s .. b : hm[z] = hm[b]
  BY <1>a, Start
<1>d. Chain(m) = [i \in 1 .. k |-> fs[p[i]]]
  BY <1>a, ChainIs
<1>1. I \in 1 .. L /\ h.R.FP \in DOMAIN m.frm
  <2>1. Handlers(m, err) \subseteq 1 .. L
    BY DEF Handlers
  <2>2. Handlers(m, err) \subseteq Nat
    BY <1>0, <2>1
  <2>3. I \in Handlers(m, err)
    BY <2>2, MinIs
  <2>4. Laid(m) = DOMAIN m.frm
    BY <1>0, LaidIs
  <2> HIDE DEF I
  <2>. QED
    BY <2>1, <2>3, <2>4 DEF Handlers, activated
<1>2. Handled(m, err) = m1
  BY DEF Handled
<1> HIDE DEF I, L
<1>3. I \in 0 + 1 .. L /\ d \in 1 .. k /\ h \in RecSet /\ h.R \in Regs /\ h.id \in Nat
  <2>1. I \in 0 + 1 .. L /\ h \in RecSet
    BY <1>0, <1>1, ElementOfSeq DEF L
  <2>2. h.R \in Regs /\ h.id \in Nat
    <3> HIDE DEF h
    <3>. QED
      BY <2>1 DEF RecSet
  <2>. QED
    BY <1>0, <2>1, <2>2
<1>4. /\ h.R.FP = fs[j] /\ Describes(m, h.R, j, fs, hm) /\ h.R.M = ms[d] /\ ms[d] \in Module
      /\ h.R.PC.mod = ms[d] /\ h.R.PC.at \in Label
  <2>1. Saved(m, h, d, fs, hm, p, ms)
    BY <1>0, <1>3 DEF Recorded, L
  <2> HIDE DEF h, d
  <2>. QED
    BY <2>1 DEF Saved
<1> HIDE DEF h, d
<1>5. PICK Q : Unwound(m, u, d, Q, fs, k, p, dp)
  <2>1. PICK Q : Unwound(m, Unwind(m, fs[p[d]]), d, Q, fs, k, p, dp)
    BY <1>3, UnwindIs
  <2>. QED
    BY <1>4, <2>1
<1> HIDE DEF u
<1>6. /\ Shaped(u) /\ u.exhdlr = m.exhdlr
      /\ DOMAIN u.frm = {a \in DOMAIN m.frm : \A i \in 1 .. k : i > d => a # fs[p[i]]}
      /\ u.frm = [a \in DOMAIN u.frm |-> u.frm[a]] /\ \A a \in DOMAIN u.frm : u.frm[a] = m.frm[a]
      /\ u.ext = [x \in DOMAIN u.ext |-> u.ext[x]]
      /\ DOMAIN u.ext = {x \in DOMAIN m.ext : \A i \in 1 .. k : i > d => x # fs[p[i]]}
      /\ \A x \in DOMAIN u.ext : u.ext[x] = m.ext[x]
      /\ Q \in 0 .. L /\ \A i \in 1 .. L : i <= Q <=> dp[i] > d
      /\ u.exsp \in Seq(RecSet) /\ Len(u.exsp) = L - Q
      /\ \A i \in 1 .. L - Q : u.exsp[i] = m.exsp[i + Q]
  BY <1>5 DEF Unwound, L
<1>7. /\ m2 = [R |-> m2.R, frm |-> m2.frm, ext |-> m2.ext, exsp |-> m2.exsp, exhdlr |-> m2.exhdlr]
      /\ m2.R = h.R /\ m2.frm = u.frm /\ m2.ext = u.ext /\ m2.exsp = u.exsp /\ m2.exhdlr = m.exhdlr
  <2>1. u = [R |-> u.R, frm |-> u.frm, ext |-> u.ext, exsp |-> u.exsp, exhdlr |-> u.exhdlr]
    BY <1>6 DEF Shaped
  <2>. QED
    BY <1>6, <2>1
<1> HIDE DEF m2
<1>8. /\ j \in 1 .. n /\ j \in Nat /\ \A i \in 1 .. j : i \in 1 .. n
      /\ \A i \in 1 .. k : i > d => p[i] \in 1 .. n /\ p[i] > j
      /\ \A i \in 1 .. k : ~(i > d) => p[i] \in 1 .. j
  <2>1. j \in 1 .. n
    BY <1>0, <1>3
  <2>2. j \in Nat /\ \A i \in 1 .. j : i \in 1 .. n
    <3>1. PICK b, c : b = j /\ c = n
      OBVIOUS
    <3>2. c \in Nat /\ b \in 1 .. c
      BY <1>0, <2>1, <3>1
    <3>3. b \in Nat /\ \A i \in 1 .. b : i \in 1 .. c
      BY <3>2
    <3>. QED
      BY <3>1, <3>3
  <2>3. \A i \in 1 .. k : i > d => p[i] \in 1 .. n /\ p[i] > j
    <3>1. TAKE i \in 1 .. k
    <3>2. HAVE i > d
    <3>3. p[i] \in 1 .. n /\ p[d] < p[i]
      <4>1. d < i
        BY <1>0, <1>3, <3>2
      <4>. QED
        BY <1>0, <1>3, <4>1
    <3>. QED
      BY <2>2, <3>3
  <2>4. \A i \in 1 .. k : ~(i > d) => p[i] \in 1 .. j
    <3>1. TAKE i \in 1 .. k
    <3>2. HAVE ~(i > d)
    <3>3. i = d \/ i < d
      BY <1>0, <1>3, <3>2
    <3>4. p[i] \in 1 .. n /\ (i = d \/ p[i] < p[d])
      BY <1>0, <1>3, <3>3
    <3>. QED
      BY <2>2, <3>4
  <2>. QED
    BY <2>1, <2>2, <2>3, <2>4
<1> HIDE DEF j
<1>9. ASSUME NEW a \in 1 .. j, NEW i \in 1 .. k, i > d PROVE fs[a] # fs[p[i]]
  <2>1. a \in 1 .. n /\ p[i] \in 1 .. n /\ p[i] > j /\ a <= j /\ a \in Nat
    BY <1>8, <1>9
  <2>2. a # p[i]
    BY <1>8, <2>1
  <2>. QED
    BY <1>b, <2>1, <2>2
<1>10. Keeps(m, m2, j, fs, hm)
  <2>1. ASSUME NEW i \in 1 .. j PROVE fs[i] \in DOMAIN u.frm
    <3>1. fs[i] \in DOMAIN m.frm
      BY <1>0, <1>8, Within
    <3>. QED
      BY <1>6, <1>9, <3>1
  <2>2. ASSUME NEW i \in 1 .. j PROVE hm[i] \in DOMAIN u.ext
    <3>1. hm[i] \in DOMAIN m.ext /\ i \in 1 .. n
      BY <1>0, <1>8, Within
    <3>2. PICK s \in 1 .. i : hm[s] = fs[s] /\ \A z \in s .. i : hm[z] = hm[i]
      BY <1>c, <3>1
    <3>3. s \in s .. i /\ s \in 1 .. j
      BY <1>8, <3>1
    <3>4. hm[i] = fs[s]
      BY <3>2, <3>3
    <3>. QED
      BY <1>6, <1>9, <3>1, <3>3, <3>4
  <2>3. ASSUME NEW x \in DOMAIN u.ext PROVE \E i \in 1 .. j : x = hm[i]
    <3>1. x \in DOMAIN m.ext /\ \A i \in 1 .. k : i > d => x # fs[p[i]]
      BY <1>6
    <3>2. x \in Range(Chain(m))
      BY <3>1 DEF OpensExtension
    <3>4. PICK i \in 1 .. k : x = fs[p[i]]
      BY <1>d, <3>2 DEF Range
    <3>5. p[i] \in 1 .. j /\ p[i] \in 1 .. n
      BY <1>8, <3>1, <3>4
    <3>6. PICK s \in 1 .. n : fs[s] = x /\ hm[s] = x
      BY <1>0, <3>1, StartOf, WholeOpened
    <3>7. s = p[i]
      BY <1>b, <3>4, <3>5, <3>6
    <3>. QED
      BY <3>5, <3>6, <3>7
  <2>4. \A i \in 1 .. j : u.frm[fs[i]] = m.frm[fs[i]] /\ u.ext[hm[i]] = m.ext[hm[i]]
    BY <1>6, <2>1, <2>2
  <2>. QED
    BY <1>7, <2>1, <2>2, <2>3, <2>4 DEF Keeps
<1>11. m2 \in VM
  <2>1. Parts(m2)
    <3>1. \A a \in DOMAIN u.frm : a \in Nat \ {0} /\ u.frm[a] \in FrameSet
      BY <1>0, <1>6 DEF Parts
    <3>2. \A x \in DOMAIN u.ext : x \in Nat \ {0} /\ u.ext[x] \in ExtSet
      BY <1>0, <1>6 DEF Parts
    <3>3. m.exhdlr \in Nat
      BY <1>0 DEF Parts
    <3>. QED
      BY <1>3, <1>6, <1>7, <3>1, <3>2, <3>3 DEF Parts
  <2>. QED
    BY <1>7, <2>1, OfParts
<1>12. Stored(m2)
  <2>1. ASSUME NEW a \in DOMAIN m2.frm, m2.frm[a].t = nil PROVE a \in DOMAIN m2.ext
    <3>1. a \in DOMAIN m.frm /\ m.frm[a].t = nil
      BY <1>6, <1>7, <2>1
    <3>2. a \in DOMAIN m.ext
      BY <1>0, <3>1 DEF Stored
    <3>. QED
      BY <1>6, <1>7, <2>1, <3>2
  <2>2. ASSUME NEW x \in DOMAIN m2.ext PROVE x \in Ext /\ \A y \in Ext : x < y => Top(m2, x) < y
    <3>1. x \in DOMAIN m.ext /\ m2.ext[x] = m.ext[x]
      BY <1>6, <1>7
    <3>2. Top(m2, x) = Top(m, x)
      BY <3>1 DEF Top
    <3>. QED
      BY <1>0, <3>1, <3>2, TopIs
  <2>. QED
    BY <1>11, <2>1, <2>2 DEF Stored
<1>13. Laid(m2) = {fs[i] : i \in 1 .. j}
  <2>1. /\ Tiled(m2, j, Upto(fs, j), Upto(hm, j)) /\ Opened(m2, j, Upto(hm, j))
        /\ \A i \in 1 .. j : \A r : Describes(m, r, i, fs, hm) <=> Describes(m2, r, i, Upto(fs, j), Upto(hm, j))
    BY <1>0, <1>8, <1>10, <1>11, KeepsTiled
  <2>2. Describes(m2, m2.R, j, Upto(fs, j), Upto(hm, j))
    <3>1. j \in 1 .. j
      BY <1>8
    <3>. QED
      BY <1>4, <1>7, <2>1, <3>1
  <2>3. LaidSeq(m2) = Upto(fs, j)
    BY <1>12, <2>1, <2>2, LaidSeqIs
  <2>. QED
    BY <2>3 DEF Laid, Range, Upto
<1>14. /\ m1 = [R |-> m1.R, frm |-> m1.frm, ext |-> m1.ext, exsp |-> m1.exsp, exhdlr |-> m1.exhdlr]
       /\ m1.R = h.R /\ m1.ext = u.ext /\ m1.exsp = u.exsp /\ m1.exhdlr = h.id
       /\ m1.frm = Restrict(m2.frm, Laid(m2))
  <2>1. PICK F, v : F = Restrict(m2.frm, Laid(m2)) /\ v = h.id
    OBVIOUS
  <2>2. m1 = [m2 EXCEPT !.frm = F, !.exhdlr = v]
    BY <2>1
  <2> HIDE DEF m1
  <2>. QED
    BY <1>7, <2>1, <2>2
<1> HIDE DEF m1
<1>15. /\ DOMAIN m1.frm = {fs[i] : i \in 1 .. j} /\ m1.frm = [a \in DOMAIN m1.frm |-> m1.frm[a]]
       /\ \A i \in 1 .. j : m1.frm[fs[i]] = m.frm[fs[i]]
  <2>1. PICK g : g = Restrict(m2.frm, Laid(m2))
    OBVIOUS
  <2>2. DOMAIN g = Laid(m2) /\ g = [a \in DOMAIN g |-> g[a]] /\ \A a \in Laid(m2) : g[a] = m2.frm[a]
    BY <2>1 DEF Restrict
  <2>3. \A i \in 1 .. j : u.frm[fs[i]] = m.frm[fs[i]]
    BY <1>6, <1>7, <1>10 DEF Keeps
  <2>. QED
    BY <1>7, <1>13, <1>14, <2>1, <2>2, <2>3
<1>16. Cut(m, m1, j, fs, hm)
  BY <1>7, <1>10, <1>14, <1>15 DEF Cut, Keeps
<1>17. m1 \in VM
  <2>1. Parts(m1)
    <3>1. \A i \in 1 .. j : fs[i] \in DOMAIN m.frm
      BY <1>0, <1>8, Within
    <3>2. \A a \in DOMAIN m1.frm : a \in Nat \ {0} /\ m1.frm[a] \in FrameSet
      BY <1>0, <1>15, <3>1 DEF Parts
    <3>3. \A x \in DOMAIN u.ext : x \in Nat \ {0} /\ u.ext[x] \in ExtSet
      BY <1>0, <1>6 DEF Parts
    <3>. QED
      BY <1>3, <1>6, <1>14, <1>15, <3>2, <3>3 DEF Parts
  <2>. QED
    BY <1>14, <2>1, OfParts
<1>18. Stored(m1)
  BY <1>0, <1>8, <1>16, <1>17, CutStored
<1>19. /\ Tiled(m1, j, Upto(fs, j), Upto(hm, j)) /\ Whole(m1, j, Upto(fs, j), Upto(hm, j))
       /\ Describes(m1, m1.R, j, Upto(fs, j), Upto(hm, j))
  <2>1. /\ Tiled(m1, j, Upto(fs, j), Upto(hm, j)) /\ Whole(m1, j, Upto(fs, j), Upto(hm, j))
        /\ \A i \in 1 .. j : \A x : Describes(m, x, i, fs, hm) <=> Describes(m1, x, i, Upto(fs, j), Upto(hm, j))
    BY <1>0, <1>8, <1>16, <1>17, CutTiled
  <2>2. j \in 1 .. j
    BY <1>8
  <2>. QED
    BY <1>4, <1>14, <2>1, <2>2
<1>20. Chained(m1, j, Upto(fs, j), d, Upto(p, d), Upto(ms, d))
  <2>1. p[d] <= j /\ (d < k => p[d + 1] > j)
    <3>1. p[d] = j
      BY DEF j
    <3>2. d < k => d + 1 \in 1 .. k /\ d + 1 > d
      BY <1>0, <1>3
    <3>. QED
      BY <1>8, <3>1, <3>2
  <2>2. \A i \in 1 .. j : m1.frm[fs[i]].fp = m.frm[fs[i]].fp /\ m1.frm[fs[i]].mr = m.frm[fs[i]].mr
    BY <1>15
  <2>3. m1.R.FP = fs[p[d]] /\ m1.R.M = ms[d]
    BY <1>4, <1>14 DEF j
  <2>. QED
    BY <1>0, <1>3, <1>8, <2>1, <2>2, <2>3, CutChained
<1>21. \E dq : Recorded(m1, Upto(fs, j), Upto(hm, j), d, Upto(p, d), Upto(ms, d), 0, dq)
  <2>1. /\ j = p[d] /\ Q \in 0 .. Len(m.exsp) /\ \A i \in 1 .. Len(m.exsp) : i <= Q <=> dp[i] > d
        /\ Len(m1.exsp) = Len(m.exsp) - Q /\ \A i \in 1 .. Len(m.exsp) - Q : m1.exsp[i] = m.exsp[i + Q]
    BY <1>6, <1>14 DEF j, L
  <2>2. PICK y, b, c : y = m1 /\ b = j /\ c = d
    OBVIOUS
  <2>3. /\ c \in 1 .. k /\ b = p[c] /\ Q \in 0 .. Len(m.exsp) /\ \A i \in 1 .. Len(m.exsp) : i <= Q <=> dp[i] > c
        /\ y \in VM /\ Cut(m, y, b, fs, hm) /\ \A i \in 1 .. b : y.frm[fs[i]] = m.frm[fs[i]]
        /\ Len(y.exsp) = Len(m.exsp) - Q /\ \A i \in 1 .. Len(m.exsp) - Q : y.exsp[i] = m.exsp[i + Q]
    BY <1>3, <1>15, <1>16, <1>17, <2>1, <2>2
  <2>4. \E dq : Recorded(y, Upto(fs, b), Upto(hm, b), c, Upto(p, c), Upto(ms, c), 0, dq)
    BY <2>3, RecordedAfter
  <2>. QED
    BY <2>2, <2>4
<1>22. AtRest(m1, 0)
  <2>1. "eclr" \notin Label
    BY NamesApart
  <2>. QED
    BY <1>4, <1>14, <2>1 DEF AtRest
<1>23. \E dq : Stack(m1, j, Upto(fs, j), Upto(hm, j), d, Upto(p, d), Upto(ms, d), 0, dq)
  BY <1>18, <1>19, <1>20, <1>21 DEF Stack
<1>. QED
  BY <1>2, <1>22, <1>23 DEF Good

-----------------------------------------------------------------------------
(* Errors, and every step. *)

\* An error is handled, or ends the Prog.
LEMMA ErrorKeeps ==
  ASSUME ErrorsAnywhere = FALSE, NEW m, NEW n, NEW fs, NEW hm, NEW k, NEW p, NEW ms, NEW dp,
         Stack(m, n, fs, hm, k, p, ms, 0, dp), NEW e, Error(m, e)
  PROVE  IInv'
<1>1. /\ ~OpensExtension(m)
      /\ IF Handles(m, e) THEN vm' = Handled(m, e) /\ UNCHANGED pstate ELSE ProgExit(m, e)
  BY DEF Error
<1>2. CASE Handles(m, e)
  <2>1. Handlers(m, e) # {}
    BY <1>2 DEF Handles
  <2>2. Good(Handled(m, e))
    BY <1>1, <2>1, HandledKeeps
  <2>3. vm' = Handled(m, e)
    BY <1>1, <1>2
  <2>4. Good(vm')
    BY <2>2, <2>3
  <2>. QED
    BY <2>4 DEF IInv
<1>3. CASE ~Handles(m, e)
  <2>1. ProgExit(m, e)
    BY <1>1, <1>3
  <2>2. pstate' # "run"
    BY <2>1 DEF ProgExit
  <2>. QED
    BY <2>2 DEF IInv
<1>. QED
  BY <1>2, <1>3

\* Each action of a running Prog.
LEMMA RunningStep ==
  ASSUME ErrorsAnywhere = FALSE, Good(vm), Next
  PROVE  IInv'
<1>1. CASE AtEclr /\ Eclr
  <2>1. Good(vm')
    BY <1>1, EclrKeeps
  <2>. QED
    BY <2>1 DEF IInv
<1>2. CASE ~AtEclr
  <2>1. AtRest(vm, 0) /\ \E n, fs, hm, k, p, ms, dp : Stack(vm, n, fs, hm, k, p, ms, 0, dp)
    BY <1>2, Running
  <2>2. PICK n, fs, hm, k, p, ms, dp : Stack(vm, n, fs, hm, k, p, ms, 0, dp)
    BY <2>1
  <2>3. ASSUME NEW t \in Types, Frame(t) PROVE Good(vm')
    BY <1>2, <2>3, FrameKeeps
  <2>4. ASSUME NEW l \in Label, Call(l) PROVE Good(vm')
    BY <1>2, <2>4, CallKeeps
  <2>5. ASSUME NEW u \in Module, NEW l \in Label, Mcall(u, l) PROVE Good(vm')
    BY <1>2, <2>5, McallKeeps
  <2>6. ASSUME Spawn PROVE Good(vm')
    BY <2>1, <2>6, SpawnKeeps
  <2>7. ASSUME Ret PROVE IInv'
    <3>1. Good(vm') \/ Error(vm, << >>)
      BY <1>2, <2>7, RetSteps
    <3>2. Error(vm, << >>) => IInv'
      BY <2>2, ErrorKeeps
    <3>. QED
      BY <3>1, <3>2 DEF IInv
  <2>8. ASSUME NEW pat \in Pattern, NEW l \in Label, Sys_rescue(pat, l) PROVE Good(vm')
    BY <1>2, <2>8, RescueKeeps
  <2>9. ASSUME Sys_unrescue PROVE Good(vm')
    BY <1>2, <2>9, UnrescueKeeps
  <2>10. ASSUME NEW flag, Sys_rescued(flag) PROVE IInv'
    <3>1. \/ Good(vm')
          \/ \E m, e, n1, fs1, hm1, k1, p1, ms1, dp1 :
               Stack(m, n1, fs1, hm1, k1, p1, ms1, 0, dp1) /\ Error(m, e)
      BY <1>2, <2>10, RescuedSteps
    <3>2. ASSUME NEW m, NEW e, NEW n1, NEW fs1, NEW hm1, NEW k1, NEW p1, NEW ms1, NEW dp1,
                 Stack(m, n1, fs1, hm1, k1, p1, ms1, 0, dp1), Error(m, e)
          PROVE  IInv'
      BY <3>2, ErrorKeeps
    <3>. QED
      BY <3>1, <3>2 DEF IInv
  <2>11. ASSUME NEW e, Fault(e) PROVE IInv'
    <3>1. Error(vm, e)
      BY <2>11 DEF Fault
    <3>. QED
      BY <2>2, <3>1, ErrorKeeps
  <2>12. ASSUME NEW e, Sys_raise(e) PROVE IInv'
    <3>1. Uncalled(vm) /\ Error(Entered(vm), e)
      BY <2>12 DEF Sys_raise
    <3>2. Stack(Entered(vm), n, fs, hm, k + 1, More(p, k, n), More(ms, k, "Sys"), 0, dp)
      BY <2>1, <2>2, <3>1, EnteredKeeps
    <3>. QED
      BY <3>1, <3>2, ErrorKeeps
  <2>13. \/ \E t \in Types : Frame(t)
         \/ \E l \in Label : Call(l)
         \/ \E u \in Module, l \in Label : Mcall(u, l)
         \/ Spawn
         \/ Ret
         \/ \E pat \in Pattern, l \in Label : Sys_rescue(pat, l)
         \/ Sys_unrescue
         \/ \E flag \in {"ACTIVE", "ONCE", "RAISE", "EXIT"} : Sys_rescued(flag)
         \/ \E e \in Err : Fault(e) \/ Sys_raise(e)
    BY <1>2 DEF Next
  <2>14. Good(vm') => IInv'
    BY DEF IInv
  <2>. QED
    BY <2>3, <2>4, <2>5, <2>6, <2>7, <2>8, <2>9, <2>10, <2>11, <2>12, <2>13, <2>14
<1>. QED
  BY <1>1, <1>2 DEF Next

-----------------------------------------------------------------------------
(* Theorems. *)

\* While a Prog runs, its stack is a row of frames in a row of extensions,
\* every record of rescue that is in force is for a called frame, and describes
\* the stack as it was when that frame called rescue; every called frame
\* returns into the module that called it, to eclr if it has such records.
THEOREM StackInvariant ==
  ASSUME ErrorsAnywhere = FALSE
  PROVE  Spec => []IInv
<1>1. Init => IInv
  BY InitGood DEF IInv
<1>2. IInv /\ [Next]_svars => IInv'
  <2>1. CASE IInv /\ Next
    <3>1. Good(vm)
      BY <2>1 DEF IInv, Next
    <3>. QED
      BY <2>1, <3>1, RunningStep
  <2>2. CASE IInv /\ UNCHANGED svars
    <3>1. vm' = vm /\ pstate' = pstate
      BY <2>2 DEF svars
    <3>. QED
      BY <2>2, <3>1 DEF IInv
  <2>. QED
    BY <2>1, <2>2
<1>. QED
  BY <1>1, <1>2, PTL DEF Spec

\* Frames tile the stack whatever is built, extended, called, spawned, taken
\* off and unwound (stack.c, xec.c, exception.c): no extension is lost or freed
\* early, and the registers of each extension and of each rescue in force
\* describe the stack they will be restored to.  For any modules, types of
\* frames, stack sizes, patterns and errors, and any number of frames and
\* records.
THEOREM StackStaysTiled ==
  ASSUME ErrorsAnywhere = FALSE
  PROVE  Spec => []StackTiled
<1>1. IInv => StackTiled
  <2>1. CASE pstate = "run"
    BY <2>1, GoodIsTiled DEF IInv
  <2>2. CASE pstate # "run"
    BY <2>2 DEF StackTiled
  <2>. QED
    BY <2>1, <2>2
<1>. QED
  BY <1>1, StackInvariant, PTL

\* A frame returns to eclr when, and only when, a rescue in force is for it, in
\* the module it returns to (rescue, restorepc, popex and unlinkex of
\* exception.c), and eclr has a record to drop.
THEOREM EclrStaysInAgreement ==
  ASSUME ErrorsAnywhere = FALSE
  PROVE  Spec => []EclrAgrees
<1>1. IInv => EclrAgrees
  <2>1. CASE pstate = "run"
    BY <2>1, GoodAgrees DEF IInv
  <2>2. CASE pstate # "run"
    BY <2>2 DEF EclrAgrees
  <2>. QED
    BY <2>1, <2>2
<1>. QED
  BY <1>1, StackInvariant, PTL
=============================================================================
