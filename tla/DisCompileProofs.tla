-------------------------- MODULE DisCompileProofs --------------------------
(***************************************************************************)
(* Compiled code does what the interpreter does: every operation modelled  *)
(* but beql, in every operand mode and for every memory, and case for      *)
(* every table and value.                                                  *)
(***************************************************************************)
EXTENDS DisCompile, Recursion, TLAPS

\* The operations that are compiled right.
Right ==
  ({"add", "sub", "mov", "shl", "shr", "bne", "blt", "ble", "bgt", "bge"} \X {"b", "w", "l"})
    \cup ({"mul", "div", "mod", "lsr"} \X {"w", "l"})
    \cup {<< "mul", "b" >>, << "beq", "b" >>, << "beq", "w" >>, << "lea", "w" >>}
    \cup ({"cvt"} \X {"bw", "wb", "lw", "wl"})

Word == 0 .. Modulus - 1
Memory == [Addr -> Word]

\* An instruction with operands in the frame or the module's data.
Sane(i) ==
  /\ i.op \in Right /\ i.src \in Modes \cup {"imm"} /\ i.dst \in Modes \cup {"imm"}
  /\ i.mid \in {"none", "imm", "inf", "inm"}
  /\ i.s1 \in 0 .. MP - 1 /\ i.s2 \in 0 .. 1 /\ i.d1 \in 0 .. MP - 1 /\ i.d2 \in 0 .. 1
  /\ i.reg \in 0 .. RegModulus - 1
  /\ Instr(i.op, i.src, i.dst, i.mid)

\* The constants of the model.
LEMMA Constants ==
  /\ Width = 4 /\ Modulus = 16 /\ ByteModulus = 4 /\ MP = 8 /\ FP = 0 /\ RegModulus = 8
  /\ Addr = 0 .. 15 /\ Word = 0 .. 15 /\ SImm = -1 /\ DImm = -2 /\ RT = -3
<1>1. Width = 4 /\ Modulus = 16
  <2>1. 2 ^ 4 = 16
    OBVIOUS
  <2>. QED
    BY <2>1 DEF Width, Modulus
<1>2. ByteModulus = 4
  <2>1. Width \div 2 = 2 /\ 2 ^ 2 = 4
    BY <1>1
  <2>. QED
    BY <2>1 DEF ByteModulus
<1>. QED
  BY <1>1, <1>2 DEF MP, FP, RegModulus, Addr, Word, SImm, DImm, RT

\* The words v that the interpreter reads.
Reads(i, m, R, v) ==
  /\ \A a \in Addr : v[a] = m[a]
  /\ v[SImm] = i.s1 /\ v[DImm] = i.d1 /\ v[RT] \in Word
  /\ \A a \in Addr \cup {SImm, DImm, RT} : v[a] \in Word

\* It reads words, those of memory and of the immediate operands.
LEMMA ViewIs ==
  ASSUME NEW i, Sane(i), NEW m \in Memory, NEW R, R = dec(i, m)
  PROVE  Reads(i, m, R, View(i, R, m))
<1>1. R.t = 0 \/ R.t = Short(i.reg)
  BY DEF dec, DecNone, DecImm, DecInf, DecInm, Sane
<1>2. R.t \in Int
  BY <1>1, Constants DEF Short, Sane
<1>3. Lo(R.t) \in Word
  BY <1>2, Constants DEF Lo
<1>4. Lo(i.s1) = i.s1 /\ Lo(i.d1) = i.d1 /\ i.s1 \in Word /\ i.d1 \in Word
  BY Constants DEF Lo, Sane
<1>5. SImm \notin Addr /\ DImm \notin Addr /\ RT \notin Addr /\ SImm # DImm /\ DImm # RT /\ SImm # RT
  BY Constants
<1>6. PICK v : v = View(i, R, m)
  OBVIOUS
<1>7. (\A a \in Addr : v[a] = m[a]) /\ v[SImm] = Lo(i.s1) /\ v[DImm] = Lo(i.d1) /\ v[RT] = Lo(R.t)
  BY <1>5, <1>6 DEF View
<1>8. \A a \in Addr : m[a] \in Word
  BY DEF Memory
<1>. QED
  BY <1>3, <1>4, <1>6, <1>7, <1>8 DEF Reads

\* An instruction that may run with the memory m: R are its operands, and v
\* is what the interpreter reads.
Runs(i, m, R, v) ==
  /\ Sane(i) /\ m \in Memory /\ Legal(i, m) /\ R = dec(i, m) /\ v = View(i, R, m)

\* What i finds at its source.
SourceType(i) == IF i.op[1] = "cvt" THEN CvtFrom(i.op[2]) ELSE SType(i.op[1], i.op[2])
DestType(i) == IF i.op[1] = "cvt" THEN CvtTo(i.op[2]) ELSE i.op[2]
Room(a, t) == a \in Addr /\ (t = "l" => a + 1 \in Addr)

\* The addresses in the frame, in the module's data and where their words
\* point to.
LEMMA Addresses ==
  ASSUME NEW i, NEW m, NEW R, NEW v, Runs(i, m, R, v)
  PROVE  /\ R = [s |-> R.s, d |-> R.d, m |-> R.m, t |-> R.t]
         /\ R.s = DecS(i, m) /\ R.d = DecD(i, m)
         /\ R.m = CASE i.mid = "none" -> DecD(i, m) [] i.mid = "imm" -> RT
                    [] i.mid = "inf" -> FP + i.reg [] i.mid = "inm" -> MP + i.reg
         /\ R.t = IF i.mid = "imm" THEN Short(i.reg) ELSE 0
BY DEF Runs, Sane, dec, DecNone, DecImm, DecInf, DecInm

\* The source is the immediate operand or in memory.
LEMMA Source ==
  ASSUME NEW i, NEW m, NEW R, NEW v, Runs(i, m, R, v)
  PROVE  IF i.src = "imm" THEN R.s = SImm
         ELSE Room(R.s, SourceType(i)) /\ opwld(i, "lea", m) = R.s
<1>1. R.s = DecS(i, m)
  BY Addresses
<1>2. i.src \in Modes \cup {"imm"} /\ i.s1 \in 0 .. 7 /\ i.s2 \in 0 .. 1 /\ \A a \in Addr : m[a] \in Word
  BY Constants DEF Runs, Sane, Memory
<1>3. CASE i.src = "imm"
  BY <1>1, <1>3 DEF DecS
<1>4. CASE i.src # "imm"
  <2>1. 0 + i.s1 \in Addr /\ 8 + i.s1 \in Addr
    BY <1>2, Constants
  <2>2. m[0 + i.s1] \in 0 .. 15 /\ m[8 + i.s1] \in 0 .. 15
    BY <1>2, <2>1, Constants
  <2>3. i.src \in {"mp", "fp", "ind mp", "ind fp"}
    BY <1>2, <1>4 DEF Modes
  <2>4. R.s \in Nat /\ opwld(i, "lea", m) = R.s
    <3>1. CASE i.src = "mp"
      BY <1>1, <1>2, <3>1, Constants DEF DecS, opwld, Load, Base
    <3>2. CASE i.src = "fp"
      BY <1>1, <1>2, <3>2, Constants DEF DecS, opwld, Load, Base
    <3>3. CASE i.src = "ind mp"
      <4>1. DecS(i, m) = m[MP + i.s1] + i.s2
        BY <3>3 DEF DecS
      <4>2. opwld(i, "lea", m) = m[Base(i.src) + i.s1] + i.s2 /\ Base(i.src) = MP
        BY <3>3 DEF opwld, Load, Base
      <4>3. m[MP + i.s1] \in 0 .. 15
        BY <2>2, Constants
      <4>. QED
        BY <1>1, <1>2, <4>1, <4>2, <4>3
    <3>4. CASE i.src = "ind fp"
      <4>1. DecS(i, m) = m[FP + i.s1] + i.s2
        BY <3>4 DEF DecS
      <4>2. opwld(i, "lea", m) = m[Base(i.src) + i.s1] + i.s2 /\ Base(i.src) = FP
        BY <3>4 DEF opwld, Load, Base
      <4>3. m[FP + i.s1] \in 0 .. 15
        BY <2>2, Constants
      <4>. QED
        BY <1>1, <1>2, <4>1, <4>2, <4>3
    <3>. QED
      BY <2>3, <3>1, <3>2, <3>3, <3>4
  <2>5. R.s < 0 \/ Room(R.s, SourceType(i))
    BY DEF Runs, Legal, SourceType, Room
  <2>6. SImm < 0
    BY Constants
  <2>. QED
    BY <1>4, <2>4, <2>5
<1>. QED
  BY <1>3, <1>4

\* The destination is in memory, but the one of a branch.
LEMMA Destination ==
  ASSUME NEW i, NEW m, NEW R, NEW v, Runs(i, m, R, v)
  PROVE  IF i.op[1] \in Branches THEN R.d = DImm
         ELSE Room(R.d, DestType(i)) /\ opwst(i, "lea", m) = R.d
<1>1. R.d = DecD(i, m)
  BY Addresses
<1>2. i.dst \in Modes \cup {"imm"} /\ i.d1 \in 0 .. 7 /\ i.d2 \in 0 .. 1 /\ \A a \in Addr : m[a] \in Word
  BY Constants DEF Runs, Sane, Memory
<1>a. (i.op[1] \in Branches) <=> (i.dst = "imm")
  BY DEF Runs, Sane, Instr
<1>3. CASE i.dst = "imm"
  BY <1>1, <1>a, <1>3 DEF DecD
<1>4. CASE i.dst # "imm"
  <2>1. 0 + i.d1 \in Addr /\ 8 + i.d1 \in Addr
    BY <1>2, Constants
  <2>2. m[0 + i.d1] \in 0 .. 15 /\ m[8 + i.d1] \in 0 .. 15
    BY <1>2, <2>1, Constants
  <2>3. i.dst \in {"mp", "fp", "ind mp", "ind fp"}
    BY <1>2, <1>4 DEF Modes
  <2>4. R.d \in Nat /\ opwst(i, "lea", m) = R.d
    <3>1. CASE i.dst = "mp"
      BY <1>1, <1>2, <3>1, Constants DEF DecD, opwst, Load, Base
    <3>2. CASE i.dst = "fp"
      BY <1>1, <1>2, <3>2, Constants DEF DecD, opwst, Load, Base
    <3>3. CASE i.dst = "ind mp"
      <4>1. DecD(i, m) = m[MP + i.d1] + i.d2
        BY <3>3 DEF DecD
      <4>2. opwst(i, "lea", m) = m[Base(i.dst) + i.d1] + i.d2 /\ Base(i.dst) = MP
        BY <3>3 DEF opwst, Load, Base
      <4>3. m[MP + i.d1] \in 0 .. 15
        BY <2>2, Constants
      <4>. QED
        BY <1>1, <1>2, <4>1, <4>2, <4>3
    <3>4. CASE i.dst = "ind fp"
      <4>1. DecD(i, m) = m[FP + i.d1] + i.d2
        BY <3>4 DEF DecD
      <4>2. opwst(i, "lea", m) = m[Base(i.dst) + i.d1] + i.d2 /\ Base(i.dst) = FP
        BY <3>4 DEF opwst, Load, Base
      <4>3. m[FP + i.d1] \in 0 .. 15
        BY <2>2, Constants
      <4>. QED
        BY <1>1, <1>2, <4>1, <4>2, <4>3
    <3>. QED
      BY <2>3, <3>1, <3>2, <3>3, <3>4
  <2>5. R.d < 0 \/ Room(R.d, DestType(i))
    BY <1>a, <1>4 DEF Runs, Legal, DestType, Room
  <2>6. DImm < 0
    BY Constants
  <2>. QED
    BY <1>a, <1>4, <2>4, <2>5
<1>. QED
  BY <1>3, <1>4

\* The middle operand is the destination, an immediate operand or in memory.
LEMMA Middle ==
  ASSUME NEW i, NEW m, NEW R, NEW v, Runs(i, m, R, v)
  PROVE  IF i.mid = "imm" THEN R.m = RT
         ELSE /\ Room(R.m, i.op[2]) /\ mid(i, "lea", m) = R.m
              /\ i.mid = "none" => i.op[1] \notin Branches /\ R.m = R.d
<1>1. /\ i.mid \in {"none", "imm", "inf", "inm"} /\ i.reg \in 0 .. 7
      /\ (i.mid = "none" => i.op[1] \notin Branches)
  BY Constants DEF Runs, Sane, Instr
<1>2. R.m < 0 \/ Room(R.m, i.op[2])
  BY DEF Runs, Legal, Room
<1>3. CASE i.mid = "none"
  <2>1. R.m = R.d /\ R.d \in Addr /\ opwst(i, "lea", m) = R.d
    BY <1>1, <1>3, Addresses, Destination DEF Room
  <2>2. mid(i, "lea", m) = R.m
    BY <1>3, <2>1 DEF mid
  <2>. QED
    BY <1>1, <1>2, <1>3, <2>1, <2>2, Constants
<1>4. CASE i.mid = "imm"
  BY <1>4, Addresses
<1>5. CASE i.mid = "inf"
  <2>1. R.m = FP + i.reg
    BY <1>5, Addresses
  <2>2. mid(i, "lea", m) = FP + i.reg
    BY <1>5 DEF mid, Load, Base
  <2>. QED
    BY <1>1, <1>2, <1>5, <2>1, <2>2, Constants
<1>6. CASE i.mid = "inm"
  <2>1. R.m = MP + i.reg
    BY <1>6, Addresses
  <2>2. mid(i, "lea", m) = MP + i.reg
    BY <1>6 DEF mid, Load, Base
  <2>. QED
    BY <1>1, <1>2, <1>6, <2>1, <2>2, Constants
<1>. QED
  BY <1>1, <1>3, <1>4, <1>5, <1>6

\* The ways to load an operand.
Loads == {"ld", "ldw", "ldb"}

\* The words an instruction loads are the ones the interpreter reads.
LEMMA Loaded ==
  ASSUME NEW i, NEW m, NEW R, NEW v, Runs(i, m, R, v), NEW mi \in Loads
  PROVE  /\ opwld(i, mi, m) = v[R.s] /\ v[R.s] \in Word
         /\ mid(i, mi, m) = v[R.m] /\ v[R.m] \in Word
<1>1. Reads(i, m, R, v) /\ i.src \in Modes \cup {"imm"} /\ i.dst \in Modes \cup {"imm"} /\ mi # "lea"
  BY ViewIs DEF Runs, Sane, Loads
<1>2. opwld(i, mi, m) = v[R.s] /\ R.s \in Addr \cup {SImm}
  <2>1. CASE i.src = "imm"
    <3>1. opwld(i, mi, m) = Lo(i.s1) /\ R.s = SImm
      BY <2>1, Source DEF opwld
    <3>2. Lo(i.s1) = i.s1
      BY Constants DEF Lo, Runs, Sane
    <3>. QED
      BY <1>1, <3>1, <3>2 DEF Reads
  <2>2. CASE i.src # "imm"
    <3>1. R.s \in Addr /\ opwld(i, "lea", m) = R.s
      BY <2>2, Source DEF Room
    <3>2. opwld(i, mi, m) = m[opwld(i, "lea", m)]
      BY <1>1, <2>2 DEF opwld, Load, Modes
    <3>. QED
      BY <1>1, <3>1, <3>2 DEF Reads
  <2>. QED
    BY <2>1, <2>2
<1>3. mid(i, mi, m) = v[R.m] /\ R.m \in Addr \cup {RT}
  <2>1. CASE i.mid = "imm"
    <3>1. mid(i, mi, m) = Lo(Short(i.reg)) /\ R.m = RT /\ R.t = Short(i.reg)
      BY <2>1, Middle, Addresses DEF mid
    <3>2. v[RT] = Lo(R.t)
      BY Constants DEF Runs, View
    <3>. QED
      BY <3>1, <3>2
  <2>2. CASE i.mid # "imm"
    <3>1. R.m \in Addr /\ mid(i, "lea", m) = R.m
      BY <2>2, Middle DEF Room
    <3>2. mid(i, mi, m) = m[mid(i, "lea", m)]
      <4>1. CASE i.mid = "none"
        <5>1. i.dst # "imm"
          BY <4>1 DEF Runs, Sane, Instr
        <5>2. opwst(i, mi, m) = m[opwst(i, "lea", m)]
          BY <1>1, <5>1 DEF opwst, Load, Modes
        <5>. QED
          BY <4>1, <5>2 DEF mid
      <4>2. CASE i.mid \in {"inf", "inm"}
        BY <1>1, <4>2 DEF mid, Load
      <4>. QED
        BY <2>2, <4>1, <4>2 DEF Runs, Sane
    <3>. QED
      BY <1>1, <3>1, <3>2 DEF Reads
  <2>. QED
    BY <2>1, <2>2
<1>. QED
  BY <1>1, <1>2, <1>3 DEF Reads

-----------------------------------------------------------------------------
(* What the interpreter and the compiled code store. *)

\* What of a value is stored.
SameStored(t, x, y) ==
  CASE t = "b" -> x % ByteModulus = y % ByteModulus
    [] t = "w" -> Lo(x) = Lo(y)
    [] t = "l" -> Lo(x) = Lo(y) /\ Hi(x) = Hi(y)

\* Two values that agree in it are stored alike.
LEMMA StoredAlike ==
  ASSUME NEW m, NEW a, NEW t \in {"b", "w", "l"}, NEW x, NEW y, SameStored(t, x, y)
  PROVE  Store(m, a, t, x) = Store(m, a, t, y)
BY DEF SameStored, Store

\* The interpreter's binary operations.
LEMMA XecBinary ==
  ASSUME NEW i, NEW m, NEW R, NEW v, Runs(i, m, R, v), i.op[1] \in Binary
  PROVE  /\ i.op[1] \notin Branches /\ i.op[2] \in {"b", "w", "l"} /\ i.op[1] # "cvt"
         /\ xec(i, R, m) = [jump |-> FALSE,
              mem |-> Store(m, R.d, i.op[2], Alu(i.op[1], i.op[2], Val(v, R.m, i.op[2]),
                                                 Val(v, R.s, SType(i.op[1], i.op[2]))))]
<1>1. i.op[1] \notin Branches /\ i.op[1] # "cvt"
  BY DEF Binary, Branches
<1>2. i.op[2] \in {"b", "w", "l"}
  BY <1>1 DEF Runs, Sane, Right, Binary
<1>3. v = View(i, R, m)
  BY DEF Runs
<1>. QED
  <2>1. i.op[1] # "mov" /\ i.op[1] # "lea"
    BY DEF Binary
  <2>2. PICK y : y = Alu(i.op[1], i.op[2], Val(v, R.m, i.op[2]), Val(v, R.s, SType(i.op[1], i.op[2])))
    OBVIOUS
  <2>3. xec(i, R, m) = [jump |-> FALSE, mem |-> Store(m, R.d, i.op[2], y)]
    BY <1>1, <1>3, <2>1, <2>2 DEF xec
  <2>. QED
    BY <1>1, <1>2, <2>2, <2>3

\* A binary operation is compiled right that puts a value that is stored
\* alike.
LEMMA PutAgrees ==
  ASSUME NEW i, NEW m, NEW R, NEW v, Runs(i, m, R, v), i.op[1] \in Binary, NEW x,
         SameStored(i.op[2], x, Alu(i.op[1], i.op[2], Val(v, R.m, i.op[2]),
                                    Val(v, R.s, SType(i.op[1], i.op[2]))))
  PROVE  Put(i, m, i.op[2], x) = xec(i, R, m)
<1>1. /\ i.op[1] \notin Branches /\ i.op[2] \in {"b", "w", "l"}
      /\ xec(i, R, m) = [jump |-> FALSE,
              mem |-> Store(m, R.d, i.op[2], Alu(i.op[1], i.op[2], Val(v, R.m, i.op[2]),
                                                 Val(v, R.s, SType(i.op[1], i.op[2]))))]
  BY XecBinary
<1>2. opwst(i, "lea", m) = R.d
  BY <1>1, Destination
<1>3. PICK y : y = Alu(i.op[1], i.op[2], Val(v, R.m, i.op[2]), Val(v, R.s, SType(i.op[1], i.op[2])))
  OBVIOUS
<1>4. Store(m, R.d, i.op[2], x) = Store(m, R.d, i.op[2], y)
  BY <1>1, <1>3, StoredAlike
<1>. QED
  BY <1>1, <1>2, <1>3, <1>4 DEF Put

\* Sums and differences of words modulo the width do not depend on the sign.
LEMMA LoSums ==
  ASSUME NEW x \in Word, NEW y \in Word
  PROVE  Lo(x + y) = Lo(Signed(x) + Signed(y)) /\ Lo(x - y) = Lo(Signed(x) - Signed(y))
BY Constants DEF Lo, Signed

\* add and sub of words.
LEMMA arithAgrees ==
  ASSUME NEW i, NEW m, NEW R, NEW v, Runs(i, m, R, v), i.op[1] \in {"add", "sub"}, i.op[2] = "w"
  PROVE  arith(i, m) = xec(i, R, m)
<1>1. PICK x, y : x = v[R.m] /\ y = v[R.s]
  OBVIOUS
<1>2. mid(i, "ldw", m) = x /\ opwld(i, "ldw", m) = y /\ x \in Word /\ y \in Word
  BY <1>1, Loaded DEF Loads
<1>3. i.op[1] \in Binary /\ SType(i.op[1], i.op[2]) = "w"
  BY DEF Binary, SType, Shifts
<1>4. Val(v, R.m, "w") = Signed(x) /\ Val(v, R.s, "w") = Signed(y)
  BY <1>1 DEF Val
<1>5. CASE i.op[1] = "add"
  <2>1. arith(i, m) = Put(i, m, "w", x + y)
    BY <1>2, <1>5 DEF arith
  <2>2. Alu("add", "w", Signed(x), Signed(y)) = Signed(x) + Signed(y)
    BY DEF Alu
  <2>3. SameStored("w", x + y, Signed(x) + Signed(y))
    BY <1>2, LoSums DEF SameStored
  <2>. QED
    BY <1>3, <1>4, <1>5, <2>1, <2>2, <2>3, PutAgrees
<1>6. CASE i.op[1] = "sub"
  <2>1. arith(i, m) = Put(i, m, "w", x - y)
    BY <1>2, <1>6 DEF arith
  <2>2. Alu("sub", "w", Signed(x), Signed(y)) = Signed(x) - Signed(y)
    BY DEF Alu
  <2>3. SameStored("w", x - y, Signed(x) - Signed(y))
    BY <1>2, LoSums DEF SameStored
  <2>. QED
    BY <1>3, <1>4, <1>6, <2>1, <2>2, <2>3, PutAgrees
<1>. QED
  BY <1>5, <1>6

\* add and sub of bytes.
LEMMA arithbAgrees ==
  ASSUME NEW i, NEW m, NEW R, NEW v, Runs(i, m, R, v), i.op[1] \in {"add", "sub"}, i.op[2] = "b"
  PROVE  arithb(i, m) = xec(i, R, m)
<1>1. PICK x, y : x = Byte(v[R.m]) /\ y = Byte(v[R.s])
  OBVIOUS
<1>2. Byte(mid(i, "ldb", m)) = x /\ Byte(opwld(i, "ldb", m)) = y
  BY <1>1, Loaded DEF Loads
<1>3. i.op[1] \in Binary /\ SType(i.op[1], i.op[2]) = "b"
  BY DEF Binary, SType, Shifts
<1>4. Val(v, R.m, "b") = x /\ Val(v, R.s, "b") = y
  BY <1>1 DEF Val, Byte
<1>5. PICK z : z = IF i.op[1] = "add" THEN x + y ELSE x - y
  OBVIOUS
<1>6. arithb(i, m) = Put(i, m, "b", z) /\ Alu(i.op[1], "b", x, y) = z
  BY <1>2, <1>5 DEF arithb, Alu
<1>7. SameStored("b", z, z)
  BY DEF SameStored
<1>. QED
  BY <1>3, <1>4, <1>6, <1>7, PutAgrees

\* mul, div and mod of words.
LEMMA muldivAgrees ==
  ASSUME NEW i, NEW m, NEW R, NEW v, Runs(i, m, R, v), i.op[1] \in {"mul", "div", "mod"}, i.op[2] = "w"
  PROVE  muldiv(i, m) = xec(i, R, m)
<1>1. PICK x, y : x = Signed(v[R.m]) /\ y = Signed(v[R.s])
  OBVIOUS
<1>2. Signed(mid(i, "ldw", m)) = x /\ Signed(opwld(i, "ldw", m)) = y
  BY <1>1, Loaded DEF Loads
<1>3. i.op[1] \in Binary /\ SType(i.op[1], i.op[2]) = "w"
  BY DEF Binary, SType, Shifts
<1>4. Val(v, R.m, "w") = x /\ Val(v, R.s, "w") = y
  BY <1>1 DEF Val
<1>5. PICK z : z = Alu(i.op[1], "w", x, y)
  OBVIOUS
<1>6. muldiv(i, m) = Put(i, m, "w", z)
  <2>1. z = CASE i.op[1] = "mul" -> x * y
              [] i.op[1] = "div" -> Quo(x, y)
              [] i.op[1] = "mod" -> x - y * Quo(x, y)
    BY <1>5 DEF Alu
  <2>. QED
    BY <1>2, <2>1 DEF muldiv
<1>7. SameStored("w", z, z)
  BY DEF SameStored
<1>. QED
  BY <1>3, <1>4, <1>5, <1>6, <1>7, PutAgrees

\* mul of bytes.
LEMMA mulbAgrees ==
  ASSUME NEW i, NEW m, NEW R, NEW v, Runs(i, m, R, v), i.op = << "mul", "b" >>
  PROVE  mulb(i, m) = xec(i, R, m)
<1>1. PICK x, y : x = Byte(v[R.m]) /\ y = Byte(v[R.s])
  OBVIOUS
<1>2. Byte(mid(i, "ldb", m)) = x /\ Byte(opwld(i, "ldb", m)) = y
  BY <1>1, Loaded DEF Loads
<1>3. i.op[1] \in Binary /\ SType(i.op[1], i.op[2]) = "b" /\ i.op[1] = "mul" /\ i.op[2] = "b"
  BY DEF Binary, SType, Shifts
<1>4. Val(v, R.m, "b") = x /\ Val(v, R.s, "b") = y
  BY <1>1 DEF Val, Byte
<1>5. PICK z : z = x * y
  OBVIOUS
<1>6. mulb(i, m) = Put(i, m, "b", z) /\ Alu(i.op[1], "b", x, y) = z
  BY <1>2, <1>3, <1>5 DEF mulb, Alu
<1>7. SameStored("b", z, z)
  BY DEF SameStored
<1>. QED
  BY <1>3, <1>4, <1>6, <1>7, PutAgrees

\* The powers of two by which words are shifted.
LEMMA Powers ==
  2 ^ 0 = 1 /\ 2 ^ 1 = 2 /\ 2 ^ 2 = 4 /\ 2 ^ 3 = 8 /\ 2 ^ 4 = 16 /\ 2 ^ 5 = 32 /\ 2 ^ 6 = 64 /\ 2 ^ 7 = 128
OBVIOUS

\* The count of a shift.
LEMMA ShiftCount ==
  ASSUME NEW i, NEW m, NEW R, NEW v, Runs(i, m, R, v), i.op[1] \in Shifts
  PROVE  /\ Val(v, R.s, SType(i.op[1], i.op[2])) = opwld(i, "ldw", m)
         /\ opwld(i, "ldw", m) \in 0 .. (IF i.op[2] = "l" THEN 7 ELSE 3)
<1>1. SType(i.op[1], i.op[2]) = "w" /\ Val(v, R.s, "w") = Signed(v[R.s])
  BY DEF SType, Val
<1>2. opwld(i, "ldw", m) = v[R.s] /\ v[R.s] \in 0 .. 15
  BY Loaded, Constants DEF Loads
<1>3. Val(v, R.s, "w") \in 0 .. (IF i.op[2] = "l" THEN 7 ELSE 3)
  <2>1. Val(v, R.s, "w") \in 0..(IF i.op[2] = "l" THEN 2 * Width - 1 ELSE Width - 1)
    BY DEF Runs, Legal
  <2>. QED
    BY <2>1, Constants
<1>4. Signed(v[R.s]) = v[R.s]
  BY <1>1, <1>2, <1>3, Constants DEF Signed
<1>. QED
  BY <1>1, <1>2, <1>3, <1>4

\* Shifts of a word to the left lose what the sign adds.
LEMMA ShiftsLeft ==
  ASSUME NEW x \in Word, NEW n \in 0 .. 3
  PROVE  Lo(x * 2 ^ n) = Lo(Signed(x) * 2 ^ n) /\ (x * 2 ^ n) % ByteModulus = ((x % ByteModulus) * 2 ^ n) % ByteModulus
<1>1. x \in 0 .. 15 /\ Signed(x) = IF x >= 8 THEN x - 16 ELSE x
  BY Constants DEF Signed
<1>2. CASE n = 0
  BY <1>1, <1>2, Powers, Constants DEF Lo
<1>3. CASE n = 1
  BY <1>1, <1>3, Powers, Constants DEF Lo
<1>4. CASE n = 2
  BY <1>1, <1>4, Powers, Constants DEF Lo
<1>5. CASE n = 3
  BY <1>1, <1>5, Powers, Constants DEF Lo
<1>. QED
  BY <1>2, <1>3, <1>4, <1>5

\* Shifts of words and bytes, but lsr.
LEMMA shiftAgrees ==
  ASSUME NEW i, NEW m, NEW R, NEW v, Runs(i, m, R, v), i.op[1] \in {"shl", "shr"}, i.op[2] \in {"b", "w"}
  PROVE  shift(i, m) = xec(i, R, m)
<1>1. PICK x, n : x = v[R.m] /\ n = opwld(i, "ldw", m)
  OBVIOUS
<1>2. mid(i, "ld", m) = x /\ x \in Word
  BY <1>1, Loaded DEF Loads
<1>3. i.op[1] \in Binary /\ i.op[1] \in Shifts
  BY DEF Binary, Shifts
<1>4. Val(v, R.s, SType(i.op[1], i.op[2])) = n /\ n \in 0 .. 3
  BY <1>1, <1>3, ShiftCount
<1>5. Count(n) = n
  BY <1>4, Constants DEF Count
<1>6. PICK z : z = IF i.op[1] = "shl" THEN x * 2 ^ n
                   ELSE IF i.op[2] = "b" THEN Byte(x) \div 2 ^ n ELSE Sar(x, n)
  OBVIOUS
<1>7. shift(i, m) = Put(i, m, i.op[2], z)
  BY <1>1, <1>2, <1>5, <1>6 DEF shift
<1>8. SameStored(i.op[2], z, Alu(i.op[1], i.op[2], Val(v, R.m, i.op[2]), n))
  <2>1. CASE i.op = << "shl", "b" >>
    <3>1. i.op[1] = "shl" /\ i.op[2] = "b"
      BY <2>1
    <3>2. z = x * 2 ^ n /\ Val(v, R.m, "b") = x % ByteModulus
      BY <1>1, <1>6, <3>1 DEF Val
    <3>3. Alu("shl", "b", x % ByteModulus, n) = (x % ByteModulus) * 2 ^ n
      BY DEF Alu
    <3>4. (x * 2 ^ n) % ByteModulus = ((x % ByteModulus) * 2 ^ n) % ByteModulus
      BY <1>2, <1>4, ShiftsLeft
    <3>. QED
      BY <3>1, <3>2, <3>3, <3>4 DEF SameStored
  <2>2. CASE i.op = << "shl", "w" >>
    <3>1. i.op[1] = "shl" /\ i.op[2] = "w"
      BY <2>2
    <3>2. z = x * 2 ^ n /\ Val(v, R.m, "w") = Signed(x)
      BY <1>1, <1>6, <3>1 DEF Val
    <3>3. Alu("shl", "w", Signed(x), n) = (Signed(x)) * 2 ^ n
      BY DEF Alu
    <3>4. Lo(x * 2 ^ n) = Lo(Signed(x) * 2 ^ n)
      BY <1>2, <1>4, ShiftsLeft
    <3>. QED
      BY <3>1, <3>2, <3>3, <3>4 DEF SameStored
  <2>3. CASE i.op = << "shr", "b" >>
    BY <1>1, <1>6, <2>3 DEF SameStored, Alu, Val, Byte
  <2>4. CASE i.op = << "shr", "w" >>
    <3>1. Lo(Sar(x, n)) = Lo(Signed(x) \div 2 ^ n)
      <4>1. PICK y : y = Signed(x) \div 2 ^ n
        OBVIOUS
      <4>2. y \in Int
        <5>1. Signed(x) \in Int
          BY <1>2, Constants DEF Signed
        <5>2. 2 ^ n \in {1, 2, 4, 8}
          <6>1. n = 0 \/ n = 1 \/ n = 2 \/ n = 3
            BY <1>4
          <6>. QED
            BY <6>1, Powers
        <5>. QED
          BY <4>1, <5>1, <5>2
      <4>3. Lo(Lo(y)) = Lo(y)
        BY <4>2, Constants DEF Lo
      <4>. QED
        BY <4>1, <4>3 DEF Sar
    <3>. QED
      BY <1>1, <1>6, <2>4, <3>1 DEF SameStored, Alu, Val
  <2>. QED
    BY <2>1, <2>2, <2>3, <2>4 DEF Runs, Sane, Right
<1>. QED
  BY <1>3, <1>4, <1>7, <1>8, PutAgrees

-----------------------------------------------------------------------------
(* Longs, which are two words. *)

\* The middle operand of an operation on longs.
LEMMA MiddleLong ==
  ASSUME NEW i, NEW m, NEW R, NEW v, Runs(i, m, R, v), i.op[2] = "l", i.op[1] \in Binary \cup Branches
  PROVE  /\ mid(i, "lea", m) = R.m /\ m[R.m] \in Word /\ m[R.m + 1] \in Word
         /\ Val(v, R.m, "l") = m[R.m] + Modulus * Signed(m[R.m + 1])
<1>1. i.mid # "imm"
  BY DEF Runs, Sane, Instr
<1>2. R.m \in Addr /\ R.m + 1 \in Addr /\ mid(i, "lea", m) = R.m
  BY <1>1, Middle DEF Room
<1>3. Reads(i, m, R, v)
  BY ViewIs DEF Runs
<1>4. v[R.m] = m[R.m] /\ v[R.m + 1] = m[R.m + 1]
  BY <1>2, <1>3 DEF Reads
<1>5. m[R.m] \in Word /\ m[R.m + 1] \in Word
  BY <1>2 DEF Runs, Memory
<1>. QED
  BY <1>2, <1>4, <1>5 DEF Val

\* The source of one that is not a shift.
LEMMA SourceLong ==
  ASSUME NEW i, NEW m, NEW R, NEW v, Runs(i, m, R, v), i.op[2] = "l",
         i.op[1] \in Binary \cup Branches \cup {"mov"}, i.op[1] \notin Shifts
  PROVE  /\ SType(i.op[1], i.op[2]) = "l"
         /\ opwld(i, "lea", m) = R.s /\ R.s \in Addr /\ R.s + 1 \in Addr /\ m[R.s] \in Word /\ m[R.s + 1] \in Word
         /\ Val(v, R.s, "l") = m[R.s] + Modulus * Signed(m[R.s + 1])
<1>1. i.src # "imm"
  BY DEF Runs, Sane, Instr
<1>0. i.op[1] # "cvt"
  BY DEF Binary, Branches
<1>2. SourceType(i) = "l" /\ SType(i.op[1], i.op[2]) = "l"
  BY <1>0 DEF SourceType, SType
<1>3. R.s \in Addr /\ R.s + 1 \in Addr /\ opwld(i, "lea", m) = R.s
  BY <1>1, <1>2, Source DEF Room
<1>4. Reads(i, m, R, v)
  BY ViewIs DEF Runs
<1>5. v[R.s] = m[R.s] /\ v[R.s + 1] = m[R.s + 1]
  BY <1>3, <1>4 DEF Reads
<1>6. m[R.s] \in Word /\ m[R.s + 1] \in Word
  BY <1>3 DEF Runs, Memory
<1>. QED
  BY <1>2, <1>3, <1>5, <1>6 DEF Val

\* The low and the high word of x and of y times the width.
LEMMA Halves ==
  ASSUME NEW x \in Int, NEW y \in Int
  PROVE  Lo(x + Modulus * y) = Lo(x) /\ Hi(x + Modulus * y) = Lo((x \div Modulus) + y)
<1>1. (x + 16 * y) % 16 = x % 16 /\ (x + 16 * y) \div 16 = (x \div 16) + y
  OBVIOUS
<1>. QED
  BY <1>1, Constants DEF Lo, Hi

\* The halves of what the compiled code makes are the two words it makes.
LEMMA Joined ==
  ASSUME NEW x \in Word, NEW y \in Word
  PROVE  Lo(x + Modulus * y) = x /\ Hi(x + Modulus * y) = y
<1>1. x \in 0 .. 15 /\ y \in 0 .. 15
  BY Constants
<1>2. Lo(x) = x /\ x \div 16 = 0 /\ Lo(0 + y) = y
  BY <1>1, Constants DEF Lo
<1>3. Lo(x + Modulus * y) = Lo(x) /\ Hi(x + Modulus * y) = Lo((x \div Modulus) + y)
  BY <1>1, Halves
<1>4. (x \div Modulus) + y = 0 + y
  BY <1>2, Constants
<1>. QED
  BY <1>2, <1>3, <1>4

\* Lo of an integer is a word.
LEMMA LoWord == ASSUME NEW x \in Int PROVE Lo(x) \in Word
BY Constants DEF Lo

\* Adding low words first and high words with the carry.
LEMMA Carries ==
  ASSUME NEW a \in Word, NEW b \in Word, NEW c \in Word, NEW d \in Word
  PROVE  /\ SameStored("l", Lo(a + c) + Modulus * Lo((b + d) + ((a + c) \div Modulus)),
                       (a + Modulus * Signed(b)) + (c + Modulus * Signed(d)))
         /\ SameStored("l", Lo(a - c) + Modulus * Lo((b - d) + ((a - c) \div Modulus)),
                       (a + Modulus * Signed(b)) - (c + Modulus * Signed(d)))
<1>0. /\ a \in 0 .. 15 /\ b \in 0 .. 15 /\ c \in 0 .. 15 /\ d \in 0 .. 15 /\ Modulus = 16
      /\ Signed(b) = (IF b >= 8 THEN b - 16 ELSE b) /\ Signed(d) = (IF d >= 8 THEN d - 16 ELSE d)
  BY Constants DEF Signed
<1>1. PICK p, q : p = Signed(b) /\ q = Signed(d) /\ p \in Int /\ q \in Int
  BY <1>0
<1>2. /\ (a + 16 * p) + (c + 16 * q) = (a + c) + 16 * (p + q)
      /\ (a + 16 * p) - (c + 16 * q) = (a - c) + 16 * (p - q)
  BY <1>0, <1>1
<1>3. ASSUME NEW e \in Int, NEW f \in Int, NEW g \in Int, Lo(f) = Lo(g)
      PROVE  Lo(f + (e \div 16)) = Lo((e \div 16) + g)
  <2>1. PICK k \in Int : k = e \div 16
    OBVIOUS
  <2>2. f % 16 = g % 16
    BY <1>3, Constants DEF Lo
  <2>3. (f + k) % 16 = (k + g) % 16
    BY <2>2
  <2>. QED
    BY <2>1, <2>3, Constants DEF Lo
<1>4. ASSUME NEW e \in Int, NEW f \in Int, NEW g \in Int, Lo(f) = Lo(g)
      PROVE  SameStored("l", Lo(e) + Modulus * Lo(f + (e \div Modulus)), e + Modulus * g)
  <2>1. Lo(e) \in Word /\ Lo(f + (e \div 16)) \in Word
    BY LoWord
  <2>2. Lo(f + (e \div 16)) = Lo((e \div 16) + g)
    BY <1>3, <1>4
  <2>. QED
    BY <1>0, <2>1, <2>2, Halves, Joined DEF SameStored
<1>5. Lo(b + d) = Lo(p + q) /\ Lo(b - d) = Lo(p - q)
  BY <1>1, LoSums
<1>6. a + c \in Int /\ a - c \in Int /\ b + d \in Int /\ b - d \in Int /\ p + q \in Int /\ p - q \in Int
  BY <1>0, <1>1
<1>7. SameStored("l", Lo(a + c) + Modulus * Lo((b + d) + ((a + c) \div Modulus)), (a + c) + Modulus * (p + q))
  BY <1>4, <1>5, <1>6
<1>8. SameStored("l", Lo(a - c) + Modulus * Lo((b - d) + ((a - c) \div Modulus)), (a - c) + Modulus * (p - q))
  BY <1>4, <1>5, <1>6
<1>. QED
  BY <1>0, <1>1, <1>2, <1>7, <1>8

\* add and sub of longs.
LEMMA larithAgrees ==
  ASSUME NEW i, NEW m, NEW R, NEW v, Runs(i, m, R, v), i.op[1] \in {"add", "sub"}, i.op[2] = "l"
  PROVE  larith(i, m) = xec(i, R, m)
<1>1. PICK a, b, c, d : a = m[R.m] /\ b = m[R.m + 1] /\ c = m[R.s] /\ d = m[R.s + 1]
  OBVIOUS
<1>2. i.op[1] \in Binary /\ i.op[1] \notin Shifts
  BY DEF Binary, Shifts
<1>3. /\ mid(i, "lea", m) = R.m /\ a \in Word /\ b \in Word
      /\ Val(v, R.m, "l") = a + Modulus * Signed(b)
  BY <1>1, <1>2, MiddleLong
<1>4. /\ SType(i.op[1], i.op[2]) = "l" /\ opwld(i, "lea", m) = R.s /\ c \in Word /\ d \in Word
      /\ Val(v, R.s, "l") = c + Modulus * Signed(d)
  BY <1>1, <1>2, SourceLong
<1>5. CASE i.op[1] = "add"
  <2>1. larith(i, m) = Put(i, m, "l", Lo(a + c) + Modulus * Lo((b + d) + ((a + c) \div Modulus)))
    BY <1>1, <1>3, <1>4, <1>5 DEF larith
  <2>2. Alu("add", "l", a + Modulus * Signed(b), c + Modulus * Signed(d)) = (a + Modulus * Signed(b)) + (c + Modulus * Signed(d))
    BY DEF Alu
  <2>3. SameStored("l", Lo(a + c) + Modulus * Lo((b + d) + ((a + c) \div Modulus)),
                   (a + Modulus * Signed(b)) + (c + Modulus * Signed(d)))
    BY <1>3, <1>4, Carries
  <2>4. PICK z : z = Lo(a + c) + Modulus * Lo((b + d) + ((a + c) \div Modulus))
    OBVIOUS
  <2>5. SameStored(i.op[2], z, Alu(i.op[1], i.op[2], Val(v, R.m, i.op[2]), Val(v, R.s, SType(i.op[1], i.op[2]))))
    BY <1>3, <1>4, <1>5, <2>2, <2>3, <2>4
  <2>. QED
    BY <1>2, <2>1, <2>4, <2>5, PutAgrees
<1>6. CASE i.op[1] = "sub"
  <2>1. larith(i, m) = Put(i, m, "l", Lo(a - c) + Modulus * Lo((b - d) + ((a - c) \div Modulus)))
    BY <1>1, <1>3, <1>4, <1>6 DEF larith
  <2>2. Alu("sub", "l", a + Modulus * Signed(b), c + Modulus * Signed(d)) = (a + Modulus * Signed(b)) - (c + Modulus * Signed(d))
    BY DEF Alu
  <2>3. SameStored("l", Lo(a - c) + Modulus * Lo((b - d) + ((a - c) \div Modulus)),
                   (a + Modulus * Signed(b)) - (c + Modulus * Signed(d)))
    BY <1>3, <1>4, Carries
  <2>4. PICK z : z = Lo(a - c) + Modulus * Lo((b - d) + ((a - c) \div Modulus))
    OBVIOUS
  <2>5. SameStored(i.op[2], z, Alu(i.op[1], i.op[2], Val(v, R.m, i.op[2]), Val(v, R.s, SType(i.op[1], i.op[2]))))
    BY <1>3, <1>4, <1>6, <2>2, <2>3, <2>4
  <2>. QED
    BY <1>2, <2>1, <2>4, <2>5, PutAgrees
<1>. QED
  BY <1>5, <1>6

\* What the quotients are of a long with the low word x and the high word y.
QuotientsOf(x, y) ==
  /\ ((x + 16 * y) \div 1) \div 16 = y \div 1 /\ ((x + 16 * y) \div 2) \div 16 = y \div 2
  /\ ((x + 16 * y) \div 4) \div 16 = y \div 4 /\ ((x + 16 * y) \div 8) \div 16 = y \div 8
  /\ (x + 16 * y) \div 16 = y \div 1 /\ (x + 16 * y) \div 32 = y \div 2
  /\ (x + 16 * y) \div 64 = y \div 4 /\ (x + 16 * y) \div 128 = y \div 8

\* They are so.
LEMMA Quotients == ASSUME NEW x \in 0 .. 15, NEW y \in Int PROVE QuotientsOf(x, y)
BY DEF QuotientsOf

\* The sign of the high word does not reach the low word of a quotient.
SignLostIn(x, y) ==
  /\ ((x + 16 * (y - 16)) \div 1) % 16 = ((x + 16 * y) \div 1) % 16
  /\ ((x + 16 * (y - 16)) \div 2) % 16 = ((x + 16 * y) \div 2) % 16
  /\ ((x + 16 * (y - 16)) \div 4) % 16 = ((x + 16 * y) \div 4) % 16
  /\ ((x + 16 * (y - 16)) \div 8) % 16 = ((x + 16 * y) \div 8) % 16

\* Adding the width to it adds a multiple of it to the quotient.
LEMMA SignLost == ASSUME NEW x \in 0 .. 15, NEW y \in Int PROVE SignLostIn(x, y)
BY DEF SignLostIn

\* The words a shift of a long by n, less than a word's width, makes.
LEMMA ShiftedNear ==
  ASSUME NEW a \in Word, NEW b \in Word, NEW n \in 0 .. 3
  PROVE  /\ SameStored("l", Sal(a, n) + Modulus * Hi((a + Modulus * b) * 2 ^ n), (a + Modulus * Signed(b)) * 2 ^ n)
         /\ SameStored("l", Lo((a + Modulus * b) \div 2 ^ n) + Modulus * Sar(b, n), (a + Modulus * Signed(b)) \div 2 ^ n)
<1>1. PICK p : p = Signed(b) /\ p \in Int /\ (p = b \/ p = b - 16)
  BY Constants DEF Signed
<1>2. a \in 0 .. 15 /\ b \in 0 .. 15
  BY Constants
<1>3. ASSUME NEW k \in {1, 2, 4, 8}
      PROVE  /\ Lo((a + Modulus * p) * k) = Lo(a * k)
             /\ Hi((a + Modulus * p) * k) = Hi((a + Modulus * b) * k)
  <2>1. PICK x, y, z \in Int : x = a * k /\ y = p * k /\ z = b * k
    <3>1. a \in Int /\ b \in Int /\ p \in Int /\ k \in Int
      BY <1>1, <1>2
    <3>. QED
      BY <3>1
  <2>2. (a + Modulus * p) * k = x + Modulus * y /\ (a + Modulus * b) * k = x + Modulus * z
    <3>1. (a + 16 * p) * k = x + 16 * y
      BY <1>1, <1>2, <2>1
    <3>2. (a + 16 * b) * k = x + 16 * z
      BY <1>1, <1>2, <2>1
    <3>. QED
      BY <3>1, <3>2, Constants
  <2>3. y = z \/ y = z - 16 * k
    BY <1>1, <1>2, <2>1
  <2>4. Lo((x \div Modulus) + y) = Lo((x \div Modulus) + z)
    <3>1. PICK w \in Int : w = x \div 16
      BY <2>1
    <3>2. (w + z - 16 * k) % 16 = (w + z) % 16
      BY <2>1
    <3>3. Lo(w + y) = Lo(w + z)
      BY <2>1, <2>3, <3>1, <3>2, Constants DEF Lo
    <3>. QED
      BY <3>1, <3>3, Constants
  <2>. QED
    BY <2>1, <2>2, <2>4, Halves
<1>q. QuotientsOf(a, p)
  BY <1>1, <1>2, Quotients
<1>s. SignLostIn(a, b) /\ b \in Int
  BY <1>2, SignLost
<1>4. ASSUME NEW k \in {1, 2, 4, 8}
      PROVE  /\ Lo((a + Modulus * p) \div k) = Lo((a + Modulus * b) \div k)
             /\ Hi((a + Modulus * p) \div k) = Lo(p \div k)
  <2>1. /\ ((a + 16 * p) \div k) % 16 = ((a + 16 * b) \div k) % 16
        /\ (((a + 16 * p) \div k) \div 16) % 16 = (p \div k) % 16
    <3>1. CASE k = 1
      <4>1. b \in Int /\ ((a + 16 * (b - 16)) \div 1) % 16 = ((a + 16 * b) \div 1) % 16
        BY <1>2, <1>s DEF SignLostIn
      <4>2. ((a + 16 * p) \div 1) % 16 = ((a + 16 * b) \div 1) % 16
        BY <1>1, <4>1
      <4>3. ((a + 16 * p) \div 1) \div 16 = p \div 1
        BY <1>q DEF QuotientsOf
      <4>. QED
        BY <3>1, <4>2, <4>3
    <3>2. CASE k = 2
      <4>1. b \in Int /\ ((a + 16 * (b - 16)) \div 2) % 16 = ((a + 16 * b) \div 2) % 16
        BY <1>2, <1>s DEF SignLostIn
      <4>2. ((a + 16 * p) \div 2) % 16 = ((a + 16 * b) \div 2) % 16
        BY <1>1, <4>1
      <4>3. ((a + 16 * p) \div 2) \div 16 = p \div 2
        BY <1>q DEF QuotientsOf
      <4>. QED
        BY <3>2, <4>2, <4>3
    <3>3. CASE k = 4
      <4>1. b \in Int /\ ((a + 16 * (b - 16)) \div 4) % 16 = ((a + 16 * b) \div 4) % 16
        BY <1>2, <1>s DEF SignLostIn
      <4>2. ((a + 16 * p) \div 4) % 16 = ((a + 16 * b) \div 4) % 16
        BY <1>1, <4>1
      <4>3. ((a + 16 * p) \div 4) \div 16 = p \div 4
        BY <1>q DEF QuotientsOf
      <4>. QED
        BY <3>3, <4>2, <4>3
    <3>4. CASE k = 8
      <4>1. b \in Int /\ ((a + 16 * (b - 16)) \div 8) % 16 = ((a + 16 * b) \div 8) % 16
        BY <1>2, <1>s DEF SignLostIn
      <4>2. ((a + 16 * p) \div 8) % 16 = ((a + 16 * b) \div 8) % 16
        BY <1>1, <4>1
      <4>3. ((a + 16 * p) \div 8) \div 16 = p \div 8
        BY <1>q DEF QuotientsOf
      <4>. QED
        BY <3>4, <4>2, <4>3
    <3>. QED
      BY <3>1, <3>2, <3>3, <3>4
  <2>. QED
    BY <2>1, Constants DEF Lo, Hi
<1>5. PICK k \in {1, 2, 4, 8} : k = 2 ^ n
  <2>1. n = 0 \/ n = 1 \/ n = 2 \/ n = 3
    OBVIOUS
  <2>. QED
    BY <2>1, Powers
<1>6. a * k \in Int /\ (a + Modulus * b) * k \in Int /\ (a + Modulus * b) \div k \in Int /\ p \div k \in Int
  <2>1. a * k \in Int /\ a + 16 * b \in Int
    BY <1>2
  <2>2. (a + 16 * b) * k \in Int /\ (a + 16 * b) \div k \in Int /\ p \div k \in Int
    BY <2>1, <1>1
  <2>. QED
    BY <2>1, <2>2, Constants
<1>7. Sal(a, n) \in Word /\ Sal(a, n) = Lo(a * k) /\ Sar(b, n) \in Word /\ Sar(b, n) = Lo(p \div k)
  BY <1>1, <1>5, <1>6, LoWord DEF Sal, Sar
<1>8. Hi((a + Modulus * b) * k) \in Word /\ Lo((a + Modulus * b) \div k) \in Word
  <2>1. \A x \in Int : Hi(x) \in Word /\ Lo(x) \in Word
    BY Constants DEF Hi, Lo
  <2>. QED
    BY <2>1, <1>6
<1>9. SameStored("l", Sal(a, n) + Modulus * Hi((a + Modulus * b) * k), (a + Modulus * p) * k)
  BY <1>3, <1>7, <1>8, Joined DEF SameStored
<1>10. SameStored("l", Lo((a + Modulus * b) \div k) + Modulus * Sar(b, n), (a + Modulus * p) \div k)
  BY <1>4, <1>7, <1>8, Joined DEF SameStored
<1>. QED
  BY <1>1, <1>5, <1>9, <1>10

\* The words a shift by n more than a word's width makes.
LEMMA ShiftedFar ==
  ASSUME NEW a \in Word, NEW b \in Word, NEW n \in 0 .. 3
  PROVE  /\ SameStored("l", Modulus * Sal(a, n), (a + Modulus * Signed(b)) * 2 ^ (4 + n))
         /\ SameStored("l", Sar(b, n) + Modulus * Sar(b, 3), (a + Modulus * Signed(b)) \div 2 ^ (4 + n))
<1>1. PICK p : p = Signed(b) /\ p \in -8 .. 7
  BY Constants DEF Signed
<1>2. a \in 0 .. 15 /\ b \in 0 .. 15
  BY Constants
<1>3. ASSUME NEW k \in {1, 2, 4, 8}
      PROVE  /\ Lo((a + Modulus * p) * (16 * k)) = 0
             /\ Hi((a + Modulus * p) * (16 * k)) = Lo(a * k)
  <2>1. PICK x, y \in Int : x = a * k /\ y = p * k
    <3>1. a \in Int /\ p \in Int /\ k \in Int
      BY <1>1, <1>2
    <3>. QED
      BY <3>1
  <2>2. (a + Modulus * p) * (16 * k) = 0 + Modulus * (x + Modulus * y)
    <3>1. (a + 16 * p) * (16 * k) = 16 * (x + 16 * y)
      BY <1>1, <1>2, <2>1
    <3>. QED
      BY <3>1, <2>1, Constants
  <2>3. x + Modulus * y \in Int /\ (0 \div Modulus) + (x + Modulus * y) = x + Modulus * y /\ Lo(0) = 0
    BY <2>1, Constants DEF Lo
  <2>4. Lo(0 + Modulus * (x + Modulus * y)) = Lo(0) /\ Hi(0 + Modulus * (x + Modulus * y)) = Lo(x + Modulus * y)
    BY <2>3, Halves
  <2>. QED
    BY <2>1, <2>2, <2>3, <2>4, Halves
<1>q. QuotientsOf(a, p)
  BY <1>1, <1>2, Quotients
<1>4. ASSUME NEW k \in {1, 2, 4, 8}
      PROVE  /\ Lo((a + Modulus * p) \div (16 * k)) = Lo(p \div k)
             /\ Hi((a + Modulus * p) \div (16 * k)) = Lo(p \div 8)
  <2>1. /\ ((a + 16 * p) \div (16 * k)) % 16 = (p \div k) % 16
        /\ (((a + 16 * p) \div (16 * k)) \div 16) % 16 = (p \div 8) % 16
    <3>1. CASE k = 1
      <4>1. (a + 16 * p) \div 16 = p \div 1
        BY <1>q DEF QuotientsOf
      <4>2. ((p \div 1) \div 16) % 16 = (p \div 8) % 16
        BY <1>1
      <4>. QED
        BY <3>1, <4>1, <4>2
    <3>2. CASE k = 2
      <4>1. (a + 16 * p) \div 32 = p \div 2
        BY <1>q DEF QuotientsOf
      <4>2. ((p \div 2) \div 16) % 16 = (p \div 8) % 16
        BY <1>1
      <4>. QED
        BY <3>2, <4>1, <4>2
    <3>3. CASE k = 4
      <4>1. (a + 16 * p) \div 64 = p \div 4
        BY <1>q DEF QuotientsOf
      <4>2. ((p \div 4) \div 16) % 16 = (p \div 8) % 16
        BY <1>1
      <4>. QED
        BY <3>3, <4>1, <4>2
    <3>4. CASE k = 8
      <4>1. (a + 16 * p) \div 128 = p \div 8
        BY <1>q DEF QuotientsOf
      <4>2. ((p \div 8) \div 16) % 16 = (p \div 8) % 16
        BY <1>1
      <4>. QED
        BY <3>4, <4>1, <4>2
    <3>. QED
      BY <3>1, <3>2, <3>3, <3>4
  <2>. QED
    BY <2>1, Constants DEF Lo, Hi
<1>5. PICK k \in {1, 2, 4, 8} : k = 2 ^ n /\ 16 * k = 2 ^ (4 + n)
  <2>1. CASE n = 0
    BY <2>1, Powers
  <2>2. CASE n = 1
    BY <2>2, Powers
  <2>3. CASE n = 2
    BY <2>3, Powers
  <2>4. CASE n = 3
    BY <2>4, Powers
  <2>. QED
    BY <2>1, <2>2, <2>3, <2>4
<1>6. a * k \in Int /\ p \div k \in Int /\ p \div 8 \in Int
  BY <1>1, <1>2
<1>7. /\ Sal(a, n) \in Word /\ Sal(a, n) = Lo(a * k) /\ Sar(b, n) \in Word /\ Sar(b, n) = Lo(p \div k)
      /\ Sar(b, 3) \in Word /\ Sar(b, 3) = Lo(p \div 8)
  BY <1>1, <1>5, <1>6, LoWord, Powers DEF Sal, Sar
<1>8. SameStored("l", Modulus * Sal(a, n), (a + Modulus * p) * (16 * k))
  <2>1. Lo(0 + Modulus * Sal(a, n)) = 0 /\ Hi(0 + Modulus * Sal(a, n)) = Sal(a, n)
    <3>1. 0 \in Word
      BY Constants
    <3>. QED
      BY <1>7, <3>1, Joined
  <2>2. 0 + Modulus * Sal(a, n) = Modulus * Sal(a, n)
    BY <1>7, Constants
  <2>. QED
    BY <1>3, <1>7, <2>1, <2>2 DEF SameStored
<1>9. SameStored("l", Sar(b, n) + Modulus * Sar(b, 3), (a + Modulus * p) \div (16 * k))
  BY <1>4, <1>7, Joined DEF SameStored
<1>. QED
  BY <1>1, <1>5, <1>8, <1>9

\* shl and shr of longs.
LEMMA shlrAgrees ==
  ASSUME NEW i, NEW m, NEW R, NEW v, Runs(i, m, R, v), i.op[1] \in {"shl", "shr"}, i.op[2] = "l"
  PROVE  IF i.op[1] = "shl" THEN shll(i, m) = xec(i, R, m) ELSE shrl(i, m) = xec(i, R, m)
<1>1. PICK a, b, o : a = m[R.m] /\ b = m[R.m + 1] /\ o = opwld(i, "ldw", m)
  OBVIOUS
<1>2. i.op[1] \in Binary /\ i.op[1] \in Shifts
  BY DEF Binary, Shifts
<1>3. /\ mid(i, "lea", m) = R.m /\ a \in Word /\ b \in Word
      /\ Val(v, R.m, "l") = a + Modulus * Signed(b)
  BY <1>1, <1>2, MiddleLong
<1>4. Val(v, R.s, SType(i.op[1], i.op[2])) = o /\ o \in 0 .. 7
  BY <1>1, <1>2, ShiftCount
<1>5. PICK n \in 0 .. 3 : n = Count(o) /\ (IF Far(o) THEN o = 4 + n ELSE o = n)
  BY <1>4, Constants DEF Count, Far
<1>6. Alu("shl", "l", a + Modulus * Signed(b), o) = (a + Modulus * Signed(b)) * 2 ^ o
  BY DEF Alu
<1>7. Alu("shr", "l", a + Modulus * Signed(b), o) = (a + Modulus * Signed(b)) \div 2 ^ o
  BY DEF Alu
<1>8. CASE i.op[1] = "shl"
  <2>1. PICK z : z = IF Far(o) THEN Modulus * Sal(a, n) ELSE Sal(a, n) + Modulus * Hi((a + Modulus * b) * 2 ^ n)
    OBVIOUS
  <2>2. shll(i, m) = Put(i, m, "l", z)
    BY <1>1, <1>3, <1>5, <2>1 DEF shll
  <2>3. SameStored("l", z, (a + Modulus * Signed(b)) * 2 ^ o)
    BY <1>3, <1>5, <2>1, ShiftedNear, ShiftedFar
  <2>4. SameStored(i.op[2], z, Alu(i.op[1], i.op[2], Val(v, R.m, i.op[2]), Val(v, R.s, SType(i.op[1], i.op[2]))))
    BY <1>3, <1>4, <1>6, <1>8, <2>3
  <2>. QED
    BY <1>2, <1>8, <2>2, <2>4, PutAgrees
<1>9. CASE i.op[1] = "shr"
  <2>1. PICK z : z = IF Far(o) THEN Sar(b, n) + Modulus * Sar(b, Width - 1)
                     ELSE Lo((a + Modulus * b) \div 2 ^ n) + Modulus * Sar(b, n)
    OBVIOUS
  <2>2. shrl(i, m) = Put(i, m, "l", z)
    BY <1>1, <1>3, <1>5, <2>1 DEF shrl
  <2>3. SameStored("l", z, (a + Modulus * Signed(b)) \div 2 ^ o)
    <3>1. Width - 1 = 3
      BY Constants
    <3>. QED
      BY <1>3, <1>5, <2>1, <3>1, ShiftedNear, ShiftedFar
  <2>4. SameStored(i.op[2], z, Alu(i.op[1], i.op[2], Val(v, R.m, i.op[2]), Val(v, R.s, SType(i.op[1], i.op[2]))))
    BY <1>3, <1>4, <1>7, <1>9, <2>3
  <2>. QED
    BY <1>2, <1>9, <2>2, <2>4, PutAgrees
<1>. QED
  BY <1>8, <1>9

-----------------------------------------------------------------------------
(* Branches, moves and conversions, and punts. *)

\* What the interpreter does at a branch.
LEMMA XecBranch ==
  ASSUME NEW i, NEW m, NEW R, NEW v, Runs(i, m, R, v), i.op[1] \in Branches
  PROVE  /\ i.op[2] \in {"b", "w", "l"} /\ i.op[1] \notin Shifts /\ SType(i.op[1], i.op[2]) = i.op[2]
         /\ xec(i, R, m) = [jump |-> Compares(i.op[1], Val(v, R.s, i.op[2]), Val(v, R.m, i.op[2])), mem |-> m]
<1>1. i.op[1] \notin Binary /\ i.op[1] \notin Shifts /\ i.op[1] \notin {"mov", "cvt", "lea"}
  BY DEF Binary, Branches, Shifts
<1>2. i.op[2] \in {"b", "w", "l"}
  BY <1>1 DEF Runs, Sane, Right, Branches
<1>3. SType(i.op[1], i.op[2]) = i.op[2] /\ v = View(i, R, m)
  BY <1>1 DEF SType, Runs
<1>4. xec(i, R, m) = [jump |-> Compares(i.op[1], Val(v, R.s, i.op[2]), Val(v, R.m, i.op[2])), mem |-> m]
  BY <1>1, <1>3 DEF xec
<1>. QED
  BY <1>1, <1>2, <1>3, <1>4

\* Exchanging operands and condition changes nothing.
LEMMA Exchanged ==
  ASSUME NEW kind \in Branches, NEW x \in Word, NEW y \in Word
  PROVE  /\ Taken(SignedJump(kind), x, y) = Compares(kind, Signed(x), Signed(y))
         /\ Taken(swapbraop(SignedJump(kind)), y, x) = Compares(kind, Signed(x), Signed(y))
<1>1. x \in 0 .. 15 /\ y \in 0 .. 15 /\ (Signed(x) = IF x >= 8 THEN x - 16 ELSE x) /\ (Signed(y) = IF y >= 8 THEN y - 16 ELSE y)
  BY Constants DEF Signed
<1>2. (x = y) <=> (Signed(x) = Signed(y))
  BY <1>1
<1>3. Signed(x) \in Int /\ Signed(y) \in Int
  BY <1>1
<1>4. CASE kind = "beq"
  BY <1>2, <1>4 DEF Taken, SignedJump, swapbraop, Compares
<1>5. CASE kind = "bne"
  BY <1>2, <1>5 DEF Taken, SignedJump, swapbraop, Compares
<1>6. CASE kind = "blt"
  BY <1>3, <1>6 DEF Taken, SignedJump, swapbraop, Compares
<1>7. CASE kind = "ble"
  BY <1>3, <1>7 DEF Taken, SignedJump, swapbraop, Compares
<1>8. CASE kind = "bgt"
  BY <1>3, <1>8 DEF Taken, SignedJump, swapbraop, Compares
<1>9. CASE kind = "bge"
  BY <1>3, <1>9 DEF Taken, SignedJump, swapbraop, Compares
<1>. QED
  BY <1>4, <1>5, <1>6, <1>7, <1>8, <1>9 DEF Branches

\* Branches on words.
LEMMA cbraAgrees ==
  ASSUME NEW i, NEW m, NEW R, NEW v, Runs(i, m, R, v), i.op[1] \in Branches, i.op[2] = "w"
  PROVE  cbra(i, m) = xec(i, R, m)
<1>1. PICK x, y : x = v[R.m] /\ y = v[R.s]
  OBVIOUS
<1>2. mid(i, "ldw", m) = x /\ opwld(i, "ldw", m) = y /\ x \in Word /\ y \in Word
  BY <1>1, Loaded DEF Loads
<1>3. xec(i, R, m) = [jump |-> Compares(i.op[1], Signed(y), Signed(x)), mem |-> m]
  BY <1>1, XecBranch DEF Val
<1>4. /\ Taken(SignedJump(i.op[1]), y, x) = Compares(i.op[1], Signed(y), Signed(x))
      /\ Taken(swapbraop(SignedJump(i.op[1])), x, y) = Compares(i.op[1], Signed(y), Signed(x))
  BY <1>2, Exchanged
<1>5. cbra(i, m) = Jump(IF i.src = "imm" THEN Taken(swapbraop(SignedJump(i.op[1])), x, y)
                      ELSE Taken(SignedJump(i.op[1]), y, x), m)
  BY <1>2 DEF cbra
<1>. QED
  BY <1>3, <1>4, <1>5 DEF Jump

\* The jumps of unsigned compares.
LEMMA UnsignedCompare ==
  ASSUME NEW kind \in Branches, NEW x \in Int, NEW y \in Int
  PROVE  Taken(UnsignedJump(kind), x, y) = Compares(kind, x, y)
BY DEF Taken, UnsignedJump, Compares, Branches

\* Branches on bytes.
LEMMA cbrabAgrees ==
  ASSUME NEW i, NEW m, NEW R, NEW v, Runs(i, m, R, v), i.op[1] \in Branches, i.op[2] = "b"
  PROVE  cbrab(i, m) = xec(i, R, m)
<1>1. PICK x, y : x = Byte(v[R.m]) /\ y = Byte(v[R.s])
  OBVIOUS
<1>2. Byte(mid(i, "ldb", m)) = x /\ Byte(opwld(i, "ldb", m)) = y /\ v[R.m] \in Word /\ v[R.s] \in Word
  BY <1>1, Loaded DEF Loads
<1>3. x \in Int /\ y \in Int
  BY <1>1, <1>2, Constants DEF Byte
<1>4. xec(i, R, m) = [jump |-> Compares(i.op[1], y, x), mem |-> m]
  BY <1>1, XecBranch DEF Val, Byte
<1>5. cbrab(i, m) = Jump(Taken(UnsignedJump(i.op[1]), y, x), m)
  BY <1>2 DEF cbrab
<1>. QED
  BY <1>3, <1>4, <1>5, UnsignedCompare DEF Jump

\* Compares are decided.
LEMMA Decided ==
  ASSUME NEW kind \in Branches, NEW x \in Int, NEW y \in Int
  PROVE  Compares(kind, x, y) \in BOOLEAN
<1>1. CASE kind = "beq"
  BY <1>1 DEF Compares
<1>2. CASE kind = "bne"
  BY <1>2 DEF Compares
<1>3. CASE kind = "blt"
  BY <1>3 DEF Compares
<1>4. CASE kind = "ble"
  BY <1>4 DEF Compares
<1>5. CASE kind = "bgt"
  BY <1>5 DEF Compares
<1>6. CASE kind = "bge"
  BY <1>6 DEF Compares
<1>. QED
  BY <1>1, <1>2, <1>3, <1>4, <1>5, <1>6 DEF Branches

\* The code for longs compares the high words with their sign, then the low
\* words without.
LEMMA LongCompare ==
  ASSUME NEW kind \in Branches \ {"beq"}, NEW ls \in Word, NEW hs \in Word, NEW ln \in Word, NEW hn \in Word
  PROVE  Compares(kind, ls + Modulus * Signed(hs), ln + Modulus * Signed(hn))
           <=> IF kind = "bne" THEN hs # hn \/ Taken(UnsignedJump(kind), ls, ln)
               ELSE Taken(IF kind \in {"blt", "ble"} THEN "jlt" ELSE "jgt", hs, hn)
                      \/ (hs = hn /\ Taken(UnsignedJump(kind), ls, ln))
<1>1. PICK p, q : p = Signed(hs) /\ q = Signed(hn) /\ p \in -8 .. 7 /\ q \in -8 .. 7 /\ (p = q <=> hs = hn)
  BY Constants DEF Signed
<1>2. ls \in 0 .. 15 /\ ln \in 0 .. 15
  BY Constants
<1>3. /\ ls + 16 * p # ln + 16 * q <=> (p # q \/ ls # ln)
      /\ ls + 16 * p < ln + 16 * q <=> (p < q \/ (p = q /\ ls < ln))
      /\ ls + 16 * p <= ln + 16 * q <=> (p < q \/ (p = q /\ ls <= ln))
      /\ ls + 16 * p > ln + 16 * q <=> (p > q \/ (p = q /\ ls > ln))
      /\ ls + 16 * p >= ln + 16 * q <=> (p > q \/ (p = q /\ ls >= ln))
  <2>1. ls + 16 * p < ln + 16 * q <=> (p < q \/ (p = q /\ ls < ln))
    BY <1>1, <1>2
  <2>2. ls + 16 * p <= ln + 16 * q <=> (p < q \/ (p = q /\ ls <= ln))
    BY <1>1, <1>2
  <2>. QED
    BY <1>1, <1>2, <2>1, <2>2
<1>4. Modulus = 16
  BY Constants
<1>5. CASE kind = "bne"
  BY <1>1, <1>3, <1>4, <1>5 DEF Compares, Taken, UnsignedJump
<1>6. CASE kind = "blt"
  BY <1>1, <1>3, <1>4, <1>6 DEF Compares, Taken, UnsignedJump
<1>7. CASE kind = "ble"
  BY <1>1, <1>3, <1>4, <1>7 DEF Compares, Taken, UnsignedJump
<1>8. CASE kind = "bgt"
  BY <1>1, <1>3, <1>4, <1>8 DEF Compares, Taken, UnsignedJump
<1>9. CASE kind = "bge"
  BY <1>1, <1>3, <1>4, <1>9 DEF Compares, Taken, UnsignedJump
<1>. QED
  BY <1>5, <1>6, <1>7, <1>8, <1>9 DEF Branches

\* Branches on longs, but beql.
LEMMA cbralAgrees ==
  ASSUME NEW i, NEW m, NEW R, NEW v, Runs(i, m, R, v), i.op[1] \in Branches, i.op[2] = "l"
  PROVE  cbral(i, m) = xec(i, R, m)
<1>1. PICK ls, hs, ln, hn : ls = m[R.s] /\ hs = m[R.s + 1] /\ ln = m[R.m] /\ hn = m[R.m + 1]
  OBVIOUS
<1>2. /\ mid(i, "lea", m) = R.m /\ ln \in Word /\ hn \in Word
      /\ Val(v, R.m, "l") = ln + Modulus * Signed(hn)
  BY <1>1, MiddleLong
<1>3. /\ opwld(i, "lea", m) = R.s /\ ls \in Word /\ hs \in Word
      /\ Val(v, R.s, "l") = ls + Modulus * Signed(hs)
  BY <1>1, SourceLong, XecBranch
<1>4. PICK kind : kind = i.op[1]
  OBVIOUS
<1>5. kind \in Branches \ {"beq"}
  BY <1>4 DEF Runs, Sane, Right
<1>6. xec(i, R, m) = [jump |-> Compares(kind, ls + Modulus * Signed(hs), ln + Modulus * Signed(hn)), mem |-> m]
  BY <1>2, <1>3, <1>4, XecBranch
<1>7. PICK low : low = Taken(UnsignedJump(kind), ls, ln)
  OBVIOUS
<1>8. PICK high : high = Taken(IF kind \in {"blt", "ble"} THEN "jlt" ELSE "jgt", hs, hn)
  OBVIOUS
<1>9. cbral(i, m) = Jump(IF kind = "bne" THEN hs # hn \/ low ELSE high \/ (hs = hn /\ low), m)
  <2>1. Taken("jne", hs, hn) = (hs # hn)
    BY DEF Taken
  <2>. QED
    BY <1>1, <1>2, <1>3, <1>4, <1>5, <1>7, <1>8, <2>1 DEF cbral
<1>10. Compares(kind, ls + Modulus * Signed(hs), ln + Modulus * Signed(hn))
         <=> IF kind = "bne" THEN hs # hn \/ low ELSE high \/ (hs = hn /\ low)
  BY <1>2, <1>3, <1>5, <1>7, <1>8, LongCompare
<1>11. Compares(kind, ls + Modulus * Signed(hs), ln + Modulus * Signed(hn)) \in BOOLEAN
  <2>1. ls + Modulus * Signed(hs) \in Int /\ ln + Modulus * Signed(hn) \in Int
    BY <1>2, <1>3, Constants DEF Signed
  <2>. QED
    BY <1>5, <2>1, Decided
<1>12. low \in BOOLEAN /\ high \in BOOLEAN
  <2>1. low = Compares(kind, ls, ln) /\ low \in BOOLEAN
    <3>1. ls \in Int /\ ln \in Int
      BY <1>2, <1>3, Constants
    <3>. QED
      BY <1>5, <1>7, <3>1, UnsignedCompare, Decided
  <2>2. Signed(hs) \in Int /\ Signed(hn) \in Int
    BY <1>2, <1>3, Constants DEF Signed
  <2>3. (Signed(hs) < Signed(hn)) \in BOOLEAN /\ (Signed(hs) > Signed(hn)) \in BOOLEAN
    BY <2>2
  <2>4. high = (Signed(hs) < Signed(hn)) \/ high = (Signed(hs) > Signed(hn))
    BY <1>8 DEF Taken
  <2>. QED
    BY <2>1, <2>3, <2>4
<1>. QED
  BY <1>6, <1>9, <1>10, <1>11, <1>12 DEF Jump

\* What the interpreter does at a move or conversion; none has a middle
\* operand.
LEMMA XecMove ==
  ASSUME NEW i, NEW m, NEW R, NEW v, Runs(i, m, R, v), i.op[1] \in {"mov", "cvt", "lea"}
  PROVE  /\ i.op[1] \notin Branches \cup Binary \cup Shifts
         /\ opwst(i, "lea", m) = R.d /\ Room(R.d, DestType(i))
         /\ xec(i, R, m) = [jump |-> FALSE,
              mem |-> CASE i.op[1] = "mov" -> Store(m, R.d, i.op[2], Val(v, R.s, i.op[2]))
                        [] i.op[1] = "cvt" -> Store(m, R.d, CvtTo(i.op[2]), Val(v, R.s, CvtFrom(i.op[2])))
                        [] i.op[1] = "lea" -> Store(m, R.d, i.op[2], R.s)]
<1>1. i.op[1] \notin Branches \cup Binary \cup Shifts
  BY DEF Binary, Branches, Shifts
<1>2. opwst(i, "lea", m) = R.d /\ Room(R.d, DestType(i))
  BY <1>1, Destination
<1>3. v = View(i, R, m) /\ SType(i.op[1], i.op[2]) = i.op[2]
  BY <1>1 DEF Runs, SType
<1>4. CASE i.op[1] = "mov"
  BY <1>1, <1>2, <1>3, <1>4 DEF xec
<1>5. CASE i.op[1] = "cvt"
  BY <1>1, <1>2, <1>3, <1>5 DEF xec
<1>6. CASE i.op[1] = "lea"
  BY <1>1, <1>2, <1>3, <1>6 DEF xec
<1>. QED
  BY <1>4, <1>5, <1>6

\* The sign of a word, in a byte of it, and in a long.
LEMMA Signs ==
  ASSUME NEW x \in Word
  PROVE  /\ Signed(x) \in Int /\ SameStored("w", x, Signed(x)) /\ SameStored("b", x, Signed(x))
         /\ SameStored("b", x, x % ByteModulus) /\ SameStored("l", x + Modulus * Sar(x, 3), Signed(x))
         /\ Lo(Signed(x)) = x
<1>1. x \in 0 .. 15 /\ Signed(x) \in -8 .. 7 /\ (Signed(x) = x \/ Signed(x) = x - 16)
  BY Constants DEF Signed
<1>2. Lo(x) = x /\ Lo(Signed(x)) = x
  BY <1>1, Constants DEF Lo
<1>3. SameStored("b", x, Signed(x)) /\ SameStored("b", x, x % ByteModulus)
  BY <1>1, Constants DEF SameStored
<1>4. SameStored("l", x + Modulus * Sar(x, 3), Signed(x))
  <2>1. PICK p : p = Signed(x) /\ p \in -8 .. 7
    BY <1>1
  <2>2. ((p \div 1) \div 16) % 16 = (p \div 8) % 16
    BY <2>1
  <2>3. p \div 1 = p
    BY <2>1
  <2>4. Hi(p) = Lo(p \div 8)
    BY <2>2, <2>3, Constants DEF Hi, Lo
  <2>5. Sar(x, 3) = Lo(p \div 8)
    BY <2>1, Powers DEF Sar
  <2>6. Sar(x, 3) \in Word
    <3>1. p \div 8 \in Int
      BY <2>1
    <3>. QED
      BY <2>5, <3>1, LoWord
  <2>7. Lo(x + Modulus * Sar(x, 3)) = x /\ Hi(x + Modulus * Sar(x, 3)) = Sar(x, 3)
    BY <2>6, Joined
  <2>. QED
    BY <1>2, <2>1, <2>4, <2>5, <2>7 DEF SameStored
<1>. QED
  BY <1>1, <1>2, <1>3, <1>4 DEF SameStored

\* mov of words and bytes.
LEMMA movAgrees ==
  ASSUME NEW i, NEW m, NEW R, NEW v, Runs(i, m, R, v), i.op[1] = "mov", i.op[2] \in {"w", "b"}
  PROVE  Put(i, m, i.op[2], opwld(i, "ld", m)) = xec(i, R, m)
<1>1. PICK x : x = opwld(i, "ld", m)
  OBVIOUS
<1>2. x = v[R.s] /\ x \in Word
  BY <1>1, Loaded DEF Loads
<1>3. xec(i, R, m) = [jump |-> FALSE, mem |-> Store(m, R.d, i.op[2], Val(v, R.s, i.op[2]))]
  BY XecMove
<1>4. SameStored(i.op[2], x, Val(v, R.s, i.op[2]))
  BY <1>2, Signs DEF Val
<1>5. Store(m, R.d, i.op[2], x) = Store(m, R.d, i.op[2], Val(v, R.s, i.op[2]))
  BY <1>4, StoredAlike
<1>. QED
  BY <1>1, <1>3, <1>5, XecMove DEF Put

\* mov of longs, word by word: the words overlap wholly or not at all.
LEMMA movlAgrees ==
  ASSUME NEW i, NEW m, NEW R, NEW v, Runs(i, m, R, v), i.op = << "mov", "l" >>
  PROVE  movl(i, m) = xec(i, R, m)
<1>1. i.op[1] = "mov" /\ i.op[2] = "l"
  OBVIOUS
<1>2. PICK s, d : s = R.s /\ d = R.d
  OBVIOUS
<1>3. /\ opwld(i, "lea", m) = s /\ s \in Addr /\ s + 1 \in Addr /\ m[s] \in Word /\ m[s + 1] \in Word
      /\ Val(v, R.s, "l") = m[s] + Modulus * Signed(m[s + 1])
  <2>1. "mov" \notin Shifts
    BY DEF Shifts
  <2>. QED
    BY <1>1, <1>2, <2>1, SourceLong
<1>4. opwst(i, "lea", m) = d /\ d \in Addr /\ d + 1 \in Addr
  BY <1>1, <1>2, XecMove DEF Room, DestType
<1>5. s - d # -1
  BY <1>1, <1>2 DEF Runs, Legal
<1>6. xec(i, R, m) = [jump |-> FALSE, mem |-> Store(m, d, "l", m[s] + Modulus * Signed(m[s + 1]))]
  BY <1>1, <1>2, <1>3, XecMove
<1>7. Lo(m[s] + Modulus * Signed(m[s + 1])) = m[s] /\ Hi(m[s] + Modulus * Signed(m[s + 1])) = m[s + 1]
  <2>1. m[s] \in 0 .. 15 /\ Lo(m[s]) = m[s] /\ m[s] \div Modulus = 0
    BY <1>3, Constants DEF Lo
  <2>2. Signed(m[s + 1]) \in Int /\ Lo(Signed(m[s + 1])) = m[s + 1]
    BY <1>3, Signs
  <2>3. 0 + Signed(m[s + 1]) = Signed(m[s + 1])
    BY <2>2
  <2>. QED
    BY <2>1, <2>2, <2>3, Halves
<1>8. PICK low : low = [m EXCEPT ![d] = m[s]]
  OBVIOUS
<1>9. low[s + 1] = m[s + 1]
  BY <1>3, <1>4, <1>5, <1>8, Constants DEF Runs, Memory
<1>10. movl(i, m) = Jump(FALSE, [low EXCEPT ![d + 1] = m[s + 1]])
  BY <1>3, <1>4, <1>8, <1>9 DEF movl
<1>11. Store(m, d, "l", m[s] + Modulus * Signed(m[s + 1])) = [low EXCEPT ![d + 1] = m[s + 1]]
  BY <1>7, <1>8 DEF Store
<1>. QED
  BY <1>6, <1>10, <1>11 DEF Jump

\* The conversions.
LEMMA cvtAgrees ==
  ASSUME NEW i, NEW m, NEW R, NEW v, Runs(i, m, R, v), i.op[1] = "cvt"
  PROVE  cvt(i, m) = xec(i, R, m)
<1>1. PICK x : x = opwld(i, "ld", m)
  OBVIOUS
<1>2. x = v[R.s] /\ x \in Word
  BY <1>1, Loaded DEF Loads
<1>3. PICK t : t = i.op[2]
  OBVIOUS
<1>4. t \in {"bw", "wb", "lw", "wl"}
  BY <1>3 DEF Runs, Sane, Right
<1>5. xec(i, R, m) = [jump |-> FALSE, mem |-> Store(m, R.d, CvtTo(t), Val(v, R.s, CvtFrom(t)))]
  BY <1>3, XecMove
<1>6. \A tt, y : Put(i, m, tt, y) = [jump |-> FALSE, mem |-> Store(m, R.d, tt, y)]
  BY XecMove DEF Put
<1>7. CASE t = "bw"
  BY <1>1, <1>2, <1>3, <1>5, <1>6, <1>7 DEF cvt, CvtTo, CvtFrom, Val, Byte
<1>8. CASE t = "wb"
  <2>1. Store(m, R.d, "b", x) = Store(m, R.d, "b", Signed(x))
    BY <1>2, Signs, StoredAlike
  <2>2. cvt(i, m) = Put(i, m, "b", x)
    BY <1>1, <1>3, <1>8 DEF cvt
  <2>3. CvtTo(t) = "b" /\ Val(v, R.s, CvtFrom(t)) = Signed(x)
    BY <1>2, <1>8 DEF CvtTo, CvtFrom, Val
  <2>. QED
    BY <1>5, <1>6, <2>1, <2>2, <2>3
<1>9. CASE t = "lw"
  <2>1. Val(v, R.s, "l") = x + Modulus * Signed(v[R.s + 1]) /\ v[R.s + 1] \in Word
    <3>1. i.src # "imm"
      BY <1>3, <1>9 DEF Runs, Sane, Instr, Shifts
    <3>2. SourceType(i) = "l"
      BY <1>3, <1>9 DEF SourceType, CvtFrom
    <3>3. R.s + 1 \in Addr
      BY <3>1, <3>2, Source DEF Room
    <3>4. v[R.s + 1] \in Word
      BY <3>3, ViewIs DEF Runs, Reads
    <3>. QED
      BY <1>2, <3>4 DEF Val
  <2>2. PICK y : y = x + Modulus * Signed(v[R.s + 1])
    OBVIOUS
  <2>3. Lo(y) = Lo(x)
    <3>1. x \in Int /\ Signed(v[R.s + 1]) \in Int
      BY <1>2, <2>1, Signs, Constants
    <3>. QED
      BY <2>2, <3>1, Halves
  <2>4. Store(m, R.d, "w", x) = Store(m, R.d, "w", y)
    BY <2>3, StoredAlike DEF SameStored
  <2>5. cvt(i, m) = Put(i, m, "w", x)
    BY <1>1, <1>3, <1>9 DEF cvt
  <2>6. CvtTo(t) = "w" /\ Val(v, R.s, CvtFrom(t)) = y
    BY <1>9, <2>1, <2>2 DEF CvtTo, CvtFrom
  <2>. QED
    BY <1>5, <1>6, <2>4, <2>5, <2>6
<1>10. CASE t = "wl"
  <2>1. Store(m, R.d, "l", x + Modulus * Sar(x, 3)) = Store(m, R.d, "l", Signed(x))
    <3>1. PICK y, z : y = x + Modulus * Sar(x, 3) /\ z = Signed(x)
      OBVIOUS
    <3>2. SameStored("l", y, z)
      BY <1>2, <3>1, Signs
    <3>. QED
      BY <3>1, <3>2, StoredAlike
  <2>2. cvt(i, m) = Put(i, m, "l", x + Modulus * Sar(x, 3))
    <3>1. Width - 1 = 3
      BY Constants
    <3>. QED
      BY <1>1, <1>3, <1>10, <3>1 DEF cvt
  <2>3. CvtTo(t) = "l" /\ Val(v, R.s, CvtFrom(t)) = Signed(x)
    BY <1>2, <1>10 DEF CvtTo, CvtFrom, Val
  <2>. QED
    BY <1>5, <1>6, <2>1, <2>2, <2>3
<1>. QED
  BY <1>4, <1>7, <1>8, <1>9, <1>10

\* lea.
LEMMA leaAgrees ==
  ASSUME NEW i, NEW m, NEW R, NEW v, Runs(i, m, R, v), i.op[1] = "lea"
  PROVE  Put(i, m, i.op[2], opwld(i, "lea", m)) = xec(i, R, m)
<1>1. i.src # "imm"
  BY DEF Runs, Sane, Instr
<1>2. opwld(i, "lea", m) = R.s
  BY <1>1, Source
<1>. QED
  BY <1>2, XecMove DEF Put

\* A punt calls the interpreter's function with the registers the interpreter
\* would have.
LEMMA puntAgrees ==
  ASSUME NEW i, NEW m, NEW R, NEW v, Runs(i, m, R, v), i.op[1] \notin Branches
  PROVE  punt(i, m) = R
<1>1. opwst(i, "lea", m) = R.d
  BY Destination
<1>2. (IF i.src = "imm" THEN SImm ELSE opwld(i, "lea", m)) = R.s
  BY Source
<1>3. i.mid \in {"none", "imm", "inf", "inm"}
  BY DEF Runs, Sane
<1>4. (CASE i.mid = "none" -> R.d [] i.mid = "imm" -> RT
         [] i.mid \in {"inf", "inm"} -> Base(i.mid) + i.reg) = R.m
  <2>1. CASE i.mid = "none"
    BY <2>1, Middle
  <2>2. CASE i.mid = "imm"
    BY <2>2, Middle
  <2>3. CASE i.mid = "inf"
    BY <2>3, Addresses DEF Base
  <2>4. CASE i.mid = "inm"
    BY <2>4, Addresses DEF Base
  <2>. QED
    BY <1>3, <2>1, <2>2, <2>3, <2>4
<1>5. R.t = IF i.mid = "imm" THEN Short(i.reg) ELSE 0
  BY Addresses
<1>6. R = [s |-> R.s, d |-> R.d, m |-> R.m, t |-> R.t]
  BY Addresses
<1>. QED
  BY <1>1, <1>2, <1>4, <1>5, <1>6 DEF punt

\* Each operation is compiled right.
LEMMA OperationAgrees ==
  ASSUME NEW i, NEW m, NEW R, NEW v, Runs(i, m, R, v)
  PROVE  comp(i, m) = xec(i, R, m)
<1>1. PICK kind, t : kind = i.op[1] /\ t = i.op[2]
  OBVIOUS
<1>2. i.op \in Right /\ i.op = << kind, t >>
  BY <1>1 DEF Runs, Sane, Right
<1>3. ASSUME kind = "lsr" \/ (kind \in {"mul", "div", "mod"} /\ t = "l")
      PROVE  comp(i, m) = xec(i, R, m)
  <2>1. comp(i, m) = xec(i, punt(i, m), m)
    BY <1>1, <1>3 DEF comp, Branches
  <2>2. i.op[1] \notin Branches
    BY <1>1, <1>3 DEF Branches
  <2>. QED
    BY <2>1, <2>2, puntAgrees
<1>4. ASSUME kind \in {"add", "sub"}
      PROVE  comp(i, m) = xec(i, R, m)
  <2>1. t \in {"b", "w", "l"}
    BY <1>2, <1>4 DEF Right
  <2>2. comp(i, m) = CASE t = "w" -> arith(i, m) [] t = "b" -> arithb(i, m) [] t = "l" -> larith(i, m)
    BY <1>1, <1>4 DEF comp, Branches
  <2>. QED
    BY <1>1, <1>4, <2>1, <2>2, arithAgrees, arithbAgrees, larithAgrees
<1>5. ASSUME kind \in {"mul", "div", "mod"}, t = "w"
      PROVE  comp(i, m) = xec(i, R, m)
  <2>1. comp(i, m) = muldiv(i, m)
    BY <1>1, <1>5 DEF comp, Branches
  <2>. QED
    BY <1>1, <1>5, <2>1, muldivAgrees
<1>6. ASSUME kind = "mul", t = "b"
      PROVE  comp(i, m) = xec(i, R, m)
  <2>1. comp(i, m) = mulb(i, m)
    BY <1>1, <1>6 DEF comp, Branches
  <2>. QED
    BY <1>1, <1>2, <1>6, <2>1, mulbAgrees
<1>7. ASSUME kind = "shl", t = "l"
      PROVE  comp(i, m) = xec(i, R, m)
  <2>1. comp(i, m) = shll(i, m)
    BY <1>1, <1>7 DEF comp, Branches
  <2>. QED
    BY <1>1, <1>7, <2>1, shlrAgrees
<1>8. ASSUME kind = "shr", t = "l"
      PROVE  comp(i, m) = xec(i, R, m)
  <2>1. comp(i, m) = shrl(i, m)
    BY <1>1, <1>8 DEF comp, Branches
  <2>. QED
    BY <1>1, <1>8, <2>1, shlrAgrees
<1>9. ASSUME kind \in {"shl", "shr"}, t \in {"b", "w"}
      PROVE  comp(i, m) = xec(i, R, m)
  <2>1. comp(i, m) = shift(i, m)
    BY <1>1, <1>9 DEF comp, Branches
  <2>. QED
    BY <1>1, <1>9, <2>1, shiftAgrees
<1>10. ASSUME kind \in Branches
       PROVE  comp(i, m) = xec(i, R, m)
  <2>1. t \in {"b", "w", "l"}
    BY <1>1, <1>10, XecBranch
  <2>2. comp(i, m) = CASE t = "w" -> cbra(i, m) [] t = "b" -> cbrab(i, m) [] t = "l" -> cbral(i, m)
    <3>1. kind \notin {"lsr", "mul", "div", "mod", "add", "sub", "shl", "shr", "mov", "lea", "cvt"}
      BY <1>10 DEF Branches
    <3>. QED
      BY <1>1, <1>10, <3>1 DEF comp
  <2>. QED
    BY <1>1, <1>10, <2>1, <2>2, cbraAgrees, cbrabAgrees, cbralAgrees
<1>11. ASSUME kind = "mov"
       PROVE  comp(i, m) = xec(i, R, m)
  <2>1. t \in {"b", "w", "l"}
    BY <1>2, <1>11 DEF Right
  <2>2. comp(i, m) = IF t = "l" THEN movl(i, m) ELSE Put(i, m, t, opwld(i, "ld", m))
    BY <1>1, <1>11 DEF comp, Branches
  <2>. QED
    BY <1>1, <1>2, <1>11, <2>1, <2>2, movAgrees, movlAgrees
<1>12. ASSUME kind = "lea"
       PROVE  comp(i, m) = xec(i, R, m)
  <2>1. comp(i, m) = Put(i, m, t, opwld(i, "lea", m))
    BY <1>1, <1>12 DEF comp, Branches
  <2>. QED
    BY <1>1, <1>12, <2>1, leaAgrees
<1>13. ASSUME kind = "cvt"
       PROVE  comp(i, m) = xec(i, R, m)
  <2>1. comp(i, m) = cvt(i, m)
    BY <1>1, <1>13 DEF comp, Branches
  <2>. QED
    BY <1>1, <1>13, <2>1, cvtAgrees
<1>. QED
  BY <1>2, <1>3, <1>4, <1>5, <1>6, <1>7, <1>8, <1>9, <1>10, <1>11, <1>12, <1>13 DEF Right, Branches

-----------------------------------------------------------------------------
(* case *)

\* Entries in order, each with its number for target.
IsTable(t) ==
  /\ t \in Seq(Int \X Int \X Int)
  /\ \A k \in 1 .. Len(t) : t[k][1] <= t[k][2] /\ t[k][3] = k
  /\ \A j, k \in 1 .. Len(t) : j < k => t[j][2] <= t[k][1]

\* What one step of the search does with the rest w of the table.
Step(t, v, w, f) ==
  LET n2 == w[2] \div 2  l == t[w[1] + n2 + 1]
  IN IF w[2] <= 0 THEN 0
     ELSE IF v < l[1] THEN f[<< w[1], n2 >>]
     ELSE IF v >= l[2] THEN f[<< w[1] + n2 + 1, w[2] - n2 - 1 >>]
     ELSE l[3]
Searches(f, t, v) == \A w \in Rests(t) : f[w] = Step(t, v, w, f)

\* An entry has two bounds and a target.
LEMMA Triple ==
  ASSUME NEW e \in Int \X Int \X Int
  PROVE  \E lo, hi, to \in Int : e = << lo, hi, to >>
OBVIOUS

\* The part of the table a step goes on with.
LEMMA RestOfRest ==
  ASSUME NEW t, IsTable(t), NEW w \in Rests(t), w[2] > 0
  PROVE  \E a, n, c \in Nat :
           /\ w = << a, n >> /\ n > 0 /\ a + n <= Len(t) /\ c = n \div 2 /\ c < n
           /\ w[1] = a /\ w[2] = n
           /\ << a, c >> \in Rests(t) /\ << a + c + 1, n - c - 1 >> \in Rests(t)
           /\ a + c + 1 \in 1 .. Len(t) /\ t[a + c + 1] \in Int \X Int \X Int
<1>1. Len(t) \in Nat
  BY DEF IsTable
<1>2. PICK a, n \in 0 .. Len(t) : w = << a, n >> /\ a + n <= Len(t)
  BY DEF Rests
<1>3. n \in Nat /\ n > 0 /\ a \in Nat
  BY <1>1, <1>2
<1>4. PICK c \in Nat : c = n \div 2 /\ c < n
  BY <1>3
<1>5. a + c + 1 \in 1 .. Len(t) /\ n - c - 1 \in 0 .. Len(t) /\ (a + c + 1) + (n - c - 1) <= Len(t) /\ a + c <= Len(t)
  BY <1>1, <1>2, <1>3, <1>4
<1>6. << a, c >> \in Rests(t)
  BY <1>1, <1>2, <1>3, <1>4, <1>5 DEF Rests
<1>7. << a + c + 1, n - c - 1 >> \in Rests(t)
  BY <1>1, <1>5 DEF Rests
<1>8. t[a + c + 1] \in Int \X Int \X Int
  BY <1>5 DEF IsTable
<1>9. w[1] = a /\ w[2] = n
  BY <1>2
<1> WITNESS a \in Nat, n \in Nat, c \in Nat
<1>. QED
  BY <1>2, <1>3, <1>4, <1>5, <1>6, <1>7, <1>8, <1>9

\* There is such a search.
LEMMA SearchExists ==
  ASSUME NEW t, IsTable(t), NEW v \in Int
  PROVE  \E f \in [Rests(t) -> Int] : Searches(f, t, v)
<1> DEFINE D == Rests(t)
           rank == [w \in D |-> w[2]]
           step == [w \in D |-> [f \in [D -> Int] |-> Step(t, v, w, f)]]
<1>1. ASSUME NEW w \in D, NEW f \in [D -> Int]
      PROVE  Step(t, v, w, f) \in Int
  <2>1. CASE w[2] <= 0
    BY <2>1 DEF Step
  <2>2. CASE w[2] > 0
    <3>1. PICK a, n, c \in Nat :
            /\ w[1] = a /\ w[2] = n /\ n > 0 /\ c = n \div 2
            /\ << a, c >> \in D /\ << a + c + 1, n - c - 1 >> \in D
            /\ t[a + c + 1] \in Int \X Int \X Int
      BY <2>2, RestOfRest
    <3>2. f[<< a, c >>] \in Int /\ f[<< a + c + 1, n - c - 1 >>] \in Int /\ t[a + c + 1][3] \in Int
      BY <3>1
    <3> HIDE DEF D
    <3>. QED
      BY <3>1, <3>2 DEF Step
  <2>3. w[2] \in Nat
    BY DEF Rests, IsTable
  <2>. QED
    BY <2>1, <2>2, <2>3
<1>2. step \in [D -> [[D -> Int] -> Int]] /\ \A w \in D : \A f \in [D -> Int] : step[w][f] = Step(t, v, w, f)
  <2> HIDE DEF D
  <2>. QED
    BY <1>1
<1>3. Len(t) \in Nat /\ rank \in [D -> 0 .. Len(t)] /\ \A w \in D : rank[w] = w[2]
  BY DEF Rests, IsTable
<1>4. ASSUME NEW w \in D, NEW g \in [D -> Int], NEW h \in [D -> Int],
             \A u \in D : rank[u] < rank[w] => g[u] = h[u]
      PROVE  step[w][g] = step[w][h]
  <2>1. CASE w[2] <= 0
    BY <1>2, <2>1 DEF Step
  <2>2. CASE w[2] > 0
    <3>1. PICK a, n, c \in Nat :
            /\ w[1] = a /\ w[2] = n /\ n > 0 /\ c = n \div 2 /\ c < n
            /\ << a, c >> \in D /\ << a + c + 1, n - c - 1 >> \in D
      BY <2>2, RestOfRest
    <3> HIDE DEF D, rank, step
    <3>2. g[<< a, c >>] = h[<< a, c >>]
      BY <1>3, <1>4, <3>1
    <3>3. g[<< a + c + 1, n - c - 1 >>] = h[<< a + c + 1, n - c - 1 >>]
      <4>1. n - c - 1 < n
        BY <3>1
      <4>. QED
        BY <1>3, <1>4, <3>1, <4>1
    <3>4. Step(t, v, w, g) = Step(t, v, w, h)
      BY <3>1, <3>2, <3>3 DEF Step
    <3>. QED
      BY <1>2, <3>4
  <2>3. w[2] \in Nat
    BY DEF Rests, IsTable
  <2>. QED
    BY <2>1, <2>2, <2>3
<1> HIDE DEF D, rank, step
<1>5. Descends(D, Int, rank, step)
  BY <1>4 DEF Descends
<1>6. Int # {}
  OBVIOUS
<1>7. PICK f \in [D -> Int] : Solves(f, D, step)
  BY <1>2, <1>3, <1>5, <1>6, RankRecursion
<1>8. Searches(f, t, v)
  BY <1>2, <1>7 DEF Solves, Searches, D
<1>. QED
  BY <1>7, <1>8 DEF D

\* The interpreter's search is one.
LEMMA icaseSearches ==
  ASSUME NEW t, IsTable(t), NEW v \in Int
  PROVE  \E f : Searches(f, t, v) /\ icase(t, v) = f[<< 0, Len(t) >>]
<1>1. PICK f \in [Rests(t) -> Int] : Searches(f, t, v)
  BY SearchExists
<1> DEFINE In[w \in Rests(t)] ==
        LET n2 == w[2] \div 2  l == t[w[1] + n2 + 1]
        IN IF w[2] <= 0 THEN 0
           ELSE IF v < l[1] THEN In[<< w[1], n2 >>]
           ELSE IF v >= l[2] THEN In[<< w[1] + n2 + 1, w[2] - n2 - 1 >>]
           ELSE l[3]
<1>2. In = [w \in Rests(t) |-> Step(t, v, w, In)]
  <2>1. f = [w \in Rests(t) |-> Step(t, v, w, f)]
    <3>1. f = [w \in Rests(t) |-> f[w]]
      BY <1>1
    <3>. QED
      BY <1>1, <3>1 DEF Searches
  <2>. QED
    BY <2>1 DEF Step
<1>3. icase(t, v) = In[<< 0, Len(t) >>]
  BY Zenon DEF icase
<1> HIDE DEF In
<1>4. Searches(In, t, v)
  BY <1>2 DEF Searches
<1>. QED
  BY <1>3, <1>4

\* So is the search of the compiled code, which compares in another order.
LEMMA maccaseSearches ==
  ASSUME NEW t, IsTable(t), NEW v \in Int
  PROVE  \E f : Searches(f, t, v) /\ maccase(t, v) = f[<< 0, Len(t) >>]
<1>1. PICK f \in [Rests(t) -> Int] : Searches(f, t, v)
  BY SearchExists
<1> DEFINE at(w, g) ==
        LET cx == w[2] \div 2  e == t[w[1] + cx + 1]
        IN IF w[2] <= 0 THEN 0
           ELSE IF v >= e[1]
                THEN IF v < e[2] THEN e[3] ELSE g[<< w[1] + cx + 1, (w[2] - cx) - 1 >>]
                ELSE g[<< w[1], cx >>]
           In[w \in Rests(t)] ==
        LET cx == w[2] \div 2  e == t[w[1] + cx + 1]
        IN IF w[2] <= 0 THEN 0
           ELSE IF v >= e[1]
                THEN IF v < e[2] THEN e[3] ELSE In[<< w[1] + cx + 1, (w[2] - cx) - 1 >>]
                ELSE In[<< w[1], cx >>]
<1>2. \A w \in Rests(t) : \A g : at(w, g) = Step(t, v, w, g)
  <2>1. SUFFICES ASSUME NEW w \in Rests(t), NEW g PROVE at(w, g) = Step(t, v, w, g)
    OBVIOUS
  <2>2. w[2] \in Nat
    BY DEF Rests, IsTable
  <2>3. CASE w[2] <= 0
    BY <2>3 DEF Step
  <2>4. CASE w[2] > 0
    <3>1. PICK a, n, c \in Nat : w[1] = a /\ w[2] = n /\ n > 0 /\ c = n \div 2 /\ t[a + c + 1] \in Int \X Int \X Int
      BY <2>4, RestOfRest
    <3>2. PICK lo, hi, to \in Int : t[a + c + 1] = << lo, hi, to >>
      BY <3>1, Triple
    <3>. QED
      BY <3>1, <3>2 DEF Step
  <2>. QED
    BY <2>2, <2>3, <2>4
<1>3. In = [w \in Rests(t) |-> at(w, In)]
  <2>1. f = [w \in Rests(t) |-> at(w, f)]
    <3>1. f = [w \in Rests(t) |-> f[w]]
      BY <1>1
    <3> HIDE DEF at
    <3>. QED
      BY <1>1, <1>2, <3>1 DEF Searches
  <2>. QED
    BY <2>1
<1>4. maccase(t, v) = In[<< 0, Len(t) >>]
  BY Zenon DEF maccase
<1> HIDE DEF In, at
<1>5. Searches(In, t, v)
  BY <1>2, <1>3 DEF Searches
<1>. QED
  BY <1>4, <1>5

\* The value x of a search in the rest w of a table: the target of the entry
\* in it that holds v, if one does.
Holds(t, v, k) == t[k][1] <= v /\ v < t[k][2]
Found(t, v, w, x) ==
  \/ x = 0 /\ \A k \in w[1] + 1 .. w[1] + w[2] : ~Holds(t, v, k)
  \/ \E k \in w[1] + 1 .. w[1] + w[2] : Holds(t, v, k) /\ x = k

\* One step keeps what is sought.
LEMMA FoundStep ==
  ASSUME NEW t, IsTable(t), NEW v \in Int, NEW f, Searches(f, t, v), NEW w \in Rests(t),
         \A u \in Rests(t) : u[2] < w[2] => Found(t, v, u, f[u])
  PROVE  Found(t, v, w, f[w])
<1>1. w[2] \in Nat /\ w[1] \in Nat /\ f[w] = Step(t, v, w, f)
  BY DEF Rests, IsTable, Searches
<1>2. CASE w[2] <= 0
  BY <1>1, <1>2 DEF Step, Found
<1>3. CASE w[2] > 0
  <2>1. PICK a, n, c \in Nat :
           /\ n > 0 /\ a + n <= Len(t) /\ c = n \div 2 /\ c < n /\ w[1] = a /\ w[2] = n
           /\ << a, c >> \in Rests(t) /\ << a + c + 1, n - c - 1 >> \in Rests(t)
           /\ a + c + 1 \in 1 .. Len(t) /\ t[a + c + 1] \in Int \X Int \X Int
    BY <1>3, RestOfRest
  <2>2. PICK lo, hi, to \in Int : t[a + c + 1] = << lo, hi, to >>
    BY <2>1, Triple
  <2>3. lo <= hi /\ to = a + c + 1
    <3>1. PICK k : k = a + c + 1 /\ k \in 1 .. Len(t)
      BY <2>1
    <3>2. t[k][1] <= t[k][2] /\ t[k][3] = k
      BY <3>1 DEF IsTable
    <3>3. t[k] = << lo, hi, to >>
      BY <2>2, <3>1
    <3>. QED
      BY <3>1, <3>2, <3>3
  <2>4. ASSUME NEW k \in 1 .. Len(t)
        PROVE  /\ t[k][1] \in Int /\ t[k][2] \in Int /\ t[k][1] <= t[k][2]
               /\ k < a + c + 1 => t[k][2] <= lo
               /\ a + c + 1 < k => hi <= t[k][1]
    <3>1. t[k] \in Int \X Int \X Int
      BY DEF IsTable
    <3>2. t[k][1] <= t[k][2]
      BY DEF IsTable
    <3>3. PICK e : e = a + c + 1 /\ e \in 1 .. Len(t)
      BY <2>1
    <3>4. (k < e => t[k][2] <= t[e][1]) /\ (e < k => t[e][2] <= t[k][1])
      BY <3>3 DEF IsTable
    <3>5. t[e][1] = lo /\ t[e][2] = hi
      BY <2>2, <3>3
    <3>. QED
      BY <3>1, <3>2, <3>3, <3>4, <3>5
  <2>5. Len(t) \in Nat
    BY DEF IsTable
  <2>6. f[w] = IF v < lo THEN f[<< a, c >>] ELSE IF v >= hi THEN f[<< a + c + 1, n - c - 1 >>] ELSE a + c + 1
    BY <1>1, <1>3, <2>1, <2>2, <2>3 DEF Step
  <2>7. CASE v < lo
    <3>1. Found(t, v, << a, c >>, f[w])
      BY <2>1, <2>6, <2>7
    <3>2. ASSUME NEW k \in a + 1 .. a + n, Holds(t, v, k) PROVE k \in a + 1 .. a + c
      <4>1. k \in 1 .. Len(t)
        BY <2>1, <2>5
      <4>2. t[k][1] <= v
        BY <3>2 DEF Holds
      <4>3. k < a + c + 1
        <5>1. a + c + 1 < k => hi <= t[k][1]
          BY <2>4, <4>1
        <5>2. t[k][1] \in Int
          BY <2>4, <4>1
        <5>3. k = a + c + 1 => t[k][1] = lo
          BY <2>2
        <5>4. k \in Int /\ a + c + 1 \in Int
          BY <2>1
        <5>. QED
          BY <2>3, <2>7, <4>2, <5>1, <5>2, <5>3, <5>4
      <4>. QED
        BY <2>1, <4>3
    <3>3. \A k \in a + 1 .. a + c : k \in a + 1 .. a + n
      BY <2>1
    <3>. QED
      BY <2>1, <3>1, <3>2, <3>3 DEF Found
  <2>8. CASE v >= hi /\ ~(v < lo)
    <3>1. Found(t, v, << a + c + 1, n - c - 1 >>, f[w])
      <4>1. n - c - 1 < n
        BY <2>1
      <4>. QED
        BY <2>1, <2>6, <2>8, <4>1
    <3>2. ASSUME NEW k \in a + 1 .. a + n, Holds(t, v, k) PROVE k \in (a + c + 1) + 1 .. (a + c + 1) + (n - c - 1)
      <4>1. k \in 1 .. Len(t)
        BY <2>1, <2>5
      <4>2. v < t[k][2]
        BY <3>2 DEF Holds
      <4>3. ~(k < a + c + 1)
        <5>1. k < a + c + 1 => t[k][2] <= lo
          BY <2>4, <4>1
        <5>2. t[k][2] \in Int
          BY <2>4, <4>1
        <5>. QED
          BY <2>3, <2>8, <4>2, <5>1, <5>2
      <4>4. k # a + c + 1
        BY <2>2, <2>8, <4>2
      <4>. QED
        BY <2>1, <4>3, <4>4
    <3>3. \A k \in (a + c + 1) + 1 .. (a + c + 1) + (n - c - 1) : k \in a + 1 .. a + n
      <4>1. (a + c + 1) + (n - c - 1) = a + n
        BY <2>1
      <4>2. a + 1 <= (a + c + 1) + 1
        BY <2>1
      <4>3. a \in Int /\ n \in Int /\ c \in Int
        BY <2>1
      <4>. QED
        BY <4>1, <4>2, <4>3
    <3>. QED
      BY <2>1, <3>1, <3>2, <3>3 DEF Found
  <2>9. CASE ~(v < lo) /\ ~(v >= hi)
    <3>1. Holds(t, v, a + c + 1)
      BY <2>2, <2>9 DEF Holds
    <3>2. f[w] = a + c + 1 /\ a + c + 1 \in a + 1 .. a + n
      BY <2>1, <2>6, <2>9
    <3>. QED
      BY <2>1, <3>1, <3>2 DEF Found
  <2>. QED
    BY <2>7, <2>8, <2>9
<1>. QED
  BY <1>1, <1>2, <1>3

\* Every search of that kind finds the entry that holds the value.
LEMMA SearchFinds ==
  ASSUME NEW t, IsTable(t), NEW v \in Int, NEW f, Searches(f, t, v)
  PROVE  Found(t, v, << 0, Len(t) >>, f[<< 0, Len(t) >>])
<1> DEFINE T == {n \in Nat : \A w \in Rests(t) : w[2] < n => Found(t, v, w, f[w])}
<1>0. \A w \in Rests(t) : w[2] \in Nat
  BY DEF Rests, IsTable
<1>1. 0 \in T
  BY <1>0
<1>2. \A n \in Nat : n \in T => n + 1 \in T
  <2>1. SUFFICES ASSUME NEW n \in Nat, n \in T, NEW w \in Rests(t), w[2] < n + 1
                 PROVE  Found(t, v, w, f[w])
    OBVIOUS
  <2>2. \A u \in Rests(t) : u[2] < w[2] => Found(t, v, u, f[u])
    BY <1>0, <2>1
  <2>. QED
    BY <2>2, FoundStep
<1>3. Len(t) \in Nat /\ << 0, Len(t) >> \in Rests(t)
  BY DEF IsTable, Rests
<1>4. Len(t) + 1 \in T
  <2> HIDE DEF T
  <2>. QED
    BY <1>1, <1>2, <1>3, SetInduction
<1>. QED
  BY <1>3, <1>4

\* Only one entry holds a value.
LEMMA HoldsOnce ==
  ASSUME NEW t, IsTable(t), NEW v \in Int, NEW j \in 1 .. Len(t), NEW k \in 1 .. Len(t),
         Holds(t, v, j), Holds(t, v, k)
  PROVE  j = k
<1>1. Len(t) \in Nat
  BY DEF IsTable
<1>2. t[j] \in Int \X Int \X Int /\ t[k] \in Int \X Int \X Int
  <2>1. t \in Seq(Int \X Int \X Int)
    BY DEF IsTable
  <2>2. \A e \in 1 .. Len(t) : t[e] \in Int \X Int \X Int
    BY <2>1
  <2>. QED
    BY <2>2
<1>3. t[j][1] \in Int /\ t[j][2] \in Int /\ t[k][1] \in Int /\ t[k][2] \in Int
  BY <1>2
<1>4. CASE j < k
  <2>1. t[j][2] <= t[k][1]
    BY <1>4 DEF IsTable
  <2>. QED
    BY <1>3, <2>1 DEF Holds
<1>5. CASE k < j
  <2>1. t[k][2] <= t[j][1]
    BY <1>5 DEF IsTable
  <2>. QED
    BY <1>3, <2>1 DEF Holds
<1>. QED
  BY <1>1, <1>4, <1>5

\* A case goes to the entry its value is in, or to the default, interpreted
\* or compiled: for tables of any length and every value.
THEOREM CaseRight == \A t, v : IsTable(t) /\ v \in Int => CaseAgrees(t, v)
<1>1. SUFFICES ASSUME NEW t, NEW v \in Int, IsTable(t) PROVE CaseAgrees(t, v)
  OBVIOUS
<1>2. Len(t) \in Nat
  BY <1>1 DEF IsTable
<1>3. PICK holds : holds = {k \in 1 .. Len(t) : Holds(t, v, k)}
  OBVIOUS
<1>4. ASSUME NEW x, Found(t, v, << 0, Len(t) >>, x)
      PROVE  x = IF holds = {} THEN 0 ELSE CHOOSE k \in holds : TRUE
  <2>1. \/ x = 0 /\ \A k \in 1 .. Len(t) : ~Holds(t, v, k)
        \/ \E k \in 1 .. Len(t) : Holds(t, v, k) /\ x = k
    BY <1>2, <1>4 DEF Found
  <2>2. CASE x = 0 /\ \A k \in 1 .. Len(t) : ~Holds(t, v, k)
    BY <1>3, <2>2
  <2>3. CASE \E k \in 1 .. Len(t) : Holds(t, v, k) /\ x = k
    <3>1. x \in holds
      BY <1>3, <2>3
    <3>2. \A j, k \in holds : j = k
      BY <1>1, <1>3, HoldsOnce
    <3>3. (CHOOSE k \in holds : TRUE) \in holds
      BY <3>1
    <3>. QED
      BY <3>1, <3>2, <3>3
  <2>. QED
    BY <2>1, <2>2, <2>3
<1>5. Found(t, v, << 0, Len(t) >>, icase(t, v))
  BY <1>1, icaseSearches, SearchFinds
<1>6. Found(t, v, << 0, Len(t) >>, maccase(t, v))
  BY <1>1, maccaseSearches, SearchFinds
<1>7. icase(t, v) = maccase(t, v) /\ icase(t, v) = IF holds = {} THEN 0 ELSE CHOOSE k \in holds : TRUE
  BY <1>4, <1>5, <1>6
<1>. QED
  BY <1>3, <1>7 DEF CaseAgrees, Holds

\* The tables of the model are such tables.
LEMMA TablesAre ==
  ASSUME NEW t \in Tables
  PROVE  IsTable(t)
<1>1. PICK n \in 0 .. 3, b \in [1 .. 6 -> 0 .. 6] :
         /\ \A k \in 1 .. 5 : b[k] <= b[k + 1]
         /\ t = [k \in 1 .. n |-> << b[2 * k - 1], b[2 * k], k >>]
  BY DEF Tables
<1>2. /\ b[1] \in Int /\ b[2] \in Int /\ b[3] \in Int /\ b[4] \in Int /\ b[5] \in Int /\ b[6] \in Int
      /\ b[1] <= b[2] /\ b[2] <= b[3] /\ b[3] <= b[4] /\ b[4] <= b[5] /\ b[5] <= b[6]
  <2>1. b[1] <= b[1 + 1] /\ b[2] <= b[2 + 1] /\ b[3] <= b[3 + 1] /\ b[4] <= b[4 + 1] /\ b[5] <= b[5 + 1]
    BY <1>1
  <2>. QED
    BY <1>1, <2>1
<1>3. ASSUME NEW k \in 1 .. n
      PROVE  /\ k \in {1, 2, 3} /\ t[k] = << b[2 * k - 1], b[2 * k], k >>
             /\ b[2 * k - 1] \in Int /\ b[2 * k] \in Int /\ b[2 * k - 1] <= b[2 * k]
  <2>1. k = 1 \/ k = 2 \/ k = 3
    BY <1>1
  <2>2. 2 * 1 - 1 = 1 /\ 2 * 1 = 2 /\ 2 * 2 - 1 = 3 /\ 2 * 2 = 4 /\ 2 * 3 - 1 = 5 /\ 2 * 3 = 6
    OBVIOUS
  <2>. QED
    BY <1>1, <1>2, <2>1, <2>2
<1>4. t \in Seq(Int \X Int \X Int) /\ Len(t) = n
  <2>1. \A k \in 1 .. n : << b[2 * k - 1], b[2 * k], k >> \in Int \X Int \X Int
    BY <1>3
  <2>2. t \in [1 .. n -> Int \X Int \X Int]
    BY <1>1, <2>1
  <2>. QED
    BY <1>1, <2>2
<1>5. ASSUME NEW j \in 1 .. n, NEW k \in 1 .. n, j < k
      PROVE  t[j][2] <= t[k][1]
  <2>1. (j = 1 /\ k = 2) \/ (j = 1 /\ k = 3) \/ (j = 2 /\ k = 3)
    BY <1>1, <1>5
  <2>2. t[j][2] = b[2 * j] /\ t[k][1] = b[2 * k - 1]
    BY <1>3
  <2>3. 2 * 1 = 2 /\ 2 * 2 - 1 = 3 /\ 2 * 2 = 4 /\ 2 * 3 - 1 = 5
    OBVIOUS
  <2>. QED
    BY <1>2, <2>1, <2>2, <2>3
<1>6. \A k \in 1 .. n : t[k][1] <= t[k][2] /\ t[k][3] = k
  BY <1>3
<1>. QED
  BY <1>4, <1>5, <1>6 DEF IsTable

\* Compiled code does what the interpreter does to every memory, for every
\* operation of the model but beql, operand mode and operand with which an
\* instruction may run.
THEOREM EveryMemory ==
  \A i : \A m \in Memory : Sane(i) /\ Legal(i, m) => comp(i, m) = xec(i, dec(i, m), m)
<1>1. SUFFICES ASSUME NEW i, NEW m \in Memory, Sane(i), Legal(i, m)
               PROVE  comp(i, m) = xec(i, dec(i, m), m)
  OBVIOUS
<1>2. PICK R, v : R = dec(i, m) /\ v = View(i, R, m)
  OBVIOUS
<1>3. Runs(i, m, R, v)
  BY <1>1, <1>2 DEF Runs
<1>. QED
  BY <1>2, <1>3, OperationAgrees

\* The instruction is one of those that can be chosen.
Chosen ==
  ins # << >> =>
    \E op \in Ops, src \in Modes \cup {"imm"}, dst \in Modes \cup {"imm"}, md \in {"none", "imm", "inf", "inm"} :
      Instr(op, src, dst, md) /\ ins = << op, src, dst, md >>

\* It stays one.
LEMMA ChosenStays == InsSpec => []Chosen
<1>1. InsInit => Chosen
  BY DEF InsInit, Chosen
<1>2. Chosen /\ [InsNext]_ins => Chosen'
  BY DEF Chosen, InsNext, Choose
<1>. QED
  BY <1>1, <1>2, PTL DEF InsSpec

\* "compiled: Compiled into native assembler" (interp.h): compiled code does
\* what the interpreter does, but for beql, for every choice of operations,
\* offsets, values of reg and memories.
THEOREM CompiledRight ==
  ASSUME Ops \subseteq Right \cup {<< "case", "w" >>}, Offsets \subseteq 0 .. MP - 1,
         Regs \subseteq 0 .. RegModulus - 1, Seeds \subseteq Nat \X Nat \X Nat
  PROVE  InsSpec => []CompiledAgrees
<1>1. Mems \subseteq Memory
  <2>1. SUFFICES ASSUME NEW z \in Seeds PROVE [a \in Addr |-> (z[1] + z[2] * a + z[3] * a * a) % Modulus] \in Memory
    BY DEF Mems
  <2>2. z[1] \in Nat /\ z[2] \in Nat /\ z[3] \in Nat
    BY <2>1
  <2>3. ASSUME NEW a \in Addr PROVE (z[1] + z[2] * a + z[3] * a * a) % Modulus \in Word
    <3>1. a \in Nat
      BY Constants
    <3>2. z[2] * a \in Nat /\ z[3] * a \in Nat
      BY <2>2, <3>1
    <3>3. z[3] * a * a \in Nat
      BY <3>1, <3>2
    <3>4. PICK y : y = z[1] + z[2] * a + z[3] * a * a
      OBVIOUS
    <3>5. y \in Nat
      BY <2>2, <3>2, <3>3, <3>4
    <3>6. y % Modulus \in Word
      BY <3>5, Constants
    <3>. QED
      BY <3>4, <3>6
  <2>. QED
    BY <2>3 DEF Memory
<1>2. Chosen => CompiledAgrees
  <2>1. SUFFICES ASSUME Chosen, ins # << >> PROVE CompiledAgrees
    BY DEF CompiledAgrees
  <2>2. PICK op \in Ops, src \in Modes \cup {"imm"}, dst \in Modes \cup {"imm"}, md \in {"none", "imm", "inf", "inm"} :
           Instr(op, src, dst, md) /\ ins = << op, src, dst, md >>
    BY <2>1 DEF Chosen
  <2>3. CASE op[1] = "case"
    <3>1. \A t \in Tables, v \in -1 .. 7 : CaseAgrees(t, v)
      BY CaseRight, TablesAre
    <3>. QED
      BY <2>2, <2>3, <3>1 DEF CompiledAgrees
  <2>4. CASE op[1] # "case"
    <3>1. op \in Right
      BY <2>4
    <3>2. ASSUME NEW i \in Instructions PROVE Sane(i)
      <4>1. ins[1] = op /\ ins[2] = src /\ ins[3] = dst /\ ins[4] = md
        BY <2>2
      <4>2. PICK s \in Operands(src), d \in Operands(dst), r \in Regs :
              i = [op |-> op, src |-> src, dst |-> dst, mid |-> md,
                   s1 |-> s[1], s2 |-> s[2], d1 |-> d[1], d2 |-> d[2], reg |-> r]
        BY <4>1 DEF Instructions
      <4>3. \A mode : \A o \in Operands(mode) : o[1] \in 0 .. MP - 1 /\ o[2] \in 0 .. 1
        <5>1. SUFFICES ASSUME NEW mode, NEW o \in Operands(mode) PROVE o[1] \in 0 .. MP - 1 /\ o[2] \in 0 .. 1
          OBVIOUS
        <5>2. o \in Offsets \X {1} \/ o \in Offsets \X {0}
          BY DEF Operands
        <5>3. o[1] \in Offsets /\ (o[2] = 0 \/ o[2] = 1)
          BY <5>2
        <5>4. o[1] \in 0 .. MP - 1
          BY <5>3
        <5>5. o[2] \in 0 .. 1
          BY <5>3
        <5>. QED
          BY <5>4, <5>5
      <4>4. r \in 0 .. RegModulus - 1
        OBVIOUS
      <4>. QED
        BY <2>2, <3>1, <4>2, <4>3, <4>4 DEF Sane
    <3>3. \A i \in Instructions, m \in Mems : Legal(i, m) => comp(i, m) = xec(i, dec(i, m), m)
      BY <1>1, <3>2, EveryMemory
    <3>. QED
      BY <2>2, <2>4, <3>3 DEF CompiledAgrees
  <2>. QED
    BY <2>3, <2>4
<1>. QED
  BY <1>2, ChosenStays, PTL
=============================================================================
