----------------------------- MODULE DisCompile -----------------------------
(***************************************************************************)
(* What one Dis instruction does when it is interpreted (interp/dec.c and  *)
(* xec.c) and when it is compiled for the 386 (interp/comp-386.c).  The    *)
(* interpreter first makes addresses of the operands (R.s, R.d and R.m),   *)
(* whatever the operation; the compiler chooses code by operation and      *)
(* operand modes.  A word has Width bits, a byte half of them, and a long  *)
(* is two words; memory is addressed by words.                             *)
(***************************************************************************)
EXTENDS Integers, Sequences

CONSTANTS
  Ops,      \* the operations: << kind, type >>
  Offsets,  \* the offsets and immediate operands, and
  Regs,     \* the values of the field reg, instructions have
  Seeds     \* which memories they meet

VARIABLE ins  \* the instruction, << >> at first

Width == 4
Modulus == 2 ^ Width
ByteModulus == 2 ^ (Width \div 2)
FP == 0
MP == Modulus \div 2
Addr == 0..(Modulus - 1)
\* Where the interpreter finds an immediate operand, and R.t.
SImm == -1
DImm == -2
RT == -3

Signed(x) == IF x >= Modulus \div 2 THEN x - Modulus ELSE x
\* (short) of reg, which has fewer bits than a word.
RegModulus == Modulus \div 2
Short(x) == IF x >= RegModulus \div 2 THEN x - RegModulus ELSE x
Hi(x) == (x \div Modulus) % Modulus
Lo(x) == x % Modulus

Val(m, a, t) ==
  CASE t = "b" -> m[a] % ByteModulus
    [] t = "w" -> Signed(m[a])
    [] t = "l" -> m[a] + Modulus * Signed(m[a + 1])
Store(m, a, t, v) ==
  CASE t = "b" -> [m EXCEPT ![a] = (@ - (@ % ByteModulus)) + (v % ByteModulus)]
    [] t = "w" -> [m EXCEPT ![a] = Lo(v)]
    [] t = "l" -> [m EXCEPT ![a] = Lo(v), ![a + 1] = Hi(v)]

Quo(x, y) ==
  LET Abs(z) == IF z < 0 THEN -z ELSE z
      q == Abs(x) \div Abs(y)
  IN IF (x < 0) = (y < 0) THEN q ELSE -q

-----------------------------------------------------------------------------
(* The interpreter. *)

DecS(i, m) ==
  CASE i.src = "mp" -> MP + i.s1
    [] i.src = "fp" -> FP + i.s1
    [] i.src = "imm" -> SImm
    [] i.src = "ind mp" -> m[MP + i.s1] + i.s2
    [] i.src = "ind fp" -> m[FP + i.s1] + i.s2
DecD(i, m) ==
  CASE i.dst = "mp" -> MP + i.d1
    [] i.dst = "fp" -> FP + i.d1
    [] i.dst = "imm" -> DImm
    [] i.dst = "ind mp" -> m[MP + i.d1] + i.d2
    [] i.dst = "ind fp" -> m[FP + i.d1] + i.d2
DecNone(i, m) == [s |-> DecS(i, m), d |-> DecD(i, m), m |-> DecD(i, m), t |-> 0]
DecImm(i, m) == [s |-> DecS(i, m), d |-> DecD(i, m), m |-> RT, t |-> Short(i.reg)]
DecInf(i, m) == [s |-> DecS(i, m), d |-> DecD(i, m), m |-> FP + i.reg, t |-> 0]
DecInm(i, m) == [s |-> DecS(i, m), d |-> DecD(i, m), m |-> MP + i.reg, t |-> 0]
dec(i, m) ==
  CASE i.mid = "none" -> DecNone(i, m)
    [] i.mid = "imm" -> DecImm(i, m)
    [] i.mid = "inf" -> DecInf(i, m)
    [] i.mid = "inm" -> DecInm(i, m)

\* Memory, with what the instruction and the registers hold.
View(i, R, m) ==
  [a \in Addr \cup {SImm, DImm, RT} |-> CASE a \in Addr -> m[a] [] a = SImm -> Lo(i.s1)
                     [] a = DImm -> Lo(i.d1) [] a = RT -> Lo(R.t)]

Binary == {"add", "sub", "mul", "div", "mod", "shl", "shr", "lsr"}
Shifts == {"shl", "shr", "lsr"}
Branches == {"beq", "bne", "blt", "ble", "bgt", "bge"}
Alu(kind, t, x, y) ==
  CASE kind = "add" -> x + y
    [] kind = "sub" -> x - y
    [] kind = "mul" -> x * y
    [] kind = "div" -> Quo(x, y)
    [] kind = "mod" -> x - y * Quo(x, y)
    [] kind = "shl" -> x * 2 ^ y
    [] kind = "shr" -> x \div 2 ^ y
    [] kind = "lsr" -> (x % (IF t = "l" THEN Modulus * Modulus ELSE Modulus)) \div 2 ^ y
Compares(kind, x, y) ==
  CASE kind = "beq" -> x = y
    [] kind = "bne" -> x # y
    [] kind = "blt" -> x < y
    [] kind = "ble" -> x <= y
    [] kind = "bgt" -> x > y
    [] kind = "bge" -> x >= y

SType(kind, t) == IF kind \in Shifts THEN "w" ELSE t
CvtFrom(t) == CASE t = "bw" -> "b" [] t = "lw" -> "l" [] OTHER -> "w"
CvtTo(t) == CASE t = "wb" -> "b" [] t = "wl" -> "l" [] OTHER -> "w"

\* The operation on the operands R; whether it branches, and memory then.
xec(i, R, m) ==
  LET kind == i.op[1]  t == i.op[2]  v == View(i, R, m)
      s == Val(v, R.s, SType(kind, t))
  IN CASE kind \in Binary ->
            [jump |-> FALSE, mem |-> Store(m, R.d, t, Alu(kind, t, Val(v, R.m, t), s))]
       [] kind \in Branches ->
            [jump |-> Compares(kind, s, Val(v, R.m, t)), mem |-> m]
       [] kind = "mov" -> [jump |-> FALSE, mem |-> Store(m, R.d, t, s)]
       [] kind = "cvt" ->
            [jump |-> FALSE, mem |-> Store(m, R.d, CvtTo(t), Val(v, R.s, CvtFrom(t)))]
       [] kind = "lea" -> [jump |-> FALSE, mem |-> Store(m, R.d, t, R.s)]

-----------------------------------------------------------------------------
(* The compiler.  opwld and opwst with mi = "lea" make the address of an   *)
(* operand, else they load it; the value is the word a register gets.      *)

Load(m, mi, a) == IF mi = "lea" THEN a ELSE m[a]
Base(mode) == IF mode \in {"fp", "ind fp", "inf"} THEN FP ELSE MP
opwld(i, mi, m) ==
  CASE i.src = "imm" -> Lo(i.s1)
    [] i.src \in {"fp", "mp"} -> Load(m, mi, Base(i.src) + i.s1)
    [] i.src \in {"ind fp", "ind mp"} -> Load(m, mi, m[Base(i.src) + i.s1] + i.s2)
opwst(i, mi, m) ==
  CASE i.dst = "imm" -> Lo(i.d1)
    [] i.dst \in {"fp", "mp"} -> Load(m, mi, Base(i.dst) + i.d1)
    [] i.dst \in {"ind fp", "ind mp"} -> Load(m, mi, m[Base(i.dst) + i.d1] + i.d2)
mid(i, mi, m) ==
  CASE i.mid = "none" -> opwst(i, mi, m)
    [] i.mid = "imm" -> Lo(Short(i.reg))
    [] i.mid \in {"inf", "inm"} -> Load(m, mi, Base(i.mid) + i.reg)

\* The registers the interpreter's function is called with.
punt(i, m) ==
  LET d == opwst(i, "lea", m)
  IN [s |-> IF i.src = "imm" THEN SImm ELSE opwld(i, "lea", m),
      d |-> d,
      m |-> CASE i.mid = "none" -> d
              [] i.mid = "imm" -> RT
              [] i.mid \in {"inf", "inm"} -> Base(i.mid) + i.reg,
      t |-> IF i.mid = "imm" THEN Short(i.reg) ELSE 0]

Put(i, m, t, v) == [jump |-> FALSE, mem |-> Store(m, opwst(i, "lea", m), t, v)]
Byte(v) == v % ByteModulus

arith(i, m) ==
  LET x == mid(i, "ldw", m)  y == opwld(i, "ldw", m)
  IN Put(i, m, "w", IF i.op[1] = "add" THEN x + y ELSE x - y)
arithb(i, m) ==
  LET x == Byte(mid(i, "ldb", m))  y == Byte(opwld(i, "ldb", m))
  IN Put(i, m, "b", IF i.op[1] = "add" THEN x + y ELSE x - y)
muldiv(i, m) ==
  LET x == Signed(mid(i, "ldw", m))  y == Signed(opwld(i, "ldw", m))
  IN Put(i, m, "w", CASE i.op[1] = "mul" -> x * y
                      [] i.op[1] = "div" -> Quo(x, y)
                      [] i.op[1] = "mod" -> x - y * Quo(x, y))
mulb(i, m) == Put(i, m, "b", Byte(mid(i, "ldb", m)) * Byte(opwld(i, "ldb", m)))

\* The processor uses the count modulo the width of a word.
Count(v) == v % Width
Sal(x, n) == Lo(x * 2 ^ n)
Sar(x, n) == Lo(Signed(x) \div 2 ^ n)
shift(i, m) ==
  LET t == i.op[2]  ax == mid(i, "ld", m)
      n == Count(opwld(i, "ldw", m))
  IN Put(i, m, t, IF i.op[1] = "shl" THEN ax * 2 ^ n
                  ELSE IF t = "b" THEN Byte(ax) \div 2 ^ n ELSE Sar(ax, n))

\* Conditions on the flags a compare of x with y leaves.
Taken(j, x, y) ==
  CASE j = "jeq" -> x = y
    [] j = "jne" -> x # y
    [] j = "jlt" -> Signed(x) < Signed(y)
    [] j = "jle" -> Signed(x) <= Signed(y)
    [] j = "jgt" -> Signed(x) > Signed(y)
    [] j = "jge" -> Signed(x) >= Signed(y)
    [] j = "jb" -> x < y
    [] j = "jbe" -> x <= y
    [] j = "ja" -> x > y
    [] j = "jae" -> x >= y
SignedJump(kind) ==
  CASE kind = "beq" -> "jeq" [] kind = "bne" -> "jne" [] kind = "blt" -> "jlt"
    [] kind = "ble" -> "jle" [] kind = "bgt" -> "jgt" [] kind = "bge" -> "jge"
UnsignedJump(kind) ==
  CASE kind = "beq" -> "jeq" [] kind = "bne" -> "jne" [] kind = "blt" -> "jb"
    [] kind = "ble" -> "jbe" [] kind = "bgt" -> "ja" [] kind = "bge" -> "jae"
swapbraop(j) ==
  CASE j = "jge" -> "jle" [] j = "jle" -> "jge" [] j = "jgt" -> "jlt"
    [] j = "jlt" -> "jgt" [] OTHER -> j

Jump(b, m) == [jump |-> b, mem |-> m]
\* VARIANT of cbra: the condition is not exchanged.
cbraUnswapped(i, m) ==
  LET ax == mid(i, "ldw", m)  j == SignedJump(i.op[1])
  IN Jump(IF i.src = "imm" THEN Taken(j, ax, opwld(i, "ldw", m))
        ELSE Taken(j, opwld(i, "ldw", m), ax), m)
\* An immediate operand can only be the second of a compare.
cbra(i, m) ==
  LET ax == mid(i, "ldw", m)  j == SignedJump(i.op[1])
  IN Jump(IF i.src = "imm" THEN Taken(swapbraop(j), ax, opwld(i, "ldw", m))
        ELSE Taken(j, opwld(i, "ldw", m), ax), m)
cbrab(i, m) ==
  Jump(Taken(UnsignedJump(i.op[1]), Byte(opwld(i, "ldb", m)), Byte(mid(i, "ldb", m))), m)

\* The code for longs: compare the high words, then the low ones.  The first
\* jump of ANDAND and the second of EQAND are to the end, and have a short
\* form of their own; with the opcode of the long form, as beql has it, the
\* processor does a TEST and goes on.
cbral(i, m) ==
  LET kind == i.op[1]
      s == opwld(i, "lea", m)  n == mid(i, "lea", m)
      ls == m[s]  hs == m[s + 1]  ln == m[n]  hn == m[n + 1]
      low == Taken(UnsignedJump(kind), ls, ln)
      high == IF kind \in {"blt", "ble"} THEN "jlt" ELSE "jgt"
  IN Jump(CASE kind = "beq" -> low
          [] kind = "bne" -> Taken("jne", hs, hn) \/ low
          [] OTHER -> Taken(high, hs, hn) \/ (hs = hn /\ low), m)

\* Longs: the low words, then the high ones with the carry.
larith(i, m) ==
  LET s == opwld(i, "lea", m)  n == mid(i, "lea", m)
      add == i.op[1] = "add"
      low == IF add THEN m[n] + m[s] ELSE m[n] - m[s]
      carry == low \div Modulus
      high == (IF add THEN m[n + 1] + m[s + 1] ELSE m[n + 1] - m[s + 1]) + carry
  IN Put(i, m, "l", Lo(low) + Modulus * Lo(high))
movl(i, m) ==
  LET s == opwld(i, "lea", m)  d == opwst(i, "lea", m)
      low == [m EXCEPT ![d] = m[s]]
  IN Jump(FALSE, [low EXCEPT ![d + 1] = low[s + 1]])

\* Counts from the width of a word up are told by their bit of that weight.
Far(v) == (v \div Width) % 2 = 1
shll(i, m) ==
  LET n == Count(opwld(i, "ldw", m))  far == Far(opwld(i, "ldw", m))
      a == mid(i, "lea", m)  x == m[a] + Modulus * m[a + 1]
  IN Put(i, m, "l", IF far THEN Modulus * Sal(m[a], n)
                    ELSE Sal(m[a], n) + Modulus * Hi(x * 2 ^ n))
shrl(i, m) ==
  LET n == Count(opwld(i, "ldw", m))  far == Far(opwld(i, "ldw", m))
      a == mid(i, "lea", m)  x == m[a] + Modulus * m[a + 1]
  IN Put(i, m, "l", IF far THEN Sar(m[a + 1], n) + Modulus * Sar(m[a + 1], Width - 1)
                    ELSE Lo(x \div 2 ^ n) + Modulus * Sar(m[a + 1], n))

cvt(i, m) ==
  LET t == i.op[2]  ax == opwld(i, "ld", m)
  IN CASE t = "bw" -> Put(i, m, "w", Byte(ax))
       [] t = "wb" -> Put(i, m, "b", ax)
       [] t = "lw" -> Put(i, m, "w", ax)
       [] t = "wl" -> Put(i, m, "l", ax + Modulus * Sar(ax, Width - 1))

comp(i, m) ==
  LET kind == i.op[1]  t == i.op[2]
  IN CASE kind = "lsr" \/ (kind \in {"mul", "div", "mod"} /\ t = "l") ->
            xec(i, punt(i, m), m)
       [] kind \in {"add", "sub"} ->
            (CASE t = "w" -> arith(i, m) [] t = "b" -> arithb(i, m) [] t = "l" -> larith(i, m))
       [] kind \in {"mul", "div", "mod"} /\ t = "w" -> muldiv(i, m)
       [] kind = "mul" /\ t = "b" -> mulb(i, m)
       [] kind = "shl" /\ t = "l" -> shll(i, m)
       [] kind = "shr" /\ t = "l" -> shrl(i, m)
       [] kind \in {"shl", "shr"} /\ t # "l" -> shift(i, m)
       [] kind \in Branches ->
            (CASE t = "w" -> cbra(i, m) [] t = "b" -> cbrab(i, m) [] t = "l" -> cbral(i, m))
       [] kind = "mov" ->
            (IF t = "l" THEN movl(i, m) ELSE Put(i, m, t, opwld(i, "ld", m)))
       [] kind = "lea" -> Put(i, m, t, opwld(i, "lea", m))
       [] kind = "cvt" -> cvt(i, m)

-----------------------------------------------------------------------------
(* case: a table of entries << low, high, target >> in order; no target is  *)
(* the default.                                                            *)

\* What is left of a table: << a, n >> are the n entries after the first a.
Rests(t) == {w \in (0..Len(t)) \X (0..Len(t)) : w[1] + w[2] <= Len(t)}
icase(t, v) ==
  LET In[w \in Rests(t)] ==
        LET n2 == w[2] \div 2  l == t[w[1] + n2 + 1]
        IN IF w[2] <= 0 THEN 0
           ELSE IF v < l[1] THEN In[<< w[1], n2 >>]
           ELSE IF v >= l[2] THEN In[<< w[1] + n2 + 1, w[2] - n2 - 1 >>]
           ELSE l[3]
  IN In[<< 0, Len(t) >>]

\* The code compares ax with the end of an entry only when it is not less
\* than its start.
maccase(t, ax) ==
  LET In[w \in Rests(t)] ==
        LET cx == w[2] \div 2  e == t[w[1] + cx + 1]
        IN IF w[2] <= 0 THEN 0
           ELSE IF ax >= e[1]
                THEN IF ax < e[2] THEN e[3] ELSE In[<< w[1] + cx + 1, (w[2] - cx) - 1 >>]
                ELSE In[<< w[1], cx >>]
  IN In[<< 0, Len(t) >>]

Tables ==
  LET Bounds == {b \in [1..6 -> 0..6] : \A k \in 1..5 : b[k] <= b[k + 1]}
      Entry(b, k) == << b[2 * k - 1], b[2 * k], k >>
  IN {[k \in 1..n |-> Entry(b, k)] : n \in 0..3, b \in Bounds}

-----------------------------------------------------------------------------
(* Instructions, as the Limbo compiler makes them.                         *)

Mems ==
  {[a \in Addr |-> (z[1] + z[2] * a + z[3] * a * a) % Modulus] : z \in Seeds}

Modes == {"mp", "fp", "ind mp", "ind fp"}
\* No long and no byte is an immediate operand, but of mov; a branch has its
\* target for destination and a middle operand.
Instr(op, src, dst, md) ==
  /\ op[1] \in Branches => dst = "imm" /\ md # "none"
  /\ op[1] \notin Branches => dst # "imm"
  /\ op[1] \in {"mov", "cvt", "lea", "case"} => md = "none"
  /\ op[1] = "case" => src = "mp" /\ dst = "mp"
  /\ src = "imm" => /\ op[1] # "lea"
                    /\ op[2] \in {"w", "wb", "wl"} \/ op \in {<< "mov", "b" >>}
                         \/ op[1] \in Shifts
  /\ md = "imm" => op[2] \in {"w", "b"}

\* The operands are within memory, counts less than the width of what is
\* shifted and divisors not 0; longs do not overlap in part.
Legal(i, m) ==
  LET kind == i.op[1]  t == i.op[2]  R == dec(i, m)
      st == IF kind = "cvt" THEN CvtFrom(t) ELSE SType(kind, t)
      dt == IF kind = "cvt" THEN CvtTo(t) ELSE t
      Fits(a, w) == a < 0 \/ (a \in Addr /\ (w = "l" => a + 1 \in Addr))
  IN /\ Fits(R.s, st) /\ Fits(R.m, t)
     /\ kind \notin Branches => Fits(R.d, dt)
     /\ kind = "mov" /\ t = "l" => R.s - R.d \notin {-1, 1}
     /\ kind \in Shifts =>
          Val(View(i, R, m), R.s, "w") \in 0..(IF t = "l" THEN 2 * Width - 1 ELSE Width - 1)
     /\ kind \in {"div", "mod"} => Val(View(i, R, m), R.s, t) # 0

InsInit == ins = << >>
Choose(op, src, dst, md) ==
  /\ ins = << >> /\ Instr(op, src, dst, md)
  /\ ins' = << op, src, dst, md >>
InsNext == \E op \in Ops, src \in Modes \cup {"imm"}, dst \in Modes \cup {"imm"},
              md \in {"none", "imm", "inf", "inm"} : Choose(op, src, dst, md)
InsSpec == InsInit /\ [][InsNext]_ins

Operands(mode) == IF mode \in {"ind mp", "ind fp"} THEN Offsets \X {1} ELSE Offsets \X {0}
Instructions ==
  {[op |-> ins[1], src |-> ins[2], dst |-> ins[3], mid |-> ins[4],
    s1 |-> s[1], s2 |-> s[2], d1 |-> d[1], d2 |-> d[2], reg |-> r] :
     s \in Operands(ins[2]), d \in Operands(ins[3]), r \in Regs}

-----------------------------------------------------------------------------
\* Both searches of a case table find the entry that holds the value, or the
\* default.
CaseAgrees(t, v) ==
  LET holds == {k \in 1..Len(t) : t[k][1] <= v /\ v < t[k][2]}
  IN /\ icase(t, v) = maccase(t, v)
     /\ icase(t, v) = IF holds = {} THEN 0 ELSE CHOOSE k \in holds : TRUE
\* "compiled: Compiled into native assembler" (interp.h): an instruction does to
\* memory and the next pc what it does when it is interpreted, whatever the
\* modes of its operands, and a case goes to the entry its value is in.
CompiledAgrees ==
  ins # << >> =>
    IF ins[1][1] = "case" THEN \A t \in Tables, v \in -1..7 : CaseAgrees(t, v)
    ELSE \A i \in Instructions, m \in Mems :
           Legal(i, m) => comp(i, m) = xec(i, dec(i, m), m)
=============================================================================
