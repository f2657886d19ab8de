----------------------------- MODULE DisString -----------------------------
(***************************************************************************)
(* Strings: interp/string.c, and tokenize of interp/runt.c.  A string has  *)
(* bytes (all its characters are below Runeself) or runes; the sign of len *)
(* says which, so that an empty string always counts as one of bytes.      *)
(* Strings are shared between variables and copied when one with more than *)
(* one reference is to change.  They are changed in place while they fit.  *)
(***************************************************************************)
EXTENDS Integers, Sequences, SequencesExt, FiniteSetsExt

CONSTANTS
  Var,        \* the variables of the program, numbers
  Chars,      \* the characters
  MaxLen,     \* bound: the longest string
  Quantum,    \* what memory is allocated in units of, in bytes,
  Header,     \* and how many bytes of a string's are not for data
  EmptyGrows, \* whether a rune is stored into an empty string of bytes
  H           \* the nil reference

Runeself == 128
Runeerror == 128
SizeofRune == 2
STRUCTALIGN == 4   \* bytes of sizeof(String) that belong to the data

VARIABLES
  var,  \* Var -> strings or H
  str   \* the strings: [data, rune, max, nb]; nb is the memory for data,
        \* without STRUCTALIGN

strvars == << var, str >>

Junk == -1
Width(rune) == IF rune THEN SizeofRune ELSE 1

\* Each element of data has the width it was stored with; a character read
\* with another, or stored beyond the memory there is, is junk.
Char(s, i) == IF s.data[i].w = Width(s.rune) THEN s.data[i].c ELSE Junk
Value(s) == IF s = H THEN << >> ELSE [i \in 1..Len(s.data) |-> Char(s, i)]
Cell(s, i, c, w) == [c |-> IF i * w <= s.nb + STRUCTALIGN THEN c ELSE Junk, w |-> w]

\* newstring with memory for room characters, and cs in it.  The allocator
\* rounds requests up.
newstring(cs, rune, room) ==
  LET nb == ((room * Width(rune) + Header + Quantum - 1) \div Quantum) * Quantum - Header
  IN [data |-> [i \in 1..Len(cs) |-> [c |-> cs[i], w |-> Width(rune)]],
      rune |-> rune /\ cs # << >>,
      nb |-> nb,
      max |-> nb \div Width(rune)]
Filled(cs, rune) == newstring(cs, rune, Len(cs))
stringdup(s) == Filled(Value(s), s.rune)
splitc(s, expand) ==
  IF expand /\ ~s.rune /\ s.data # << >> THEN Filled(Value(s), TRUE) ELSE stringdup(s)

S(d) == IF var[d] = H THEN H ELSE str[var[d]]
ref(d) == Cardinality({e \in Var : var[e] = var[d]})

\* The variables are to refer to the strings s as f says; a string nothing
\* refers to is freed, any other is known by the first variable that does.
Refer(f, s) ==
  LET first(d) == Min({e \in Var : f[e] = f[d]})
      used == {d \in Var : f[d] # H}
  IN /\ var' = [d \in Var |-> IF d \in used THEN first(d) ELSE H]
     /\ str' = [i \in {first(d) : d \in used} |-> s[f[i]]]
Assign(d, s) ==
  IF s = H THEN Refer([var EXCEPT ![d] = H], str)
  ELSE Refer([var EXCEPT ![d] = 0],
             [j \in DOMAIN str \cup {0} |-> IF j = 0 THEN s ELSE str[j]])

Init == var = [d \in Var |-> H] /\ str = << >>

\* insc changes d's string if it is d's own and in the representation needed,
\* else a copy (splitc), or a new one.
Expand(c) == c >= Runeself
\* VARIANT of Splits: whether others refer to the string is not tested.
SplitsForRune(d, c) == Expand(c) /\ S(d).data # << >> /\ ~S(d).rune
Splits(d, c) == ref(d) > 1 \/ (Expand(c) /\ S(d).data # << >> /\ ~S(d).rune)
Own(d, c) ==
  IF S(d) = H THEN Filled(<< >>, Expand(c))
  ELSE IF Splits(d, c) THEN splitc(S(d), Expand(c))
  ELSE S(d)
Update(d, c, s) ==
  IF S(d) = H \/ Splits(d, c) THEN Assign(d, s)
  ELSE str' = [str EXCEPT ![var[d]] = s] /\ UNCHANGED var

Stored(s, v, c, rune) ==
  [s EXCEPT !.data = SubSeq(s.data, 1, v) \o << Cell(s, v + 1, c, Width(rune)) >>
                       \o SubSeq(s.data, v + 2, Len(s.data)),
            !.rune = rune]
Grown(s, v, c, rune) == Stored(newstring(Value(s), rune, v + 1 + v \div 4), v, c, rune)

\* An index out of bounds is found after the string was split.
insc(d, v, c) ==
  LET s == Own(d, c)
      rune == s.rune \/ Expand(c)
      n == Len(s.data)
  IN /\ EmptyGrows \/ ~(S(d) # H /\ n = 0 /\ Expand(c))
     /\ v < MaxLen
     /\ \/ (v < n \/ (v = n /\ v < s.max)) /\ Update(d, c, Stored(s, v, c, rune))
        \/ v = n /\ v >= s.max /\ Assign(d, Grown(s, v, c, rune))
        \/ v > n /\ S(d) # H /\ Update(d, c, s)

\* slicer: the characters from start up to v, as runes if s has them.
slicer(start, v, s) ==
  IF s = H THEN H ELSE Filled(SubSeq(Value(s), start + 1, v), s.rune)
slicec(d, start, v) ==
  start <= v /\ v <= Len(Value(S(d))) /\ Assign(d, slicer(start, v, S(d)))

addstring(s1, s2) ==
  IF s1 = H THEN IF s2 = H THEN H ELSE stringdup(s2)
  ELSE IF s2 = H THEN stringdup(s1)
  ELSE Filled(Value(s1) \o Value(s2), s1.rune \/ s2.rune)
addc(d, m, s) ==
  /\ Len(Value(S(m))) + Len(Value(S(s))) <= MaxLen
  /\ Assign(d, addstring(S(m), S(s)))

movp(d, s) == Refer([var EXCEPT ![d] = var[s]], str)

\* cvtwc, for a number of one digit.
cvtwc(d, c) == Assign(d, newstring(<< c >>, FALSE, 16))

\* UTF: a byte is << c, 0 >>, or a half of c.
Encoded(cs) ==
  FoldLeft(LAMBDA b, c : b \o IF c < Runeself THEN << << c, 0 >> >>
                              ELSE << << c, 1 >>, << c, 2 >> >>, << >>, cs)
\* The runes c2string counts and then converts: an error rune for a byte that
\* begins none; a rune that is cut short ends the string.
Decoded(b) ==
  LET f[i \in Nat] ==
        IF i > Len(b) \/ (i = Len(b) /\ b[i][2] = 1) THEN << >>
        ELSE IF b[i][2] = 0 THEN << b[i][1] >> \o f[i + 1]
        ELSE IF b[i][2] = 1 /\ b[i + 1] = << b[i][1], 2 >>
          THEN << b[i][1] >> \o f[i + 2]
        ELSE << Runeerror >> \o f[i + 1]
  IN f[1]
c2string(b) ==
  Filled(Decoded(b), \E i \in 1..Len(b) : b[i][2] # 0)

\* cvtca, a slice of the array, and cvtac.
cvtcac(d, s) ==
  LET b == Encoded(Value(S(s)))
  IN \E i, j \in 0..Len(b) :
       i <= j /\ Assign(d, c2string(SubSeq(b, i + 1, j)))

\* What the instructions that only read return.
indc(s, v) == Char(s, v + 1)
lenc(s) == IF s = H THEN 0 ELSE Len(s.data)
stringcmp(s1, s2) ==
  LET a == Value(s1)
      b == Value(s2)
      d == {i \in 1..Min({Len(a), Len(b)}) : a[i] # b[i]}
  IN IF d = {} THEN Len(a) - Len(b) ELSE IF a[Min(d)] < b[Min(d)] THEN -1 ELSE 1

\* Sys_tokenize, whose result is a list: d is to be one of its strings.
tokdelim(c, s) == c \in Range(Value(s))
Tokens(s, delim) ==
  LET n == Len(s.data)
      f[first \in Nat] ==
        LET b == Min({i \in first..n : i = n \/ ~tokdelim(Char(s, i + 1), delim)})
            e == Min({i \in b..n : i = n \/ tokdelim(Char(s, i + 1), delim)})
        IN IF b = e THEN {} ELSE {<< b, e >>} \cup f[e]
  IN f[0]
tokenize(d, s, delim) ==
  /\ S(s) # H /\ S(delim) # H
  /\ \E t \in Tokens(S(s), S(delim)) : Assign(d, slicer(t[1], t[2], S(s)))

Next ==
  \E d \in Var :
    \/ \E v \in 0..MaxLen, c \in Chars : insc(d, v, c)
    \/ \E i, j \in 0..MaxLen : slicec(d, i, j)
    \/ \E m, s \in Var : addc(d, m, s)
    \/ \E s \in Var : movp(d, s)
    \/ \E s \in Var : cvtcac(d, s)
    \/ \E s, t \in Var : tokenize(d, s, t)
    \/ \E c \in Chars : c < Runeself /\ cvtwc(d, c)
    \/ Assign(d, H)

Spec == Init /\ [][Next]_strvars

Abs == INSTANCE StringValues WITH
  val <- [d \in Var |-> Value(S(d))]

\* A string changes for the variable that is assigned to alone, to the value
\* the instruction promises, whatever representations, sharing and capacity
\* the strings involved have; nothing is stored beyond a string's memory.
ImplementsStringValues ==
  /\ Abs!Spec
  /\ [](\A d, e \in Var :
         Abs!Reads(d, e, lenc(S(d)), [v \in 0..lenc(S(d)) - 1 |-> indc(S(d), v)],
                   stringcmp(S(d), S(e))))

\* max is "maximum length in representation": as many runes, or bytes, as
\* there is memory for.
MaxInRepresentation ==
  \A i \in DOMAIN str : str[i].max * Width(str[i].rune) <= str[i].nb
=============================================================================
