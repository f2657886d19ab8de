---------------------------- MODULE StringValues ----------------------------
(***************************************************************************)
(* What strings are to a program: values.  A variable holds a sequence of  *)
(* characters, nil being the empty one; an assignment to one variable, or  *)
(* to a character of it, is never seen through another.                    *)
(***************************************************************************)
EXTENDS Integers, Sequences, FiniteSetsExt, SequencesExt

CONSTANTS
  Var,    \* the variables of the program
  Chars,  \* the characters: numbers, those from 128 need two bytes or more
  MaxLen  \* bound: the longest string

VARIABLES
  val  \* Var -> Seq(Chars)

Bytes(c) == IF c < 128 THEN 1 ELSE 2
\* Where each character starts in the encoding of s: character i lies in the
\* bytes Start(s, i) to Start(s, i + 1) - 1, from 0.
Start(s, i) == FoldLeft(LAMBDA n, c : n + Bytes(c), 0, SubSeq(s, 1, i - 1))
Size(s) == Start(s, Len(s) + 1)

\* The bytes i to j - 1 of the encoding of s, decoded: the characters that lie
\* in them wholly, after an error character for one whose end comes first.
Cut(s, i, j) ==
  LET whole == {k \in 1..Len(s) : i <= Start(s, k) /\ Start(s, k + 1) <= j}
      torn == \E k \in 1..Len(s) :
                Start(s, k) < i /\ i < Start(s, k + 1) /\ Start(s, k + 1) <= j
  IN (IF torn THEN << 128 >> ELSE << >>) \o
     (IF whole = {} THEN << >> ELSE SubSeq(s, Min(whole), Max(whole)))

\* The longest runs of characters that are not delimiters.
Words(s, delims) ==
  LET In(k) == s[k] \notin delims
  IN {SubSeq(s, i, j) : << i, j >> \in
        {p \in (1..Len(s)) \X (1..Len(s)) :
           /\ p[1] <= p[2] /\ \A k \in p[1]..p[2] : In(k)
           /\ p[1] > 1 => ~In(p[1] - 1)
           /\ p[2] < Len(s) => ~In(p[2] + 1)}}

Compared(s, t) ==
  LET d == {i \in 1..Min({Len(s), Len(t)}) : s[i] # t[i]}
  IN IF d = {} THEN Len(s) - Len(t)
     ELSE IF s[Min(d)] < t[Min(d)] THEN -1 ELSE 1

Init == val = [d \in Var |-> << >>]

\* What may be assigned to d, when the variables have the values v: nil, a
\* number, another variable's value, a slice, d with a character replaced or
\* added, a sum, a piece of an encoding, a word.
Assigned(d, v, cs) ==
  \/ cs = << >>
  \/ \E s \in Var : cs = v[s]
  \/ \E i, j \in 0..Len(v[d]) : cs = SubSeq(v[d], i + 1, j)
  \/ \E i \in 0..Len(v[d]), c \in Chars :
       cs = SubSeq(v[d], 1, i) \o << c >> \o SubSeq(v[d], i + 2, Len(v[d]))
  \/ \E c \in Chars : c < 128 /\ cs = << c >>
  \/ \E s, t \in Var : cs = v[s] \o v[t]
  \/ \E s, t \in Var : cs \in Words(v[s], {v[t][i] : i \in 1..Len(v[t])})
  \/ \E s \in Var : \E i, j \in 0..Size(v[s]) : i <= j /\ cs = Cut(v[s], i, j)

Next ==
  \E d \in Var :
    /\ \A e \in Var \ {d} : val'[e] = val[e]
    /\ Assigned(d, val, val'[d])

\* The length of d, its characters from 0 on, and the comparison with e.
Reads(d, e, n, chars, cmp) ==
  /\ n = Len(val[d])
  /\ \A v \in 0..n - 1 : chars[v] = val[d][v + 1]
  /\ cmp = Compared(val[d], val[e])

Spec == Init /\ [][Next]_val
=============================================================================
