--------------------------- MODULE DisChanProofs ---------------------------
(***************************************************************************)
(* Theorems about DisChan.  The invariant says of each queue which Progs   *)
(* are on it, and of the alt marks whose they are.  It is stated with      *)
(* constant operators applied to the variables, so that a step is a change *)
(* of their arguments.                                                     *)
(***************************************************************************)
EXTENDS DisChan, SequenceTheorems, TLAPS

-----------------------------------------------------------------------------
(* Queues.                                                                 *)

\* q lists the Progs of S, each once.
Lists(q, S) == q \in Seq(Prog) /\ NoDup(q) /\ Elems(q) = S

\* The empty queue lists nobody, and only it does.
LEMMA ListsNobody ==
  /\ Lists(<< >>, {})
  /\ \A q, S : Lists(q, S) => (q = << >> <=> S = {})
<1>1. Lists(<< >>, {})
  BY DEF Lists, NoDup, Elems
<1>2. ASSUME NEW q, NEW S, Lists(q, S), q # << >>
      PROVE  S # {}
  <2>1. Len(q) \in Nat \ {0} /\ 1 \in 1 .. Len(q)
    BY <1>2, EmptySeq DEF Lists
  <2>2. q[1] \in Elems(q)
    BY <2>1 DEF Elems
  <2>3. QED
    BY <1>2, <2>2 DEF Lists
<1>3. ASSUME NEW S, Lists(<< >>, S)
      PROVE  S = {}
  BY <1>3 DEF Lists, Elems
<1>4. QED
  BY <1>1, <1>2, <1>3

\* A Prog joins a queue at its end.
LEMMA ListsAppend ==
  ASSUME NEW q, NEW S, Lists(q, S), NEW p \in Prog, p \notin S
  PROVE  Lists(Append(q, p), S \cup {p}) /\ Append(q, p) # << >>
<1>1. q \in Seq(Prog) /\ Len(q) \in Nat
  BY DEF Lists
<1>2. /\ Append(q, p) \in Seq(Prog) /\ Len(Append(q, p)) = Len(q) + 1
      /\ \A i \in 1 .. Len(q) : Append(q, p)[i] = q[i]
      /\ Append(q, p)[Len(q) + 1] = p
  BY <1>1
<1>3. Elems(Append(q, p)) = S \cup {p}
  BY <1>1, <1>2 DEF Lists, Elems
<1>4. NoDup(Append(q, p))
  BY <1>1, <1>2 DEF Lists, Elems, NoDup
<1>5. QED
  BY <1>1, <1>2, <1>3, <1>4 DEF Lists

\* The head leaves a queue.
LEMMA ListsTail ==
  ASSUME NEW q, NEW S, Lists(q, S), q # << >>
  PROVE  /\ Head(q) \in S /\ Head(q) \in Prog
         /\ Lists(Tail(q), S \ {Head(q)})
<1>1. /\ q \in Seq(Prog) /\ Len(q) \in Nat \ {0} /\ Head(q) = q[1] /\ Head(q) \in Prog
      /\ Tail(q) \in Seq(Prog) /\ Len(Tail(q)) = Len(q) - 1
      /\ \A i \in 1 .. Len(Tail(q)) : Tail(q)[i] = q[i + 1]
  BY HeadTailProperties, EmptySeq DEF Lists
<1>2. Head(q) \in S
  BY <1>1 DEF Lists, Elems
<1>3. NoDup(Tail(q))
  BY <1>1 DEF Lists, NoDup
<1>4. ASSUME NEW i \in 1 .. Len(Tail(q))
      PROVE  Tail(q)[i] \in S /\ Tail(q)[i] # Head(q)
  <2>1. i + 1 \in 1 .. Len(q) /\ i + 1 # 1 /\ Tail(q)[i] = q[i + 1]
    BY <1>1
  <2>2. QED
    BY <1>1, <2>1 DEF Lists, Elems, NoDup
<1>5. ASSUME NEW p \in S, p # Head(q)
      PROVE  p \in Elems(Tail(q))
  <2>1. PICK i \in 1 .. Len(q) : q[i] = p
    BY DEF Lists, Elems
  <2>2. i # 1
    BY <1>1, <1>5, <2>1
  <2>3. i - 1 \in 1 .. Len(Tail(q)) /\ (i - 1) + 1 = i
    BY <1>1, <2>2
  <2>4. Tail(q)[i - 1] = p
    BY <1>1, <2>1, <2>3
  <2>5. QED
    BY <2>3, <2>4 DEF Elems
<1>6. Elems(Tail(q)) = S \ {Head(q)}
  BY <1>4, <1>5 DEF Elems
<1>7. QED
  BY <1>1, <1>2, <1>3, <1>6 DEF Lists

\* The head of a queue goes to its end.
LEMMA ListsRotate ==
  ASSUME NEW q, NEW S, Lists(q, S), q # << >>
  PROVE  Lists(Append(Tail(q), Head(q)), S)
<1>1. Head(q) \in S /\ Head(q) \in Prog /\ Lists(Tail(q), S \ {Head(q)})
  BY ListsTail
<1>2. Lists(Append(Tail(q), Head(q)), (S \ {Head(q)}) \cup {Head(q)})
  BY <1>1, ListsAppend
<1>3. (S \ {Head(q)}) \cup {Head(q)} = S
  BY <1>1
<1>4. QED
  BY <1>2, <1>3

\* One queue after another.
LEMMA ListsConcat ==
  ASSUME NEW q, NEW S, Lists(q, S), NEW r, NEW T, Lists(r, T), S \cap T = {}
  PROVE  Lists(q \o r, S \cup T)
<1>1. /\ q \in Seq(Prog) /\ Len(q) \in Nat /\ r \in Seq(Prog) /\ Len(r) \in Nat
      /\ q \o r \in Seq(Prog) /\ Len(q \o r) = Len(q) + Len(r)
      /\ \A i \in 1 .. Len(q) + Len(r) : (q \o r)[i] = IF i <= Len(q) THEN q[i] ELSE r[i - Len(q)]
  BY ConcatProperties DEF Lists
<1> DEFINE w == q \o r
<1> HIDE DEF w
<1>2. ASSUME NEW i \in 1 .. Len(w)
      PROVE  \/ i \in 1 .. Len(q) /\ w[i] = q[i]
             \/ i - Len(q) \in 1 .. Len(r) /\ w[i] = r[i - Len(q)]
  <2>1. i \in 1 .. Len(q) + Len(r) /\ w[i] = IF i <= Len(q) THEN q[i] ELSE r[i - Len(q)]
    BY <1>1 DEF w
  <2>2. CASE i <= Len(q)
    BY <1>1, <2>1, <2>2
  <2>3. CASE ~(i <= Len(q))
    BY <1>1, <2>1, <2>3
  <2>4. QED
    BY <2>2, <2>3
<1>3. \A i \in 1 .. Len(q) : i \in 1 .. Len(w) /\ w[i] = q[i]
  BY <1>1 DEF w
<1>4. ASSUME NEW i \in 1 .. Len(r)
      PROVE  i + Len(q) \in 1 .. Len(w) /\ w[i + Len(q)] = r[i]
  <2>1. i + Len(q) \in 1 .. Len(q) + Len(r) /\ ~(i + Len(q) <= Len(q)) /\ (i + Len(q)) - Len(q) = i
    BY <1>1
  <2>2. QED
    BY <1>1, <2>1 DEF w
<1>5. Elems(w) = S \cup T
  <2>1. Elems(w) \subseteq Elems(q) \cup Elems(r)
    BY <1>2 DEF Elems
  <2>2. Elems(q) \subseteq Elems(w)
    BY <1>3 DEF Elems
  <2>3. Elems(r) \subseteq Elems(w)
    BY <1>4 DEF Elems
  <2>4. QED
    BY <2>1, <2>2, <2>3 DEF Lists
<1>6. NoDup(w)
  <2>1. SUFFICES ASSUME NEW i \in 1 .. Len(w), NEW j \in 1 .. Len(w), w[i] = w[j]
                 PROVE  i = j
    BY DEF NoDup
  <2>2. CASE i \in 1 .. Len(q) /\ w[i] = q[i] /\ j \in 1 .. Len(q) /\ w[j] = q[j]
    BY <2>1, <2>2 DEF Lists, NoDup
  <2>3. CASE /\ i - Len(q) \in 1 .. Len(r) /\ w[i] = r[i - Len(q)]
             /\ j - Len(q) \in 1 .. Len(r) /\ w[j] = r[j - Len(q)]
    <3>1. i - Len(q) = j - Len(q)
      BY <2>1, <2>3 DEF Lists, NoDup
    <3>2. QED
      BY <1>1, <3>1
  <2>4. CASE i \in 1 .. Len(q) /\ w[i] = q[i] /\ j - Len(q) \in 1 .. Len(r) /\ w[j] = r[j - Len(q)]
    BY <2>1, <2>4 DEF Lists, Elems
  <2>5. CASE j \in 1 .. Len(q) /\ w[j] = q[j] /\ i - Len(q) \in 1 .. Len(r) /\ w[i] = r[i - Len(q)]
    BY <2>1, <2>5 DEF Lists, Elems
  <2>6. QED
    BY <1>2, <2>2, <2>3, <2>4, <2>5
<1>7. QED
  BY <1>1, <1>5, <1>6 DEF Lists, w
-----------------------------------------------------------------------------
(* The invariant.                                                          *)

\* The Progs that can run, and those blocked in send or recv on a channel.
Ready(ps) == {p \in Prog : ps[p] \in {"ready", "exiting"}}
Blocked(ps, ch, st, c) == {p \in Prog : ps[p] = st /\ ch[p] = c}

\* The run queue and the queues of the channels.
Queued(rq, ps, ch, sq, rcq) ==
  /\ Lists(rq, Ready(ps))
  /\ \A c \in Chan : /\ Lists(sq[c], Blocked(ps, ch, "send", c))
                     /\ Lists(rcq[c], Blocked(ps, ch, "recv", c))

\* Recvs, with the arrays as an argument.
RecvsIn(ar, a) ==
  LET k == Len(a.sends) IN
  {[c |-> a.recvs[n], at |-> << k + n, 0 >>] :
     n \in {m \in DOMAIN a.recvs : a.recvs[m] \in Chan}}
  \cup
  {[c |-> ar[a.recvs[x[1]]][x[2]], at |-> << k + x[1], x[2] >>] :
     x \in {y \in (DOMAIN a.recvs) \X (1 .. ArrLen) :
              a.recvs[y[1]] \in Arr /\ ar[a.recvs[y[1]]][y[2]] # H}}

\* The marks of one direction are those of the alts that wait in it.
Marked(f, ps, Cs) == \A c \in Chan, p \in Prog : f[c] = p <=> ps[p] = "alt" /\ c \in Cs[p]

\* The channels of the alts, by Prog.
SendsOf(al) == [p \in Prog |-> Chans(Sends(al[p]))]
RecvsOf(ar, al) == [p \in Prog |-> Chans(RecvsIn(ar, al[p]))]

\* Who waits on a channel has no partner there.
Alternate(sq, rcq, sa, ra, bq) ==
  \A c \in Chan : ~ /\ sq[c] # << >> \/ sa[c] # NoProg \/ bq[c] # << >>
                    /\ rcq[c] # << >> \/ ra[c] # NoProg

Killed(ki, ps) == \A p \in Prog : ki[p] => ps[p] = "ready"

\* Who does not wait in an alt has none.
Placed(al, ps) == \A p \in Prog : ps[p] # "alt" => al[p] = NoAlt

IInv ==
  /\ TypeOK
  /\ Queued(runq, pstate, chan, send, recv)
  /\ Killed(kill, pstate)
  /\ Placed(alt, pstate)
  /\ Marked(sendalt, pstate, SendsOf(alt))
  /\ Marked(recvalt, pstate, RecvsOf(arr, alt))
  /\ Alternate(send, recv, sendalt, recvalt, sendq)

\* Recvs is RecvsIn of the arrays there are.
LEMMA RecvsNow == \A a : Recvs(a) = RecvsIn(arr, a)
  BY DEF Recvs, RecvsIn

\* The marks stay right when nobody starts or stops waiting in an alt.
LEMMA MarkedSame ==
  ASSUME NEW f, NEW ps, NEW ps2, NEW Cs, Marked(f, ps, Cs),
         \A p \in Prog : ps2[p] = "alt" <=> ps[p] = "alt"
  PROVE  Marked(f, ps2, Cs)
  BY DEF Marked

\* The current Prog, when there is one.
LEMMA Current ==
  ASSUME IInv, NEW st \in {"ready", "exiting"}, Is(st)
  PROVE  /\ runq # << >> /\ g \in Prog /\ g # NoProg /\ pstate[g] = st /\ g \in Ready(pstate)
         /\ Lists(runq, Ready(pstate)) /\ Lists(Tail(runq), Ready(pstate) \ {g})
         /\ \A c \in Chan : sendalt[c] # g /\ recvalt[c] # g
<1>1. Lists(runq, Ready(pstate)) /\ runq # << >> /\ pstate[g] = st
  BY DEF IInv, Queued, Is
<1>2. g \in Prog /\ g \in Ready(pstate) /\ Lists(Tail(runq), Ready(pstate) \ {g})
  BY <1>1, ListsTail DEF g
<1>3. \A c \in Chan : sendalt[c] # g /\ recvalt[c] # g
  BY <1>1, <1>2 DEF IInv, Marked
<1>4. QED
  BY <1>1, <1>2, <1>3, ChanAssumption

\* The end of an instruction lists the Progs it found, in another order.
LEMMA EndInstrLists ==
  ASSUME NEW q, NEW S, Lists(q, S), q # << >>, ic \in 1 .. Quanta, EndInstr(q)
  PROVE  Lists(runq', S) /\ ic' \in 1 .. Quanta
<1>1. Lists(Append(Tail(q), Head(q)), S)
  BY ListsRotate
<1>2. ic' \in 1 .. Quanta
  BY ChanAssumption DEF EndInstr
<1>3. QED
  BY <1>1, <1>2 DEF EndInstr

\* delrun takes the current Prog off the run queue.
LEMMA DelRunLists ==
  ASSUME IInv, NEW st \in PState \ {"ready", "exiting"}, Is("ready") \/ Is("exiting"), DelRun(st)
  PROVE  /\ Lists(runq', Ready(pstate')) /\ ic' \in 1 .. Quanta
         /\ pstate' \in [Prog -> PState] /\ pstate'[g] = st
         /\ \A p \in Prog \ {g} : pstate'[p] = pstate[p]
<1>1. g \in Prog /\ Lists(Tail(runq), Ready(pstate) \ {g}) /\ pstate \in [Prog -> PState]
  BY Current DEF IInv, TypeOK
<1>2. /\ runq' = Tail(runq) /\ ic' = Quanta
      /\ pstate' = [pstate EXCEPT ![g] = st]
  BY DEF DelRun
<1>3. /\ pstate' \in [Prog -> PState] /\ pstate'[g] = st
      /\ \A p \in Prog \ {g} : pstate'[p] = pstate[p]
  BY <1>1, <1>2
<1>4. Ready(pstate') = Ready(pstate) \ {g}
  BY <1>1, <1>3 DEF Ready
<1>5. ic' \in 1 .. Quanta
  BY <1>2, ChanAssumption
<1>6. QED
  BY <1>1, <1>2, <1>3, <1>4, <1>5

-----------------------------------------------------------------------------
(* Steps in which no Prog is woken.                                        *)

\* An instruction that neither blocks nor wakes anyone.
LEMMA SoloStep ==
  ASSUME IInv, Running, EndInstr(runq),
         UNCHANGED << pstate, kill, waitVars, send, recv, sendalt, recvalt >>,
         sendq' \in [Chan -> Seq(Prog)], arr' \in [Arr -> [1 .. ArrLen -> Chan \cup {H}]],
         last' = Silence \/ last'.to \in Prog,
         RecvsOf(arr', alt) = RecvsOf(arr, alt),
         Alternate(send, recv, sendalt, recvalt, sendq')
  PROVE  IInv'
<1>1. runq # << >> /\ Lists(runq, Ready(pstate))
  BY Current DEF Running
<1>2. Lists(runq', Ready(pstate)) /\ ic' \in 1 .. Quanta
  BY <1>1, EndInstrLists DEF IInv, TypeOK
<1>3. TypeOK'
  BY <1>2 DEF IInv, TypeOK, Lists, waitVars
<1>4. Queued(runq', pstate', chan', send', recv')
  BY <1>2 DEF IInv, Queued, waitVars
<1>5. QED
  BY <1>3, <1>4 DEF IInv, waitVars

\* The current Prog stops being ready, or stays so, and waits for nothing.
LEMMA RestStep ==
  ASSUME IInv, Is("ready") \/ Is("exiting"), NEW st \in {"ready", "exiting", "broken", "gone"},
         pstate' = [pstate EXCEPT ![g] = st],
         Lists(runq', Ready(pstate')), ic' \in 1 .. Quanta,
         kill' \in [Prog -> BOOLEAN], kill'[g] = FALSE,
         \A p \in Prog \ {g} : kill'[p] = kill[p],
         UNCHANGED << waitVars, chanVars, arr >>, last' = Silence
  PROVE  IInv'
<1>1. g \in Prog /\ pstate[g] \in {"ready", "exiting"} /\ pstate \in [Prog -> PState]
  BY Current DEF IInv, TypeOK
<1>2. pstate' \in [Prog -> PState] /\ pstate'[g] = st /\ \A p \in Prog \ {g} : pstate'[p] = pstate[p]
  BY <1>1 DEF PState
<1>3. TypeOK'
  BY <1>2 DEF IInv, TypeOK, Lists, waitVars, chanVars
<1>4. Queued(runq', pstate', chan', send', recv')
  <2>1. ASSUME NEW c \in Chan, NEW d \in {"send", "recv"}
        PROVE  Blocked(pstate', chan, d, c) = Blocked(pstate, chan, d, c)
    BY <1>1, <1>2 DEF Blocked
  <2>2. QED
    BY <2>1 DEF IInv, Queued, waitVars, chanVars
<1>5. Killed(kill', pstate')
  BY <1>2 DEF IInv, Killed
<1>6. /\ Marked(sendalt', pstate', SendsOf(alt')) /\ Marked(recvalt', pstate', RecvsOf(arr', alt'))
  BY <1>1, <1>2 DEF IInv, Marked, waitVars, chanVars
<1>7. Placed(alt', pstate')
  BY <1>1, <1>2 DEF IInv, Placed, waitVars
<1>8. QED
  BY <1>3, <1>4, <1>5, <1>6, <1>7 DEF IInv, waitVars, chanVars

\* The current Prog is blocked in send.
LEMMA SendBlocks ==
  ASSUME IInv, Running, NEW c \in Chan, recv[c] = << >>, recvalt[c] = NoProg,
         DelRun("send"), chan' = [chan EXCEPT ![g] = c],
         send' = [send EXCEPT ![c] = Append(@, g)], last' = Silence,
         UNCHANGED << kill, alt, recv, sendalt, recvalt, sendq, arr >>
  PROVE  IInv'
<1>1. g \in Prog /\ pstate[g] = "ready" /\ kill[g] = FALSE
      /\ chan \in [Prog -> Chan \cup {H}] /\ send \in [Chan -> Seq(Prog)]
  BY Current DEF IInv, TypeOK, Running
<1>2. /\ Lists(runq', Ready(pstate')) /\ ic' \in 1 .. Quanta
      /\ pstate' \in [Prog -> PState] /\ pstate'[g] = "send"
      /\ \A p \in Prog \ {g} : pstate'[p] = pstate[p]
  BY DelRunLists DEF PState, Running
<1>3. /\ chan' \in [Prog -> Chan \cup {H}] /\ chan'[g] = c
      /\ \A p \in Prog \ {g} : chan'[p] = chan[p]
      /\ send'[c] = Append(send[c], g) /\ \A d \in Chan \ {c} : send'[d] = send[d]
      /\ send' = [d \in Chan |-> send'[d]]
  BY <1>1
<1>4. ASSUME NEW d \in Chan
      PROVE  /\ Lists(send'[d], Blocked(pstate', chan', "send", d))
             /\ Lists(recv[d], Blocked(pstate', chan', "recv", d))
  <2>1. Blocked(pstate', chan', "recv", d) = Blocked(pstate, chan, "recv", d)
    BY <1>1, <1>2, <1>3 DEF Blocked
  <2>2. d # c => Blocked(pstate', chan', "send", d) = Blocked(pstate, chan, "send", d)
    BY <1>1, <1>2, <1>3 DEF Blocked
  <2>3. Blocked(pstate', chan', "send", c) = Blocked(pstate, chan, "send", c) \cup {g}
    BY <1>1, <1>2, <1>3 DEF Blocked
  <2>4. g \notin Blocked(pstate, chan, "send", c)
    BY <1>1 DEF Blocked
  <2>5. Lists(send[d], Blocked(pstate, chan, "send", d)) /\ Lists(recv[d], Blocked(pstate, chan, "recv", d))
    BY DEF IInv, Queued
  <2>6. Lists(send[c], Blocked(pstate, chan, "send", c))
    BY DEF IInv, Queued
  <2>7. Lists(Append(send[c], g), Blocked(pstate, chan, "send", c) \cup {g})
    BY <1>1, <2>4, <2>6, ListsAppend
  <2>8. d = c => Lists(send'[d], Blocked(pstate', chan', "send", d))
    BY <1>3, <2>3, <2>7
  <2>9. QED
    BY <1>3, <2>1, <2>2, <2>5, <2>8
<1>5. Queued(runq', pstate', chan', send', recv')
  BY <1>2, <1>4 DEF Queued
<1>6. TypeOK'
  BY <1>2, <1>3, <1>4 DEF IInv, TypeOK, Lists
<1>7. Killed(kill', pstate')
  BY <1>1, <1>2 DEF IInv, Killed
<1>8. Marked(sendalt', pstate', SendsOf(alt')) /\ Marked(recvalt', pstate', RecvsOf(arr', alt'))
  <2>1. \A p \in Prog : pstate'[p] = "alt" <=> pstate[p] = "alt"
    BY <1>1, <1>2
  <2>2. Marked(sendalt, pstate', SendsOf(alt)) /\ Marked(recvalt, pstate', RecvsOf(arr, alt))
    BY <2>1, MarkedSame DEF IInv
  <2>3. QED
    BY <2>2
<1>9. Alternate(send', recv', sendalt', recvalt', sendq')
  BY <1>3 DEF IInv, Alternate
<1>10. Placed(alt', pstate')
  BY <1>1, <1>2 DEF IInv, Placed
<1>11. QED
  BY <1>5, <1>6, <1>7, <1>8, <1>9, <1>10 DEF IInv

\* The current Prog is blocked in recv.
LEMMA RecvBlocks ==
  ASSUME IInv, Running, NEW c \in Chan, send[c] = << >>, sendalt[c] = NoProg, sendq[c] = << >>,
         DelRun("recv"), chan' = [chan EXCEPT ![g] = c],
         recv' = [recv EXCEPT ![c] = Append(@, g)], last' = Silence,
         UNCHANGED << kill, alt, send, sendalt, recvalt, sendq, arr >>
  PROVE  IInv'
<1>1. g \in Prog /\ pstate[g] = "ready" /\ kill[g] = FALSE
      /\ chan \in [Prog -> Chan \cup {H}] /\ recv \in [Chan -> Seq(Prog)]
  BY Current DEF IInv, TypeOK, Running
<1>2. /\ Lists(runq', Ready(pstate')) /\ ic' \in 1 .. Quanta
      /\ pstate' \in [Prog -> PState] /\ pstate'[g] = "recv"
      /\ \A p \in Prog \ {g} : pstate'[p] = pstate[p]
  BY DelRunLists DEF PState, Running
<1>3. /\ chan' \in [Prog -> Chan \cup {H}] /\ chan'[g] = c
      /\ \A p \in Prog \ {g} : chan'[p] = chan[p]
      /\ recv'[c] = Append(recv[c], g) /\ \A d \in Chan \ {c} : recv'[d] = recv[d]
      /\ recv' = [d \in Chan |-> recv'[d]]
  BY <1>1
<1>4. ASSUME NEW d \in Chan
      PROVE  /\ Lists(send[d], Blocked(pstate', chan', "send", d))
             /\ Lists(recv'[d], Blocked(pstate', chan', "recv", d))
  <2>1. Blocked(pstate', chan', "send", d) = Blocked(pstate, chan, "send", d)
    BY <1>1, <1>2, <1>3 DEF Blocked
  <2>2. d # c => Blocked(pstate', chan', "recv", d) = Blocked(pstate, chan, "recv", d)
    BY <1>1, <1>2, <1>3 DEF Blocked
  <2>3. Blocked(pstate', chan', "recv", c) = Blocked(pstate, chan, "recv", c) \cup {g}
    BY <1>1, <1>2, <1>3 DEF Blocked
  <2>4. g \notin Blocked(pstate, chan, "recv", c)
    BY <1>1 DEF Blocked
  <2>5. Lists(send[d], Blocked(pstate, chan, "send", d)) /\ Lists(recv[d], Blocked(pstate, chan, "recv", d))
    BY DEF IInv, Queued
  <2>6. Lists(recv[c], Blocked(pstate, chan, "recv", c))
    BY DEF IInv, Queued
  <2>7. Lists(Append(recv[c], g), Blocked(pstate, chan, "recv", c) \cup {g})
    BY <1>1, <2>4, <2>6, ListsAppend
  <2>8. d = c => Lists(recv'[d], Blocked(pstate', chan', "recv", d))
    BY <1>3, <2>3, <2>7
  <2>9. QED
    BY <1>3, <2>1, <2>2, <2>5, <2>8
<1>5. Queued(runq', pstate', chan', send', recv')
  BY <1>2, <1>4 DEF Queued
<1>6. TypeOK'
  BY <1>2, <1>3, <1>4 DEF IInv, TypeOK, Lists
<1>7. Killed(kill', pstate')
  BY <1>1, <1>2 DEF IInv, Killed
<1>8. Marked(sendalt', pstate', SendsOf(alt')) /\ Marked(recvalt', pstate', RecvsOf(arr', alt'))
  <2>1. \A p \in Prog : pstate'[p] = "alt" <=> pstate[p] = "alt"
    BY <1>1, <1>2
  <2>2. Marked(sendalt, pstate', SendsOf(alt)) /\ Marked(recvalt, pstate', RecvsOf(arr, alt))
    BY <2>1, MarkedSame DEF IInv
  <2>3. QED
    BY <2>2
<1>9. Alternate(send', recv', sendalt', recvalt', sendq')
  BY <1>3 DEF IInv, Alternate
<1>10. Placed(alt', pstate')
  BY <1>1, <1>2 DEF IInv, Placed
<1>11. QED
  BY <1>5, <1>6, <1>7, <1>8, <1>9, <1>10 DEF IInv
-----------------------------------------------------------------------------
(* Steps that wake Progs.                                                  *)

\* The marks, without those of the Progs of W.
Without(f, W) == [c \in Chan |-> IF f[c] \in W THEN NoProg ELSE f[c]]

\* The Progs of W no longer wait in an alt, and the others go on as before.
Moved(W, ps, ps2, Cs, Cs2) ==
  \A p \in Prog : IF p \in W THEN ps2[p] # "alt" ELSE ps2[p] = ps[p] /\ Cs2[p] = Cs[p]

\* The marks stay right when those of the Progs that are woken go.
LEMMA MarkedWoken ==
  ASSUME NEW f, NEW ps, NEW ps2, NEW Cs, NEW Cs2, NEW W, Marked(f, ps, Cs),
         Moved(W, ps, ps2, Cs, Cs2)
  PROVE  Marked(Without(f, W), ps2, Cs2)
<1>1. SUFFICES ASSUME NEW c \in Chan, NEW p \in Prog
               PROVE  Without(f, W)[c] = p <=> ps2[p] = "alt" /\ c \in Cs2[p]
  BY DEF Marked
<1>2. f[c] = p <=> ps[p] = "alt" /\ c \in Cs[p]
  BY DEF Marked
<1>3. NoProg # p
  BY ChanAssumption
<1>4. Without(f, W)[c] = IF f[c] \in W THEN NoProg ELSE f[c]
  BY DEF Without
<1>5. QED
  BY <1>2, <1>3, <1>4 DEF Moved

\* The Progs of W, which waited, are ready, and their places are empty.
LEMMA WakeStep ==
  ASSUME IInv, NEW W \in SUBSET Prog,
         \A p \in W : pstate[p] \in {"send", "recv", "alt"},
         pstate' \in [Prog -> PState], kill' \in [Prog -> BOOLEAN],
         chan' \in [Prog -> Chan \cup {H}], alt' \in [Prog -> Alts \cup {NoAlt}],
         \A p \in W : pstate'[p] = "ready" /\ chan'[p] = H /\ alt'[p] = NoAlt,
         \A p \in Prog \ W : /\ pstate'[p] = pstate[p] /\ kill'[p] = kill[p]
                             /\ chan'[p] = chan[p] /\ alt'[p] = alt[p],
         send' \in [Chan -> Seq(Prog)], recv' \in [Chan -> Seq(Prog)],
         sendq' \in [Chan -> Seq(Prog)], arr' = arr,
         sendalt' = Without(sendalt, W), recvalt' = Without(recvalt, W),
         \A c \in Chan : /\ Lists(send'[c], Blocked(pstate, chan, "send", c) \ W)
                         /\ Lists(recv'[c], Blocked(pstate, chan, "recv", c) \ W)
                         /\ sendq'[c] # << >> => sendq[c] # << >>,
         Lists(runq', Ready(pstate) \cup W), ic' \in 1 .. Quanta,
         last' = Silence \/ last'.to \in Prog
  PROVE  IInv'
<1>1. /\ sendalt \in [Chan -> Prog \cup {NoProg}] /\ recvalt \in [Chan -> Prog \cup {NoProg}]
      /\ pstate \in [Prog -> PState]
  BY DEF IInv, TypeOK
<1>2. /\ sendalt' \in [Chan -> Prog \cup {NoProg}] /\ recvalt' \in [Chan -> Prog \cup {NoProg}]
  BY <1>1 DEF Without
<1>3. runq' \in Seq(Prog)
  BY DEF Lists
<1>4. TypeOK'
  <2>1. arr' \in [Arr -> [1 .. ArrLen -> Chan \cup {H}]]
    BY DEF IInv, TypeOK
  <2>2. QED
    BY <1>2, <1>3, <2>1 DEF TypeOK
<1>5. Queued(runq', pstate', chan', send', recv')
  <2>1. Ready(pstate') = Ready(pstate) \cup W
    BY <1>1 DEF Ready
  <2>2. ASSUME NEW c \in Chan, NEW st \in {"send", "recv"}
        PROVE  Blocked(pstate', chan', st, c) = Blocked(pstate, chan, st, c) \ W
    BY DEF Blocked
  <2>3. ASSUME NEW c \in Chan
        PROVE  /\ Lists(send'[c], Blocked(pstate', chan', "send", c))
               /\ Lists(recv'[c], Blocked(pstate', chan', "recv", c))
    BY <2>2
  <2>4. QED
    BY <2>1, <2>3 DEF Queued
<1>6. Killed(kill', pstate')
  BY DEF IInv, Killed
<1>7. Marked(sendalt', pstate', SendsOf(alt'))
  <2>1. Moved(W, pstate, pstate', SendsOf(alt), SendsOf(alt'))
    BY DEF Moved, SendsOf
  <2>2. Marked(sendalt, pstate, SendsOf(alt))
    BY DEF IInv
  <2>3. Marked(Without(sendalt, W), pstate', SendsOf(alt'))
    BY <2>1, <2>2, MarkedWoken
  <2>4. QED
    BY <2>3
<1>8. Marked(recvalt', pstate', RecvsOf(arr', alt'))
  <2>1. Moved(W, pstate, pstate', RecvsOf(arr, alt), RecvsOf(arr, alt'))
    BY DEF Moved, RecvsOf
  <2>2. Marked(recvalt, pstate, RecvsOf(arr, alt))
    BY DEF IInv
  <2>3. Marked(Without(recvalt, W), pstate', RecvsOf(arr, alt'))
    BY <2>1, <2>2, MarkedWoken
  <2>4. QED
    BY <2>3
<1>9. Alternate(send', recv', sendalt', recvalt', sendq')
  <2>1. ASSUME NEW c \in Chan
        PROVE  /\ send'[c] # << >> => send[c] # << >>
               /\ recv'[c] # << >> => recv[c] # << >>
               /\ sendalt'[c] # NoProg => sendalt[c] # NoProg
               /\ recvalt'[c] # NoProg => recvalt[c] # NoProg
    <3>1. /\ Lists(send[c], Blocked(pstate, chan, "send", c))
          /\ Lists(recv[c], Blocked(pstate, chan, "recv", c))
      BY DEF IInv, Queued
    <3>2. /\ send[c] = << >> => Blocked(pstate, chan, "send", c) = {}
          /\ recv[c] = << >> => Blocked(pstate, chan, "recv", c) = {}
      BY <3>1, ListsNobody
    <3>3. /\ send[c] = << >> => send'[c] = << >>
          /\ recv[c] = << >> => recv'[c] = << >>
      <4>1. /\ Lists(send'[c], Blocked(pstate, chan, "send", c) \ W)
            /\ Lists(recv'[c], Blocked(pstate, chan, "recv", c) \ W)
        OBVIOUS
      <4>2. /\ Blocked(pstate, chan, "send", c) \ W = {} => send'[c] = << >>
            /\ Blocked(pstate, chan, "recv", c) \ W = {} => recv'[c] = << >>
        BY <4>1, ListsNobody
      <4>3. QED
        BY <3>2, <4>2
    <3>4. QED
      BY <3>3 DEF Without
  <2>2. Alternate(send, recv, sendalt, recvalt, sendq)
    BY DEF IInv
  <2>3. QED
    BY <2>1, <2>2 DEF Alternate
<1>10. Placed(alt', pstate')
  BY DEF IInv, Placed
<1>11. QED
  BY <1>4, <1>5, <1>6, <1>7, <1>8, <1>9, <1>10 DEF IInv

\* A mark set where there was none and taken off again is no mark.
LEMMA UnmarkMark ==
  ASSUME NEW f \in [Chan -> Prog \cup {NoProg}], NEW E,
         \A c \in Chan : f[c] # g
  PROVE  Unmark(Mark(f, E), g, E) = f
<1>1. \A c \in Chan : Unmark(Mark(f, E), g, E)[c] = f[c]
  BY DEF Unmark, Mark
<1>2. QED
  BY <1>1 DEF Unmark

\* An alt with no alternatives sets no marks.
LEMMA MarkNothing ==
  ASSUME NEW f \in [Chan -> Prog \cup {NoProg}]
  PROVE  /\ Mark(f, Sends(NoAlt)) = f /\ Mark(f, Recvs(NoAlt)) = f
<1>1. Sends(NoAlt) = {} /\ Recvs(NoAlt) = {}
  BY DEF NoAlt, Sends, Recvs
<1>2. Mark(f, {}) = f
  BY DEF Mark, Chans
<1>3. QED
  BY <1>1, <1>2

\* No mark is the current Prog's, and those of q are on the channels of D.
NoneOfMine(f) == \A c \in Chan : f[c] # g
AllIn(f, q, D) == \A c \in Chan : f[c] = q => c \in Chans(D)

\* The mark of q is taken off c at once.
TakenOff(f, q, c) == [f EXCEPT ![c] = IF @ = q THEN NoProg ELSE @]

\* Both partners take their marks off: what is left is without those of q.
LEMMA UnmarkBoth ==
  ASSUME NEW f \in [Chan -> Prog \cup {NoProg}], NEW E, NEW D, NEW q \in Prog,
         g \in Prog, q # g, NoneOfMine(f), AllIn(f, q, D),
         NEW h, h = Mark(f, E) \/ \E d \in Chan : h = TakenOff(Mark(f, E), q, d)
  PROVE  Unmark(Unmark(h, q, D), g, E) = Without(f, {q})
<1>1. q # NoProg /\ g # NoProg
  BY ChanAssumption
<1>2. ASSUME NEW c \in Chan
      PROVE  h[c] = Mark(f, E)[c] \/ (Mark(f, E)[c] = q /\ h[c] = NoProg)
  BY DEF Mark, TakenOff
<1>3. ASSUME NEW c \in Chan
      PROVE  Unmark(Unmark(h, q, D), g, E)[c] = Without(f, {q})[c]
  <2>1. Mark(f, E)[c] = IF c \in Chans(E) /\ f[c] = NoProg THEN g ELSE f[c]
    BY DEF Mark
  <2>2. Unmark(h, q, D)[c] = IF c \in Chans(D) /\ h[c] = q THEN NoProg ELSE h[c]
    BY DEF Unmark
  <2>3. Unmark(Unmark(h, q, D), g, E)[c] =
          IF c \in Chans(E) /\ Unmark(h, q, D)[c] = g THEN NoProg ELSE Unmark(h, q, D)[c]
    BY DEF Unmark
  <2>4. Without(f, {q})[c] = IF f[c] = q THEN NoProg ELSE f[c]
    BY DEF Without
  <2>5. QED
    BY <1>1, <1>2, <2>1, <2>2, <2>3, <2>4 DEF NoneOfMine, AllIn
<1>4. QED
  BY <1>3 DEF Unmark, Without

\* The current Prog completes the communication of q.
LEMMA PartnerStep ==
  ASSUME IInv, Running, NEW q \in Prog, pstate[q] \in {"send", "recv", "alt"},
         WakePeer(q), UNCHANGED << kill, sendq, arr >>, last'.to \in Prog,
         sendalt' = Without(sendalt, {q}), recvalt' = Without(recvalt, {q}),
         send' \in [Chan -> Seq(Prog)], recv' \in [Chan -> Seq(Prog)],
         \A c \in Chan : /\ Lists(send'[c], Blocked(pstate, chan, "send", c) \ {q})
                         /\ Lists(recv'[c], Blocked(pstate, chan, "recv", c) \ {q})
  PROVE  IInv'
<1> DEFINE W == {q}
<1>1. /\ pstate \in [Prog -> PState] /\ kill \in [Prog -> BOOLEAN]
      /\ chan \in [Prog -> Chan \cup {H}] /\ alt \in [Prog -> Alts \cup {NoAlt}]
      /\ sendq \in [Chan -> Seq(Prog)] /\ ic \in 1 .. Quanta
  BY DEF IInv, TypeOK
<1>2. /\ pstate' = [pstate EXCEPT ![q] = "ready"]
      /\ chan' = [chan EXCEPT ![q] = H] /\ alt' = [alt EXCEPT ![q] = NoAlt]
      /\ EndInstr(Append(runq, q))
  BY DEF WakePeer
<1>3. /\ pstate' \in [Prog -> PState] /\ kill' \in [Prog -> BOOLEAN]
      /\ chan' \in [Prog -> Chan \cup {H}] /\ alt' \in [Prog -> Alts \cup {NoAlt}]
      /\ sendq' \in [Chan -> Seq(Prog)]
  BY <1>1, <1>2 DEF PState
<1>4. \A p \in W : /\ pstate[p] \in {"send", "recv", "alt"}
                   /\ pstate'[p] = "ready" /\ chan'[p] = H /\ alt'[p] = NoAlt
  BY <1>1, <1>2
<1>5. \A p \in Prog \ W : /\ pstate'[p] = pstate[p] /\ kill'[p] = kill[p]
                          /\ chan'[p] = chan[p] /\ alt'[p] = alt[p]
  BY <1>1, <1>2
<1>6. Lists(runq', Ready(pstate) \cup W) /\ ic' \in 1 .. Quanta
  <2>1. Lists(runq, Ready(pstate)) /\ q \notin Ready(pstate)
    BY DEF IInv, Queued, Ready
  <2>2. Lists(Append(runq, q), Ready(pstate) \cup W) /\ Append(runq, q) # << >>
    BY <2>1, ListsAppend
  <2>3. QED
    BY <1>1, <1>2, <2>2, EndInstrLists
<1>7. W \in SUBSET Prog
  OBVIOUS
<1>8. \A c \in Chan : /\ Lists(send'[c], Blocked(pstate, chan, "send", c) \ W)
                      /\ Lists(recv'[c], Blocked(pstate, chan, "recv", c) \ W)
                      /\ sendq'[c] # << >> => sendq[c] # << >>
  OBVIOUS
<1>9. sendalt' = Without(sendalt, W) /\ recvalt' = Without(recvalt, W) /\ arr' = arr
  OBVIOUS
<1> HIDE DEF W
<1>10. QED
  BY <1>3, <1>4, <1>5, <1>6, <1>7, <1>8, <1>9, WakeStep

\* What the marks of a channel say.
LEMMA MarkSays ==
  ASSUME IInv, NEW c \in Chan
  PROVE  /\ sendalt[c] # NoProg => sendalt[c] \in Prog /\ pstate[sendalt[c]] = "alt"
         /\ recvalt[c] # NoProg => recvalt[c] \in Prog /\ pstate[recvalt[c]] = "alt"
         /\ \A p \in Prog : /\ sendalt[c] = p => c \in Chans(Sends(alt[p]))
                            /\ recvalt[c] = p => c \in Chans(Recvs(alt[p]))
<1>1. /\ sendalt[c] \in Prog \cup {NoProg} /\ recvalt[c] \in Prog \cup {NoProg}
  BY DEF IInv, TypeOK
<1>2. ASSUME NEW p \in Prog
      PROVE  /\ sendalt[c] = p => pstate[p] = "alt" /\ c \in Chans(Sends(alt[p]))
             /\ recvalt[c] = p => pstate[p] = "alt" /\ c \in Chans(Recvs(alt[p]))
  BY RecvsNow DEF IInv, Marked, SendsOf, RecvsOf
<1>3. QED
  BY <1>1, <1>2

\* isend and csendq with a partner, and xecalt with a receiver: a is the
\* alt of the current Prog, or NoAlt.
LEMMA PassOnStep ==
  ASSUME IInv, Running, NEW c \in Chan, NEW at, NEW a, UNCHANGED arr,
         c \notin Chans(Recvs(a)), recv[c] # << >> \/ recvalt[c] # NoProg,
         PassOn(c, at, Mark(sendalt, Sends(a)), Mark(recvalt, Recvs(a)), a)
  PROVE  IInv'
<1> DEFINE ra == Mark(recvalt, Recvs(a))
           q  == IF ra[c] # NoProg THEN ra[c] ELSE Head(recv[c])
<1>1. /\ sendalt \in [Chan -> Prog \cup {NoProg}] /\ recvalt \in [Chan -> Prog \cup {NoProg}]
      /\ send \in [Chan -> Seq(Prog)] /\ recv \in [Chan -> Seq(Prog)]
      /\ \A d \in Chan : /\ Lists(send[d], Blocked(pstate, chan, "send", d))
                         /\ Lists(recv[d], Blocked(pstate, chan, "recv", d))
  BY DEF IInv, TypeOK, Queued
<1>2. g \in Prog /\ pstate[g] = "ready" /\ \A d \in Chan : sendalt[d] # g /\ recvalt[d] # g
  BY Current DEF Running
<1>3. ra[c] = recvalt[c]
  BY DEF Mark
<1>4. /\ q \in Prog /\ pstate[q] \in {"recv", "alt"}
      /\ recvalt[c] = NoProg => /\ recv[c] # << >> /\ q = Head(recv[c])
                                /\ q \in Blocked(pstate, chan, "recv", c)
      /\ recvalt[c] # NoProg => pstate[q] = "alt"
  <2>1. CASE recvalt[c] # NoProg
    BY <1>3, <2>1, MarkSays
  <2>2. CASE recvalt[c] = NoProg
    <3>1. recv[c] # << >> /\ Lists(recv[c], Blocked(pstate, chan, "recv", c))
      BY <1>1, <2>2
    <3>2. Head(recv[c]) \in Blocked(pstate, chan, "recv", c)
      BY <3>1, ListsTail
    <3>3. q = Head(recv[c])
      BY <1>3, <2>2
    <3>4. QED
      BY <2>2, <3>1, <3>2, <3>3 DEF Blocked
  <2>3. QED
    BY <2>1, <2>2
<1>5. q # g
  BY <1>2, <1>4
<1>6. /\ recv' = IF ra[c] # NoProg THEN recv ELSE [recv EXCEPT ![c] = Tail(@)]
      /\ sendalt' = Unmark(Unmark(Mark(sendalt, Sends(a)), q, Sends(alt[q])), g, Sends(a))
      /\ recvalt' = Unmark(Unmark([ra EXCEPT ![c] = IF @ = q THEN NoProg ELSE @],
                                  q, Recvs(alt[q])), g, Recvs(a))
      /\ Transfer(c, g, at, q, At(Recvs(alt[q]), c))
      /\ WakePeer(q)
      /\ UNCHANGED << kill, send, sendq >>
  BY DEF PassOn
<1> HIDE DEF q
<1>7. /\ AllIn(sendalt, q, Sends(alt[q])) /\ NoneOfMine(sendalt)
      /\ AllIn(recvalt, q, Recvs(alt[q])) /\ NoneOfMine(recvalt)
  BY <1>2, <1>4, MarkSays DEF AllIn, NoneOfMine
<1>8. /\ sendalt \in [Chan -> Prog \cup {NoProg}] /\ recvalt \in [Chan -> Prog \cup {NoProg}]
      /\ q \in Prog /\ g \in Prog /\ q # g
      /\ AllIn(sendalt, q, Sends(alt[q])) /\ NoneOfMine(sendalt)
      /\ AllIn(recvalt, q, Recvs(alt[q])) /\ NoneOfMine(recvalt)
  BY <1>1, <1>2, <1>4, <1>5, <1>7
<1>9. sendalt' = Without(sendalt, {q})
  <2> DEFINE h == Mark(sendalt, Sends(a))
  <2>1. h = Mark(sendalt, Sends(a)) \/ \E d \in Chan : h = TakenOff(Mark(sendalt, Sends(a)), q, d)
    OBVIOUS
  <2>2. sendalt' = Unmark(Unmark(h, q, Sends(alt[q])), g, Sends(a))
    BY <1>6
  <2> HIDE DEF h
  <2>3. Unmark(Unmark(h, q, Sends(alt[q])), g, Sends(a)) = Without(sendalt, {q})
    BY <1>8, <2>1, UnmarkBoth
  <2>4. QED
    BY <2>2, <2>3
<1>10. recvalt' = Without(recvalt, {q})
  <2> DEFINE h == TakenOff(ra, q, c)
  <2>1. h = Mark(recvalt, Recvs(a)) \/ \E d \in Chan : h = TakenOff(Mark(recvalt, Recvs(a)), q, d)
    OBVIOUS
  <2>2. recvalt' = Unmark(Unmark(h, q, Recvs(alt[q])), g, Recvs(a))
    BY <1>6 DEF TakenOff
  <2> HIDE DEF h
  <2>3. Unmark(Unmark(h, q, Recvs(alt[q])), g, Recvs(a)) = Without(recvalt, {q})
    BY <1>8, <2>1, UnmarkBoth
  <2>4. QED
    BY <2>2, <2>3
<1>11. /\ recv' \in [Chan -> Seq(Prog)]
       /\ \A d \in Chan : Lists(recv'[d], Blocked(pstate, chan, "recv", d) \ {q})
  <2>1. CASE recvalt[c] # NoProg
    <3>1. recv' = recv
      BY <1>3, <1>6, <2>1
    <3>2. \A d \in Chan : Blocked(pstate, chan, "recv", d) \ {q} = Blocked(pstate, chan, "recv", d)
      BY <1>4, <2>1 DEF Blocked
    <3>3. QED
      BY <1>1, <3>1, <3>2
  <2>2. CASE recvalt[c] = NoProg
    <3>1. recv' = [recv EXCEPT ![c] = Tail(@)] /\ recv[c] # << >> /\ q = Head(recv[c])
      BY <1>3, <1>4, <1>6, <2>2
    <3>2. Lists(Tail(recv[c]), Blocked(pstate, chan, "recv", c) \ {q})
      BY <1>1, <3>1, ListsTail
    <3>3. \A d \in Chan \ {c} : Blocked(pstate, chan, "recv", d) \ {q} = Blocked(pstate, chan, "recv", d)
      BY <1>4, <2>2 DEF Blocked
    <3>4. Tail(recv[c]) \in Seq(Prog)
      BY <3>2 DEF Lists
    <3>5. recv' \in [Chan -> Seq(Prog)]
      BY <1>1, <3>1, <3>4
    <3>6. QED
      BY <1>1, <3>1, <3>2, <3>3, <3>5
  <2>3. QED
    BY <2>1, <2>2
<1>12. \A d \in Chan : Lists(send[d], Blocked(pstate, chan, "send", d) \ {q})
  <2>1. \A d \in Chan : Blocked(pstate, chan, "send", d) \ {q} = Blocked(pstate, chan, "send", d)
    BY <1>4 DEF Blocked
  <2>2. QED
    BY <1>1, <2>1
<1>13. last'.to \in Prog
  BY <1>4, <1>6 DEF Transfer
<1>14. QED
  BY <1>1, <1>4, <1>6, <1>9, <1>10, <1>11, <1>12, <1>13, PartnerStep

\* irecv from a Prog that waits, and xecalt with a sender.
LEMMA FetchStep ==
  ASSUME IInv, Running, NEW c \in Chan, NEW at, NEW a, UNCHANGED arr,
         c \notin Chans(Sends(a)), send[c] # << >> \/ sendalt[c] # NoProg,
         Fetch(c, at, Mark(sendalt, Sends(a)), Mark(recvalt, Recvs(a)), a)
  PROVE  IInv'
<1> DEFINE sa == Mark(sendalt, Sends(a))
           q  == IF sa[c] # NoProg THEN sa[c] ELSE Head(send[c])
<1>1. /\ recvalt \in [Chan -> Prog \cup {NoProg}] /\ sendalt \in [Chan -> Prog \cup {NoProg}]
      /\ recv \in [Chan -> Seq(Prog)] /\ send \in [Chan -> Seq(Prog)]
      /\ \A d \in Chan : /\ Lists(recv[d], Blocked(pstate, chan, "recv", d))
                         /\ Lists(send[d], Blocked(pstate, chan, "send", d))
  BY DEF IInv, TypeOK, Queued
<1>2. g \in Prog /\ pstate[g] = "ready" /\ \A d \in Chan : recvalt[d] # g /\ sendalt[d] # g
  BY Current DEF Running
<1>3. sa[c] = sendalt[c]
  BY DEF Mark
<1>4. /\ q \in Prog /\ pstate[q] \in {"send", "alt"}
      /\ sendalt[c] = NoProg => /\ send[c] # << >> /\ q = Head(send[c])
                                /\ q \in Blocked(pstate, chan, "send", c)
      /\ sendalt[c] # NoProg => pstate[q] = "alt"
  <2>1. CASE sendalt[c] # NoProg
    BY <1>3, <2>1, MarkSays
  <2>2. CASE sendalt[c] = NoProg
    <3>1. send[c] # << >> /\ Lists(send[c], Blocked(pstate, chan, "send", c))
      BY <1>1, <2>2
    <3>2. Head(send[c]) \in Blocked(pstate, chan, "send", c)
      BY <3>1, ListsTail
    <3>3. q = Head(send[c])
      BY <1>3, <2>2
    <3>4. QED
      BY <2>2, <3>1, <3>2, <3>3 DEF Blocked
  <2>3. QED
    BY <2>1, <2>2
<1>5. q # g
  BY <1>2, <1>4
<1>6. /\ send' = IF sa[c] # NoProg THEN send ELSE [send EXCEPT ![c] = Tail(@)]
      /\ recvalt' = Unmark(Unmark(Mark(recvalt, Recvs(a)), q, Recvs(alt[q])), g, Recvs(a))
      /\ sendalt' = Unmark(Unmark([sa EXCEPT ![c] = IF @ = q THEN NoProg ELSE @],
                                  q, Sends(alt[q])), g, Sends(a))
      /\ Transfer(c, q, At(Sends(alt[q]), c), g, at)
      /\ WakePeer(q)
      /\ UNCHANGED << kill, recv, sendq >>
  BY DEF Fetch
<1> HIDE DEF q
<1>7. /\ AllIn(recvalt, q, Recvs(alt[q])) /\ NoneOfMine(recvalt)
      /\ AllIn(sendalt, q, Sends(alt[q])) /\ NoneOfMine(sendalt)
  BY <1>2, <1>4, MarkSays DEF AllIn, NoneOfMine
<1>8. /\ recvalt \in [Chan -> Prog \cup {NoProg}] /\ sendalt \in [Chan -> Prog \cup {NoProg}]
      /\ q \in Prog /\ g \in Prog /\ q # g
      /\ AllIn(recvalt, q, Recvs(alt[q])) /\ NoneOfMine(recvalt)
      /\ AllIn(sendalt, q, Sends(alt[q])) /\ NoneOfMine(sendalt)
  BY <1>1, <1>2, <1>4, <1>5, <1>7
<1>9. recvalt' = Without(recvalt, {q})
  <2> DEFINE h == Mark(recvalt, Recvs(a))
  <2>1. h = Mark(recvalt, Recvs(a)) \/ \E d \in Chan : h = TakenOff(Mark(recvalt, Recvs(a)), q, d)
    OBVIOUS
  <2>2. recvalt' = Unmark(Unmark(h, q, Recvs(alt[q])), g, Recvs(a))
    BY <1>6
  <2> HIDE DEF h
  <2>3. Unmark(Unmark(h, q, Recvs(alt[q])), g, Recvs(a)) = Without(recvalt, {q})
    BY <1>8, <2>1, UnmarkBoth
  <2>4. QED
    BY <2>2, <2>3
<1>10. sendalt' = Without(sendalt, {q})
  <2> DEFINE h == TakenOff(sa, q, c)
  <2>1. h = Mark(sendalt, Sends(a)) \/ \E d \in Chan : h = TakenOff(Mark(sendalt, Sends(a)), q, d)
    OBVIOUS
  <2>2. sendalt' = Unmark(Unmark(h, q, Sends(alt[q])), g, Sends(a))
    BY <1>6 DEF TakenOff
  <2> HIDE DEF h
  <2>3. Unmark(Unmark(h, q, Sends(alt[q])), g, Sends(a)) = Without(sendalt, {q})
    BY <1>8, <2>1, UnmarkBoth
  <2>4. QED
    BY <2>2, <2>3
<1>11. /\ send' \in [Chan -> Seq(Prog)]
       /\ \A d \in Chan : Lists(send'[d], Blocked(pstate, chan, "send", d) \ {q})
  <2>1. CASE sendalt[c] # NoProg
    <3>1. send' = send
      BY <1>3, <1>6, <2>1
    <3>2. \A d \in Chan : Blocked(pstate, chan, "send", d) \ {q} = Blocked(pstate, chan, "send", d)
      BY <1>4, <2>1 DEF Blocked
    <3>3. QED
      BY <1>1, <3>1, <3>2
  <2>2. CASE sendalt[c] = NoProg
    <3>1. send' = [send EXCEPT ![c] = Tail(@)] /\ send[c] # << >> /\ q = Head(send[c])
      BY <1>3, <1>4, <1>6, <2>2
    <3>2. Lists(Tail(send[c]), Blocked(pstate, chan, "send", c) \ {q})
      BY <1>1, <3>1, ListsTail
    <3>3. \A d \in Chan \ {c} : Blocked(pstate, chan, "send", d) \ {q} = Blocked(pstate, chan, "send", d)
      BY <1>4, <2>2 DEF Blocked
    <3>4. Tail(send[c]) \in Seq(Prog)
      BY <3>2 DEF Lists
    <3>5. send' \in [Chan -> Seq(Prog)]
      BY <1>1, <3>1, <3>4
    <3>6. QED
      BY <1>1, <3>1, <3>2, <3>3, <3>5
  <2>3. QED
    BY <2>1, <2>2
<1>12. \A d \in Chan : Lists(recv[d], Blocked(pstate, chan, "recv", d) \ {q})
  <2>1. \A d \in Chan : Blocked(pstate, chan, "recv", d) \ {q} = Blocked(pstate, chan, "recv", d)
    BY <1>4 DEF Blocked
  <2>2. QED
    BY <1>1, <2>1
<1>13. last'.to \in Prog
  BY <1>2, <1>6 DEF Transfer
<1>14. QED
  BY <1>1, <1>4, <1>6, <1>9, <1>10, <1>11, <1>12, <1>13, PartnerStep

\* irecv takes a message that was sent without waiting.
LEMMA FetchQueuedStep ==
  ASSUME IInv, Running, NEW c \in Chan, NEW at, NEW a, UNCHANGED arr,
         sendq[c] # << >>,
         FetchQueued(c, at, Mark(sendalt, Sends(a)), Mark(recvalt, Recvs(a)), a)
  PROVE  IInv'
<1>1. /\ sendalt \in [Chan -> Prog \cup {NoProg}] /\ recvalt \in [Chan -> Prog \cup {NoProg}]
      /\ sendq \in [Chan -> Seq(Prog)] /\ arr \in [Arr -> [1 .. ArrLen -> Chan \cup {H}]]
      /\ Alternate(send, recv, sendalt, recvalt, sendq)
  BY DEF IInv, TypeOK
<1>2. g \in Prog /\ \A d \in Chan : sendalt[d] # g /\ recvalt[d] # g
  BY Current DEF Running
<1>3. /\ sendq' = [sendq EXCEPT ![c] = Tail(@)]
      /\ sendalt' = Unmark(Mark(sendalt, Sends(a)), g, Sends(a))
      /\ recvalt' = Unmark(Mark(recvalt, Recvs(a)), g, Recvs(a))
      /\ Transfer(c, Head(sendq[c]), Alone, g, at)
      /\ EndInstr(runq)
      /\ UNCHANGED << pstate, kill, waitVars, send, recv >>
  BY DEF FetchQueued
<1>4. sendalt' = sendalt /\ recvalt' = recvalt
  BY <1>1, <1>2, <1>3, UnmarkMark
<1>5. sendq' \in [Chan -> Seq(Prog)]
  <2>1. Tail(sendq[c]) \in Seq(Prog)
    BY <1>1, HeadTailProperties
  <2>2. QED
    BY <1>1, <1>3, <2>1
<1>6. last'.to \in Prog
  BY <1>2, <1>3 DEF Transfer
<1>7. Alternate(send, recv, sendalt, recvalt, sendq')
  <2>1. \A d \in Chan : sendq'[d] # << >> => sendq[d] # << >>
    BY <1>1, <1>3
  <2>2. QED
    BY <1>1, <2>1 DEF Alternate
<1>8. arr' \in [Arr -> [1 .. ArrLen -> Chan \cup {H}]] /\ RecvsOf(arr', alt) = RecvsOf(arr, alt)
  BY <1>1
<1>9. QED
  BY <1>3, <1>4, <1>5, <1>6, <1>7, <1>8, SoloStep

\* irecv with somebody or something there.
LEMMA ReceiveStep ==
  ASSUME IInv, Running, NEW c \in Chan, NEW at, NEW a, UNCHANGED arr,
         c \notin Chans(Sends(a)), SendersAt(c, sendalt),
         Receive(c, at, Mark(sendalt, Sends(a)), Mark(recvalt, Recvs(a)), a)
  PROVE  IInv'
<1>1. Mark(sendalt, Sends(a))[c] = sendalt[c]
  BY DEF Mark
<1>2. CASE sendalt[c] # NoProg \/ send[c] # << >>
  BY <1>1, <1>2, FetchStep DEF Receive
<1>3. CASE ~(sendalt[c] # NoProg \/ send[c] # << >>)
  BY <1>1, <1>3, FetchQueuedStep DEF Receive, SendersAt
<1>4. QED
  BY <1>2, <1>3

\* A plain send or recv sets no marks.
LEMMA PlainMarks ==
  ASSUME IInv
  PROVE  /\ sendalt = Mark(sendalt, Sends(NoAlt)) /\ recvalt = Mark(recvalt, Recvs(NoAlt))
         /\ Chans(Sends(NoAlt)) = {} /\ Chans(Recvs(NoAlt)) = {}
<1>1. sendalt \in [Chan -> Prog \cup {NoProg}] /\ recvalt \in [Chan -> Prog \cup {NoProg}]
  BY DEF IInv, TypeOK
<1>2. Chans(Sends(NoAlt)) = {} /\ Chans(Recvs(NoAlt)) = {}
  BY DEF NoAlt, Sends, Recvs, Chans
<1>3. QED
  BY <1>1, <1>2, MarkNothing

\* send keeps the invariant: it passes the value on, or queues the Prog, or fails.
LEMMA IsendStep ==
  ASSUME IInv, NEW c \in Chan, Isend(c)
  PROVE  IInv'
<1>1. Running /\ arr' = arr
  BY DEF Isend
<1>2. CASE recv[c] = << >> /\ recvalt[c] = NoProg
  BY <1>1, <1>2, SendBlocks DEF Isend
<1>3. CASE ~(recv[c] = << >> /\ recvalt[c] = NoProg)
  <2>1. PassOn(c, Alone, sendalt, recvalt, NoAlt)
    BY <1>3 DEF Isend
  <2>2. PassOn(c, Alone, Mark(sendalt, Sends(NoAlt)), Mark(recvalt, Recvs(NoAlt)), NoAlt)
    BY <2>1, PlainMarks
  <2>3. QED
    BY <1>1, <1>3, <2>2, PlainMarks, PassOnStep
<1>4. QED
  BY <1>2, <1>3

\* recv keeps the invariant.
LEMMA IrecvStep ==
  ASSUME IInv, NEW c \in Chan, Irecv(c)
  PROVE  IInv'
<1>1. Running /\ arr' = arr
  BY DEF Irecv
<1>2. CASE send[c] = << >> /\ sendalt[c] = NoProg /\ sendq[c] = << >>
  BY <1>1, <1>2, RecvBlocks DEF Irecv
<1>3. CASE ~(send[c] = << >> /\ sendalt[c] = NoProg /\ sendq[c] = << >>)
  <2>1. Receive(c, Alone, sendalt, recvalt, NoAlt)
    BY <1>3 DEF Irecv
  <2>2. Receive(c, Alone, Mark(sendalt, Sends(NoAlt)), Mark(recvalt, Recvs(NoAlt)), NoAlt)
    BY <2>1, PlainMarks
  <2>3. SendersAt(c, sendalt)
    BY <1>3 DEF SendersAt
  <2>4. QED
    BY <1>1, <2>2, <2>3, PlainMarks, ReceiveStep
<1>4. QED
  BY <1>2, <1>3

\* csendq, which sends from outside any Prog, keeps the invariant.
LEMMA CsendqStep ==
  ASSUME IInv, NEW c \in Chan, Csendq(c)
  PROVE  IInv'
<1>1. Running /\ arr' = arr /\ g \in Prog
  BY Current DEF Csendq, Running
<1>2. CASE recv[c] = << >> /\ recvalt[c] = NoProg
  <2>1. /\ sendq' = IF Len(sendq[c]) = Lim THEN sendq ELSE [sendq EXCEPT ![c] = Append(@, g)]
        /\ last' = Silence /\ EndInstr(runq)
        /\ UNCHANGED << pstate, kill, waitVars, send, recv, sendalt, recvalt >>
    BY <1>2 DEF Csendq
  <2>2. /\ sendq \in [Chan -> Seq(Prog)] /\ arr \in [Arr -> [1 .. ArrLen -> Chan \cup {H}]]
        /\ Alternate(send, recv, sendalt, recvalt, sendq)
    BY DEF IInv, TypeOK
  <2>3. sendq' \in [Chan -> Seq(Prog)]
    BY <1>1, <2>1, <2>2
  <2>4. \A d \in Chan \ {c} : sendq'[d] = sendq[d]
    BY <2>1, <2>2
  <2>5. Alternate(send, recv, sendalt, recvalt, sendq')
    BY <1>2, <2>2, <2>4 DEF Alternate
  <2>6. arr' \in [Arr -> [1 .. ArrLen -> Chan \cup {H}]] /\ RecvsOf(arr', alt) = RecvsOf(arr, alt)
    BY <1>1, <2>2
  <2>7. QED
    BY <1>1, <2>1, <2>3, <2>5, <2>6, SoloStep
<1>3. CASE ~(recv[c] = << >> /\ recvalt[c] = NoProg)
  <2>1. PassOn(c, Alone, sendalt, recvalt, NoAlt)
    BY <1>3 DEF Csendq
  <2>2. PassOn(c, Alone, Mark(sendalt, Sends(NoAlt)), Mark(recvalt, Recvs(NoAlt)), NoAlt)
    BY <2>1, PlainMarks
  <2>3. QED
    BY <1>1, <1>3, <2>2, PlainMarks, PassOnStep
<1>4. QED
  BY <1>2, <1>3

-----------------------------------------------------------------------------
(* xecalt.                                                                 *)

\* The alternatives are on channels.
LEMMA AltChans ==
  ASSUME arr \in [Arr -> [1 .. ArrLen -> Chan \cup {H}]], NEW a \in Alts
  PROVE  /\ \A e \in Sends(a) : e.c \in Chan
         /\ \A e \in Recvs(a) : e.c \in Chan
<1>1. a.sends \in Seq(Chan \cup {H}) /\ a.recvs \in Seq(Chan \cup Arr \cup {H})
  BY ChanAssumption
<1>2. ASSUME NEW e \in Sends(a)
      PROVE  e.c \in Chan
  <2>1. PICK n \in DOMAIN a.sends : a.sends[n] # H /\ e = [c |-> a.sends[n], at |-> << n, 0 >>]
    BY DEF Sends
  <2>2. a.sends[n] \in Chan \cup {H}
    BY <1>1
  <2>3. QED
    BY <2>1, <2>2
<1>3. ASSUME NEW e \in Recvs(a)
      PROVE  e.c \in Chan
  <2> DEFINE k == Len(a.sends)
  <2>1. CASE \E n \in {m \in DOMAIN a.recvs : a.recvs[m] \in Chan} :
               e = [c |-> a.recvs[n], at |-> << k + n, 0 >>]
    BY <2>1
  <2>2. CASE \E x \in {y \in (DOMAIN a.recvs) \X (1 .. ArrLen) :
                         a.recvs[y[1]] \in Arr /\ arr[a.recvs[y[1]]][y[2]] # H} :
               e = [c |-> arr[a.recvs[x[1]]][x[2]], at |-> << k + x[1], x[2] >>]
    <3>1. PICK x \in (DOMAIN a.recvs) \X (1 .. ArrLen) :
                 /\ a.recvs[x[1]] \in Arr /\ arr[a.recvs[x[1]]][x[2]] # H
                 /\ e = [c |-> arr[a.recvs[x[1]]][x[2]], at |-> << k + x[1], x[2] >>]
      BY <2>2
    <3>2. x[2] \in 1 .. ArrLen
      OBVIOUS
    <3>3. arr[a.recvs[x[1]]][x[2]] \in Chan \cup {H}
      BY <3>1, <3>2
    <3>4. QED
      BY <3>1, <3>3
  <2>3. QED
    BY <2>1, <2>2 DEF Recvs
<1>4. QED
  BY <1>2, <1>3

\* The places of the alternatives that send come before the others.
LEMMA AltPlaces ==
  ASSUME NEW a \in Alts
  PROVE  \A d \in Sends(a), e \in Recvs(a) : d # e
<1>1. /\ a.sends \in Seq(Chan \cup {H}) /\ a.recvs \in Seq(Chan \cup Arr \cup {H})
      /\ Len(a.sends) \in Nat /\ DOMAIN a.sends = 1 .. Len(a.sends)
      /\ Len(a.recvs) \in Nat /\ DOMAIN a.recvs = 1 .. Len(a.recvs)
  BY ChanAssumption
<1>2. ASSUME NEW d \in Sends(a)
      PROVE  d.at[1] \in 1 .. Len(a.sends)
  BY <1>1 DEF Sends
<1>3. ASSUME NEW e \in Recvs(a)
      PROVE  \E n \in 1 .. Len(a.recvs) : e.at[1] = Len(a.sends) + n
  <2> DEFINE k == Len(a.sends)
  <2>1. CASE \E n \in {m \in DOMAIN a.recvs : a.recvs[m] \in Chan} :
               e = [c |-> a.recvs[n], at |-> << k + n, 0 >>]
    BY <1>1, <2>1
  <2>2. CASE \E x \in {y \in (DOMAIN a.recvs) \X (1 .. ArrLen) :
                         a.recvs[y[1]] \in Arr /\ arr[a.recvs[y[1]]][y[2]] # H} :
               e = [c |-> arr[a.recvs[x[1]]][x[2]], at |-> << k + x[1], x[2] >>]
    <3>1. PICK x \in (DOMAIN a.recvs) \X (1 .. ArrLen) :
                 e = [c |-> arr[a.recvs[x[1]]][x[2]], at |-> << k + x[1], x[2] >>]
      BY <2>2
    <3>2. x[1] \in 1 .. Len(a.recvs) /\ e.at[1] = k + x[1]
      BY <1>1, <3>1
    <3>3. QED
      BY <3>2
  <2>3. QED
    BY <2>1, <2>2 DEF Recvs
<1>4. QED
  BY <1>1, <1>2, <1>3

\* An alt that is not in error has no channel in both directions, and none
\* that another alt has in the same direction.
LEMMA NoClash ==
  ASSUME NEW a \in Alts, ~AltError(a)
  PROVE  /\ \A e \in Sends(a) : e.c \notin Chans(Recvs(a)) /\ sendalt[e.c] = NoProg
         /\ \A e \in Recvs(a) : e.c \notin Chans(Sends(a)) /\ recvalt[e.c] = NoProg
<1>1. ASSUME NEW d \in Sends(a), NEW e \in Recvs(a)
      PROVE  d.c # e.c
  <2>1. d # e
    BY AltPlaces
  <2>2. QED
    BY <2>1 DEF AltError
<1>2. /\ \A e \in Sends(a) : sendalt[e.c] = NoProg
      /\ \A e \in Recvs(a) : recvalt[e.c] = NoProg
  BY DEF AltError
<1>3. QED
  BY <1>1, <1>2 DEF Chans

\* So the marks altrdy sets do not change what altcomm counts.
LEMMA ChoicesReady ==
  ASSUME arr \in [Arr -> [1 .. ArrLen -> Chan \cup {H}]], NEW a \in Alts, ~AltError(a)
  PROVE  AltChoices(a) = AltReady(a)
<1>1. \A e \in Recvs(a) : Mark(sendalt, Sends(a))[e.c] = sendalt[e.c]
  BY AltChans, NoClash DEF Mark
<1>2. \A e \in Sends(a) : Mark(recvalt, Recvs(a))[e.c] = recvalt[e.c]
  BY AltChans, NoClash DEF Mark
<1>3. /\ \A e \in Recvs(a) : SendersAt(e.c, Mark(sendalt, Sends(a))) <=> SendersAt(e.c, sendalt)
      /\ \A e \in Sends(a) : ReceiversAt(e.c, Mark(recvalt, Recvs(a))) <=> ReceiversAt(e.c, recvalt)
  BY <1>1, <1>2 DEF SendersAt, ReceiversAt
<1>4. QED
  BY <1>3 DEF AltChoices, AltReady

\* The current Prog waits in an alt: its marks are on all its channels.
LEMMA AltBlocks ==
  ASSUME IInv, Running, NEW a \in Alts, ~AltError(a), AltReady(a) = {},
         DelRun("alt"), alt' = [alt EXCEPT ![g] = a],
         sendalt' = Mark(sendalt, Sends(a)), recvalt' = Mark(recvalt, Recvs(a)),
         last' = Silence, UNCHANGED << kill, chan, send, recv, sendq, arr >>
  PROVE  IInv'
<1>1. /\ g \in Prog /\ pstate[g] = "ready" /\ kill[g] = FALSE
      /\ \A d \in Chan : sendalt[d] # g /\ recvalt[d] # g
      /\ alt \in [Prog -> Alts \cup {NoAlt}] /\ arr \in [Arr -> [1 .. ArrLen -> Chan \cup {H}]]
      /\ sendalt \in [Chan -> Prog \cup {NoProg}] /\ recvalt \in [Chan -> Prog \cup {NoProg}]
  BY Current DEF IInv, TypeOK, Running
<1>2. /\ Lists(runq', Ready(pstate')) /\ ic' \in 1 .. Quanta
      /\ pstate' \in [Prog -> PState] /\ pstate'[g] = "alt"
      /\ \A p \in Prog \ {g} : pstate'[p] = pstate[p]
  BY DelRunLists DEF PState, Running
<1>3. alt' \in [Prog -> Alts \cup {NoAlt}] /\ alt'[g] = a /\ \A p \in Prog \ {g} : alt'[p] = alt[p]
  BY <1>1
<1>4. /\ sendalt' \in [Chan -> Prog \cup {NoProg}] /\ recvalt' \in [Chan -> Prog \cup {NoProg}]
  BY <1>1 DEF Mark
<1>5. /\ \A c \in Chan : sendalt'[c] = IF c \in Chans(Sends(a)) THEN g ELSE sendalt[c]
      /\ \A c \in Chan : recvalt'[c] = IF c \in Chans(Recvs(a)) THEN g ELSE recvalt[c]
  BY NoClash DEF Mark, Chans
<1>6. Queued(runq', pstate', chan', send', recv')
  <2>1. ASSUME NEW d \in Chan, NEW st \in {"send", "recv"}
        PROVE  Blocked(pstate', chan, st, d) = Blocked(pstate, chan, st, d)
    BY <1>1, <1>2 DEF Blocked
  <2>2. QED
    BY <1>2, <2>1 DEF IInv, Queued
<1>7. TypeOK'
  BY <1>2, <1>3, <1>4 DEF IInv, TypeOK, Lists
<1>8. Killed(kill', pstate')
  BY <1>1, <1>2 DEF IInv, Killed
<1>9. Marked(sendalt', pstate', SendsOf(alt'))
  <2>1. SUFFICES ASSUME NEW c \in Chan, NEW p \in Prog
                 PROVE  sendalt'[c] = p <=> pstate'[p] = "alt" /\ c \in Chans(Sends(alt'[p]))
    BY DEF Marked, SendsOf
  <2>2. sendalt[c] = p <=> pstate[p] = "alt" /\ c \in Chans(Sends(alt[p]))
    BY DEF IInv, Marked, SendsOf
  <2>3. c \in Chans(Sends(a)) => sendalt[c] = NoProg
    BY NoClash DEF Chans
  <2>4. NoProg # p /\ NoProg # g
    BY <1>1, ChanAssumption
  <2>5. QED
    BY <1>1, <1>2, <1>3, <1>5, <2>2, <2>3, <2>4
<1>10. Marked(recvalt', pstate', RecvsOf(arr', alt'))
  <2>1. SUFFICES ASSUME NEW c \in Chan, NEW p \in Prog
                 PROVE  recvalt'[c] = p <=> pstate'[p] = "alt" /\ c \in Chans(RecvsIn(arr, alt'[p]))
    BY DEF Marked, RecvsOf
  <2>2. recvalt[c] = p <=> pstate[p] = "alt" /\ c \in Chans(RecvsIn(arr, alt[p]))
    BY DEF IInv, Marked, RecvsOf
  <2>3. c \in Chans(Recvs(a)) => recvalt[c] = NoProg
    BY NoClash DEF Chans
  <2>4. NoProg # p /\ NoProg # g /\ Recvs(a) = RecvsIn(arr, a)
    BY <1>1, ChanAssumption, RecvsNow
  <2>5. QED
    BY <1>1, <1>2, <1>3, <1>5, <2>2, <2>3, <2>4
<1>11. Alternate(send', recv', sendalt', recvalt', sendq')
  <2>1. SUFFICES ASSUME NEW c \in Chan
                 PROVE  ~ /\ send[c] # << >> \/ sendalt'[c] # NoProg \/ sendq[c] # << >>
                          /\ recv[c] # << >> \/ recvalt'[c] # NoProg
    BY DEF Alternate
  <2>2. ~ /\ send[c] # << >> \/ sendalt[c] # NoProg \/ sendq[c] # << >>
          /\ recv[c] # << >> \/ recvalt[c] # NoProg
    BY DEF IInv, Alternate
  <2>3. c \in Chans(Sends(a)) => recv[c] = << >> /\ recvalt[c] = NoProg /\ c \notin Chans(Recvs(a))
    BY NoClash DEF Chans, AltReady, ReceiversAt
  <2>4. c \in Chans(Recvs(a)) => /\ send[c] = << >> /\ sendalt[c] = NoProg /\ sendq[c] = << >>
                                 /\ c \notin Chans(Sends(a))
    BY NoClash DEF Chans, AltReady, SendersAt
  <2>5. QED
    BY <1>5, <2>2, <2>3, <2>4
<1>12. Placed(alt', pstate')
  BY <1>2, <1>3 DEF IInv, Placed
<1>13. QED
  BY <1>6, <1>7, <1>8, <1>9, <1>10, <1>11, <1>12 DEF IInv

\* alt and nbalt keep the invariant: they fail, communicate, return or wait.
LEMMA XecaltStep ==
  ASSUME IInv, NEW a \in Alts, NEW block, Xecalt(a, block)
  PROVE  IInv'
<1> DEFINE sa == Mark(sendalt, Sends(a))
           ra == Mark(recvalt, Recvs(a))
<1>1. Running /\ ~AltError(a) /\ UNCHANGED arr
  BY DEF Xecalt
<1>2. /\ sendalt \in [Chan -> Prog \cup {NoProg}] /\ recvalt \in [Chan -> Prog \cup {NoProg}]
      /\ sendq \in [Chan -> Seq(Prog)] /\ arr \in [Arr -> [1 .. ArrLen -> Chan \cup {H}]]
      /\ Alternate(send, recv, sendalt, recvalt, sendq)
  BY DEF IInv, TypeOK
<1>3. CASE /\ AltReady(a) = {} /\ block
           /\ DelRun("alt")
           /\ alt' = [alt EXCEPT ![g] = a]
           /\ sendalt' = sa /\ recvalt' = ra
           /\ last' = Silence
           /\ UNCHANGED << kill, chan, send, recv, sendq >>
  BY <1>1, <1>3, AltBlocks
<1>4. CASE /\ AltReady(a) = {} /\ ~block
           /\ sendalt' = Unmark(sa, g, Sends(a)) /\ recvalt' = Unmark(ra, g, Recvs(a))
           /\ EndInstr(runq)
           /\ last' = Silence
           /\ UNCHANGED << pstate, kill, waitVars, send, recv, sendq >>
  <2>1. \A d \in Chan : sendalt[d] # g /\ recvalt[d] # g
    BY <1>1, Current DEF Running
  <2>2. sendalt' = sendalt /\ recvalt' = recvalt
    BY <1>2, <1>4, <2>1, UnmarkMark
  <2>3. /\ sendq' \in [Chan -> Seq(Prog)] /\ arr' \in [Arr -> [1 .. ArrLen -> Chan \cup {H}]]
        /\ RecvsOf(arr', alt) = RecvsOf(arr, alt)
        /\ Alternate(send, recv, sendalt, recvalt, sendq')
    BY <1>1, <1>2, <1>4
  <2>4. QED
    BY <1>1, <1>4, <2>2, <2>3, SoloStep
<1>5. ASSUME NEW e \in AltChoices(a),
             IF e \in Sends(a) THEN PassOn(e.c, e.at, sa, ra, a) ELSE Receive(e.c, e.at, sa, ra, a)
      PROVE  IInv'
  <2>1. e \in AltReady(a)
    BY <1>1, <1>2, ChoicesReady
  <2>2. CASE e \in Sends(a)
    <3>1. e \notin Recvs(a)
      BY <2>2, AltPlaces
    <3>2. e.c \in Chan /\ e.c \notin Chans(Recvs(a)) /\ (recv[e.c] # << >> \/ recvalt[e.c] # NoProg)
      BY <1>1, <1>2, <2>1, <2>2, <3>1, AltChans, NoClash DEF AltReady, ReceiversAt
    <3>3. PassOn(e.c, e.at, Mark(sendalt, Sends(a)), Mark(recvalt, Recvs(a)), a)
      BY <1>5, <2>2
    <3>4. QED
      BY <1>1, <3>2, <3>3, PassOnStep
  <2>3. CASE e \notin Sends(a)
    <3>1. e \in Recvs(a) /\ SendersAt(e.c, sendalt)
      BY <2>1, <2>3 DEF AltReady
    <3>2. e.c \in Chan /\ e.c \notin Chans(Sends(a))
      BY <1>1, <1>2, <3>1, AltChans, NoClash
    <3>3. Receive(e.c, e.at, Mark(sendalt, Sends(a)), Mark(recvalt, Recvs(a)), a)
      BY <1>5, <2>3
    <3>4. QED
      BY <1>1, <3>1, <3>2, <3>3, ReceiveStep
  <2>4. QED
    BY <2>2, <2>3
<1>6. QED
  BY <1>3, <1>4, <1>5 DEF Xecalt

-----------------------------------------------------------------------------
(* Errors, and the other steps of the current Prog.                        *)

\* raise, which ends in a handler or ends the Prog, keeps the invariant.
LEMMA RaiseStep ==
  ASSUME IInv, Is("ready"), Raise, UNCHANGED << sendalt, recvalt >>,
         kill' \in [Prog -> BOOLEAN], kill'[g] = FALSE,
         \A p \in Prog \ {g} : kill'[p] = kill[p]
  PROVE  IInv'
<1>1. /\ g \in Prog /\ pstate[g] = "ready" /\ Lists(runq, Ready(pstate))
      /\ pstate \in [Prog -> PState] /\ ic \in 1 .. Quanta
  BY Current DEF IInv, TypeOK
<1>2. UNCHANGED << waitVars, chanVars, arr >> /\ last' = Silence
  BY DEF Raise, chanVars
<1>3. CASE ic' = Quanta /\ UNCHANGED << runq, pstate >>
  <2>1. pstate' = [pstate EXCEPT ![g] = "ready"]
    BY <1>1, <1>3
  <2>2. ic' \in 1 .. Quanta
    BY <1>3, ChanAssumption
  <2>3. Lists(runq', Ready(pstate'))
    BY <1>1, <1>3
  <2>4. QED
    BY <1>2, <2>1, <2>2, <2>3, RestStep
<1>4. CASE DelRun("broken")
  <2>1. Lists(runq', Ready(pstate')) /\ ic' \in 1 .. Quanta
    BY <1>4, DelRunLists DEF PState
  <2>2. pstate' = [pstate EXCEPT ![g] = "broken"]
    BY <1>4 DEF DelRun
  <2>3. QED
    BY <1>2, <2>1, <2>2, RestStep
<1>5. CASE pstate' = [pstate EXCEPT ![g] = "exiting"] /\ UNCHANGED << runq, ic >>
  <2>1. Ready(pstate') = Ready(pstate)
    BY <1>1, <1>5 DEF Ready
  <2>2. Lists(runq', Ready(pstate')) /\ ic' \in 1 .. Quanta
    BY <1>1, <1>5, <2>1
  <2>3. QED
    BY <1>2, <1>5, <2>2, RestStep
<1>6. QED
  BY <1>3, <1>4, <1>5 DEF Raise

\* So does an error of the current instruction,
LEMMA ErrorStep ==
  ASSUME IInv, Error
  PROVE  IInv'
<1>1. Is("ready") /\ Raise /\ UNCHANGED << kill, sendalt, recvalt >> /\ kill[g] = FALSE /\ g \in Prog
  BY Current DEF Error, Running, IInv, TypeOK
<1>2. kill' \in [Prog -> BOOLEAN] /\ kill'[g] = FALSE /\ \A p \in Prog \ {g} : kill'[p] = kill[p]
  BY <1>1 DEF IInv, TypeOK
<1>3. QED
  BY <1>1, <1>2, RaiseStep

\* and the error a Prog gets whose channel was hung up while it waited.
LEMMA KillErrorStep ==
  ASSUME IInv, KillError
  PROVE  IInv'
<1>1. /\ Is("ready") /\ Raise /\ UNCHANGED << sendalt, recvalt >> /\ g \in Prog
      /\ kill' = [kill EXCEPT ![g] = FALSE] /\ kill \in [Prog -> BOOLEAN]
  BY Current DEF KillError, IInv, TypeOK
<1>2. kill' \in [Prog -> BOOLEAN] /\ kill'[g] = FALSE /\ \A p \in Prog \ {g} : kill'[p] = kill[p]
  BY <1>1
<1>3. QED
  BY <1>1, <1>2, RaiseStep

\* The marks altrdy set before the error go again.
LEMMA XecaltErrorStep ==
  ASSUME IInv, NEW a \in Alts, XecaltError(a)
  PROVE  IInv'
<1>1. /\ Is("ready") /\ kill[g] = FALSE /\ g \in Prog /\ kill' = kill
      /\ \A d \in Chan : sendalt[d] # g /\ recvalt[d] # g
  BY Current DEF XecaltError, Running, IInv, TypeOK
<1>2. /\ sendalt \in [Chan -> Prog \cup {NoProg}] /\ recvalt \in [Chan -> Prog \cup {NoProg}]
      /\ kill \in [Prog -> BOOLEAN]
  BY DEF IInv, TypeOK
<1>3. sendalt' = sendalt /\ recvalt' = recvalt
  BY <1>1, <1>2, UnmarkMark DEF XecaltError
<1>4. kill' \in [Prog -> BOOLEAN] /\ kill'[g] = FALSE /\ \A p \in Prog \ {g} : kill'[p] = kill[p]
  BY <1>1, <1>2
<1>5. Raise
  BY DEF XecaltError
<1>6. QED
  BY <1>1, <1>3, <1>4, <1>5, RaiseStep

\* A Prog that exits is off the run queue and on no other.
LEMMA ProgExitStep ==
  ASSUME IInv, ProgExit
  PROVE  IInv'
<1>1. /\ Is("exiting") /\ DelRun("gone") /\ last' = Silence
      /\ UNCHANGED << kill, waitVars, chanVars, arr >>
  BY DEF ProgExit
<1>2. g \in Prog /\ pstate[g] = "exiting"
  BY <1>1, Current
<1>3. kill' \in [Prog -> BOOLEAN] /\ kill'[g] = FALSE /\ \A p \in Prog \ {g} : kill'[p] = kill[p]
  BY <1>1, <1>2 DEF IInv, TypeOK, Killed
<1>4. Lists(runq', Ready(pstate')) /\ ic' \in 1 .. Quanta /\ pstate' = [pstate EXCEPT ![g] = "gone"]
  BY <1>1, DelRunLists DEF PState, DelRun
<1>5. QED
  BY <1>1, <1>3, <1>4, RestStep

\* spawn makes one Prog ready that was on no queue.
LEMMA SpawnStep ==
  ASSUME IInv, NEW q \in Prog, Spawn(q)
  PROVE  IInv'
<1>1. /\ pstate[q] = "none" /\ pstate' = [pstate EXCEPT ![q] = "ready"]
      /\ EndInstr(Append(runq, q)) /\ last' = Silence
      /\ UNCHANGED << kill, waitVars, chanVars, arr >>
  BY DEF Spawn
<1>2. /\ pstate \in [Prog -> PState] /\ kill \in [Prog -> BOOLEAN] /\ ic \in 1 .. Quanta
      /\ Lists(runq, Ready(pstate))
  BY DEF IInv, TypeOK, Queued
<1>3. /\ pstate' \in [Prog -> PState] /\ pstate'[q] = "ready"
      /\ \A p \in Prog \ {q} : pstate'[p] = pstate[p]
  BY <1>1, <1>2 DEF PState
<1>4. Lists(runq', Ready(pstate')) /\ ic' \in 1 .. Quanta
  <2>1. q \notin Ready(pstate)
    BY <1>1 DEF Ready
  <2>2. Lists(Append(runq, q), Ready(pstate) \cup {q}) /\ Append(runq, q) # << >>
    BY <1>2, <2>1, ListsAppend
  <2>3. Ready(pstate') = Ready(pstate) \cup {q}
    BY <1>1, <1>3 DEF Ready
  <2>4. Lists(runq', Ready(pstate) \cup {q}) /\ ic' \in 1 .. Quanta
    BY <1>1, <1>2, <2>2, EndInstrLists
  <2>5. QED
    BY <2>3, <2>4
<1>5. TypeOK'
  BY <1>1, <1>3, <1>4 DEF IInv, TypeOK, Lists, waitVars, chanVars
<1>6. Queued(runq', pstate', chan', send', recv')
  <2>1. ASSUME NEW c \in Chan, NEW st \in {"send", "recv"}
        PROVE  Blocked(pstate', chan, st, c) = Blocked(pstate, chan, st, c)
    BY <1>1, <1>3 DEF Blocked
  <2>2. QED
    BY <1>1, <1>4, <2>1 DEF IInv, Queued, waitVars, chanVars
<1>7. Killed(kill', pstate')
  BY <1>1, <1>3 DEF IInv, Killed
<1>8. Marked(sendalt', pstate', SendsOf(alt')) /\ Marked(recvalt', pstate', RecvsOf(arr', alt'))
  <2>1. \A p \in Prog : pstate'[p] = "alt" <=> pstate[p] = "alt"
    BY <1>1, <1>3
  <2>2. Marked(sendalt, pstate', SendsOf(alt)) /\ Marked(recvalt, pstate', RecvsOf(arr, alt))
    BY <2>1, MarkedSame DEF IInv
  <2>3. QED
    BY <1>1, <2>2 DEF waitVars, chanVars
<1>9. Alternate(send', recv', sendalt', recvalt', sendq')
  BY <1>1 DEF IInv, chanVars
<1>10. Placed(alt', pstate')
  BY <1>1, <1>3 DEF IInv, Placed, waitVars
<1>11. QED
  BY <1>5, <1>6, <1>7, <1>8, <1>9, <1>10 DEF IInv

\* The alternatives that receive only look at the arrays they name.
LEMMA RecvsElsewhere ==
  ASSUME NEW x, NEW y, NEW al,
         \A n \in DOMAIN al.recvs : al.recvs[n] \in Arr => x[al.recvs[n]] = y[al.recvs[n]]
  PROVE  RecvsIn(x, al) = RecvsIn(y, al)
<1> DEFINE k == Len(al.sends)
           D(z) == {d \in (DOMAIN al.recvs) \X (1 .. ArrLen) :
                      al.recvs[d[1]] \in Arr /\ z[al.recvs[d[1]]][d[2]] # H}
           R(z) == {[c |-> z[al.recvs[d[1]]][d[2]], at |-> << k + d[1], d[2] >>] : d \in D(z)}
<1>1. \A d \in (DOMAIN al.recvs) \X (1 .. ArrLen) :
        al.recvs[d[1]] \in Arr => x[al.recvs[d[1]]] = y[al.recvs[d[1]]]
  OBVIOUS
<1>2. D(x) = D(y)
  BY <1>1
<1>3. \A d \in D(x) : x[al.recvs[d[1]]][d[2]] = y[al.recvs[d[1]]][d[2]]
  BY <1>1
<1>4. R(x) = R(y)
  BY <1>2, <1>3
<1>5. QED
  BY <1>4 DEF RecvsIn

\* An array changes that no alt waits on.
LEMMA StoreStep ==
  ASSUME IInv, StoresWhileWaiting = FALSE,
         NEW a \in Arr, NEW i \in 1 .. ArrLen, NEW c \in Chan \cup {H}, Store(a, i, c)
  PROVE  IInv'
<1>1. /\ Running /\ EndInstr(runq) /\ last' = Silence
      /\ arr' = [arr EXCEPT ![a][i] = c]
      /\ \A q \in Prog : \A n \in DOMAIN alt[q].recvs : alt[q].recvs[n] # a
      /\ UNCHANGED << pstate, kill, waitVars, chanVars >>
  BY DEF Store
<1>2. /\ arr \in [Arr -> [1 .. ArrLen -> Chan \cup {H}]] /\ sendq \in [Chan -> Seq(Prog)]
      /\ Alternate(send, recv, sendalt, recvalt, sendq)
  BY DEF IInv, TypeOK
<1>3. arr' \in [Arr -> [1 .. ArrLen -> Chan \cup {H}]] /\ \A b \in Arr \ {a} : arr'[b] = arr[b]
  BY <1>1, <1>2
<1>4. ASSUME NEW q \in Prog
      PROVE  RecvsIn(arr', alt[q]) = RecvsIn(arr, alt[q])
  <2>1. \A n \in DOMAIN alt[q].recvs : alt[q].recvs[n] \in Arr =>
          arr'[alt[q].recvs[n]] = arr[alt[q].recvs[n]]
    BY <1>1, <1>3
  <2>2. QED
    BY <2>1, RecvsElsewhere
<1>5. RecvsOf(arr', alt) = RecvsOf(arr, alt)
  BY <1>4 DEF RecvsOf
<1>6. UNCHANGED << send, recv, sendalt, recvalt, sendq >>
  BY <1>1 DEF chanVars
<1>7. QED
  BY <1>1, <1>2, <1>3, <1>5, <1>6, SoloStep

\* The steps that neither communicate nor end a Prog keep the invariant.
LEMMA OtherStep ==
  ASSUME IInv, Other
  PROVE  IInv'
<1>1. /\ Running /\ EndInstr(runq) /\ last' = Silence
      /\ UNCHANGED << pstate, kill, waitVars, send, recv, sendalt, recvalt, sendq, arr >>
  BY DEF Other, chanVars
<1>2. /\ arr \in [Arr -> [1 .. ArrLen -> Chan \cup {H}]] /\ sendq \in [Chan -> Seq(Prog)]
      /\ Alternate(send, recv, sendalt, recvalt, sendq)
  BY DEF IInv, TypeOK
<1>3. /\ arr' \in [Arr -> [1 .. ArrLen -> Chan \cup {H}]] /\ sendq' \in [Chan -> Seq(Prog)]
      /\ RecvsOf(arr', alt) = RecvsOf(arr, alt) /\ Alternate(send, recv, sendalt, recvalt, sendq')
  BY <1>1, <1>2
<1>4. QED
  BY <1>1, <1>3, SoloStep

-----------------------------------------------------------------------------
(* freechan.                                                               *)

\* A run queue of one Prog lists it.
LEMMA ListsOne == ASSUME NEW p \in Prog PROVE Lists(<< p >>, {p})
  BY DEF Lists, NoDup, Elems

\* altgone wakes the Progs whose marks are on c.
LEMMA AltGoneLists ==
  ASSUME IInv, NEW c \in Chan
  PROVE  /\ Lists(AltGone(c), {sendalt[c], recvalt[c]} \ {NoProg})
         /\ \A p \in {sendalt[c], recvalt[c]} \ {NoProg} : p \in Prog /\ pstate[p] = "alt"
<1> DEFINE s == IF Waiting(sendalt[c]) THEN << sendalt[c] >> ELSE << >>
           r == IF Waiting(recvalt[c]) /\ recvalt[c] # sendalt[c] THEN << recvalt[c] >> ELSE << >>
           S == {sendalt[c]} \ {NoProg}
           R == {recvalt[c]} \ {NoProg, sendalt[c]}
<1>1. /\ Waiting(sendalt[c]) <=> sendalt[c] # NoProg
      /\ Waiting(recvalt[c]) <=> recvalt[c] # NoProg
      /\ \A p \in {sendalt[c], recvalt[c]} \ {NoProg} : p \in Prog /\ pstate[p] = "alt"
  BY MarkSays DEF Waiting
<1>2. Lists(s, S)
  <2>1. CASE sendalt[c] = NoProg
    BY <1>1, <2>1, ListsNobody
  <2>2. CASE sendalt[c] # NoProg
    <3>1. sendalt[c] \in Prog /\ S = {sendalt[c]} /\ s = << sendalt[c] >>
      BY <1>1, <2>2
    <3>2. QED
      BY <3>1, ListsOne
  <2>3. QED
    BY <2>1, <2>2
<1>3. Lists(r, R)
  <2>1. CASE recvalt[c] = NoProg \/ recvalt[c] = sendalt[c]
    <3>1. R = {} /\ r = << >>
      BY <1>1, <2>1
    <3>2. QED
      BY <3>1, ListsNobody
  <2>2. CASE recvalt[c] # NoProg /\ recvalt[c] # sendalt[c]
    <3>1. recvalt[c] \in Prog /\ R = {recvalt[c]} /\ r = << recvalt[c] >>
      BY <1>1, <2>2
    <3>2. QED
      BY <3>1, ListsOne
  <2>3. QED
    BY <2>1, <2>2
<1>4. S \cap R = {} /\ S \cup R = {sendalt[c], recvalt[c]} \ {NoProg}
  OBVIOUS
<1>5. AltGone(c) = s \o r
  BY DEF AltGone
<1> HIDE DEF s, r, S, R
<1>6. Lists(s \o r, S \cup R)
  BY <1>2, <1>3, <1>4, ListsConcat
<1>7. QED
  BY <1>1, <1>4, <1>5, <1>6

\* The channel goes, and with it all that waits on it.
LEMMA FreechanStep ==
  ASSUME IInv, NEW c \in Chan, Freechan(c)
  PROVE  IInv'
<1> DEFINE woken == AltGone(c) \o send[c] \o recv[c]
           A == {sendalt[c], recvalt[c]} \ {NoProg}
           W == (A \cup Blocked(pstate, chan, "send", c)) \cup Blocked(pstate, chan, "recv", c)
           Undo(f, E(_)) ==
             [d \in Chan |-> IF d = c \/ (f[d] \in W /\ d \in Chans(E(alt[f[d]])))
                             THEN NoProg ELSE f[d]]
<1>1. /\ pstate \in [Prog -> PState] /\ kill \in [Prog -> BOOLEAN] /\ ic \in 1 .. Quanta
      /\ chan \in [Prog -> Chan \cup {H}] /\ alt \in [Prog -> Alts \cup {NoAlt}]
      /\ send \in [Chan -> Seq(Prog)] /\ recv \in [Chan -> Seq(Prog)] /\ sendq \in [Chan -> Seq(Prog)]
      /\ sendalt \in [Chan -> Prog \cup {NoProg}] /\ recvalt \in [Chan -> Prog \cup {NoProg}]
      /\ \A d \in Chan : /\ Lists(send[d], Blocked(pstate, chan, "send", d))
                         /\ Lists(recv[d], Blocked(pstate, chan, "recv", d))
  BY DEF IInv, TypeOK, Queued
<1>2. Lists(AltGone(c), A) /\ \A p \in A : p \in Prog /\ pstate[p] = "alt"
  BY AltGoneLists
<1>3. Lists(woken, W)
  <2>1. A \cap Blocked(pstate, chan, "send", c) = {}
    BY <1>2 DEF Blocked
  <2>2. (A \cup Blocked(pstate, chan, "send", c)) \cap Blocked(pstate, chan, "recv", c) = {}
    BY <1>2 DEF Blocked
  <2>3. Lists(AltGone(c) \o send[c], A \cup Blocked(pstate, chan, "send", c))
    BY <1>1, <1>2, <2>1, ListsConcat
  <2>4. Lists((AltGone(c) \o send[c]) \o recv[c], W)
    BY <1>1, <2>2, <2>3, ListsConcat
  <2>5. QED
    BY <2>4
<1>4. {woken[i] : i \in 1 .. Len(woken)} = W
  BY <1>3 DEF Lists, Elems
<1>5. /\ pstate' = [q \in Prog |-> IF q \in W THEN "ready" ELSE pstate[q]]
      /\ kill' = [q \in Prog |-> q \in W \/ kill[q]]
      /\ chan' = [q \in Prog |-> IF q \in W THEN H ELSE chan[q]]
      /\ alt' = [q \in Prog |-> IF q \in W THEN NoAlt ELSE alt[q]]
      /\ sendalt' = Undo(sendalt, Sends) /\ recvalt' = Undo(recvalt, Recvs)
      /\ send' = [send EXCEPT ![c] = << >>]
      /\ recv' = [recv EXCEPT ![c] = << >>]
      /\ sendq' = [sendq EXCEPT ![c] = << >>]
      /\ IF Running THEN EndInstr(runq \o woken) ELSE runq' = runq \o woken /\ UNCHANGED ic
      /\ last' = Silence /\ arr' = arr
  BY <1>4 DEF Freechan
<1>6. W \in SUBSET Prog /\ \A p \in W : pstate[p] \in {"send", "recv", "alt"}
  BY <1>2 DEF Blocked
<1>7. sendalt' = Without(sendalt, W) /\ recvalt' = Without(recvalt, W)
  <2>1. ASSUME NEW d \in Chan
        PROVE  /\ Undo(sendalt, Sends)[d] = IF sendalt[d] \in W THEN NoProg ELSE sendalt[d]
               /\ Undo(recvalt, Recvs)[d] = IF recvalt[d] \in W THEN NoProg ELSE recvalt[d]
    <3>1. /\ sendalt[d] \in W => d \in Chans(Sends(alt[sendalt[d]]))
          /\ recvalt[d] \in W => d \in Chans(Recvs(alt[recvalt[d]]))
      BY <1>6, MarkSays
    <3>2. /\ d = c => sendalt[d] = NoProg \/ sendalt[d] \in W
          /\ d = c => recvalt[d] = NoProg \/ recvalt[d] \in W
      OBVIOUS
    <3> HIDE DEF W
    <3>3. QED
      BY <3>1, <3>2
  <2>2. QED
    BY <1>5, <2>1 DEF Without
<1>8. /\ send' \in [Chan -> Seq(Prog)] /\ recv' \in [Chan -> Seq(Prog)] /\ sendq' \in [Chan -> Seq(Prog)]
  BY <1>1, <1>5
<1>9. ASSUME NEW d \in Chan
      PROVE  /\ Lists(send'[d], Blocked(pstate, chan, "send", d) \ W)
             /\ Lists(recv'[d], Blocked(pstate, chan, "recv", d) \ W)
             /\ sendq'[d] # << >> => sendq[d] # << >>
  <2>1. CASE d = c
    <3>1. send'[d] = << >> /\ recv'[d] = << >> /\ sendq'[d] = << >>
      BY <1>1, <1>5, <2>1
    <3>2. Blocked(pstate, chan, "send", d) \ W = {} /\ Blocked(pstate, chan, "recv", d) \ W = {}
      BY <2>1
    <3>3. QED
      BY <3>1, <3>2, ListsNobody
  <2>2. CASE d # c
    <3>1. send'[d] = send[d] /\ recv'[d] = recv[d] /\ sendq'[d] = sendq[d]
      BY <1>1, <1>5, <2>2
    <3>2. /\ Blocked(pstate, chan, "send", d) \ W = Blocked(pstate, chan, "send", d)
          /\ Blocked(pstate, chan, "recv", d) \ W = Blocked(pstate, chan, "recv", d)
      BY <1>2, <2>2 DEF Blocked
    <3>3. QED
      BY <1>1, <3>1, <3>2
  <2>3. QED
    BY <2>1, <2>2
<1>10. Lists(runq', Ready(pstate) \cup W) /\ ic' \in 1 .. Quanta
  <2>1. Lists(runq, Ready(pstate)) /\ Ready(pstate) \cap W = {}
    BY <1>6 DEF IInv, Queued, Ready
  <2> HIDE DEF woken, W
  <2>2. Lists(runq \o woken, Ready(pstate) \cup W)
    BY <1>3, <2>1, ListsConcat
  <2>3. CASE Running
    <3>1. g \in Ready(pstate)
      BY <2>3, Current DEF Running
    <3>2. runq \o woken # << >>
      BY <2>2, <3>1, ListsNobody
    <3>3. QED
      BY <1>1, <1>5, <2>2, <2>3, <3>2, EndInstrLists
  <2>4. CASE ~Running
    BY <1>1, <1>5, <2>2, <2>4
  <2>5. QED
    BY <2>3, <2>4
<1> HIDE DEF W
<1>11. /\ pstate' \in [Prog -> PState] /\ kill' \in [Prog -> BOOLEAN]
       /\ chan' \in [Prog -> Chan \cup {H}] /\ alt' \in [Prog -> Alts \cup {NoAlt}]
  <2>1. pstate' \in [Prog -> PState]
    BY <1>1, <1>5 DEF PState
  <2>2. kill' \in [Prog -> BOOLEAN]
    BY <1>1, <1>5, Zenon
  <2>3. chan' \in [Prog -> Chan \cup {H}] /\ alt' \in [Prog -> Alts \cup {NoAlt}]
    BY <1>1, <1>5
  <2>4. QED
    BY <2>1, <2>2, <2>3
<1>12. \A p \in W : pstate'[p] = "ready" /\ chan'[p] = H /\ alt'[p] = NoAlt
  BY <1>5, <1>6
<1>13. \A p \in Prog \ W : /\ pstate'[p] = pstate[p] /\ kill'[p] = kill[p]
                           /\ chan'[p] = chan[p] /\ alt'[p] = alt[p]
  <2>1. \A p \in Prog \ W : kill'[p] = kill[p]
    BY <1>1, <1>5
  <2>2. QED
    BY <1>5, <2>1
<1>14. arr' = arr /\ last' = Silence
  BY <1>5
<1>15. QED
  BY <1>6, <1>7, <1>8, <1>9, <1>10, <1>11, <1>12, <1>13, <1>14, WakeStep
-----------------------------------------------------------------------------
(* The theorems.                                                           *)

\* The invariant holds initially.
LEMMA InitIInv == Init => IInv
<1> SUFFICES ASSUME Init PROVE IInv
  OBVIOUS
<1>1. PICK p \in Prog : /\ runq = << p >>
                        /\ pstate = [q \in Prog |-> IF q = p THEN "ready" ELSE "none"]
  BY DEF Init
<1>2. /\ ic = Quanta /\ kill = [q \in Prog |-> FALSE]
      /\ chan = [q \in Prog |-> H] /\ alt = [q \in Prog |-> NoAlt]
      /\ send = [c \in Chan |-> << >>] /\ recv = [c \in Chan |-> << >>]
      /\ sendalt = [c \in Chan |-> NoProg] /\ recvalt = [c \in Chan |-> NoProg]
      /\ sendq = [c \in Chan |-> << >>]
      /\ arr = [a \in Arr |-> [i \in 1 .. ArrLen |-> H]]
      /\ last = Silence
  BY DEF Init
<1>3. TypeOK
  <2>1. runq \in Seq(Prog) /\ pstate \in [Prog -> PState]
    BY <1>1 DEF PState
  <2>2. ic \in 1 .. Quanta
    BY <1>2, ChanAssumption
  <2>3. << >> \in Seq(Prog)
    OBVIOUS
  <2>4. QED
    BY <1>2, <2>1, <2>2, <2>3 DEF TypeOK
<1>4. Queued(runq, pstate, chan, send, recv)
  <2>1. Ready(pstate) = {p}
    BY <1>1 DEF Ready
  <2>2. Lists(runq, Ready(pstate))
    BY <1>1, <2>1, ListsOne
  <2>3. ASSUME NEW c \in Chan, NEW st \in {"send", "recv"}
        PROVE  Blocked(pstate, chan, st, c) = {}
    BY <1>1 DEF Blocked
  <2>4. QED
    BY <1>2, <2>2, <2>3, ListsNobody DEF Queued
<1>5. Killed(kill, pstate)
  BY <1>2 DEF Killed
<1>6. Marked(sendalt, pstate, SendsOf(alt)) /\ Marked(recvalt, pstate, RecvsOf(arr, alt))
  <2>1. \A q \in Prog : pstate[q] # "alt" /\ NoProg # q
    BY <1>1, ChanAssumption
  <2>2. QED
    BY <1>2, <2>1 DEF Marked
<1>7. Alternate(send, recv, sendalt, recvalt, sendq)
  BY <1>2 DEF Alternate
<1>8. Placed(alt, pstate)
  BY <1>2 DEF Placed
<1>9. QED
  BY <1>3, <1>4, <1>5, <1>6, <1>7, <1>8 DEF IInv

\* Every step keeps the invariant, if no pointer to a channel is assigned while a Prog waits.
LEMMA NextIInv ==
  ASSUME StoresWhileWaiting = FALSE
  PROVE  IInv /\ [Next]_vars => IInv'
<1> SUFFICES ASSUME IInv, [Next]_vars PROVE IInv'
  OBVIOUS
<1>1. CASE UNCHANGED vars
  <2>1. UNCHANGED << runq, ic, pstate, kill, chan, alt, send, recv, sendalt, recvalt, sendq, arr, last >>
    BY <1>1 DEF vars, schedVars, waitVars, chanVars
  <2>2. TypeOK'
    BY <2>1 DEF IInv, TypeOK
  <2>3. QED
    BY <2>1, <2>2 DEF IInv
<1>2. CASE Communicate
  BY <1>2, IsendStep, IrecvStep, CsendqStep, XecaltStep DEF Communicate
<1>3. ASSUME NEW c \in Chan, LastReference(c)
      PROVE  IInv'
  BY <1>3, FreechanStep DEF LastReference
<1>4. CASE Instruction
  BY <1>2, <1>3, <1>4, SpawnStep, StoreStep, OtherStep DEF Instruction
<1>5. CASE Error \/ KillError \/ ProgExit
  BY <1>5, ErrorStep, KillErrorStep, ProgExitStep
<1>6. CASE \E a \in Alts : XecaltError(a)
  BY <1>6, XecaltErrorStep
<1>7. CASE Rest
  BY <1>1, <1>7 DEF Rest
<1>8. QED
  BY <1>1, <1>3, <1>4, <1>5, <1>6, <1>7 DEF Next

\* So the invariant holds in every reachable state.
LEMMA Invariance ==
  ASSUME StoresWhileWaiting = FALSE
  PROVE  Spec => []IInv
<1>1. Init => IInv
  BY InitIInv
<1>2. IInv /\ [Next]_vars => IInv'
  BY NextIInv
<1>3. QED
  BY <1>1, <1>2, PTL DEF Spec

\* Every reachable state is typed: each variable holds what the code keeps
\* there, and the message copied last went to a Prog.
THEOREM TypesKept ==
  ASSUME StoresWhileWaiting = FALSE
  PROVE  Spec => []TypeOK
<1>1. IInv => TypeOK
  BY DEF IInv
<1>2. QED
  BY <1>1, Invariance, PTL

\* Whatever is sent, received, chosen, raised or hung up, a Prog is on the
\* run queue once if it can run and not at all if it cannot (addrun and
\* delrun of dis.c).
THEOREM ReadyQueuedOnce ==
  ASSUME StoresWhileWaiting = FALSE
  PROVE  Spec => []ReadyOnce
<1>1. IInv => ReadyOnce
  BY DEF IInv, Queued, Lists, Ready, Killed, ReadyOnce
<1>2. QED
  BY <1>1, Invariance, PTL

\* The queues send and recv of a channel are exactly the Progs blocked in
\* isend and irecv on it: none is lost there and none is left behind.
THEOREM BlockedQueued ==
  ASSUME StoresWhileWaiting = FALSE
  PROVE  Spec => []WaitersQueued
<1>1. IInv => WaitersQueued
  BY DEF IInv, Queued, Lists, Blocked, WaitersQueued
<1>2. QED
  BY <1>1, Invariance, PTL

\* sendalt and recvalt of a channel name the alt that waits there, and each
\* channel of a waiting alt names it: altdone, altgone and freechan remove
\* exactly the marks altrdy set.
THEOREM MarksRight ==
  ASSUME StoresWhileWaiting = FALSE
  PROVE  Spec => []AltMarks
<1>1. IInv => AltMarks
  <2>1. SUFFICES ASSUME IInv, NEW c \in Chan, NEW p \in Prog
                 PROVE  /\ sendalt[c] = p <=> pstate[p] = "alt" /\ c \in Chans(Sends(alt[p]))
                        /\ recvalt[c] = p <=> pstate[p] = "alt" /\ c \in Chans(Recvs(alt[p]))
    BY DEF AltMarks
  <2>2. QED
    BY <2>1, RecvsNow DEF IInv, Marked, SendsOf, RecvsOf
<1>2. QED
  BY <1>1, Invariance, PTL

\* Two Progs that could communicate never wait on the same channel, in
\* whichever of its three forms each one came to it.
THEOREM NobodyMissed ==
  ASSUME StoresWhileWaiting = FALSE
  PROVE  Spec => []NoMissedMeeting
<1>1. IInv => NoMissedMeeting
  BY DEF IInv, Alternate, NoMissedMeeting, SendersAt, ReceiversAt
<1>2. QED
  BY <1>1, Invariance, PTL

\* The alternatives altcomm counts, after altrdy has set its marks, are those
\* altrdy counted before, so that the one chosen by number is ready.
THEOREM CountsAgree ==
  ASSUME StoresWhileWaiting = FALSE
  PROVE  Spec => []AltCountsAgree
<1>1. IInv => AltCountsAgree
  <2>1. IInv => arr \in [Arr -> [1 .. ArrLen -> Chan \cup {H}]]
    BY DEF IInv, TypeOK
  <2>2. QED
    BY <2>1, ChoicesReady DEF AltCountsAgree
<1>2. QED
  BY <1>1, Invariance, PTL

-----------------------------------------------------------------------------
(***************************************************************************)
(* The channels keep the promise of Rendezvous, for every set of Progs,    *)
(* channels and alts.  A step of isend, irecv, csendq or xecalt is a Wait, *)
(* a Meet, a Put or a Take; freechan is a Hangup; the other steps leave    *)
(* the offers and the messages alone.                                      *)
(***************************************************************************)

\* What a Prog offers that is in state st, with channel c and alt a.
OffersWith(ar, st, c, a) ==
  CASE st \in {"send", "recv"} -> {[dir |-> st, c |-> c, at |-> Alone]}
    [] st = "alt" -> OffersIn("send", Sends(a)) \cup OffersIn("recv", RecvsIn(ar, a))
    [] OTHER -> {}

OffersBy(ar, ps, ch, al) == [p \in Prog |-> OffersWith(ar, ps[p], ch[p], al[p])]

\* The offers the refinement reads off the state, as a function of the state.
LEMMA OffersNow == offersBar = OffersBy(arr, pstate, chan, alt)
  BY DEF offersBar, OffersBy, OffersWith, Recvs, RecvsIn

\* The same after a step.
LEMMA OffersNext == offersBar' = OffersBy(arr', pstate', chan', alt')
  BY DEF offersBar, OffersBy, OffersWith, Recvs, RecvsIn

\* The offers by the state of the Prog.
LEMMA OffersCases ==
  ASSUME NEW ar, NEW st, NEW c, NEW a
  PROVE  /\ st \in {"send", "recv"} => OffersWith(ar, st, c, a) = {[dir |-> st, c |-> c, at |-> Alone]}
         /\ st = "alt" => OffersWith(ar, st, c, a) =
                            OffersIn("send", Sends(a)) \cup OffersIn("recv", RecvsIn(ar, a))
         /\ st \notin {"send", "recv", "alt"} => OffersWith(ar, st, c, a) = {}
  BY DEF OffersWith

\* A step after which all Progs offer what they did.
LEMMA QuietStep ==
  ASSUME \A p \in Prog : OffersWith(arr', pstate'[p], chan'[p], alt'[p]) =
                         OffersWith(arr, pstate[p], chan[p], alt[p]),
         sendq' = sendq, last' = Silence
  PROVE  Promise!Next
<1>1. offersBar' = offersBar
  BY OffersNow, OffersNext DEF OffersBy
<1>2. Promise!Quiet
  BY <1>1 DEF Promise!Quiet
<1>3. QED
  BY <1>2 DEF Promise!Next

\* The current Prog offers nothing.
LEMMA CurrentOffers ==
  ASSUME IInv, Running
  PROVE  g \in Prog /\ pstate[g] = "ready" /\ offersBar[g] = {}
<1>1. g \in Prog /\ pstate[g] = "ready"
  BY Current DEF Running
<1>2. OffersWith(arr, pstate[g], chan[g], alt[g]) = {}
  BY <1>1, OffersCases
<1>3. QED
  BY <1>1, <1>2, OffersNow DEF OffersBy

\* Each offer is one of a Prog on a queue of the channel or of an alt that
\* has a mark there.
LEMMA OfferFrom ==
  ASSUME IInv, NEW q \in Prog, NEW x \in offersBar[q], NEW c \in Chan, x.c = c
  PROVE  \/ x.dir = "send" /\ pstate[q] = "send" /\ chan[q] = c
         \/ x.dir = "recv" /\ pstate[q] = "recv" /\ chan[q] = c
         \/ x.dir = "send" /\ pstate[q] = "alt" /\ sendalt[c] = q
         \/ x.dir = "recv" /\ pstate[q] = "alt" /\ recvalt[c] = q
<1>1. x \in OffersWith(arr, pstate[q], chan[q], alt[q])
  BY OffersNow DEF OffersBy
<1>2. CASE pstate[q] \in {"send", "recv"}
  <2>1. x = [dir |-> pstate[q], c |-> chan[q], at |-> Alone]
    BY <1>1, <1>2, OffersCases
  <2>2. QED
    BY <1>2, <2>1
<1>3. CASE pstate[q] = "alt"
  <2>1. x \in OffersIn("send", Sends(alt[q])) \cup OffersIn("recv", RecvsIn(arr, alt[q]))
    BY <1>1, <1>3, OffersCases
  <2>2. CASE x \in OffersIn("send", Sends(alt[q]))
    <3>1. x.dir = "send" /\ c \in Chans(Sends(alt[q]))
      BY <2>2 DEF OffersIn, Chans
    <3>2. QED
      BY <1>3, <3>1 DEF IInv, Marked, SendsOf
  <2>3. CASE x \in OffersIn("recv", RecvsIn(arr, alt[q]))
    <3>1. x.dir = "recv" /\ c \in Chans(RecvsIn(arr, alt[q]))
      BY <2>3 DEF OffersIn, Chans
    <3>2. QED
      BY <1>3, <3>1 DEF IInv, Marked, RecvsOf
  <2>4. QED
    BY <2>1, <2>2, <2>3
<1>4. CASE pstate[q] \notin {"send", "recv", "alt"}
  BY <1>1, <1>4, OffersCases
<1>5. QED
  BY <1>2, <1>3, <1>4

\* With nobody there to receive, all offers on c are to send; and likewise.
LEMMA NobodyThere ==
  ASSUME IInv, NEW c \in Chan
  PROVE  /\ ~ReceiversAt(c, recvalt) => \A q \in Prog : \A x \in offersBar[q] : x.c = c => x.dir = "send"
         /\ ~SendersAt(c, sendalt) => \A q \in Prog : \A x \in offersBar[q] : x.c = c => x.dir = "recv"
<1>1. /\ Lists(send[c], Blocked(pstate, chan, "send", c))
      /\ Lists(recv[c], Blocked(pstate, chan, "recv", c))
      /\ sendalt[c] \in Prog \cup {NoProg} /\ recvalt[c] \in Prog \cup {NoProg}
  BY DEF IInv, Queued, TypeOK
<1>2. ASSUME NEW q \in Prog, NEW x \in offersBar[q], x.c = c, ~ReceiversAt(c, recvalt)
      PROVE  x.dir = "send"
  <2>1. Blocked(pstate, chan, "recv", c) = {} /\ recvalt[c] # q
    BY <1>1, <1>2, ListsNobody, ChanAssumption DEF ReceiversAt
  <2>2. QED
    BY <1>2, <2>1, OfferFrom DEF Blocked
<1>3. ASSUME NEW q \in Prog, NEW x \in offersBar[q], x.c = c, ~SendersAt(c, sendalt)
      PROVE  x.dir = "recv"
  <2>1. Blocked(pstate, chan, "send", c) = {} /\ sendalt[c] # q
    BY <1>1, <1>3, ListsNobody, ChanAssumption DEF SendersAt
  <2>2. QED
    BY <1>3, <2>1, OfferFrom DEF Blocked
<1>4. QED
  BY <1>2, <1>3

\* The place of a channel is that of an alternative with it.
LEMMA AtIs ==
  ASSUME NEW E, NEW c, c \in Chans(E)
  PROVE  \E e \in E : e.c = c /\ At(E, c) = e.at
<1>1. \E e \in E : e.c = c
  BY DEF Chans
<1>2. (CHOOSE e \in E : e.c = c) \in E /\ (CHOOSE e \in E : e.c = c).c = c
  BY <1>1
<1>3. QED
  BY <1>2 DEF At

\* Who receives from the current Prog had offered to, and at that place.
LEMMA ReceiverOffers ==
  ASSUME IInv, NEW c \in Chan, ReceiversAt(c, recvalt), NEW q,
         q = IF recvalt[c] # NoProg THEN recvalt[c] ELSE Head(recv[c])
  PROVE  /\ q \in Prog
         /\ [dir |-> "recv", c |-> c, at |-> At(Recvs(alt[q]), c)] \in offersBar[q]
<1>1. CASE recvalt[c] # NoProg
  <2>1. q \in Prog /\ pstate[q] = "alt" /\ c \in Chans(Recvs(alt[q]))
    BY <1>1, MarkSays
  <2>2. PICK e \in Recvs(alt[q]) : e.c = c /\ At(Recvs(alt[q]), c) = e.at
    BY <2>1, AtIs
  <2>3. [dir |-> "recv", c |-> c, at |-> e.at] \in OffersIn("recv", RecvsIn(arr, alt[q]))
    BY <2>2, RecvsNow DEF OffersIn
  <2>4. [dir |-> "recv", c |-> c, at |-> e.at] \in OffersWith(arr, pstate[q], chan[q], alt[q])
    BY <2>1, <2>3, OffersCases
  <2>5. QED
    BY <2>1, <2>2, <2>4, OffersNow DEF OffersBy
<1>2. CASE recvalt[c] = NoProg
  <2>1. recv[c] # << >> /\ Lists(recv[c], Blocked(pstate, chan, "recv", c))
    BY <1>2 DEF IInv, Queued, ReceiversAt
  <2>2. Head(recv[c]) \in Blocked(pstate, chan, "recv", c)
    BY <2>1, ListsTail
  <2>3. q \in Prog /\ pstate[q] = "recv" /\ chan[q] = c
    BY <1>2, <2>2 DEF Blocked
  <2>4. alt[q] = NoAlt
    BY <2>3 DEF IInv, Placed
  <2>5. At(Recvs(alt[q]), c) = Alone
    BY <2>4, PlainMarks DEF At
  <2>6. [dir |-> "recv", c |-> c, at |-> Alone] \in OffersWith(arr, pstate[q], chan[q], alt[q])
    BY <2>3, OffersCases
  <2>7. QED
    BY <2>3, <2>5, <2>6, OffersNow DEF OffersBy
<1>3. QED
  BY <1>1, <1>2

\* Who sends to the current Prog had offered to, and at that place.
LEMMA SenderOffers ==
  ASSUME IInv, NEW c \in Chan, sendalt[c] # NoProg \/ send[c] # << >>, NEW q,
         q = IF sendalt[c] # NoProg THEN sendalt[c] ELSE Head(send[c])
  PROVE  /\ q \in Prog
         /\ [dir |-> "send", c |-> c, at |-> At(Sends(alt[q]), c)] \in offersBar[q]
<1>1. CASE sendalt[c] # NoProg
  <2>1. q \in Prog /\ pstate[q] = "alt" /\ c \in Chans(Sends(alt[q]))
    BY <1>1, MarkSays
  <2>2. PICK e \in Sends(alt[q]) : e.c = c /\ At(Sends(alt[q]), c) = e.at
    BY <2>1, AtIs
  <2>3. [dir |-> "send", c |-> c, at |-> e.at] \in OffersIn("send", Sends(alt[q]))
    BY <2>2 DEF OffersIn
  <2>4. [dir |-> "send", c |-> c, at |-> e.at] \in OffersWith(arr, pstate[q], chan[q], alt[q])
    BY <2>1, <2>3, OffersCases
  <2>5. QED
    BY <2>1, <2>2, <2>4, OffersNow DEF OffersBy
<1>2. CASE sendalt[c] = NoProg
  <2>1. send[c] # << >> /\ Lists(send[c], Blocked(pstate, chan, "send", c))
    BY <1>2 DEF IInv, Queued
  <2>2. Head(send[c]) \in Blocked(pstate, chan, "send", c)
    BY <2>1, ListsTail
  <2>3. q \in Prog /\ pstate[q] = "send" /\ chan[q] = c
    BY <1>2, <2>2 DEF Blocked
  <2>4. alt[q] = NoAlt
    BY <2>3 DEF IInv, Placed
  <2>5. At(Sends(alt[q]), c) = Alone
    BY <2>4, PlainMarks DEF At
  <2>6. [dir |-> "send", c |-> c, at |-> Alone] \in OffersWith(arr, pstate[q], chan[q], alt[q])
    BY <2>3, OffersCases
  <2>7. QED
    BY <2>3, <2>5, <2>6, OffersNow DEF OffersBy
<1>3. QED
  BY <1>1, <1>2

\* The partner's offers go, and no others.
LEMMA WakeOffers ==
  ASSUME IInv, NEW q \in Prog, WakePeer(q), UNCHANGED arr
  PROVE  offersBar' = [offersBar EXCEPT ![q] = {}]
<1>1. /\ pstate \in [Prog -> PState] /\ chan \in [Prog -> Chan \cup {H}]
      /\ alt \in [Prog -> Alts \cup {NoAlt}]
      /\ pstate' = [pstate EXCEPT ![q] = "ready"]
      /\ chan' = [chan EXCEPT ![q] = H] /\ alt' = [alt EXCEPT ![q] = NoAlt]
  BY DEF IInv, TypeOK, WakePeer
<1>2. pstate'[q] = "ready" /\ \A p \in Prog \ {q} : /\ pstate'[p] = pstate[p]
                                                     /\ chan'[p] = chan[p] /\ alt'[p] = alt[p]
  BY <1>1
<1>3. OffersWith(arr', pstate'[q], chan'[q], alt'[q]) = {}
  BY <1>2, OffersCases
<1>4. \A p \in Prog \ {q} : OffersWith(arr', pstate'[p], chan'[p], alt'[p]) =
                            OffersWith(arr, pstate[p], chan[p], alt[p])
  BY <1>2
<1>5. QED
  BY <1>3, <1>4, OffersNow, OffersNext DEF OffersBy

\* The places of the alternatives are places.
LEMMA PlacesOf ==
  /\ Alone \in Places
  /\ \A a \in Alts : \A e \in Sends(a) \cup Recvs(a) : e.at \in Places
<1>1. Alone \in Places
  <2>1. Len(NoAlt.sends) = 0 /\ Len(NoAlt.recvs) = 0 /\ ArrLen \in Nat
    BY ChanAssumption DEF NoAlt
  <2>2. 0 \in 0 .. Len(NoAlt.sends) + Len(NoAlt.recvs) /\ 0 \in 0 .. ArrLen
    BY <2>1
  <2>3. QED
    BY <2>2 DEF Places, Alone
<1>2. \A s, r \in Nat : /\ \A n \in 1 .. s : n \in 0 .. s + r
                       /\ \A n \in 1 .. r : s + n \in 0 .. s + r
  OBVIOUS
<1>3. ASSUME NEW a \in Alts, NEW n \in 0 .. Len(a.sends) + Len(a.recvs), NEW i \in 0 .. ArrLen
      PROVE  << n, i >> \in Places
  BY DEF Places
<1>4. ASSUME NEW a \in Alts
      PROVE  /\ a.sends \in Seq(Chan \cup {H}) /\ a.recvs \in Seq(Chan \cup Arr \cup {H})
             /\ Len(a.sends) \in Nat /\ DOMAIN a.sends = 1 .. Len(a.sends)
             /\ Len(a.recvs) \in Nat /\ DOMAIN a.recvs = 1 .. Len(a.recvs)
             /\ 0 \in 0 .. ArrLen /\ 1 .. ArrLen \subseteq 0 .. ArrLen
  BY ChanAssumption
<1>5. ASSUME NEW a \in Alts, NEW e \in Sends(a)
      PROVE  e.at \in Places
  <2>1. PICK n \in DOMAIN a.sends : e = [c |-> a.sends[n], at |-> << n, 0 >>]
    BY DEF Sends
  <2>2. Len(a.sends) \in Nat /\ Len(a.recvs) \in Nat /\ n \in 1 .. Len(a.sends) /\ e.at = << n, 0 >>
    BY <1>4, <2>1
  <2>3. n \in 0 .. Len(a.sends) + Len(a.recvs)
    BY <1>2, <2>2
  <2>4. QED
    BY <1>3, <1>4, <2>2, <2>3
<1>6. ASSUME NEW a \in Alts, NEW e \in Recvs(a)
      PROVE  e.at \in Places
  <2> DEFINE k == Len(a.sends)
  <2>1. ASSUME NEW n \in DOMAIN a.recvs, NEW i \in 0 .. ArrLen, e.at = << k + n, i >>
        PROVE  e.at \in Places
    <3>1. Len(a.sends) \in Nat /\ Len(a.recvs) \in Nat /\ n \in 1 .. Len(a.recvs)
      BY <1>4
    <3>2. k + n \in 0 .. Len(a.sends) + Len(a.recvs)
      BY <1>2, <3>1
    <3>3. QED
      BY <1>3, <2>1, <3>2
  <2>2. CASE \E n \in {m \in DOMAIN a.recvs : a.recvs[m] \in Chan} :
               e = [c |-> a.recvs[n], at |-> << k + n, 0 >>]
    <3>1. PICK n \in DOMAIN a.recvs : e = [c |-> a.recvs[n], at |-> << k + n, 0 >>]
      BY <2>2
    <3>2. e.at = << k + n, 0 >>
      BY <3>1
    <3>3. QED
      BY <1>4, <2>1, <3>2
  <2>3. CASE \E x \in {y \in (DOMAIN a.recvs) \X (1 .. ArrLen) :
                         a.recvs[y[1]] \in Arr /\ arr[a.recvs[y[1]]][y[2]] # H} :
               e = [c |-> arr[a.recvs[x[1]]][x[2]], at |-> << k + x[1], x[2] >>]
    <3>1. PICK x \in (DOMAIN a.recvs) \X (1 .. ArrLen) :
                 e = [c |-> arr[a.recvs[x[1]]][x[2]], at |-> << k + x[1], x[2] >>]
      BY <2>3
    <3>2. e.at = << k + x[1], x[2] >> /\ x[1] \in DOMAIN a.recvs /\ x[2] \in 0 .. ArrLen
      BY <1>4, <3>1
    <3>3. QED
      BY <2>1, <3>2
  <2>4. QED
    BY <2>2, <2>3 DEF Recvs
<1>7. QED
  BY <1>1, <1>5, <1>6

-----------------------------------------------------------------------------
(* The steps.                                                              *)

\* A sender that finds a receiver completes a meeting of the two.
LEMMA PassOnMeets ==
  ASSUME IInv, Running, NEW c \in Chan, NEW at \in Places, NEW a, UNCHANGED arr,
         c \notin Chans(Recvs(a)), ReceiversAt(c, recvalt),
         PassOn(c, at, Mark(sendalt, Sends(a)), Mark(recvalt, Recvs(a)), a)
  PROVE  Promise!Next
<1> DEFINE q == IF recvalt[c] # NoProg THEN recvalt[c] ELSE Head(recv[c])
           x == [dir |-> "recv", c |-> c, at |-> At(Recvs(alt[q]), c)]
<1>1. Mark(recvalt, Recvs(a))[c] = recvalt[c]
  BY DEF Mark
<1>2. /\ Transfer(c, g, at, q, At(Recvs(alt[q]), c)) /\ WakePeer(q) /\ sendq' = sendq
  BY <1>1 DEF PassOn
<1>3. q \in Prog /\ x \in offersBar[q]
  BY ReceiverOffers
<1>4. g \in Prog /\ offersBar[g] = {}
  BY CurrentOffers
<1> HIDE DEF q
<1>5. offersBar' = [offersBar EXCEPT ![q] = {}]
  BY <1>2, <1>3, WakeOffers
<1>6. last' = [c |-> x.c, from |-> g, sat |-> at, to |-> q, rat |-> x.at] /\ x.dir = "recv"
  BY <1>2 DEF Transfer
<1> HIDE DEF x
<1>7. Promise!Meet(g, at, q, x)
  BY <1>2, <1>4, <1>5, <1>6 DEF Promise!Meet, Promise!Message
<1>8. QED
  BY <1>3, <1>4, <1>7 DEF Promise!Next

\* A receiver that finds a sender completes a meeting of the two.
LEMMA FetchMeets ==
  ASSUME IInv, Running, NEW c \in Chan, NEW at \in Places, NEW a, UNCHANGED arr,
         c \notin Chans(Sends(a)), sendalt[c] # NoProg \/ send[c] # << >>,
         Fetch(c, at, Mark(sendalt, Sends(a)), Mark(recvalt, Recvs(a)), a)
  PROVE  Promise!Next
<1> DEFINE q == IF sendalt[c] # NoProg THEN sendalt[c] ELSE Head(send[c])
           x == [dir |-> "send", c |-> c, at |-> At(Sends(alt[q]), c)]
<1>1. Mark(sendalt, Sends(a))[c] = sendalt[c]
  BY DEF Mark
<1>2. /\ Transfer(c, q, At(Sends(alt[q]), c), g, at) /\ WakePeer(q) /\ sendq' = sendq
  BY <1>1 DEF Fetch
<1>3. q \in Prog /\ x \in offersBar[q]
  BY SenderOffers
<1>4. g \in Prog /\ offersBar[g] = {}
  BY CurrentOffers
<1> HIDE DEF q
<1>5. offersBar' = [offersBar EXCEPT ![q] = {}]
  BY <1>2, <1>3, WakeOffers
<1>6. last' = [c |-> x.c, from |-> q, sat |-> x.at, to |-> g, rat |-> at] /\ x.dir # "recv"
  BY <1>2 DEF Transfer
<1> HIDE DEF x
<1>7. Promise!Meet(g, at, q, x)
  BY <1>2, <1>4, <1>5, <1>6 DEF Promise!Meet, Promise!Message
<1>8. QED
  BY <1>3, <1>4, <1>7 DEF Promise!Next

\* A receiver takes the oldest message csendq left, or meets a sender.
LEMMA ReceiveMeets ==
  ASSUME IInv, Running, NEW c \in Chan, NEW at \in Places, NEW a, UNCHANGED arr,
         c \notin Chans(Sends(a)), SendersAt(c, sendalt),
         Receive(c, at, Mark(sendalt, Sends(a)), Mark(recvalt, Recvs(a)), a)
  PROVE  Promise!Next
<1>1. Mark(sendalt, Sends(a))[c] = sendalt[c]
  BY DEF Mark
<1>2. CASE sendalt[c] # NoProg \/ send[c] # << >>
  BY <1>1, <1>2, FetchMeets DEF Receive
<1>3. CASE ~(sendalt[c] # NoProg \/ send[c] # << >>)
  <2>1. /\ sendq[c] # << >>
        /\ FetchQueued(c, at, Mark(sendalt, Sends(a)), Mark(recvalt, Recvs(a)), a)
    BY <1>1, <1>3 DEF Receive, SendersAt
  <2>2. /\ sendq' = [sendq EXCEPT ![c] = Tail(@)]
        /\ Transfer(c, Head(sendq[c]), Alone, g, at)
        /\ UNCHANGED << pstate, waitVars >>
    BY <2>1 DEF FetchQueued
  <2>3. offersBar' = offersBar
    BY <2>2, OffersNow, OffersNext DEF waitVars
  <2>4. g \in Prog /\ offersBar[g] = {}
    BY CurrentOffers
  <2>5. Promise!Take(g, c, at)
    BY <2>1, <2>2, <2>3, <2>4 DEF Promise!Take, Promise!Message, Transfer
  <2>6. QED
    BY <2>4, <2>5 DEF Promise!Next
<1>4. QED
  BY <1>2, <1>3

\* The current Prog waits: what it offers, nobody was looking for.
LEMMA WaitStep ==
  ASSUME IInv, Running,
         \A p \in Prog \ {g} : /\ pstate'[p] = pstate[p] /\ chan'[p] = chan[p]
                               /\ alt'[p] = alt[p],
         arr' = arr, sendq' = sendq, last' = Silence,
         \A x \in OffersWith(arr, pstate'[g], chan'[g], alt'[g]) :
           /\ x.c \in Chan
           /\ \/ x.dir = "send" /\ ~ReceiversAt(x.c, recvalt)
              \/ x.dir = "recv" /\ ~SendersAt(x.c, sendalt)
  PROVE  Promise!Next
<1> DEFINE O == OffersWith(arr, pstate'[g], chan'[g], alt'[g])
<1>1. g \in Prog /\ offersBar[g] = {}
  BY CurrentOffers
<1>2. offersBar' = [offersBar EXCEPT ![g] = O]
  BY <1>1, OffersNow, OffersNext DEF OffersBy
<1>3. offersBar'[g] = O
  BY <1>1, <1>2, OffersNow DEF OffersBy
<1>4. ASSUME NEW x \in O
      PROVE  /\ \A q \in Prog : \A y \in offersBar[q] : ~(x.c = y.c /\ x.dir # y.dir)
             /\ x.dir = "recv" => sendq[x.c] = << >>
  <2>1. x.c \in Chan
    OBVIOUS
  <2>2. CASE x.dir = "send" /\ ~ReceiversAt(x.c, recvalt)
    BY <2>1, <2>2, NobodyThere
  <2>3. CASE x.dir = "recv" /\ ~SendersAt(x.c, sendalt)
    BY <2>1, <2>3, NobodyThere DEF SendersAt
  <2>4. QED
    BY <2>2, <2>3
<1> HIDE DEF O
<1>5. CASE O = {}
  <2>1. offersBar' = offersBar
    BY <1>1, <1>2, <1>5, OffersNow DEF OffersBy
  <2>2. QED
    BY <2>1 DEF Promise!Next, Promise!Quiet
<1>6. CASE O # {}
  <2>1. Promise!Wait(g)
    BY <1>1, <1>2, <1>3, <1>4, <1>6 DEF Promise!Wait, Promise!Matches
  <2>2. QED
    BY <1>1, <2>1 DEF Promise!Next
<1>7. QED
  BY <1>5, <1>6

\* delrun changes the state of the current Prog only.
LEMMA OnlyCurrent ==
  ASSUME IInv, Running, NEW st \in {"send", "recv", "alt"}, DelRun(st)
  PROVE  g \in Prog /\ pstate'[g] = st /\ \A p \in Prog \ {g} : pstate'[p] = pstate[p]
<1>1. Is("ready") /\ st \in PState \ {"ready", "exiting"} /\ g \in Prog
  BY Current DEF PState, Running
<1>2. QED
  BY <1>1, DelRunLists

\* send is a step of Rendezvous.
LEMMA IsendKeeps ==
  ASSUME IInv, NEW c \in Chan, Isend(c)
  PROVE  Promise!Next
<1>1. Running /\ arr' = arr
  BY DEF Isend
<1>2. CASE recv[c] = << >> /\ recvalt[c] = NoProg
  <2>1. /\ DelRun("send") /\ chan' = [chan EXCEPT ![g] = c] /\ last' = Silence
        /\ UNCHANGED << alt, sendq >> /\ chan \in [Prog -> Chan \cup {H}]
    BY <1>2 DEF Isend, IInv, TypeOK
  <2>2. g \in Prog /\ pstate'[g] = "send" /\ \A p \in Prog \ {g} : pstate'[p] = pstate[p]
    BY <1>1, <2>1, OnlyCurrent
  <2>3. chan'[g] = c /\ \A p \in Prog \ {g} : chan'[p] = chan[p]
    BY <2>1, <2>2
  <2>4. OffersWith(arr, pstate'[g], chan'[g], alt'[g]) = {[dir |-> "send", c |-> c, at |-> Alone]}
    BY <2>2, <2>3, OffersCases
  <2>5. \A x \in OffersWith(arr, pstate'[g], chan'[g], alt'[g]) :
          x.c \in Chan /\ x.dir = "send" /\ ~ReceiversAt(x.c, recvalt)
    BY <1>2, <2>4 DEF ReceiversAt
  <2>6. QED
    BY <1>1, <2>1, <2>2, <2>3, <2>5, WaitStep
<1>3. CASE ~(recv[c] = << >> /\ recvalt[c] = NoProg)
  <2>1. PassOn(c, Alone, sendalt, recvalt, NoAlt)
    BY <1>3 DEF Isend
  <2>2. PassOn(c, Alone, Mark(sendalt, Sends(NoAlt)), Mark(recvalt, Recvs(NoAlt)), NoAlt)
    BY <2>1, PlainMarks
  <2>3. ReceiversAt(c, recvalt)
    BY <1>3 DEF ReceiversAt
  <2>4. QED
    BY <1>1, <2>2, <2>3, PlainMarks, PlacesOf, PassOnMeets
<1>4. QED
  BY <1>2, <1>3

\* recv is a step of Rendezvous.
LEMMA IrecvKeeps ==
  ASSUME IInv, NEW c \in Chan, Irecv(c)
  PROVE  Promise!Next
<1>1. Running /\ arr' = arr
  BY DEF Irecv
<1>2. CASE send[c] = << >> /\ sendalt[c] = NoProg /\ sendq[c] = << >>
  <2>1. /\ DelRun("recv") /\ chan' = [chan EXCEPT ![g] = c] /\ last' = Silence
        /\ UNCHANGED << alt, sendq >> /\ chan \in [Prog -> Chan \cup {H}]
    BY <1>2 DEF Irecv, IInv, TypeOK
  <2>2. g \in Prog /\ pstate'[g] = "recv" /\ \A p \in Prog \ {g} : pstate'[p] = pstate[p]
    BY <1>1, <2>1, OnlyCurrent
  <2>3. chan'[g] = c /\ \A p \in Prog \ {g} : chan'[p] = chan[p]
    BY <2>1, <2>2
  <2>4. OffersWith(arr, pstate'[g], chan'[g], alt'[g]) = {[dir |-> "recv", c |-> c, at |-> Alone]}
    BY <2>2, <2>3, OffersCases
  <2>5. \A x \in OffersWith(arr, pstate'[g], chan'[g], alt'[g]) :
          x.c \in Chan /\ x.dir = "recv" /\ ~SendersAt(x.c, sendalt)
    BY <1>2, <2>4 DEF SendersAt
  <2>6. QED
    BY <1>1, <2>1, <2>2, <2>3, <2>5, WaitStep
<1>3. CASE ~(send[c] = << >> /\ sendalt[c] = NoProg /\ sendq[c] = << >>)
  <2>1. Receive(c, Alone, sendalt, recvalt, NoAlt)
    BY <1>3 DEF Irecv
  <2>2. Receive(c, Alone, Mark(sendalt, Sends(NoAlt)), Mark(recvalt, Recvs(NoAlt)), NoAlt)
    BY <2>1, PlainMarks
  <2>3. SendersAt(c, sendalt)
    BY <1>3 DEF SendersAt
  <2>4. QED
    BY <1>1, <2>2, <2>3, PlainMarks, PlacesOf, ReceiveMeets
<1>4. QED
  BY <1>2, <1>3

\* csendq is a step of Rendezvous.
LEMMA CsendqKeeps ==
  ASSUME IInv, NEW c \in Chan, Csendq(c)
  PROVE  Promise!Next
<1>1. Running /\ arr' = arr /\ g \in Prog /\ offersBar[g] = {}
  BY CurrentOffers DEF Csendq
<1>2. CASE recv[c] = << >> /\ recvalt[c] = NoProg
  <2>1. /\ sendq' = IF Len(sendq[c]) = Lim THEN sendq ELSE [sendq EXCEPT ![c] = Append(@, g)]
        /\ last' = Silence /\ UNCHANGED << pstate, waitVars >>
    BY <1>2 DEF Csendq
  <2>2. offersBar' = offersBar
    BY <1>1, <2>1, OffersNow, OffersNext DEF waitVars
  <2>3. CASE sendq' = sendq
    BY <2>1, <2>2, <2>3 DEF Promise!Next, Promise!Quiet
  <2>4. CASE sendq' = [sendq EXCEPT ![c] = Append(@, g)]
    <3>1. \A q \in Prog : \A x \in offersBar[q] : x.c = c => x.dir = "send"
      BY <1>2, NobodyThere DEF ReceiversAt
    <3>2. Promise!Put(g, c)
      BY <1>1, <2>1, <2>2, <2>4, <3>1 DEF Promise!Put
    <3>3. QED
      BY <1>1, <3>2 DEF Promise!Next
  <2>5. QED
    BY <2>1, <2>3, <2>4
<1>3. CASE ~(recv[c] = << >> /\ recvalt[c] = NoProg)
  <2>1. PassOn(c, Alone, sendalt, recvalt, NoAlt)
    BY <1>3 DEF Csendq
  <2>2. PassOn(c, Alone, Mark(sendalt, Sends(NoAlt)), Mark(recvalt, Recvs(NoAlt)), NoAlt)
    BY <2>1, PlainMarks
  <2>3. ReceiversAt(c, recvalt)
    BY <1>3 DEF ReceiversAt
  <2>4. QED
    BY <1>1, <2>2, <2>3, PlainMarks, PlacesOf, PassOnMeets
<1>4. QED
  BY <1>2, <1>3

\* alt and nbalt are steps of Rendezvous.
LEMMA XecaltKeeps ==
  ASSUME IInv, NEW a \in Alts, NEW block, Xecalt(a, block)
  PROVE  Promise!Next
<1> DEFINE sa == Mark(sendalt, Sends(a))
           ra == Mark(recvalt, Recvs(a))
<1>1. Running /\ ~AltError(a) /\ arr' = arr
  BY DEF Xecalt
<1>2. arr \in [Arr -> [1 .. ArrLen -> Chan \cup {H}]] /\ alt \in [Prog -> Alts \cup {NoAlt}]
  BY DEF IInv, TypeOK
<1>3. CASE /\ AltReady(a) = {} /\ block
           /\ DelRun("alt")
           /\ alt' = [alt EXCEPT ![g] = a]
           /\ last' = Silence
           /\ UNCHANGED << chan, sendq >>
  <2>1. g \in Prog /\ pstate'[g] = "alt" /\ \A p \in Prog \ {g} : pstate'[p] = pstate[p]
    BY <1>1, <1>3, OnlyCurrent
  <2>2. alt'[g] = a /\ \A p \in Prog \ {g} : alt'[p] = alt[p]
    BY <1>2, <1>3, <2>1
  <2>3. OffersWith(arr, pstate'[g], chan'[g], alt'[g]) =
          OffersIn("send", Sends(a)) \cup OffersIn("recv", Recvs(a))
    BY <2>1, <2>2, OffersCases, RecvsNow
  <2>4. \A x \in OffersIn("send", Sends(a)) :
          x.c \in Chan /\ x.dir = "send" /\ ~ReceiversAt(x.c, recvalt)
    BY <1>2, <1>3, AltChans DEF OffersIn, AltReady
  <2>5. \A x \in OffersIn("recv", Recvs(a)) :
          x.c \in Chan /\ x.dir = "recv" /\ ~SendersAt(x.c, sendalt)
    BY <1>2, <1>3, AltChans DEF OffersIn, AltReady
  <2>6. \A x \in OffersWith(arr, pstate'[g], chan'[g], alt'[g]) :
           /\ x.c \in Chan
           /\ \/ x.dir = "send" /\ ~ReceiversAt(x.c, recvalt)
              \/ x.dir = "recv" /\ ~SendersAt(x.c, sendalt)
    BY <2>3, <2>4, <2>5
  <2>7. QED
    BY <1>1, <1>3, <2>1, <2>2, <2>6, WaitStep
<1>4. CASE last' = Silence /\ UNCHANGED << pstate, waitVars, sendq >>
  BY <1>1, <1>4, QuietStep DEF waitVars
<1>5. ASSUME NEW e \in AltChoices(a),
             IF e \in Sends(a) THEN PassOn(e.c, e.at, sa, ra, a) ELSE Receive(e.c, e.at, sa, ra, a)
      PROVE  Promise!Next
  <2>1. e \in AltReady(a)
    BY <1>1, <1>2, ChoicesReady
  <2>2. CASE e \in Sends(a)
    <3>1. e \notin Recvs(a)
      BY <2>2, AltPlaces
    <3>2. e.c \in Chan /\ e.c \notin Chans(Recvs(a)) /\ ReceiversAt(e.c, recvalt)
      BY <1>1, <1>2, <2>1, <2>2, <3>1, AltChans, NoClash DEF AltReady
    <3>3. PassOn(e.c, e.at, Mark(sendalt, Sends(a)), Mark(recvalt, Recvs(a)), a)
      BY <1>5, <2>2
    <3>4. e.at \in Places
      BY <2>2, PlacesOf
    <3>5. QED
      BY <1>1, <3>2, <3>3, <3>4, PassOnMeets
  <2>3. CASE e \notin Sends(a)
    <3>1. e \in Recvs(a) /\ SendersAt(e.c, sendalt)
      BY <2>1, <2>3 DEF AltReady
    <3>2. e.c \in Chan /\ e.c \notin Chans(Sends(a))
      BY <1>1, <1>2, <3>1, AltChans, NoClash
    <3>3. Receive(e.c, e.at, Mark(sendalt, Sends(a)), Mark(recvalt, Recvs(a)), a)
      BY <1>5, <2>3
    <3>4. e.at \in Places
      BY <3>1, PlacesOf
    <3>5. QED
      BY <1>1, <3>1, <3>2, <3>3, <3>4, ReceiveMeets
  <2>4. QED
    BY <2>2, <2>3
<1>6. QED
  BY <1>3, <1>4, <1>5 DEF Xecalt

\* The errors, and a Prog that exits.
LEMMA RestKeeps ==
  ASSUME IInv, Is("ready") \/ Is("exiting"),
         \A p \in Prog \ {g} : pstate'[p] = pstate[p],
         pstate'[g] \in {"ready", "exiting", "broken", "gone"},
         UNCHANGED << waitVars, sendq, arr >>, last' = Silence
  PROVE  Promise!Next
<1>1. g \in Prog /\ pstate[g] \in {"ready", "exiting"}
  BY Current
<1>2. chan' = chan /\ alt' = alt /\ arr' = arr /\ sendq' = sendq
  BY DEF waitVars
<1>3. \A p \in Prog : OffersWith(arr', pstate'[p], chan'[p], alt'[p]) =
                      OffersWith(arr, pstate[p], chan[p], alt[p])
  <2>1. OffersWith(arr, pstate'[g], chan[g], alt[g]) = {} /\ OffersWith(arr, pstate[g], chan[g], alt[g]) = {}
    BY <1>1, OffersCases
  <2>2. QED
    BY <1>2, <2>1
<1>4. QED
  BY <1>2, <1>3, QuietStep

\* raise leaves the offers alone: a Prog that raises an error has none.
LEMMA RaiseKeeps ==
  ASSUME IInv, Is("ready"), Raise
  PROVE  Promise!Next
<1>1. g \in Prog /\ pstate \in [Prog -> PState] /\ pstate[g] = "ready"
  BY Current DEF IInv, TypeOK
<1>2. /\ pstate'[g] \in {"ready", "exiting", "broken", "gone"}
      /\ \A p \in Prog \ {g} : pstate'[p] = pstate[p]
  BY <1>1 DEF Raise, DelRun
<1>3. UNCHANGED << waitVars, sendq, arr >> /\ last' = Silence
  BY DEF Raise
<1>4. QED
  BY <1>2, <1>3, RestKeeps

\* Who offered something on the channel that goes offers nothing more.
LEMMA FreechanKeeps ==
  ASSUME IInv, NEW c \in Chan, Freechan(c)
  PROVE  Promise!Next
<1> DEFINE woken == AltGone(c) \o send[c] \o recv[c]
           A == {sendalt[c], recvalt[c]} \ {NoProg}
           W == (A \cup Blocked(pstate, chan, "send", c)) \cup Blocked(pstate, chan, "recv", c)
<1>1. /\ Lists(send[c], Blocked(pstate, chan, "send", c))
      /\ Lists(recv[c], Blocked(pstate, chan, "recv", c))
      /\ Lists(AltGone(c), A) /\ \A p \in A : p \in Prog /\ pstate[p] = "alt"
  BY AltGoneLists DEF IInv, Queued
<1>2. {woken[i] : i \in 1 .. Len(woken)} = W
  <2>1. A \cap Blocked(pstate, chan, "send", c) = {}
    BY <1>1 DEF Blocked
  <2>2. (A \cup Blocked(pstate, chan, "send", c)) \cap Blocked(pstate, chan, "recv", c) = {}
    BY <1>1 DEF Blocked
  <2>3. Lists(AltGone(c) \o send[c], A \cup Blocked(pstate, chan, "send", c))
    BY <1>1, <2>1, ListsConcat
  <2>4. Lists((AltGone(c) \o send[c]) \o recv[c], W)
    BY <1>1, <2>2, <2>3, ListsConcat
  <2>5. QED
    BY <2>4 DEF Lists, Elems
<1>3. /\ pstate' = [q \in Prog |-> IF q \in W THEN "ready" ELSE pstate[q]]
      /\ chan' = [q \in Prog |-> IF q \in W THEN H ELSE chan[q]]
      /\ alt' = [q \in Prog |-> IF q \in W THEN NoAlt ELSE alt[q]]
      /\ sendq' = [sendq EXCEPT ![c] = << >>]
      /\ last' = Silence /\ arr' = arr
  BY <1>2 DEF Freechan
<1>4. ASSUME NEW p \in Prog
      PROVE  p \in W <=> \E x \in offersBar[p] : x.c = c
  <2>1. ASSUME NEW x \in offersBar[p], x.c = c
        PROVE  p \in W
    <3>1. p # NoProg
      BY ChanAssumption
    <3>2. QED
      BY <2>1, <3>1, OfferFrom DEF Blocked
  <2>2. CASE p \in Blocked(pstate, chan, "send", c) \/ p \in Blocked(pstate, chan, "recv", c)
    <3>1. pstate[p] \in {"send", "recv"} /\ chan[p] = c
      BY <2>2 DEF Blocked
    <3>2. OffersWith(arr, pstate[p], chan[p], alt[p]) = {[dir |-> pstate[p], c |-> c, at |-> Alone]}
      BY <3>1, OffersCases
    <3>3. offersBar[p] = {[dir |-> pstate[p], c |-> c, at |-> Alone]}
      BY <3>2, OffersNow DEF OffersBy
    <3>4. QED
      BY <2>2, <3>3
  <2>3. CASE p \in A
    <3>1. /\ pstate[p] = "alt"
          /\ c \in Chans(Sends(alt[p])) \/ c \in Chans(RecvsIn(arr, alt[p]))
      BY <2>3, MarkSays, RecvsNow
    <3>2. OffersWith(arr, pstate[p], chan[p], alt[p]) =
            OffersIn("send", Sends(alt[p])) \cup OffersIn("recv", RecvsIn(arr, alt[p]))
      BY <3>1, OffersCases
    <3>3. \A dir, E : c \in Chans(E) => \E x \in OffersIn(dir, E) : x.c = c
      <4>1. SUFFICES ASSUME NEW dir, NEW E, NEW e \in E, e.c = c
                     PROVE  \E x \in OffersIn(dir, E) : x.c = c
        BY DEF Chans
      <4>2. [dir |-> dir, c |-> e.c, at |-> e.at] \in OffersIn(dir, E)
        BY DEF OffersIn
      <4>3. QED
        BY <4>1, <4>2
    <3>4. \E x \in OffersWith(arr, pstate[p], chan[p], alt[p]) : x.c = c
      BY <3>1, <3>2, <3>3
    <3>5. offersBar[p] = OffersWith(arr, pstate[p], chan[p], alt[p])
      BY OffersNow DEF OffersBy
    <3>6. QED
      BY <2>3, <3>4, <3>5
  <2>4. QED
    BY <2>1, <2>2, <2>3
<1> HIDE DEF W
<1>5. ASSUME NEW p \in Prog
      PROVE  OffersWith(arr', pstate'[p], chan'[p], alt'[p]) =
               IF p \in W THEN {} ELSE OffersWith(arr, pstate[p], chan[p], alt[p])
  <2>1. CASE p \in W
    <3>1. pstate'[p] = "ready"
      BY <1>3, <2>1
    <3>2. QED
      BY <2>1, <3>1, OffersCases
  <2>2. CASE p \notin W
    BY <1>3, <2>2
  <2>3. QED
    BY <2>1, <2>2
<1>6. offersBar' = [p \in Prog |-> IF \E x \in offersBar[p] : x.c = c THEN {} ELSE offersBar[p]]
  <2>1. ASSUME NEW p \in Prog
        PROVE  offersBar'[p] = IF \E x \in offersBar[p] : x.c = c THEN {} ELSE offersBar[p]
    BY <1>4, <1>5, OffersNow, OffersNext DEF OffersBy
  <2>2. QED
    BY <2>1, OffersNext DEF OffersBy
<1>7. Promise!Hangup(c)
  BY <1>3, <1>6 DEF Promise!Hangup
<1>8. QED
  BY <1>7 DEF Promise!Next

\* spawn leaves the offers alone.
LEMMA SpawnKeeps ==
  ASSUME IInv, NEW q \in Prog, Spawn(q)
  PROVE  Promise!Next
<1>1. /\ pstate[q] = "none" /\ pstate' = [pstate EXCEPT ![q] = "ready"] /\ last' = Silence
      /\ chan' = chan /\ alt' = alt /\ arr' = arr /\ sendq' = sendq /\ pstate \in [Prog -> PState]
  BY DEF Spawn, waitVars, chanVars, IInv, TypeOK
<1>2. pstate'[q] = "ready" /\ \A p \in Prog \ {q} : pstate'[p] = pstate[p]
  BY <1>1
<1>3. OffersWith(arr, pstate'[q], chan[q], alt[q]) = {} /\ OffersWith(arr, pstate[q], chan[q], alt[q]) = {}
  BY <1>1, <1>2, OffersCases
<1>4. \A p \in Prog : OffersWith(arr', pstate'[p], chan'[p], alt'[p]) =
                      OffersWith(arr, pstate[p], chan[p], alt[p])
  BY <1>1, <1>2, <1>3
<1>5. QED
  BY <1>1, <1>4, QuietStep

\* A pointer to a channel, assigned while no Prog waits on its array, is in no offer.
LEMMA StoreKeeps ==
  ASSUME IInv, StoresWhileWaiting = FALSE,
         NEW a \in Arr, NEW i \in 1 .. ArrLen, NEW c \in Chan \cup {H}, Store(a, i, c)
  PROVE  Promise!Next
<1>1. /\ arr' = [arr EXCEPT ![a][i] = c] /\ last' = Silence
      /\ \A q \in Prog : \A n \in DOMAIN alt[q].recvs : alt[q].recvs[n] # a
      /\ pstate' = pstate /\ chan' = chan /\ alt' = alt /\ sendq' = sendq
      /\ arr \in [Arr -> [1 .. ArrLen -> Chan \cup {H}]]
  BY DEF Store, waitVars, chanVars, IInv, TypeOK
<1>2. \A b \in Arr \ {a} : arr'[b] = arr[b]
  BY <1>1
<1>3. ASSUME NEW q \in Prog
      PROVE  RecvsIn(arr', alt[q]) = RecvsIn(arr, alt[q])
  <2>1. \A n \in DOMAIN alt[q].recvs : alt[q].recvs[n] \in Arr =>
          arr'[alt[q].recvs[n]] = arr[alt[q].recvs[n]]
    BY <1>1, <1>2
  <2>2. QED
    BY <2>1, RecvsElsewhere
<1>4. \A p \in Prog : OffersWith(arr', pstate[p], chan[p], alt[p]) =
                      OffersWith(arr, pstate[p], chan[p], alt[p])
  BY <1>3 DEF OffersWith
<1>5. QED
  BY <1>1, <1>4, QuietStep

\* Initially nobody offers anything.
LEMMA InitKeeps == Init => Promise!Init
<1> SUFFICES ASSUME Init PROVE Promise!Init
  OBVIOUS
<1>1. \A p \in Prog : pstate[p] \notin {"send", "recv", "alt"}
  BY DEF Init
<1>2. \A p \in Prog : OffersWith(arr, pstate[p], chan[p], alt[p]) = {}
  BY <1>1, OffersCases
<1>3. offersBar = [p \in Prog |-> {}]
  BY <1>2, OffersNow DEF OffersBy
<1>4. QED
  BY <1>3 DEF Init, Promise!Init

\* Every step of the channels is one of Rendezvous, or leaves it alone.
LEMMA NextKeeps ==
  ASSUME IInv, StoresWhileWaiting = FALSE, [Next]_vars
  PROVE  [Promise!Next]_(Promise!vars)
<1>1. CASE UNCHANGED vars
  <2>1. UNCHANGED << pstate, chan, alt, sendq, arr, last >>
    BY <1>1 DEF vars, schedVars, waitVars, chanVars
  <2>2. offersBar' = offersBar
    BY <2>1, OffersNow, OffersNext
  <2>3. QED
    BY <2>1, <2>2 DEF Promise!vars
<1>2. CASE Communicate
  BY <1>2, IsendKeeps, IrecvKeeps, CsendqKeeps, XecaltKeeps DEF Communicate
<1>3. ASSUME NEW c \in Chan, LastReference(c)
      PROVE  Promise!Next
  BY <1>3, FreechanKeeps DEF LastReference
<1>4. CASE Other
  BY <1>4, QuietStep DEF Other, waitVars, chanVars
<1>5. CASE Instruction
  BY <1>2, <1>3, <1>4, <1>5, SpawnKeeps, StoreKeeps DEF Instruction
<1>6. CASE Error \/ KillError \/ \E a \in Alts : XecaltError(a)
  BY <1>6, RaiseKeeps DEF Error, KillError, XecaltError, Running
<1>7. CASE ProgExit
  <2>1. /\ Is("exiting") /\ DelRun("gone") /\ last' = Silence
        /\ UNCHANGED << waitVars, sendq, arr >>
    BY <1>7 DEF ProgExit, chanVars
  <2>2. pstate'[g] = "gone" /\ \A p \in Prog \ {g} : pstate'[p] = pstate[p]
    BY <2>1, DelRunLists DEF PState
  <2>3. QED
    BY <2>1, <2>2, RestKeeps
<1>8. CASE Rest
  BY <1>1, <1>8 DEF Rest
<1>9. QED
  BY <1>1, <1>3, <1>5, <1>6, <1>7, <1>8 DEF Next

\* Every behaviour of the channels, with their queues, marks and woken Progs,
\* is one of Rendezvous: who waits offered what nobody was looking for, and a
\* communication takes all offers of the partner back, passes the message on
\* at the place that was offered, or passes on the oldest message left.
THEOREM RendezvousImplemented ==
  ASSUME StoresWhileWaiting = FALSE
  PROVE  Spec => ImplementsRendezvous
<1>1. IInv /\ [Next]_vars => [Promise!Next]_(Promise!vars)
  BY NextKeeps
<1>2. Init => Promise!Init
  BY InitKeeps
<1>3. Spec => []IInv
  BY Invariance
<1>4. QED
  BY <1>1, <1>2, <1>3, PTL DEF Spec, ImplementsRendezvous, Promise!Spec
=============================================================================
