------------------------------ MODULE DisChan ------------------------------
(***************************************************************************)
(* Channels between Dis programs: send, recv and alt                       *)
(* (src/dis/interp/xec.c, src/dis/interp/alt.c), csendq, the hangup of a   *)
(* channel that is freed (freechan of src/dis/interp/heap.c, killcomm and  *)
(* altgone), and the run queue that decides who executes                   *)
(* (src/dis/kernel/dis.c).                                                 *)
(*                                                                         *)
(* An instruction is one action: the Progs share one VM, and only the head *)
(* of the run queue executes.  A message is named by the Prog that sent    *)
(* it; what mover() copies, and where to, is the variable last.            *)
(*                                                                         *)
(* A definition marked VARIANT is not part of the model: it is the         *)
(* definition after it with one slip in the code, for checking that a      *)
(* property notices.                                                       *)
(***************************************************************************)
EXTENDS Naturals, Sequences

CONSTANTS Prog, Chan,
          Arr,       \* arrays of channels
          NoProg,    \* nil in a Prog*
          H,         \* nil in a channel reference
          Silence,   \* no message
          ArrLen,    \* elements of an array
          Alts,      \* the alts the Progs execute: records [sends, recvs]
          Quanta,    \* instructions in a slice (Prog.quanta)
          Lim,       \* the limit csendq is called with
          StoresWhileWaiting  \* may an array change while an alt waits on it?

ASSUME ChanAssumption ==
  /\ NoProg \notin Prog /\ H \notin Chan \cup Arr /\ Chan \cap Arr = {}
  /\ ArrLen \in Nat /\ Quanta \in Nat \ {0} /\ Lim \in Nat
  /\ Alts \subseteq [sends : Seq(Chan \cup {H}), recvs : Seq(Chan \cup Arr \cup {H})]
  /\ StoresWhileWaiting \in BOOLEAN

VARIABLES
  runq,     \* the list isched.runhd of ready Progs
  ic,       \* R.IC: instructions left in the slice
  pstate,   \* [Prog -> PState]: Prog.state
  kill,     \* [Prog -> BOOLEAN]: Prog.kill # nil
  chan,     \* [Prog -> Chan or H]: the channel of a blocked send or recv
  alt,      \* [Prog -> alt]: the Alt a blocked Prog points to with R.s
  send,     \* [Chan -> Seq(Prog)]: Channel.send, linked by Prog.comm
  recv,     \* [Chan -> Seq(Prog)]: Channel.recv
  sendalt,  \* [Chan -> Prog or NoProg]: Channel.sendalt
  recvalt,  \* [Chan -> Prog or NoProg]: Channel.recvalt
  sendq,    \* [Chan -> Seq(Prog)]: Channel.sendq
  arr,      \* [Arr -> [1 .. ArrLen -> Chan or H]]
  last      \* the message the latest step copied, and from where to where

schedVars == <<runq, ic, pstate, kill>>
waitVars  == <<chan, alt>>
chanVars  == <<send, recv, sendalt, recvalt, sendq>>
vars == <<schedVars, waitVars, chanVars, arr, last>>

PState == {"none", "ready", "send", "recv", "alt", "exiting", "broken", "gone"}

NoAlt == [sends |-> <<>>, recvs |-> <<>>]

\* Where a Prog communicates: the alternative and, for an array, its element.
Alone == <<0, 0>>

g == Head(runq)

Is(st) == runq # <<>> /\ pstate[g] = st

\* VARIANT: xec does not look at kill.
RunningUnkilled == Is("ready")

\* The current Prog executes an instruction; xec would have raised kill.
Running == Is("ready") /\ ~kill[g]

(***************************************************************************)
(* The alternatives of an alt, as pairs of a channel and a place.          *)
(***************************************************************************)
Sends(a) ==
  {[c |-> a.sends[n], at |-> <<n, 0>>] : n \in {m \in DOMAIN a.sends : a.sends[m] # H}}

Recvs(a) ==
  LET k == Len(a.sends) IN
  {[c |-> a.recvs[n], at |-> <<k + n, 0>>] :
     n \in {m \in DOMAIN a.recvs : a.recvs[m] \in Chan}}
  \cup
  {[c |-> arr[a.recvs[x[1]]][x[2]], at |-> <<k + x[1], x[2]>>] :
     x \in {y \in (DOMAIN a.recvs) \X (1 .. ArrLen) :
              a.recvs[y[1]] \in Arr /\ arr[a.recvs[y[1]]][y[2]] # H}}

Chans(E) == {e.c : e \in E}

\* VARIANT: the place of some alternative, not of the one with channel c.
AtAny(E, c) == IF E # {} THEN (CHOOSE e \in E : TRUE).at ELSE Alone

\* The place of channel c among the alternatives E of who waits; a Prog that
\* is not in an alt waits Alone.
At(E, c) == IF c \in Chans(E) THEN (CHOOSE e \in E : e.c = c).at ELSE Alone

(***************************************************************************)
(* The run queue.                                                          *)
(***************************************************************************)

\* VARIANT: R.IC is not set again for the next slice.
EndInstrOnce(q) ==
  /\ ic' = ic - 1
  /\ runq' = IF ic = 1 THEN Append(Tail(q), Head(q)) ELSE q

\* VARIANT: no rotation.
EndInstrInPlace(q) ==
  /\ ic' = IF ic = 1 THEN Quanta ELSE ic - 1
  /\ runq' = q

\* The current instruction is done and q is the run queue: R.IC counts it,
\* and at zero vmachine rotates the queue.
EndInstr(q) ==
  /\ ic' = IF ic = 1 THEN Quanta ELSE ic - 1
  /\ runq' = IF ic = 1 THEN Append(Tail(q), Head(q)) ELSE q

\* delrun, and R.IC = 1 ends the slice.
DelRun(st) ==
  /\ pstate' = [pstate EXCEPT ![g] = st]
  /\ runq' = Tail(runq)
  /\ ic' = Quanta

Transfer(c, from, sat, to, rat) ==
  last' = [c |-> c, from |-> from, sat |-> sat, to |-> to, rat |-> rat]

\* q's communication is done: addrun, and its place in memory is dead.
WakePeer(q) ==
  /\ pstate' = [pstate EXCEPT ![q] = "ready"]
  /\ EndInstr(Append(runq, q))
  /\ chan' = [chan EXCEPT ![q] = H]
  /\ alt' = [alt EXCEPT ![q] = NoAlt]

\* VARIANT: whose mark it is is not tested.
UnmarkAll(f, q, E) == [c \in Chan |-> IF c \in Chans(E) THEN NoProg ELSE f[c]]

\* altdone: q takes its marks f off the channels of the alternatives E.
Unmark(f, q, E) ==
  [c \in Chan |-> IF c \in Chans(E) /\ f[c] = q THEN NoProg ELSE f[c]]

(***************************************************************************)
(* isend and irecv with a partner: sa and ra are the alt marks, own is the *)
(* alt of the current Prog (NoAlt for a plain send or recv), which is      *)
(* taken off the channels last.                                            *)
(***************************************************************************)

\* VARIANT: the receiver stays on recv.
PassOnKeeps(c, at, sa, ra, own) ==
  LET q == IF ra[c] # NoProg THEN ra[c] ELSE Head(recv[c]) IN
  /\ sendalt' = Unmark(Unmark(sa, q, Sends(alt[q])), g, Sends(own))
  /\ recvalt' = Unmark(Unmark([ra EXCEPT ![c] = IF @ = q THEN NoProg ELSE @],
                              q, Recvs(alt[q])), g, Recvs(own))
  /\ Transfer(c, g, at, q, At(Recvs(alt[q]), c))
  /\ WakePeer(q)
  /\ UNCHANGED <<kill, send, recv, sendq>>

PassOn(c, at, sa, ra, own) ==
  LET q == IF ra[c] # NoProg THEN ra[c] ELSE Head(recv[c]) IN
  /\ recv' = IF ra[c] # NoProg THEN recv ELSE [recv EXCEPT ![c] = Tail(@)]
  /\ sendalt' = Unmark(Unmark(sa, q, Sends(alt[q])), g, Sends(own))
  /\ recvalt' = Unmark(Unmark([ra EXCEPT ![c] = IF @ = q THEN NoProg ELSE @],
                              q, Recvs(alt[q])), g, Recvs(own))
  /\ Transfer(c, g, at, q, At(Recvs(alt[q]), c))
  /\ WakePeer(q)
  /\ UNCHANGED <<kill, send, sendq>>

Fetch(c, at, sa, ra, own) ==
  LET q == IF sa[c] # NoProg THEN sa[c] ELSE Head(send[c]) IN
  /\ send' = IF sa[c] # NoProg THEN send ELSE [send EXCEPT ![c] = Tail(@)]
  /\ sendalt' = Unmark(Unmark([sa EXCEPT ![c] = IF @ = q THEN NoProg ELSE @],
                              q, Sends(alt[q])), g, Sends(own))
  /\ recvalt' = Unmark(Unmark(ra, q, Recvs(alt[q])), g, Recvs(own))
  /\ Transfer(c, q, At(Sends(alt[q]), c), g, at)
  /\ WakePeer(q)
  /\ UNCHANGED <<kill, recv, sendq>>

\* irecv takes the oldest element of sendq when nobody is blocked in send.
FetchQueued(c, at, sa, ra, own) ==
  /\ sendq' = [sendq EXCEPT ![c] = Tail(@)]
  /\ sendalt' = Unmark(sa, g, Sends(own))
  /\ recvalt' = Unmark(ra, g, Recvs(own))
  /\ Transfer(c, Head(sendq[c]), Alone, g, at)
  /\ EndInstr(runq)
  /\ UNCHANGED <<pstate, kill, waitVars, send, recv>>

\* irecv with somebody or something there.
Receive(c, at, sa, ra, own) ==
  IF sa[c] # NoProg \/ send[c] # <<>> THEN Fetch(c, at, sa, ra, own)
                                      ELSE FetchQueued(c, at, sa, ra, own)

(***************************************************************************)
(* isend, irecv, csendq.                                                   *)
(***************************************************************************)

\* VARIANT: the Prog goes to the head of the queue.
IsendAtHead(c) ==
  /\ Running
  /\ IF recv[c] = <<>> /\ recvalt[c] = NoProg
     THEN /\ DelRun("send")
          /\ chan' = [chan EXCEPT ![g] = c]
          /\ send' = [send EXCEPT ![c] = <<g>> \o @]
          /\ last' = Silence
          /\ UNCHANGED <<kill, alt, recv, sendalt, recvalt, sendq>>
     ELSE PassOn(c, Alone, sendalt, recvalt, NoAlt)
  /\ UNCHANGED arr

Isend(c) ==
  /\ Running
  /\ IF recv[c] = <<>> /\ recvalt[c] = NoProg
     THEN /\ DelRun("send")
          /\ chan' = [chan EXCEPT ![g] = c]
          /\ send' = [send EXCEPT ![c] = Append(@, g)]
          /\ last' = Silence
          /\ UNCHANGED <<kill, alt, recv, sendalt, recvalt, sendq>>
     ELSE PassOn(c, Alone, sendalt, recvalt, NoAlt)
  /\ UNCHANGED arr

Irecv(c) ==
  /\ Running
  /\ IF send[c] = <<>> /\ sendalt[c] = NoProg /\ sendq[c] = <<>>
     THEN /\ DelRun("recv")
          /\ chan' = [chan EXCEPT ![g] = c]
          /\ recv' = [recv EXCEPT ![c] = Append(@, g)]
          /\ last' = Silence
          /\ UNCHANGED <<kill, alt, send, sendalt, recvalt, sendq>>
     ELSE Receive(c, Alone, sendalt, recvalt, NoAlt)
  /\ UNCHANGED arr

\* A native call of the current Prog sends without waiting.
Csendq(c) ==
  /\ Running
  /\ IF recv[c] = <<>> /\ recvalt[c] = NoProg
     THEN /\ sendq' = IF Len(sendq[c]) = Lim THEN sendq
                      ELSE [sendq EXCEPT ![c] = Append(@, g)]
          /\ last' = Silence
          /\ EndInstr(runq)
          /\ UNCHANGED <<pstate, kill, waitVars, send, recv, sendalt, recvalt>>
     ELSE PassOn(c, Alone, sendalt, recvalt, NoAlt)
  /\ UNCHANGED arr

(***************************************************************************)
(* xecalt.  altrdy marks every channel of the alt as this Prog's, unless   *)
(* the alt is in error, and counts the channels that are ready; altcomm    *)
(* counts them again, to find the one chosen; altdone removes the marks.   *)
(***************************************************************************)
SendersAt(c, sa) == send[c] # <<>> \/ sa[c] # NoProg \/ sendq[c] # <<>>

ReceiversAt(c, ra) == recv[c] # <<>> \/ ra[c] # NoProg

Mark(f, E) == [c \in Chan |-> IF c \in Chans(E) /\ f[c] = NoProg THEN g ELSE f[c]]

\* VARIANT: a channel may be there twice.
AltErrorTwice(a) ==
  \/ \E n \in DOMAIN a.sends : a.sends[n] = H
  \/ \E n \in DOMAIN a.recvs : a.recvs[n] = H
  \/ \E e \in Sends(a) : sendalt[e.c] # NoProg
  \/ \E e \in Recvs(a) : recvalt[e.c] # NoProg

\* A nil channel, one twice or in both directions, or one in another alt.
AltError(a) ==
  \/ \E n \in DOMAIN a.sends : a.sends[n] = H
  \/ \E n \in DOMAIN a.recvs : a.recvs[n] = H
  \/ \E e \in Sends(a) : sendalt[e.c] # NoProg
  \/ \E e \in Recvs(a) : recvalt[e.c] # NoProg
  \/ \E d, e \in Sends(a) \cup Recvs(a) : d # e /\ d.c = e.c

\* VARIANT: a plain receiver does not make a channel ready.
AltReadyByAlt(a) == {e \in Recvs(a) : SendersAt(e.c, sendalt)}
                    \cup {e \in Sends(a) : recvalt[e.c] # NoProg}

\* What altrdy counts: the marks it sees are those of other Progs.
AltReady(a) == {e \in Recvs(a) : SendersAt(e.c, sendalt)}
               \cup {e \in Sends(a) : ReceiversAt(e.c, recvalt)}

\* What altcomm counts: by now the channels bear this Prog's marks.
AltChoices(a) ==
  {e \in Recvs(a) : SendersAt(e.c, Mark(sendalt, Sends(a)))}
  \cup {e \in Sends(a) : ReceiversAt(e.c, Mark(recvalt, Recvs(a)))}

Xecalt(a, block) ==
  LET sa == Mark(sendalt, Sends(a))
      ra == Mark(recvalt, Recvs(a)) IN
  /\ Running
  /\ ~AltError(a)
  /\ \/ /\ AltReady(a) = {} /\ block
        /\ DelRun("alt")
        /\ alt' = [alt EXCEPT ![g] = a]
        /\ sendalt' = sa /\ recvalt' = ra
        /\ last' = Silence
        /\ UNCHANGED <<kill, chan, send, recv, sendq>>
     \/ /\ AltReady(a) = {} /\ ~block
        /\ sendalt' = Unmark(sa, g, Sends(a)) /\ recvalt' = Unmark(ra, g, Recvs(a))
        /\ EndInstr(runq)
        /\ last' = Silence
        /\ UNCHANGED <<pstate, kill, waitVars, send, recv, sendq>>
     \/ /\ AltReady(a) # {}
        /\ \E e \in AltChoices(a) :
             IF e \in Sends(a) THEN PassOn(e.c, e.at, sa, ra, a)
                               ELSE Receive(e.c, e.at, sa, ra, a)
  /\ UNCHANGED arr

(***************************************************************************)
(* Errors.  vmachine's error loop finds a handler, and the Prog goes on    *)
(* with a new slice; or progexit breaks it, or destroys its stack, which   *)
(* may hang channels up, and deletes it.                                   *)
(***************************************************************************)
Raise ==
  /\ \/ ic' = Quanta /\ UNCHANGED <<runq, pstate>>
     \/ DelRun("broken")
     \/ pstate' = [pstate EXCEPT ![g] = "exiting"] /\ UNCHANGED <<runq, ic>>
  /\ last' = Silence
  /\ UNCHANGED <<waitVars, send, recv, sendq, arr>>

\* Any instruction.
Error ==
  /\ Running
  /\ Raise
  /\ UNCHANGED <<kill, sendalt, recvalt>>

\* altrdy fails after it has set some marks.
XecaltError(a) ==
  /\ Running
  /\ AltError(a)
  /\ sendalt' = Unmark(Mark(sendalt, Sends(a)), g, Sends(a))
  /\ recvalt' = Unmark(Mark(recvalt, Recvs(a)), g, Recvs(a))
  /\ Raise
  /\ UNCHANGED kill

\* xec: a Prog that was hung up starts its slice with the error.
KillError ==
  /\ Is("ready") /\ kill[g]
  /\ kill' = [kill EXCEPT ![g] = FALSE]
  /\ Raise
  /\ UNCHANGED <<sendalt, recvalt>>

ProgExit ==
  /\ Is("exiting")
  /\ DelRun("gone")
  /\ last' = Silence
  /\ UNCHANGED <<kill, waitVars, chanVars, arr>>

(***************************************************************************)
(* freechan: the last reference to c goes, in an instruction, in           *)
(* destroystack or, when no Prog is ready, in the garbage collector.       *)
(* altgone and killcomm wake who waits on c with an error.  The channel    *)
(* allocated next may have the address of c.                               *)
(***************************************************************************)
Waiting(q) == q # NoProg /\ pstate[q] = "alt"

AltGone(c) ==
  (IF Waiting(sendalt[c]) THEN <<sendalt[c]>> ELSE <<>>) \o
  (IF Waiting(recvalt[c]) /\ recvalt[c] # sendalt[c] THEN <<recvalt[c]>> ELSE <<>>)

Freechan(c) ==
  LET woken == AltGone(c) \o send[c] \o recv[c]
      W == {woken[i] : i \in 1 .. Len(woken)}
      Undo(f, E(_)) ==
        [d \in Chan |-> IF d = c \/ (f[d] \in W /\ d \in Chans(E(alt[f[d]])))
                        THEN NoProg ELSE f[d]] IN
  /\ \A a \in Arr : \A i \in 1 .. ArrLen : arr[a][i] # c   \* a reference
  /\ pstate' = [q \in Prog |-> IF q \in W THEN "ready" ELSE pstate[q]]
  /\ kill' = [q \in Prog |-> q \in W \/ kill[q]]
  /\ chan' = [q \in Prog |-> IF q \in W THEN H ELSE chan[q]]
  /\ alt' = [q \in Prog |-> IF q \in W THEN NoAlt ELSE alt[q]]
  /\ sendalt' = Undo(sendalt, Sends) /\ recvalt' = Undo(recvalt, Recvs)
  /\ send' = [send EXCEPT ![c] = <<>>]
  /\ recv' = [recv EXCEPT ![c] = <<>>]
  /\ sendq' = [sendq EXCEPT ![c] = <<>>]
  /\ IF Running THEN EndInstr(runq \o woken)
                ELSE runq' = runq \o woken /\ UNCHANGED ic
  /\ last' = Silence
  /\ UNCHANGED arr

LastReference(c) ==
  /\ Running \/ Is("exiting") \/ runq = <<>>
  /\ Freechan(c)

(***************************************************************************)
(* Other instructions of the current Prog.                                 *)
(***************************************************************************)
Spawn(q) ==
  /\ Running
  /\ pstate[q] = "none"
  /\ pstate' = [pstate EXCEPT ![q] = "ready"]
  /\ EndInstr(Append(runq, q))
  /\ last' = Silence
  /\ UNCHANGED <<kill, waitVars, chanVars, arr>>

\* A store into an array of channels.
Store(a, i, c) ==
  /\ Running
  /\ StoresWhileWaiting \/ \A q \in Prog : \A n \in DOMAIN alt[q].recvs : alt[q].recvs[n] # a
  /\ arr' = [arr EXCEPT ![a][i] = c]
  /\ EndInstr(runq)
  /\ last' = Silence
  /\ UNCHANGED <<pstate, kill, waitVars, chanVars>>

Other ==
  /\ Running
  /\ EndInstr(runq)
  /\ last' = Silence
  /\ UNCHANGED <<pstate, kill, waitVars, chanVars, arr>>

Init ==
  /\ \E p \in Prog : /\ runq = <<p>>
                     /\ pstate = [q \in Prog |-> IF q = p THEN "ready" ELSE "none"]
  /\ ic = Quanta
  /\ kill = [p \in Prog |-> FALSE]
  /\ chan = [p \in Prog |-> H] /\ alt = [p \in Prog |-> NoAlt]
  /\ send = [c \in Chan |-> <<>>] /\ recv = [c \in Chan |-> <<>>]
  /\ sendalt = [c \in Chan |-> NoProg] /\ recvalt = [c \in Chan |-> NoProg]
  /\ sendq = [c \in Chan |-> <<>>]
  /\ arr = [a \in Arr |-> [i \in 1 .. ArrLen |-> H]]
  /\ last = Silence

Communicate ==
  \/ \E c \in Chan : Isend(c) \/ Irecv(c) \/ Csendq(c)
  \/ \E a \in Alts : Xecalt(a, TRUE) \/ Xecalt(a, FALSE)

Instruction ==
  \/ Communicate
  \/ \E c \in Chan : Running /\ LastReference(c)
  \/ \E q \in Prog : Spawn(q)
  \/ \E a \in Arr, i \in 1 .. ArrLen, c \in Chan \cup {H} : Store(a, i, c)
  \/ Other

\* The VM sleeps.
Rest == runq = <<>> /\ UNCHANGED vars

Next ==
  \/ Instruction
  \/ Error \/ KillError \/ ProgExit
  \/ \E a \in Alts : XecaltError(a)
  \/ \E c \in Chan : ~Running /\ LastReference(c)
  \/ Rest

Spec == Init /\ [][Next]_vars

\* vmachine goes on while a Prog is ready, and a Prog does not raise and
\* handle errors for ever: that would not even end its slice.
Fairness == WF_vars(Instruction) /\ WF_vars(KillError) /\ WF_vars(ProgExit)

FairSpec == Spec /\ Fairness
-----------------------------------------------------------------------------
(***************************************************************************)
(* Properties.                                                             *)
(***************************************************************************)
Elems(q) == {q[i] : i \in 1 .. Len(q)}

NoDup(q) == \A i, j \in 1 .. Len(q) : q[i] = q[j] => i = j

\* Every variable has its type.
TypeOK ==
  /\ runq \in Seq(Prog) /\ ic \in 1 .. Quanta
  /\ pstate \in [Prog -> PState] /\ kill \in [Prog -> BOOLEAN]
  /\ chan \in [Prog -> Chan \cup {H}] /\ alt \in [Prog -> Alts \cup {NoAlt}]
  /\ send \in [Chan -> Seq(Prog)] /\ recv \in [Chan -> Seq(Prog)]
  /\ sendalt \in [Chan -> Prog \cup {NoProg}] /\ recvalt \in [Chan -> Prog \cup {NoProg}]
  /\ sendq \in [Chan -> Seq(Prog)]
  /\ arr \in [Arr -> [1 .. ArrLen -> Chan \cup {H}]]
  /\ last = Silence \/ last.to \in Prog

\* A Prog is on the run queue, once, exactly if it can run: no hangup,
\* completed communication or new offer makes one ready twice, which would
\* cut the list, or leaves one out.
ReadyOnce ==
  /\ NoDup(runq)
  /\ \A p \in Prog : p \in Elems(runq) <=> pstate[p] \in {"ready", "exiting"}
  /\ \A p \in Prog : kill[p] => pstate[p] = "ready"

\* A Prog blocked in send or recv is on the queue of its channel, once, and
\* those queues hold no other Prog.
WaitersQueued ==
  \A c \in Chan :
    /\ NoDup(send[c]) /\ NoDup(recv[c])
    /\ \A p \in Prog : /\ p \in Elems(send[c]) <=> pstate[p] = "send" /\ chan[p] = c
                       /\ p \in Elems(recv[c]) <=> pstate[p] = "recv" /\ chan[p] = c

\* A channel's alt marks name a Prog that waits in an alt on that channel in
\* that direction, and every channel of a waiting alt is marked.
AltMarks ==
  \A c \in Chan, p \in Prog :
    /\ sendalt[c] = p <=> pstate[p] = "alt" /\ c \in Chans(Sends(alt[p]))
    /\ recvalt[c] = p <=> pstate[p] = "alt" /\ c \in Chans(Recvs(alt[p]))

\* recvalt is the "single prog waiting to receive in ALT", and sendalt the
\* one waiting to send.
AltMarkWaits ==
  \A c \in Chan : \A p \in {sendalt[c], recvalt[c]} \ {NoProg} : pstate[p] = "alt"

\* Nobody waits to receive on a channel while somebody waits to send on it
\* or a message is queued, however the plain, alt and asynchronous forms
\* are mixed.
NoMissedMeeting ==
  \A c \in Chan : ~(SendersAt(c, sendalt) /\ ReceiversAt(c, recvalt))

\* altcomm finds the alternatives altrdy counted: else the one that is
\* chosen by number might not exist, or be one that is not ready.
AltCountsAgree ==
  Running => \A a \in Alts : ~AltError(a) => AltChoices(a) = AltReady(a)

\* A Prog whose channel was hung up gets to know it.
HangupNoticed == \A p \in Prog : kill[p] ~> ~kill[p]

\* A channel in use does not starve a Prog blocked in send: send is a queue.
\* (An alt that sends is preferred to it, and can: none is in this run.)
SendersServed ==
  \A c \in Chan, p \in Prog :
    []<>(last # Silence /\ last.c = c)
      => (pstate[p] = "send" /\ chan[p] = c ~> pstate[p] # "send")

(***************************************************************************)
(* Channels keep the promise of Rendezvous.                                *)
(***************************************************************************)
OffersIn(dir, E) == {[dir |-> dir, c |-> e.c, at |-> e.at] : e \in E}

offersBar ==
  [p \in Prog |->
     CASE pstate[p] \in {"send", "recv"} ->
            {[dir |-> pstate[p], c |-> chan[p], at |-> Alone]}
       [] pstate[p] = "alt" ->
            OffersIn("send", Sends(alt[p])) \cup OffersIn("recv", Recvs(alt[p]))
       [] OTHER -> {}]

Places ==
  (UNION {0 .. Len(a.sends) + Len(a.recvs) : a \in Alts \cup {NoAlt}}) \X (0 .. ArrLen)

Promise == INSTANCE Rendezvous WITH offers <- offersBar, buffer <- sendq,
                                    Place <- Places

\* Every behaviour of the channels is one of Rendezvous.
ImplementsRendezvous == Promise!Spec
=============================================================================
