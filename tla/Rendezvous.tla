----------------------------- MODULE Rendezvous -----------------------------
(***************************************************************************)
(* What Dis channels promise.  A Prog that cannot communicate waits with a *)
(* set of offers: one for send or recv, one per alternative for alt.  A    *)
(* communication pairs an offer of the Prog that runs with a matching one  *)
(* of a Prog that waits, takes all offers of the latter back and transfers *)
(* the message; nobody waits while a partner does.  A message is named by  *)
(* the Prog that sent it.                                                  *)
(***************************************************************************)
EXTENDS Naturals, Sequences

CONSTANTS Prog, Chan,
          Place,     \* where in its send, recv or alt a Prog communicates
          Alone,     \* the Place of a plain send or recv
          Silence

VARIABLES offers,   \* [Prog -> set of offers], {} for a Prog that runs
          buffer,   \* [Chan -> Seq(Prog)]: messages sent without waiting
          last      \* the message the latest step transferred, or Silence

vars == <<offers, buffer, last>>

Matches(o1, o2) == o1.c = o2.c /\ o1.dir # o2.dir

Message(c, from, sat, to, rat) ==
  [c |-> c, from |-> from, sat |-> sat, to |-> to, rat |-> rat]

Init ==
  /\ offers = [p \in Prog |-> {}]
  /\ buffer = [c \in Chan |-> <<>>]
  /\ last = Silence

\* p waits: no Prog offers what p looks for, and no message is there.
Wait(p) ==
  /\ last' = Silence
  /\ offers[p] = {} /\ offers'[p] # {}
  /\ \A o \in offers'[p] :
       /\ \A q \in Prog : \A x \in offers[q] : ~Matches(o, x)
       /\ o.dir = "recv" => buffer[o.c] = <<>>
  /\ offers' = [offers EXCEPT ![p] = offers'[p]]
  /\ UNCHANGED buffer

\* p, at place `at`, communicates with q, which waits with offer x.
Meet(p, at, q, x) ==
  /\ last' = IF x.dir = "recv" THEN Message(x.c, p, at, q, x.at)
                               ELSE Message(x.c, q, x.at, p, at)
  /\ offers[p] = {}
  /\ offers' = [offers EXCEPT ![q] = {}]
  /\ UNCHANGED buffer

\* p leaves a message: nobody waits for it.
Put(p, c) ==
  /\ last' = Silence
  /\ buffer' = [buffer EXCEPT ![c] = Append(@, p)]
  /\ offers[p] = {}
  /\ \A q \in Prog : \A x \in offers[q] : x.c = c => x.dir = "send"
  /\ UNCHANGED offers

\* p receives the oldest message left on c.
Take(p, c, at) ==
  /\ buffer[c] # <<>>
  /\ last' = Message(c, Head(buffer[c]), Alone, p, at)
  /\ buffer' = [buffer EXCEPT ![c] = Tail(@)]
  /\ offers[p] = {}
  /\ UNCHANGED offers

\* c goes away, with its messages; who waits for it waits no more.
Hangup(c) ==
  /\ last' = Silence
  /\ buffer' = [buffer EXCEPT ![c] = <<>>]
  /\ offers' = [p \in Prog |-> IF \E x \in offers[p] : x.c = c THEN {} ELSE offers[p]]

Quiet == last' = Silence /\ UNCHANGED <<offers, buffer>>

Next ==
  \/ Quiet
  \/ \E p \in Prog, c \in Chan : Put(p, c)
  \/ \E p \in Prog, c \in Chan, at \in Place : Take(p, c, at)
  \/ \E q \in Prog : \E x \in offers[q] : \E p \in Prog, at \in Place : Meet(p, at, q, x)
  \/ \E p \in Prog : Wait(p)
  \/ \E c \in Chan : Hangup(c)

Spec == Init /\ [][Next]_vars
=============================================================================
