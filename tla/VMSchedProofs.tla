--------------------------- MODULE VMSchedProofs ---------------------------
(***************************************************************************)
(* Theorems about VMSched for every set of Procs and Progs.                *)
(***************************************************************************)
EXTENDS VMSched, FiniteSetTheorems, SequenceTheorems, TLAPS

(***************************************************************************)
(* Queues.  Every operation of the code on vmq is one of: link a new       *)
(* element after the true tail, push a new head, pop the head.             *)
(***************************************************************************)

\* The last element of a queue.
LastIs(q, t) == q # <<>> => t = q[Len(q)]

\* Linking after any tail pointer gives a queue with the same head.
LEMMA LinkAfterType ==
  ASSUME NEW S, NEW q \in Seq(S), NEW t, NEW e \in S
  PROVE  /\ LinkAfter(q, t, e) \in Seq(S)
         /\ LinkAfter(q, t, e) # <<>>
         /\ q # <<>> => Head(LinkAfter(q, t, e)) = Head(q)
<1>1. CASE q = <<>>
  BY <1>1 DEF LinkAfter
<1>2. CASE q # <<>> /\ \E i \in 1 .. Len(q) : q[i] = t
  <2> DEFINE n == CHOOSE i \in 1 .. Len(q) : q[i] = t
             s == SubSeq(q, 1, n)
  <2>1. n \in 1 .. Len(q)
    BY <1>2
  <2> HIDE DEF n
  <2>2. s \in Seq(S) /\ Len(s) = n /\ s[1] = q[1]
    <3>1. \A i \in 1 .. n : q[i] \in S
      BY <2>1, ElementOfSeq
    <3>2. n \in Int /\ 1 <= n /\ Len(q) \in Nat
      BY <2>1, LenProperties
    <3>. QED  BY <3>1, <3>2, SubSeqProperties
  <2> HIDE DEF s
  <2>3. LinkAfter(q, t, e) = Append(s, e)
    BY <1>2 DEF LinkAfter, n, s
  <2>4. s # <<>>
    BY <2>1, <2>2
  <2>. QED  BY <1>2, <2>2, <2>3, <2>4
<1>3. CASE q # <<>> /\ ~ \E i \in 1 .. Len(q) : q[i] = t
  BY <1>3 DEF LinkAfter
<1>. QED  BY <1>1, <1>2, <1>3

\* Linking after the true tail appends.
LEMMA LinkAfterLast ==
  ASSUME NEW S, NEW q \in Seq(S), NEW t, NEW e \in S,
         NoDup(q), LastIs(q, t)
  PROVE  LinkAfter(q, t, e) = Append(q, e)
<1>1. CASE q = <<>>
  BY <1>1 DEF LinkAfter
<1>2. CASE q # <<>>
  <2>1. Len(q) \in Nat \ {0} /\ q[Len(q)] = t
    BY <1>2, EmptySeq DEF LastIs
  <2>2. \A i \in 1 .. Len(q) : q[i] = t => i = Len(q)
    BY <2>1 DEF NoDup
  <2>3. (CHOOSE i \in 1 .. Len(q) : q[i] = t) = Len(q)
    BY <2>1, <2>2
  <2>4. SubSeq(q, 1, Len(q)) = q
    BY SubSeqFull
  <2>5. \E i \in 1 .. Len(q) : q[i] = t
    <3>1. Len(q) \in 1 .. Len(q)
      BY <2>1
    <3>. QED  BY <2>1, <3>1
  <2>6. LinkAfter(q, t, e) = Append(SubSeq(q, 1, Len(q)), e)
    BY <1>2, <2>3, <2>5 DEF LinkAfter
  <2>. QED  BY <2>4, <2>6
<1>. QED  BY <1>1, <1>2

\* Appending an element at the right tail gives the elements once each.
LEMMA AppendQueue ==
  ASSUME NEW S, NEW q \in Seq(S), NEW e \in S
  PROVE  /\ Append(q, e) \in Seq(S)
         /\ Elems(Append(q, e)) = Elems(q) \cup {e}
         /\ LastIs(Append(q, e), e)
         /\ NoDup(q) /\ e \notin Elems(q) => NoDup(Append(q, e))
  BY DEF Elems, NoDup, LastIs

\* Taking the head off leaves the other elements, once each.
LEMMA PopQueue ==
  ASSUME NEW S, NEW q \in Seq(S), q # <<>>
  PROVE  /\ Head(q) \in S /\ Tail(q) \in Seq(S)
         /\ Elems(q) = Elems(Tail(q)) \cup {Head(q)}
         /\ NoDup(q) => NoDup(Tail(q)) /\ Head(q) \notin Elems(Tail(q))
         /\ \A t : LastIs(q, t) => LastIs(Tail(q), t)
<1>1. /\ Head(q) \in S /\ Tail(q) \in Seq(S) /\ Len(Tail(q)) = Len(q) - 1
      /\ \A i \in 1 .. Len(Tail(q)) : Tail(q)[i] = q[i + 1]
      /\ Len(q) \in Nat \ {0} /\ Head(q) = q[1]
  BY HeadTailProperties, EmptySeq
<1>2. Elems(q) = Elems(Tail(q)) \cup {Head(q)}
  <2>1. \A i \in 1 .. Len(q) : q[i] \in Elems(Tail(q)) \cup {Head(q)}
    <3>. SUFFICES ASSUME NEW i \in 1 .. Len(q), i # 1
                  PROVE  q[i] \in Elems(Tail(q))
      BY <1>1
    <3>1. i - 1 \in 1 .. Len(Tail(q)) /\ Tail(q)[i - 1] = q[i]
      BY <1>1
    <3>. QED  BY <3>1 DEF Elems
  <2>2. \A i \in 1 .. Len(Tail(q)) : Tail(q)[i] \in Elems(q)
    BY <1>1 DEF Elems
  <2>3. Head(q) \in Elems(q)
    BY <1>1 DEF Elems
  <2>. QED  BY <2>1, <2>2, <2>3 DEF Elems
<1>3. NoDup(q) => NoDup(Tail(q)) /\ Head(q) \notin Elems(Tail(q))
  BY <1>1 DEF NoDup, Elems
<1>4. \A t : LastIs(q, t) => LastIs(Tail(q), t)
  <2>1. Tail(q) # <<>> => Len(Tail(q)) \in Nat \ {0}
    BY <1>1, EmptySeq
  <2>. QED  BY <1>1, <2>1 DEF LastIs
<1>. QED  BY <1>1, <1>2, <1>3, <1>4

\* So does pushing a new element in front.
LEMMA PushQueue ==
  ASSUME NEW S, NEW q \in Seq(S), NEW e \in S
  PROVE  /\ PushHead(q, e) \in Seq(S) /\ PushHead(q, e) # <<>>
         /\ Head(PushHead(q, e)) = e
         /\ Elems(PushHead(q, e)) = Elems(q) \cup {e}
         /\ NoDup(q) /\ e \notin Elems(q) => NoDup(PushHead(q, e))
         /\ \A t : LastIs(q, t) => LastIs(PushHead(q, e), IF q = <<>> THEN e ELSE t)
<1> DEFINE r == PushHead(q, e)
<1>1. /\ r \in Seq(S) /\ Len(r) = Len(q) + 1 /\ r[1] = e /\ Len(q) \in Nat
      /\ \A i \in 1 .. Len(q) : r[i + 1] = q[i]
      /\ \A i \in 1 .. Len(r) : i # 1 => i - 1 \in 1 .. Len(q) /\ r[i] = q[i - 1]
  BY DEF PushHead
<1>2. r # <<>> /\ Head(r) = e
  BY <1>1
<1> HIDE DEF r
<1>3. Elems(r) = Elems(q) \cup {e}
  <2>1. \A i \in 1 .. Len(r) : r[i] \in Elems(q) \cup {e}
    BY <1>1 DEF Elems
  <2>2. \A i \in 1 .. Len(q) : i + 1 \in 1 .. Len(r) /\ r[i + 1] = q[i]
    BY <1>1
  <2>3. e \in Elems(r)
    BY <1>1 DEF Elems
  <2>. QED  BY <2>1, <2>2, <2>3, ZenonT(60) DEF Elems
<1>4. NoDup(q) /\ e \notin Elems(q) => NoDup(r)
  <2>. SUFFICES ASSUME NoDup(q), e \notin Elems(q),
                       NEW i \in 1 .. Len(r), NEW j \in 1 .. Len(r), r[i] = r[j]
                PROVE  i = j
    BY DEF NoDup
  <2>1. CASE i = 1 \/ j = 1
    BY <2>1, <1>1 DEF Elems
  <2>2. CASE i # 1 /\ j # 1
    <3>1. i - 1 \in 1 .. Len(q) /\ j - 1 \in 1 .. Len(q) /\ q[i - 1] = q[j - 1]
      BY <2>2, <1>1
    <3>2. i - 1 = j - 1
      BY <3>1 DEF NoDup
    <3>. QED  BY <3>2
  <2>. QED  BY <2>1, <2>2
<1>5. ASSUME NEW t, LastIs(q, t)
      PROVE  LastIs(r, IF q = <<>> THEN e ELSE t)
  <2>1. CASE q = <<>>
    BY <2>1, <1>1 DEF LastIs
  <2>2. CASE q # <<>>
    <3>1. Len(q) \in 1 .. Len(q)
      BY <2>2, <1>1, EmptySeq
    <3>. QED  BY <2>2, <3>1, <1>1, <1>5 DEF LastIs
  <2>. QED  BY <2>1, <2>2
<1>. QED  BY <1>1, <1>2, <1>3, <1>4, <1>5 DEF r

(***************************************************************************)
(* The inductive invariant.                                                *)
(***************************************************************************)

\* vmq holds exactly the Procs that wait for the VM and are not being given
\* it, with the one that is giving it up and will wait next.
QueueInv ==
  /\ NoDup(vmq) /\ LastIs(vmq, vmqt)
  /\ \A p \in Elems(vmq) : p \in Proc /\ pc[p] \in VMWaitPc \cup {"give"}
  /\ \A p \in Proc : /\ pc[p] \in VMWaitPc => p \in Elems(vmq) \/ Given(p)
                     /\ pc[p] = "give" => p \in Elems(vmq)

\* The VM is handed to a Proc taken off vmq that waits for it.
GiveInv ==
  \A g \in Proc : pc[g] \in GivePc =>
    hand[g] \in Proc /\ hand[g] \notin Elems(vmq) /\ pc[hand[g]] \in VMWaitPc

\* irend.p is asleep; a waker holds irend.l and is the only one.
WakeInv ==
  /\ irendP # NoProc => pc[irendP] = "ksleep"
  /\ \A w \in Proc : pc[w] \in {"wake", "wakeunl"} => irendL = w
  /\ \A w \in Proc : pc[w] = "wake" =>
       irendP = NoProc /\ hand[w] \in Proc /\ pc[hand[w]] = "ksleep"

\* Who waits in a rendezvous came there with that tag.
RzInv ==
  \A t \in Proc : rz[t] # NoProc => pc[rz[t]] \in RvPc /\ Tag(rz[t]) = t

\* What the code relies on at each point of the owner and of native calls.
OwnInv ==
  \A p \in Proc :
    /\ pc[p] = "iyield" => yield # 0
    /\ pc[p] \in {"xec", "ret", "error"} => runq # <<>>
    /\ pc[p] \in {"xec", "ret"} =>
         cur[p] \in Prog /\ Head(runq) = cur[p] /\ regs = cur[p]
    /\ pc[p] \in NativePc => cur[p] \in Prog /\ iprog[p] = cur[p]

\* The part about Procs, queues and rendezvous.
ProcInv == OneVM /\ QueueInv /\ GiveInv /\ WakeInv /\ RzInv /\ NoLostWakeup

IInv == TypeOK /\ ProcInv /\ OwnInv

\* The invariant holds initially.
LEMMA InitIInv == Init => IInv
<1>. SUFFICES ASSUME Init PROVE IInv
  OBVIOUS
<1>. USE NilAssumption
<1>1. PICK f \in Proc : pc = [q \in Proc |-> IF q = f THEN "startup" ELSE "none"]
  BY DEF Init
<1>2. PICK g \in Prog : /\ runq = <<g>> /\ runtl = g
                        /\ pstate = [h \in Prog |-> IF h = g THEN "ready" ELSE "none"]
  BY DEF Init
<1>3. TypeOK
  <2>1. pc \in [Proc -> PC]
    BY <1>1 DEF PC
  <2>2. runq \in Seq(Prog) /\ runtl \in Prog /\ pstate \in [Prog -> PState]
    BY <1>2 DEF PState
  <2>3. vmq \in Seq(Proc) /\ raised \in [Proc -> BOOLEAN] /\ yield \in Nat
    BY DEF Init
  <2>. QED  BY <2>1, <2>2, <2>3 DEF Init, TypeOK
<1>4. \A p \in Proc : pc[p] \in {"startup", "none"}
  BY <1>1
<1>5. OneVM
  BY <1>4 DEF Init, OneVM, Token, OwnerPc, GivePc
<1>6. Elems(vmq) = {} /\ NoDup(vmq) /\ LastIs(vmq, vmqt)
  BY DEF Init, Elems, NoDup, LastIs
<1>7. QueueInv /\ GiveInv
  BY <1>4, <1>6 DEF QueueInv, GiveInv, VMWaitPc, GivePc, AcqPc
<1>8. WakeInv /\ RzInv /\ NoLostWakeup
  BY <1>4 DEF Init, WakeInv, RzInv, NoLostWakeup
<1>9. OwnInv
  BY <1>4 DEF OwnInv, NativePc, AcqPc
<1>. QED  BY <1>3, <1>5, <1>7, <1>8, <1>9 DEF IInv, ProcInv

(***************************************************************************)
(* Steps of the owner that leave queues and rendezvous alone.              *)
(***************************************************************************)
OwnerMove(p) ==
  /\ pc[p] \in OwnerPc \ {"ksleep"}
  /\ \E l \in OwnerPc \ {"ksleep"} : pc' = [pc EXCEPT ![p] = l]
  /\ UNCHANGED <<idle, vmq, vmqt, hand, rz, irendVars>>

\* A step of the owner that stays owner and touches neither queue nor rendezvous.
LEMMA OwnerMoveProcInv ==
  ASSUME NEW p \in Proc, IInv, OwnerMove(p)
  PROVE  ProcInv'
<1>. USE NilAssumption
<1>1. TypeOK /\ OneVM /\ QueueInv /\ GiveInv /\ WakeInv /\ RzInv /\ NoLostWakeup
  BY DEF IInv, ProcInv
<1>2. PICK l \in OwnerPc \ {"ksleep"} : pc' = [pc EXCEPT ![p] = l]
  BY DEF OwnerMove
<1>3. /\ pc \in [Proc -> PC] /\ pc[p] \in OwnerPc \ {"ksleep"}
      /\ UNCHANGED <<idle, vmq, vmqt, hand, rz, irendP, irendL>>
  BY <1>1 DEF OwnerMove, irendVars, TypeOK
<1>4. /\ \A q \in Proc : q # p => pc'[q] = pc[q]
      /\ pc'[p] = l
  BY <1>2, <1>3
<1>5. irendP = NoProc
  BY <1>1, <1>3 DEF NoLostWakeup, TypeOK, OneVM, Token, OwnerPc
<1>6. OneVM'
  BY <1>1, <1>3, <1>4 DEF OneVM, Token, OwnerPc, GivePc
<1>7. QueueInv'
  <2>1. \A q \in Proc : Given(q) <=> Given(q)'
    BY <1>3, <1>4 DEF Given, OwnerPc, GivePc
  <2>2. \A q \in Elems(vmq) : q # p
    BY <1>1, <1>3 DEF QueueInv, OwnerPc, VMWaitPc, AcqPc
  <2>3. l \notin VMWaitPc \cup {"give"}
    BY DEF OwnerPc, VMWaitPc, AcqPc
  <2>. QED  BY <1>1, <1>3, <1>4, <2>1, <2>2, <2>3 DEF QueueInv
<1>8. GiveInv'
  BY <1>1, <1>3, <1>4 DEF GiveInv, OwnerPc, GivePc, VMWaitPc, AcqPc
<1>9. WakeInv'
  BY <1>1, <1>3, <1>4, <1>5 DEF WakeInv, OwnerPc
<1>10. RzInv'
  <2>. SUFFICES ASSUME NEW t \in Proc, rz[t] # NoProc
                PROVE  pc'[rz[t]] \in RvPc /\ Tag(rz[t])' = t
    BY <1>3 DEF RzInv
  <2>1. rz[t] \in Proc /\ pc[rz[t]] \in RvPc /\ Tag(rz[t]) = t
    BY <1>1 DEF RzInv, TypeOK
  <2>2. rz[t] # p
    BY <1>3, <2>1 DEF OwnerPc, RvPc, GivePc
  <2>. QED  BY <1>3, <1>4, <2>1, <2>2 DEF Tag
<1>11. NoLostWakeup'
  BY <1>3, <1>5 DEF NoLostWakeup
<1>. QED  BY <1>6, <1>7, <1>8, <1>9, <1>10, <1>11 DEF ProcInv

(***************************************************************************)
(* Types.                                                                  *)
(***************************************************************************)
LEMMA EndSliceType ==
  ASSUME NEW p \in Proc, NEW q \in Seq(Prog), NEW tl \in Prog \cup {NoProg},
         TypeOK, cur[p] \in Prog, EndSlice(p, q, tl)
  PROVE  /\ runq' \in Seq(Prog) /\ runtl' \in Prog \cup {NoProg}
         /\ cur' \in [Proc -> Prog \cup {NoProg}]
<1>1. q # <<>> => Tail(q) \in Seq(Prog)
  BY PopQueue
<1>2. q # <<>> => LinkAfter(Tail(q), tl, cur[p]) \in Seq(Prog)
  BY <1>1, LinkAfterType
<1>. QED  BY <1>2 DEF EndSlice, TypeOK

\* addrun keeps the types.
LEMMA AddRunType ==
  ASSUME NEW g \in Prog, TypeOK, AddRun(g)
  PROVE  /\ runq' \in Seq(Prog) /\ runtl' \in Prog
         /\ pstate' \in [Prog -> PState]
         /\ runq # <<>> => runq' # <<>> /\ Head(runq') = Head(runq)
<1>1. /\ LinkAfter(runq, runtl, g) \in Seq(Prog)
      /\ LinkAfter(runq, runtl, g) # <<>>
      /\ runq # <<>> => Head(LinkAfter(runq, runtl, g)) = Head(runq)
  BY LinkAfterType DEF TypeOK
<1>. QED  BY <1>1 DEF AddRun, TypeOK, PState

\* delrun keeps the types.
LEMMA DelRunType ==
  ASSUME NEW st \in PState, TypeOK, runq # <<>>, DelRun(st)
  PROVE  /\ runq' \in Seq(Prog) /\ runtl' \in Prog \cup {NoProg}
         /\ pstate' \in [Prog -> PState] /\ Head(runq) \in Prog
<1>1. Head(runq) \in Prog /\ Tail(runq) \in Seq(Prog)
  BY PopQueue DEF TypeOK
<1>. QED  BY <1>1 DEF DelRun, TypeOK

\* After() stays inside the program points.
LEMMA AfterPC == \A l \in PC : After(l) \in PC
  BY DEF After, PC, OwnerPc, GivePc, VMWaitPc, NativePc, AcqPc

\* Every step keeps the types.
LEMMA TypeStep ==
  ASSUME IInv, [Next]_vars
  PROVE  TypeOK'
<1>. USE NilAssumption
<1>0. TypeOK /\ OwnInv
  BY DEF IInv
<1>1. ASSUME NEW p \in Proc, RendezvousWait(p)
      PROVE  TypeOK'
  BY <1>0, <1>1 DEF RendezvousWait, TypeOK, lockVars, progVars, irendVars
<1>2. ASSUME NEW p \in Proc, RendezvousMeet(p)
      PROVE  TypeOK'
  <2>1. PICK q \in Proc :
          /\ pc' = [x \in Proc |-> IF x \in {p, q} THEN After(pc[x]) ELSE pc[x]]
          /\ hand' = [hand EXCEPT ![p] = NoProc, ![q] = NoProc]
    BY <1>2 DEF RendezvousMeet
  <2>2. pc' \in [Proc -> PC]
    BY <1>0, <2>1, AfterPC DEF TypeOK
  <2>3. hand' \in [Proc -> Proc \cup {NoProc}] /\ rz' \in [Proc -> Proc \cup {NoProc}]
    BY <1>0, <1>2, <2>1 DEF RendezvousMeet, TypeOK
  <2>. QED  BY <1>0, <1>2, <2>2, <2>3 DEF RendezvousMeet, TypeOK, lockVars, progVars,
         irendVars
<1>3. ASSUME NEW p \in Proc, Startup(p)
      PROVE  TypeOK'
  <2>1. LinkAfter(vmq, vmqt, p) \in Seq(Proc)
    BY <1>0, LinkAfterType DEF TypeOK
  <2>. QED  BY <1>0, <1>3, <2>1 DEF Startup, Goto, TypeOK, lockVars, progVars,
         irendVars, PC, OwnerPc, VMWaitPc
<1>4. ASSUME NEW p \in Proc, LoopTop(p) \/ ExecAtIdle(p) \/ MemLow(p) \/ YieldCheck(p) \/ Sleep(p)
      PROVE  TypeOK'
  BY <1>0, <1>4 DEF LoopTop, ExecAtIdle, MemLow, YieldCheck, Sleep, Goto, TypeOK, lockVars,
     progVars, irendVars, PC, OwnerPc
<1>5. ASSUME NEW p \in Proc, IYield(p)
      PROVE  TypeOK'
  <2>1. yield - 1 \in Nat
    BY <1>0, <1>5 DEF IYield, OwnInv, TypeOK
  <2>2. vmq # <<>> => Head(vmq) \in Proc /\ LinkAfter(Tail(vmq), vmqt, p) \in Seq(Proc)
    BY <1>0, PopQueue, LinkAfterType DEF TypeOK
  <2>3. pc' \in [Proc -> PC]
    BY <1>0, <1>5 DEF IYield, Goto, TypeOK, PC, OwnerPc, GivePc
  <2>4. /\ vmq' \in Seq(Proc) /\ vmqt' \in Proc \cup {NoProc}
        /\ hand' \in [Proc -> Proc \cup {NoProc}] /\ yield' \in Nat
    <3>1. CASE vmq = <<>>
      BY <1>0, <1>5, <2>1, <3>1 DEF IYield, TypeOK
    <3>2. CASE vmq # <<>>
      <4>1. /\ hand' = [hand EXCEPT ![p] = Head(vmq)] /\ yield' = yield - 1
            /\ vmq' = LinkAfter(Tail(vmq), vmqt, p) /\ vmqt' = p
        BY <1>5, <3>2 DEF IYield
      <4>. QED  BY <1>0, <2>1, <2>2, <3>2, <4>1 DEF TypeOK
    <3>. QED  BY <3>1, <3>2
  <2>. QED  BY <1>0, <1>5, <2>3, <2>4 DEF IYield, TypeOK, progVars, irendVars
<1>6. ASSUME NEW p \in Proc, Slice(p)
      PROVE  TypeOK'
  <2>1. runq # <<>> => Head(runq) \in Prog
    BY <1>0, PopQueue DEF TypeOK
  <2>. QED  BY <1>0, <1>6, <2>1 DEF Slice, Goto, TypeOK, lockVars, irendVars, PC, OwnerPc
<1>7. ASSUME NEW p \in Proc, Spawn(p) \/ ReadyPeer(p)
      PROVE  TypeOK'
  <2>1. PICK g \in Prog : AddRun(g)
    BY <1>7 DEF Spawn, ReadyPeer
  <2>2. runq' \in Seq(Prog) /\ runtl' \in Prog /\ pstate' \in [Prog -> PState]
    BY <1>0, <2>1, AddRunType
  <2>. QED  BY <1>0, <1>7, <2>2 DEF Spawn, ReadyPeer, TypeOK, lockVars, irendVars
<1>8. ASSUME NEW p \in Proc, BlockSelf(p)
      PROVE  TypeOK'
  <2>1. runq # <<>> /\ cur[p] \in Prog
    BY <1>0, <1>8 DEF BlockSelf, OwnInv
  <2>2. Head(runq) \in Prog /\ Tail(runq) \in Seq(Prog)
    BY <1>0, <2>1, PopQueue DEF TypeOK
  <2>3. EndSlice(p, Tail(runq), IF Tail(runq) = <<>> THEN NoProg ELSE runtl)
    BY <1>8 DEF BlockSelf
  <2>4. /\ runq' \in Seq(Prog) /\ runtl' \in Prog \cup {NoProg}
        /\ cur' \in [Proc -> Prog \cup {NoProg}]
    BY <1>0, <2>1, <2>2, <2>3, EndSliceType DEF TypeOK
  <2>. QED  BY <1>0, <1>8, <2>2, <2>4 DEF BlockSelf, Goto, TypeOK, lockVars, irendVars,
         PC, OwnerPc, PState
<1>9. ASSUME NEW p \in Proc, QuantaEnd(p)
      PROVE  TypeOK'
  <2>1. /\ runq' \in Seq(Prog) /\ runtl' \in Prog \cup {NoProg}
        /\ cur' \in [Proc -> Prog \cup {NoProg}]
    BY <1>0, <1>9, EndSliceType DEF TypeOK, OwnInv, QuantaEnd
  <2>. QED  BY <1>0, <1>9, <2>1 DEF QuantaEnd, Goto, TypeOK, lockVars, irendVars,
         PC, OwnerPc
<1>10. ASSUME NEW p \in Proc, Release(p)
       PROVE  TypeOK'
  <2>1. /\ runq' \in Seq(Prog) /\ runtl' \in Prog \cup {NoProg}
        /\ pstate' \in [Prog -> PState] /\ Head(runq) \in Prog
    BY <1>0, <1>10, DelRunType DEF Release, OwnInv, PState
  <2>2. vmq # <<>> => Head(vmq) \in Proc /\ Tail(vmq) \in Seq(Proc)
    BY <1>0, PopQueue DEF TypeOK
  <2>3. pc' \in [Proc -> PC]
    BY <1>0, <1>10 DEF Release, Goto, TypeOK, PC, GivePc, NativePc
  <2>4. /\ vmq' \in Seq(Proc) /\ hand' \in [Proc -> Proc \cup {NoProc}]
        /\ idle' \in BOOLEAN /\ creating' \in BOOLEAN
    <3>1. CASE vmq = <<>>
      BY <1>0, <1>10, <3>1 DEF Release, TypeOK
    <3>2. CASE vmq # <<>>
      <4>1. /\ hand' = [hand EXCEPT ![p] = Head(vmq)] /\ vmq' = Tail(vmq)
            /\ UNCHANGED <<idle, creating>>
        BY <1>10, <3>2 DEF Release
      <4>. QED  BY <1>0, <2>2, <3>2, <4>1 DEF TypeOK
    <3>. QED  BY <3>1, <3>2
  <2>5. iprog' \in [Proc -> Prog \cup {NoProg}]
    BY <1>0, <1>10, <2>1 DEF Release, TypeOK
  <2>. QED  BY <1>0, <1>10, <2>1, <2>3, <2>4, <2>5 DEF Release, TypeOK, irendVars
<1>11. ASSUME NEW p \in Proc, KProc(p) \/ NativeDone(p) \/ Wakeup(p) \/ WakeupUnlock(p)
       PROVE  TypeOK'
  <2>1. pc' \in [Proc -> PC]
    BY <1>0, <1>11 DEF KProc, NativeDone, Wakeup, WakeupUnlock, Goto, TypeOK, PC,
       NativePc, AcqPc
  <2>2. /\ hand' \in [Proc -> Proc \cup {NoProc}]
        /\ irendP' \in Proc \cup {NoProc} /\ irendL' \in Proc \cup {NoProc}
    BY <1>0, <1>11 DEF KProc, NativeDone, Wakeup, WakeupUnlock, TypeOK, irendVars
  <2>3. raised' \in [Proc -> BOOLEAN]
    BY <1>0, <1>11 DEF KProc, NativeDone, Wakeup, WakeupUnlock, TypeOK
  <2>. QED  BY <1>0, <1>11, <2>1, <2>2, <2>3 DEF KProc, NativeDone, Wakeup,
         WakeupUnlock, TypeOK, lockVars, progVars
<1>12. ASSUME NEW p \in Proc, Acquire(p)
       PROVE  TypeOK'
  <2>1. PushHead(vmq, p) \in Seq(Proc)
    BY <1>0, PushQueue DEF TypeOK
  <2>2. pc' \in [Proc -> PC]
    BY <1>0, <1>12 DEF Acquire, Goto, TypeOK, PC, NativePc, AcqPc
  <2>3. vmq' \in Seq(Proc) /\ vmqt' \in Proc \cup {NoProc} /\ yield' \in Nat
    BY <1>0, <1>12, <2>1 DEF Acquire, TypeOK
  <2>. QED  BY <1>0, <1>12, <2>2, <2>3 DEF Acquire, TypeOK, progVars, irendVars
<1>13. ASSUME NEW p \in Proc, Resume(p)
       PROVE  TypeOK'
  <2>1. iprog[p] \in Prog
    BY <1>0, <1>13 DEF Resume, OwnInv, NativePc
  <2>2. PushHead(runq, iprog[p]) \in Seq(Prog)
    BY <1>0, <2>1, PushQueue DEF TypeOK
  <2>. QED  BY <1>0, <1>13, <2>1, <2>2 DEF Resume, Goto, TypeOK, lockVars, irendVars,
         PC, OwnerPc, PState
<1>14. ASSUME NEW p \in Proc, RaiseError(p) \/ Handle(p)
       PROVE  TypeOK'
  BY <1>0, <1>14 DEF RaiseError, Handle, Goto, TypeOK, lockVars, progVars, irendVars,
     PC, OwnerPc
<1>15. ASSUME NEW p \in Proc, ProgBroken(p) \/ ProgExit(p)
       PROVE  TypeOK'
  <2>1. /\ runq' \in Seq(Prog) /\ runtl' \in Prog \cup {NoProg}
        /\ pstate' \in [Prog -> PState]
    BY <1>0, <1>15, DelRunType DEF ProgBroken, ProgExit, OwnInv, PState
  <2>. QED  BY <1>0, <1>15, <2>1 DEF ProgBroken, ProgExit, Goto, TypeOK, lockVars,
         irendVars, PC, OwnerPc
<1>16. CASE UNCHANGED vars
  BY <1>0, <1>16 DEF TypeOK, vars, lockVars, progVars, irendVars
<1>. QED
  BY <1>1, <1>2, <1>3, <1>4, <1>5, <1>6, <1>7, <1>8, <1>9, <1>10, <1>11, <1>12, <1>13,
     <1>14, <1>15, <1>16 DEF Next, Step, Rest

(***************************************************************************)
(* What the owner and the native calls rely on.                            *)
(***************************************************************************)

\* Only the Procs whose program point, Prog or queue head changes matter.
LEMMA OwnFrame ==
  ASSUME NEW p \in Proc, IInv, pc[p] \in OwnerPc,
         UNCHANGED <<yield>> \/ pc[p] = "iyield",
         \A q \in Proc \ {p} : /\ pc'[q] = pc[q]
                               /\ cur'[q] = cur[q] /\ iprog'[q] = iprog[q],
         pc'[p] = "iyield" => yield' # 0,
         pc'[p] \in {"xec", "ret", "error"} => runq' # <<>>,
         pc'[p] \in {"xec", "ret"} =>
           cur'[p] \in Prog /\ Head(runq') = cur'[p] /\ regs' = cur'[p],
         pc'[p] \in NativePc => cur'[p] \in Prog /\ iprog'[p] = cur'[p]
  PROVE  OwnInv'
<1>1. OwnInv /\ OneVM
  BY DEF IInv, ProcInv
<1>2. \A q \in Proc \ {p} : pc[q] \notin {"iyield", "xec", "ret", "error"}
  BY <1>1 DEF OneVM, Token, OwnerPc
<1>. QED  BY <1>1, <1>2 DEF OwnInv

\* A step that brings no Proc into the owner's code and changes no Prog of a Proc.
LEMMA QuietFrame ==
  ASSUME IInv, UNCHANGED <<runq, regs, cur, iprog>>, yield' = yield \/ yield' = yield + 1,
         \A q \in Proc :
           /\ pc'[q] \in {"iyield", "xec", "ret", "error"} => pc'[q] = pc[q]
           /\ pc'[q] \in NativePc => pc[q] \in NativePc
  PROVE  OwnInv'
<1>1. OwnInv /\ yield \in Nat
  BY DEF IInv, TypeOK
<1>. QED  BY <1>1 DEF OwnInv

\* Every step keeps what the owner's code relies on.
LEMMA OwnStep ==
  ASSUME IInv, [Next]_vars
  PROVE  OwnInv'
<1>. USE NilAssumption
<1>0. TypeOK /\ OwnInv /\ OneVM /\ pc \in [Proc -> PC]
  BY DEF IInv, ProcInv, TypeOK
<1>1. ASSUME NEW p \in Proc, RendezvousWait(p)
      PROVE  OwnInv'
  BY <1>0, <1>1, QuietFrame DEF RendezvousWait, progVars, lockVars
<1>2. ASSUME NEW p \in Proc, RendezvousMeet(p)
      PROVE  OwnInv'
  <2>1. \A q \in Proc : pc'[q] = pc[q] \/ pc'[q] = After(pc[q])
    BY <1>0, <1>2 DEF RendezvousMeet
  <2>2. \A q \in Proc :
          /\ After(pc[q]) \in {"iyield", "xec", "ret", "error"} => After(pc[q]) = pc[q]
          /\ After(pc[q]) \in NativePc => pc[q] \in NativePc
    BY DEF After, NativePc, AcqPc
  <2>3. \A q \in Proc :
          /\ pc'[q] \in {"iyield", "xec", "ret", "error"} => pc'[q] = pc[q]
          /\ pc'[q] \in NativePc => pc[q] \in NativePc
    BY <2>1, <2>2
  <2>4. /\ UNCHANGED <<runq, regs, cur, iprog>>
        /\ yield' = yield \/ yield' = yield + 1
    BY <1>2 DEF RendezvousMeet, progVars, lockVars
  <2>. QED  BY <2>3, <2>4, QuietFrame
<1>3. ASSUME NEW p \in Proc,
             Startup(p) \/ KProc(p) \/ NativeDone(p) \/ Acquire(p) \/ Wakeup(p)
             \/ WakeupUnlock(p) \/ LoopTop(p) \/ ExecAtIdle(p) \/ MemLow(p) \/ Sleep(p)
      PROVE  OwnInv'
  <2>1. /\ UNCHANGED <<runq, regs, cur, iprog>>
        /\ yield' = yield \/ yield' = yield + 1
    BY <1>3 DEF Startup, KProc, NativeDone, Acquire, Wakeup, WakeupUnlock, LoopTop,
       ExecAtIdle, MemLow, Sleep, progVars, lockVars
  <2>2. \A q \in Proc :
           /\ pc'[q] \in {"iyield", "xec", "ret", "error"} => pc'[q] = pc[q]
           /\ pc'[q] \in NativePc => pc[q] \in NativePc
    BY <1>0, <1>3 DEF Startup, KProc, NativeDone, Acquire, Wakeup, WakeupUnlock, LoopTop,
       ExecAtIdle, MemLow, Sleep, Goto, NativePc, AcqPc
  <2>. QED  BY <2>1, <2>2, QuietFrame
<1>4. ASSUME NEW p \in Proc, YieldCheck(p)
      PROVE  OwnInv'
  BY <1>0, <1>4, OwnFrame DEF YieldCheck, Goto, OwnerPc, NativePc, AcqPc, lockVars,
     progVars
<1>5. ASSUME NEW p \in Proc, IYield(p)
      PROVE  OwnInv'
  <2>1. pc[p] = "iyield" /\ pc'[p] \in {"slice", "give"}
    BY <1>0, <1>5 DEF IYield, Goto
  <2>2. \A q \in Proc \ {p} : pc'[q] = pc[q] /\ cur'[q] = cur[q] /\ iprog'[q] = iprog[q]
    BY <1>0, <1>5 DEF IYield, Goto, progVars
  <2>. QED  BY <2>1, <2>2, OwnFrame DEF OwnerPc, NativePc, AcqPc
<1>6. ASSUME NEW p \in Proc, Slice(p)
      PROVE  OwnInv'
  <2>1. runq # <<>> => Head(runq) \in Prog
    BY <1>0, PopQueue DEF TypeOK
  <2>2. pc[p] \in OwnerPc /\ UNCHANGED <<yield, runq, iprog>>
    BY <1>6 DEF Slice, OwnerPc, lockVars
  <2>3. \A q \in Proc \ {p} : pc'[q] = pc[q] /\ cur'[q] = cur[q] /\ iprog'[q] = iprog[q]
    BY <1>0, <1>6 DEF Slice, Goto, TypeOK
  <2>4. \/ pc'[p] = "loop"
        \/ /\ pc'[p] = "xec" /\ runq # <<>>
           /\ cur'[p] = Head(runq) /\ regs' = Head(runq)
    BY <1>0, <1>6 DEF Slice, Goto, TypeOK
  <2>. QED  BY <2>1, <2>2, <2>3, <2>4, OwnFrame DEF NativePc, AcqPc
<1>7. ASSUME NEW p \in Proc, Spawn(p) \/ ReadyPeer(p)
      PROVE  OwnInv'
  <2>1. PICK g \in Prog : AddRun(g)
    BY <1>7 DEF Spawn, ReadyPeer
  <2>2. runq # <<>> => runq' # <<>> /\ Head(runq') = Head(runq)
    BY <1>0, <2>1, AddRunType
  <2>3. UNCHANGED <<pc, yield, regs, cur, iprog>>
    BY <1>7 DEF Spawn, ReadyPeer, lockVars
  <2>. QED  BY <1>0, <2>2, <2>3, OwnFrame DEF OwnInv, OwnerPc, NativePc, AcqPc
<1>8. ASSUME NEW p \in Proc, BlockSelf(p) \/ QuantaEnd(p) \/ Handle(p) \/ ProgBroken(p)
                              \/ ProgExit(p)
      PROVE  OwnInv'
  <2>1. /\ pc[p] \in OwnerPc /\ UNCHANGED yield
        /\ pc'[p] \in {"memlow", "loop", "exit"}
    BY <1>0, <1>8 DEF BlockSelf, QuantaEnd, Handle, ProgBroken, ProgExit, Goto, OwnerPc,
       lockVars
  <2>2. \A q \in Proc \ {p} : pc'[q] = pc[q] /\ cur'[q] = cur[q] /\ iprog'[q] = iprog[q]
    BY <1>0, <1>8 DEF BlockSelf, QuantaEnd, Handle, ProgBroken, ProgExit, Goto, EndSlice,
       progVars, TypeOK
  <2>. QED  BY <2>1, <2>2, OwnFrame DEF NativePc, AcqPc
<1>9. ASSUME NEW p \in Proc, Release(p)
      PROVE  OwnInv'
  <2>1. pc[p] = "xec" /\ pc'[p] \in {"released", "kproc", "handoff"} /\ UNCHANGED yield
    BY <1>0, <1>9 DEF Release, Goto
  <2>2. \A q \in Proc \ {p} : pc'[q] = pc[q] /\ cur'[q] = cur[q] /\ iprog'[q] = iprog[q]
    BY <1>0, <1>9 DEF Release, Goto, TypeOK
  <2>3. cur'[p] = cur[p] /\ iprog'[p] = Head(runq)
    BY <1>0, <1>9 DEF Release, TypeOK
  <2>4. cur[p] \in Prog /\ Head(runq) = cur[p]
    BY <1>0, <2>1 DEF OwnInv
  <2>. QED  BY <2>1, <2>2, <2>3, <2>4, OwnFrame DEF OwnerPc, NativePc, AcqPc
<1>10. ASSUME NEW p \in Proc, Resume(p)
       PROVE  OwnInv'
  <2>1. pc[p] = "resume" /\ UNCHANGED yield
    BY <1>10 DEF Resume, lockVars
  <2>2. \A q \in Proc \ {p} : pc'[q] = pc[q] /\ cur'[q] = cur[q] /\ iprog'[q] = iprog[q]
    BY <1>0, <1>10 DEF Resume, Goto, TypeOK
  <2>3. iprog[p] \in Prog /\ iprog[p] = cur[p]
    BY <1>0, <2>1 DEF OwnInv, NativePc
  <2>4. runq' # <<>> /\ Head(runq') = iprog[p]
    <3>1. PushHead(runq, iprog[p]) # <<>> /\ Head(PushHead(runq, iprog[p])) = iprog[p]
      <4>1. runq \in Seq(Prog) /\ iprog[p] \in Prog
        BY <1>0, <2>3 DEF TypeOK
      <4>. QED  BY <4>1, PushQueue, ZenonT(60)
    <3>. QED  BY <1>10, <3>1 DEF Resume
  <2>5. \/ pc'[p] = "error"
        \/ pc'[p] = "ret" /\ cur'[p] = cur[p] /\ regs' = iprog[p]
    BY <1>0, <1>10 DEF Resume, Goto
  <2>. QED  BY <2>1, <2>2, <2>3, <2>4, <2>5, OwnFrame DEF OwnerPc, NativePc, AcqPc
<1>11. ASSUME NEW p \in Proc, RaiseError(p)
       PROVE  OwnInv'
  <2>1. pc[p] \in {"xec", "ret"} /\ pc'[p] = "error" /\ UNCHANGED <<yield, runq>>
    BY <1>0, <1>11 DEF RaiseError, Goto, lockVars
  <2>2. \A q \in Proc \ {p} : pc'[q] = pc[q] /\ cur'[q] = cur[q] /\ iprog'[q] = iprog[q]
    BY <1>0, <1>11 DEF RaiseError, Goto, TypeOK
  <2>3. runq' # <<>>
    BY <1>0, <2>1 DEF OwnInv
  <2>. QED  BY <2>1, <2>2, <2>3, OwnFrame DEF OwnerPc, NativePc, AcqPc
<1>12. CASE UNCHANGED vars
  BY <1>12, QuietFrame DEF vars, lockVars, progVars
<1>. QED
  BY <1>1, <1>2, <1>3, <1>4, <1>5, <1>6, <1>7, <1>8, <1>9, <1>10, <1>11, <1>12
  DEF Next, Step, Rest

(***************************************************************************)
(* Who owns the VM, who waits for it and who wakes whom.                   *)
(***************************************************************************)

\* A rendezvous pairs a giver with the Proc it gives the VM to, or kwakeup
\* with the sleeper it took from irend.
LEMMA MeetCases ==
  ASSUME NEW p \in Proc, IInv, RendezvousMeet(p)
  PROVE  \E a, b \in Proc :
           /\ a # b /\ hand[a] = b
           /\ \/ pc[a] \in GivePc /\ pc[b] \in {"park", "yielded", "wait"}
              \/ pc[a] = "wake" /\ pc[b] = "ksleep"
           /\ pc' = [x \in Proc |-> IF x \in {a, b} THEN After(pc[x]) ELSE pc[x]]
           /\ rz' = [rz EXCEPT ![b] = NoProc]
           /\ \A x \in Proc \ {a, b} : hand'[x] = hand[x]
<1>. USE NilAssumption
<1>0. TypeOK /\ OneVM /\ GiveInv /\ WakeInv /\ RzInv
  BY DEF IInv, ProcInv
<1> DEFINE t == Tag(p)
<1>1. PICK q \in Proc :
        /\ rz[t] = q
        /\ pc' = [x \in Proc |-> IF x \in {p, q} THEN After(pc[x]) ELSE pc[x]]
        /\ hand' = [hand EXCEPT ![p] = NoProc, ![q] = NoProc]
  BY DEF RendezvousMeet
<1>2. pc[p] \in RvPc /\ ~Blocked(p) /\ rz' = [rz EXCEPT ![t] = NoProc]
  BY DEF RendezvousMeet
<1>3. t \in Proc
  BY <1>0 DEF Tag, GiveInv, WakeInv
<1>4. q # p
  BY <1>1, <1>2, <1>3 DEF Blocked
<1>5. pc[q] \in RvPc /\ Tag(q) = t
  BY <1>0, <1>1, <1>3 DEF RzInv
<1>6. \A x \in Proc \ {p, q} : hand'[x] = hand[x]
  BY <1>0, <1>1 DEF TypeOK
<1>7. \A w \in Proc : pc[w] = "wake" => hand[w] # w
  BY <1>0 DEF WakeInv
<1>8. CASE p = t
  <2>1. pc[q] \in GivePc \cup {"wake"} /\ hand[q] = p
    BY <1>4, <1>5, <1>8 DEF Tag
  <2>2. pc[p] \notin GivePc \cup {"wake"}
    BY <1>0, <1>7, <1>8 DEF Tag, GiveInv, VMWaitPc, AcqPc, GivePc
  <2>3. \/ pc[q] \in GivePc /\ pc[p] \in {"park", "yielded", "wait"}
        \/ pc[q] = "wake" /\ pc[p] = "ksleep"
    BY <1>0, <1>2, <2>1, <2>2 DEF GiveInv, WakeInv, VMWaitPc, AcqPc, RvPc, GivePc
  <2>4. pc' = [x \in Proc |-> IF x \in {q, p} THEN After(pc[x]) ELSE pc[x]]
    BY <1>1
  <2>. QED  BY <1>2, <1>4, <1>6, <1>8, <2>1, <2>3, <2>4, ZenonT(60)
<1>9. CASE p # t
  <2>1. pc[p] \in GivePc \cup {"wake"} /\ hand[p] = t
    BY <1>9 DEF Tag
  <2>2. q = t
    <3>. SUFFICES ASSUME q # t PROVE FALSE
      OBVIOUS
    <3>1. pc[q] \in GivePc \cup {"wake"} /\ hand[q] = t
      BY <1>5 DEF Tag
    <3>2. ~(pc[p] \in GivePc /\ pc[q] \in GivePc)
      BY <1>0, <1>4 DEF OneVM, Token
    <3>3. ~(pc[p] = "wake" /\ pc[q] = "wake")
      BY <1>0, <1>4 DEF WakeInv
    <3>. QED  BY <1>0, <2>1, <3>1, <3>2, <3>3 DEF GiveInv, WakeInv, VMWaitPc, AcqPc
  <2>3. pc[q] \notin GivePc \cup {"wake"}
    BY <1>0, <1>5, <1>7, <2>2 DEF Tag, GiveInv, VMWaitPc, AcqPc, GivePc
  <2>4. \/ pc[p] \in GivePc /\ pc[q] \in {"park", "yielded", "wait"}
        \/ pc[p] = "wake" /\ pc[q] = "ksleep"
    BY <1>0, <1>5, <2>1, <2>2, <2>3 DEF GiveInv, WakeInv, VMWaitPc, AcqPc, RvPc, GivePc
  <2>. QED  BY <1>1, <1>2, <1>4, <1>6, <2>1, <2>2, <2>4
<1>. QED  BY <1>8, <1>9

\* krendez by the second of the two Procs wakes the first.
LEMMA MeetProcInv ==
  ASSUME NEW p \in Proc, IInv, RendezvousMeet(p)
  PROVE  ProcInv'
<1>. USE NilAssumption
<1>0. /\ TypeOK /\ OneVM /\ QueueInv /\ GiveInv /\ WakeInv /\ RzInv /\ NoLostWakeup
      /\ pc \in [Proc -> PC] /\ rz \in [Proc -> Proc \cup {NoProc}]
  BY DEF IInv, ProcInv, TypeOK
<1>1. PICK a, b \in Proc :
           /\ a # b /\ hand[a] = b
           /\ \/ pc[a] \in GivePc /\ pc[b] \in {"park", "yielded", "wait"}
              \/ pc[a] = "wake" /\ pc[b] = "ksleep"
           /\ pc' = [x \in Proc |-> IF x \in {a, b} THEN After(pc[x]) ELSE pc[x]]
           /\ rz' = [rz EXCEPT ![b] = NoProc]
           /\ \A x \in Proc \ {a, b} : hand'[x] = hand[x]
  BY MeetCases
<1>2. /\ \A x \in Proc \ {a, b} : pc'[x] = pc[x] /\ hand'[x] = hand[x]
      /\ pc'[a] = After(pc[a]) /\ pc'[b] = After(pc[b])
      /\ rz'[b] = NoProc /\ \A t \in Proc \ {b} : rz'[t] = rz[t]
  BY <1>0, <1>1
<1>3. UNCHANGED <<idle, yield, vmq, vmqt, runq, irendP, irendL>>
  BY DEF RendezvousMeet, lockVars, progVars, irendVars
<1>4. RzInv'
  <2>. SUFFICES ASSUME NEW t \in Proc, rz'[t] # NoProc
                PROVE  pc'[rz'[t]] \in RvPc /\ Tag(rz[t])' = t
    BY DEF RzInv
  <2>1. t # b /\ rz'[t] = rz[t] /\ rz[t] \in Proc /\ pc[rz[t]] \in RvPc /\ Tag(rz[t]) = t
    BY <1>0, <1>2 DEF RzInv
  <2>2. Tag(a) = b /\ Tag(b) = b
    BY <1>1 DEF Tag, GivePc
  <2>3. rz[t] \in Proc \ {a, b}
    BY <2>1, <2>2
  <2>. QED  BY <1>2, <2>1, <2>3 DEF Tag
<1>5. CASE pc[a] \in GivePc /\ pc[b] \in {"park", "yielded", "wait"}
  <2>1. /\ \/ pc[a] = "give" /\ pc'[a] = "yielded"
           \/ pc[a] = "handoff" /\ pc'[a] = "released"
        /\ pc'[b] \in {"loop", "slice", "resume"}
    <3>1. \/ pc[a] = "give" /\ pc'[a] = "yielded"
          \/ pc[a] = "handoff" /\ pc'[a] = "released"
      BY <1>2, <1>5 DEF After, GivePc
    <3>2. pc'[b] \in {"loop", "slice", "resume"}
      BY <1>2, <1>5 DEF After
    <3>. QED  BY <3>1, <3>2
  <2>2. \A x \in Proc \ {a} : ~Token(x)
    BY <1>0, <1>5 DEF OneVM, Token
  <2>3. \A x \in Proc : Token(x)' <=> x = b
    BY <1>2, <2>1, <2>2 DEF Token, OwnerPc, GivePc
  <2>4. OneVM'
    BY <1>0, <1>3, <1>5, <2>3 DEF OneVM, Token
  <2>5. \A x \in Proc : pc'[x] \notin GivePc
    BY <1>2, <2>1, <2>2 DEF Token, GivePc
  <2>6. GiveInv'
    BY <2>5 DEF GiveInv
  <2>7. b \notin Elems(vmq)
    BY <1>0, <1>1, <1>5 DEF GiveInv
  <2>8. QueueInv'
    <3>1. \A x \in Elems(vmq) : x \in Proc /\ pc'[x] \in VMWaitPc \cup {"give"}
      BY <1>0, <1>2, <2>1, <2>7 DEF QueueInv, VMWaitPc, AcqPc
    <3>2. \A x \in Proc : pc'[x] \in VMWaitPc => x \in Elems(vmq)
      <4>. SUFFICES ASSUME NEW x \in Proc, pc'[x] \in VMWaitPc
                    PROVE  x \in Elems(vmq)
        OBVIOUS
      <4>1. x # b
        BY <2>1 DEF VMWaitPc, AcqPc
      <4>2. CASE x = a
        BY <1>0, <2>1, <4>2 DEF QueueInv, VMWaitPc, AcqPc
      <4>3. CASE x # a
        <5>1. ~Given(x)
          BY <1>1, <2>2, <4>1 DEF Given, Token
        <5>. QED  BY <1>0, <1>2, <4>1, <4>3, <5>1 DEF QueueInv
      <4>. QED  BY <4>2, <4>3
    <3>3. \A x \in Proc : pc'[x] # "give"
      BY <2>5 DEF GivePc
    <3>. QED  BY <1>0, <1>3, <3>1, <3>2, <3>3 DEF QueueInv
  <2>9. \A x \in Proc : /\ pc[x] = "ksleep" => pc'[x] = "ksleep"
                        /\ pc[x] = "wakeup" => pc'[x] = "wakeup"
                        /\ pc'[x] \in {"wake", "wakeunl"} =>
                            pc'[x] = pc[x] /\ hand'[x] = hand[x]
    BY <1>2, <1>5, <2>1 DEF GivePc
  <2>10. WakeInv'
    <3>1. irendP' # NoProc => pc'[irendP'] = "ksleep"
      BY <1>0, <1>3, <2>9 DEF WakeInv, TypeOK
    <3>2. \A w \in Proc : pc'[w] \in {"wake", "wakeunl"} => irendL' = w
      BY <1>0, <1>3, <2>9 DEF WakeInv
    <3>3. \A w \in Proc : pc'[w] = "wake" =>
            irendP' = NoProc /\ hand'[w] \in Proc /\ pc'[hand'[w]] = "ksleep"
      BY <1>0, <1>3, <2>9 DEF WakeInv
    <3>. QED  BY <3>1, <3>2, <3>3 DEF WakeInv
  <2>11. NoLostWakeup'
    <3>. SUFFICES ASSUME irendP' # NoProc
                  PROVE  /\ pc'[irendP'] = "ksleep" /\ runq' = <<>>
                         /\ yield' # 0 => \E x \in Proc : pc'[x] = "wakeup"
      BY DEF NoLostWakeup
    <3>1. irendP \in Proc /\ pc[irendP] = "ksleep" /\ runq = <<>>
      BY <1>0, <1>3 DEF NoLostWakeup, TypeOK
    <3>2. yield # 0 => \E x \in Proc : pc[x] = "wakeup"
      BY <1>0, <1>3 DEF NoLostWakeup
    <3>. QED  BY <1>3, <2>9, <3>1, <3>2
  <2>. QED  BY <1>4, <2>4, <2>6, <2>8, <2>10, <2>11 DEF ProcInv
<1>6. CASE pc[a] = "wake" /\ pc[b] = "ksleep"
  <2>1. pc'[a] = "wakeunl" /\ pc'[b] = "yieldchk"
    BY <1>2, <1>6 DEF After
  <2>2. \A x \in Proc : Token(x)' <=> Token(x)
    BY <1>2, <1>6, <2>1 DEF Token, OwnerPc, GivePc
  <2>3. OneVM'
    BY <1>0, <1>3, <2>2 DEF OneVM
  <2>4. \A x \in Proc : pc'[x] \in VMWaitPc <=> pc[x] \in VMWaitPc
    BY <1>2, <1>6, <2>1 DEF VMWaitPc, AcqPc
  <2>5. \A x \in Proc : /\ pc'[x] \in GivePc <=> pc[x] \in GivePc
                        /\ pc[x] \in GivePc => hand'[x] = hand[x]
                        /\ pc'[x] = "give" <=> pc[x] = "give"
    BY <1>2, <1>6, <2>1 DEF GivePc
  <2>6. \A x \in Proc : Given(x)' <=> Given(x)
    BY <2>5 DEF Given
  <2>7. QueueInv'
    BY <1>0, <1>3, <2>4, <2>5, <2>6 DEF QueueInv
  <2>8. GiveInv'
    BY <1>0, <1>3, <2>4, <2>5 DEF GiveInv
  <2>9. irendP = NoProc /\ irendL = a
    BY <1>0, <1>6 DEF WakeInv
  <2>10. \A w \in Proc : /\ pc'[w] \in {"wake", "wakeunl"} => w = a
                         /\ pc'[w] # "wake"
    BY <1>0, <1>2, <2>1, <2>9 DEF WakeInv
  <2>11. WakeInv' /\ NoLostWakeup'
    BY <1>3, <2>9, <2>10 DEF WakeInv, NoLostWakeup
  <2>. QED  BY <1>4, <2>3, <2>7, <2>8, <2>11 DEF ProcInv
<1>. QED  BY <1>1, <1>5, <1>6

\* Startup, KProc and native calls before they ask for the VM.
LEMMA OutsideProcInv ==
  ASSUME IInv,
         UNCHANGED <<idle, yield, vmq, vmqt, runq, hand, rz, irendVars>>,
         \A x \in Proc :
           \/ pc'[x] = pc[x]
           \/ /\ pc[x] \in {"none", "kproc", "released"}
              /\ pc'[x] \in {"startup", "released", "acquire"}
  PROVE  ProcInv'
<1>. USE NilAssumption
<1>0. /\ TypeOK /\ OneVM /\ QueueInv /\ GiveInv /\ WakeInv /\ RzInv /\ NoLostWakeup
      /\ UNCHANGED <<idle, yield, vmq, vmqt, runq, hand, rz, irendP, irendL>>
  BY DEF IInv, ProcInv, irendVars
<1>1. OneVM'
  <2>1. \A x \in Proc : Token(x)' <=> Token(x)
    BY DEF Token, OwnerPc, GivePc
  <2>. QED  BY <1>0, <2>1 DEF OneVM
<1>2. \A x \in Proc : /\ pc'[x] \in VMWaitPc <=> pc[x] \in VMWaitPc
                      /\ pc'[x] \in GivePc <=> pc[x] \in GivePc
                      /\ pc'[x] = "give" <=> pc[x] = "give"
  BY DEF VMWaitPc, AcqPc, GivePc
<1>3. \A x \in Proc : Given(x)' <=> Given(x)
  BY <1>0, <1>2 DEF Given
<1>4. QueueInv'
  BY <1>0, <1>2, <1>3 DEF QueueInv
<1>5. GiveInv'
  BY <1>0, <1>2 DEF GiveInv
<1>6. \A x \in Proc : /\ pc'[x] = "ksleep" <=> pc[x] = "ksleep"
                      /\ pc'[x] = "wake" <=> pc[x] = "wake"
                      /\ pc'[x] = "wakeunl" <=> pc[x] = "wakeunl"
                      /\ pc'[x] = "wakeup" <=> pc[x] = "wakeup"
                      /\ pc'[x] \in RvPc <=> pc[x] \in RvPc
  BY DEF RvPc, GivePc
<1>7. WakeInv'
  <2>1. irendP \in Proc \cup {NoProc}
    BY <1>0 DEF TypeOK
  <2>2. irendP' # NoProc => pc'[irendP'] = "ksleep"
    BY <1>0, <1>6, <2>1 DEF WakeInv
  <2>3. \A w \in Proc : pc'[w] \in {"wake", "wakeunl"} => irendL' = w
    BY <1>0, <1>6 DEF WakeInv
  <2>4. \A w \in Proc : pc'[w] = "wake" =>
          irendP' = NoProc /\ hand'[w] \in Proc /\ pc'[hand'[w]] = "ksleep"
    BY <1>0, <1>6 DEF WakeInv
  <2>. QED  BY <2>2, <2>3, <2>4 DEF WakeInv
<1>8. RzInv'
  <2>1. \A x \in Proc : Tag(x)' = Tag(x)
    BY <1>0, <1>2, <1>6 DEF Tag
  <2>. QED  BY <1>0, <1>6, <2>1 DEF RzInv, TypeOK
<1>9. NoLostWakeup'
  <2>. SUFFICES ASSUME irendP # NoProc
                PROVE  /\ pc'[irendP] = "ksleep" /\ runq = <<>>
                       /\ yield # 0 => \E x \in Proc : pc'[x] = "wakeup"
    BY <1>0 DEF NoLostWakeup
  <2>1. irendP \in Proc /\ pc[irendP] = "ksleep" /\ runq = <<>>
    BY <1>0 DEF NoLostWakeup, TypeOK
  <2>2. yield # 0 => \E x \in Proc : pc[x] = "wakeup"
    BY <1>0 DEF NoLostWakeup
  <2>. QED  BY <1>6, <2>1, <2>2
<1>. QED  BY <1>1, <1>4, <1>5, <1>7, <1>8, <1>9 DEF ProcInv

\* startup takes the idle VM, or hands it to a parked vmachine, or orders one.
LEMMA StartupProcInv ==
  ASSUME NEW p \in Proc, IInv, Startup(p)
  PROVE  ProcInv'
<1>. USE NilAssumption
<1>0. /\ TypeOK /\ OneVM /\ QueueInv /\ GiveInv /\ WakeInv /\ RzInv /\ NoLostWakeup
      /\ pc \in [Proc -> PC] /\ pc[p] = "startup"
      /\ UNCHANGED <<yield, runq, hand, rz, irendP, irendL>>
  BY DEF IInv, ProcInv, TypeOK, Startup, progVars, irendVars
<1>1. /\ pc'[p] \in {"loop", "park"}
      /\ \A x \in Proc \ {p} : pc'[x] = pc[x]
  BY <1>0 DEF Startup, Goto
<1>2. WakeInv'
  BY <1>0, <1>1 DEF WakeInv, TypeOK
<1>3. RzInv'
  BY <1>0, <1>1 DEF RzInv, Tag, RvPc, GivePc, TypeOK
<1>4. NoLostWakeup'
  BY <1>0, <1>1 DEF NoLostWakeup, TypeOK
<1>5. \A x \in Proc : Given(x)' <=> Given(x)
  BY <1>0, <1>1 DEF Given, GivePc
<1>6. p \notin Elems(vmq)
  BY <1>0 DEF QueueInv, VMWaitPc, AcqPc
<1>7. CASE idle
  <2>1. UNCHANGED <<vmq, vmqt>> /\ idle' = FALSE /\ pc'[p] = "loop"
    BY <1>0, <1>7 DEF Startup, Goto
  <2>2. OneVM'
    BY <1>0, <1>1, <1>7, <2>1 DEF OneVM, Token, OwnerPc, GivePc
  <2>3. QueueInv'
    BY <1>0, <1>1, <1>5, <1>6, <2>1 DEF QueueInv, VMWaitPc, AcqPc
  <2>4. GiveInv'
    BY <1>0, <1>1, <2>1 DEF GiveInv, VMWaitPc, AcqPc, GivePc
  <2>. QED  BY <1>2, <1>3, <1>4, <2>2, <2>3, <2>4 DEF ProcInv
<1>8. CASE ~idle
  <2>1. vmq' = LinkAfter(vmq, vmqt, p) /\ vmqt' = p /\ idle' = idle /\ pc'[p] = "park"
    BY <1>0, <1>8 DEF Startup, Goto
  <2>2. vmq \in Seq(Proc) /\ NoDup(vmq) /\ LastIs(vmq, vmqt)
    BY <1>0 DEF TypeOK, QueueInv
  <2>3. vmq' = Append(vmq, p)
    BY <2>1, <2>2, LinkAfterLast
  <2>4. Elems(vmq') = Elems(vmq) \cup {p} /\ NoDup(vmq') /\ LastIs(vmq', vmqt')
    BY <1>6, <2>1, <2>2, <2>3, AppendQueue
  <2>5. OneVM'
    BY <1>0, <1>1, <2>1 DEF OneVM, Token, OwnerPc, GivePc
  <2>6. QueueInv'
    BY <1>0, <1>1, <1>5, <2>1, <2>4 DEF QueueInv, VMWaitPc, AcqPc
  <2>7. GiveInv'
    BY <1>0, <1>1, <2>1, <2>4 DEF GiveInv, VMWaitPc, AcqPc, GivePc
  <2>. QED  BY <1>2, <1>3, <1>4, <2>5, <2>6, <2>7 DEF ProcInv
<1>. QED  BY <1>7, <1>8

\* ksleep, up to the lock of irend and beyond.
LEMMA SleepProcInv ==
  ASSUME NEW p \in Proc, IInv, Sleep(p)
  PROVE  ProcInv'
<1>. USE NilAssumption
<1>0. /\ TypeOK /\ OneVM /\ QueueInv /\ GiveInv /\ WakeInv /\ RzInv /\ NoLostWakeup
      /\ pc \in [Proc -> PC] /\ pc[p] = "sleep" /\ irendL = NoProc
      /\ UNCHANGED <<idle, yield, vmq, vmqt, runq, hand, rz, irendL>>
  BY DEF IInv, ProcInv, TypeOK, Sleep, progVars, lockVars
<1>1. CASE tready
  <2>1. OwnerMove(p)
    BY <1>0, <1>1 DEF Sleep, OwnerMove, Goto, OwnerPc, irendVars
  <2>. QED  BY <2>1, OwnerMoveProcInv
<1>2. CASE ~tready
  <2>1. /\ pc'[p] = "ksleep" /\ irendP' = p
        /\ \A x \in Proc \ {p} : pc'[x] = pc[x]
    BY <1>0, <1>2 DEF Sleep, Goto
  <2>2. OneVM'
    BY <1>0, <2>1 DEF OneVM, Token, OwnerPc, GivePc
  <2>3. \A x \in Proc : /\ pc'[x] \in VMWaitPc <=> pc[x] \in VMWaitPc
                        /\ pc'[x] \in GivePc <=> pc[x] \in GivePc
                        /\ pc'[x] = "give" <=> pc[x] = "give"
    BY <1>0, <2>1 DEF VMWaitPc, AcqPc, GivePc
  <2>4. \A x \in Proc : Given(x)' <=> Given(x)
    BY <1>0, <2>3 DEF Given
  <2>5. QueueInv'
    BY <1>0, <2>3, <2>4 DEF QueueInv
  <2>6. GiveInv'
    BY <1>0, <2>3 DEF GiveInv
  <2>7. \A w \in Proc : pc'[w] \notin {"wake", "wakeunl"}
    BY <1>0, <2>1 DEF WakeInv
  <2>8. WakeInv'
    BY <2>1, <2>7 DEF WakeInv
  <2>9. RzInv'
    BY <1>0, <2>1 DEF RzInv, Tag, RvPc, GivePc, TypeOK
  <2>10. NoLostWakeup'
    BY <1>0, <1>2, <2>1 DEF NoLostWakeup, tready
  <2>. QED  BY <2>2, <2>5, <2>6, <2>8, <2>9, <2>10 DEF ProcInv
<1>. QED  BY <1>1, <1>2

\* iyield hands the VM to the first of vmq.
LEMMA IYieldProcInv ==
  ASSUME NEW p \in Proc, IInv, IYield(p)
  PROVE  ProcInv'
<1>. USE NilAssumption
<1>0. /\ TypeOK /\ OneVM /\ QueueInv /\ GiveInv /\ WakeInv /\ RzInv /\ NoLostWakeup
      /\ pc \in [Proc -> PC] /\ pc[p] = "iyield" /\ hand \in [Proc -> Proc \cup {NoProc}]
      /\ UNCHANGED <<idle, runq, rz, irendP, irendL>>
  BY DEF IInv, ProcInv, TypeOK, IYield, progVars, irendVars
<1>1. CASE vmq = <<>>
  <2>1. OwnerMove(p)
    BY <1>0, <1>1 DEF IYield, OwnerMove, Goto, OwnerPc, irendVars
  <2>. QED  BY <2>1, OwnerMoveProcInv
<1>2. CASE vmq # <<>>
  <2> DEFINE h == Head(vmq)
  <2>1. /\ hand' = [hand EXCEPT ![p] = h] /\ pc' = [pc EXCEPT ![p] = "give"]
        /\ vmq' = LinkAfter(Tail(vmq), vmqt, p) /\ vmqt' = p
    BY <1>2 DEF IYield, Goto
  <2>2. /\ pc'[p] = "give" /\ \A x \in Proc \ {p} : pc'[x] = pc[x] /\ hand'[x] = hand[x]
    BY <1>0, <2>1
  <2>3. vmq \in Seq(Proc) /\ NoDup(vmq) /\ LastIs(vmq, vmqt)
    BY <1>0 DEF TypeOK, QueueInv
  <2>4. /\ h \in Proc /\ Tail(vmq) \in Seq(Proc) /\ NoDup(Tail(vmq))
        /\ Elems(vmq) = Elems(Tail(vmq)) \cup {h} /\ h \notin Elems(Tail(vmq))
        /\ LastIs(Tail(vmq), vmqt)
    BY <1>2, <2>3, PopQueue
  <2>5. p \notin Elems(vmq)
    BY <1>0 DEF QueueInv, VMWaitPc, AcqPc
  <2>6. vmq' = Append(Tail(vmq), p)
    <3>1. LinkAfter(Tail(vmq), vmqt, p) = Append(Tail(vmq), p)
      <4>1. Tail(vmq) \in Seq(Proc) /\ NoDup(Tail(vmq)) /\ LastIs(Tail(vmq), vmqt)
        BY <2>4
      <4> HIDE DEF h
      <4>. QED  BY <4>1, LinkAfterLast
    <3>. QED  BY <2>1, <3>1
  <2>7. Elems(vmq') = Elems(Tail(vmq)) \cup {p} /\ NoDup(vmq') /\ LastIs(vmq', vmqt')
    <3>1. /\ Elems(Append(Tail(vmq), p)) = Elems(Tail(vmq)) \cup {p}
          /\ NoDup(Append(Tail(vmq), p)) /\ LastIs(Append(Tail(vmq), p), p)
      <4>1. Tail(vmq) \in Seq(Proc) /\ NoDup(Tail(vmq)) /\ p \notin Elems(Tail(vmq))
        BY <2>4, <2>5
      <4>. QED  BY <4>1, AppendQueue, ZenonT(60)
    <3>. QED  BY <2>1, <2>6, <3>1
  <2>8. h # p /\ hand'[p] = h
    BY <1>0, <2>1, <2>4, <2>5
  <2> HIDE DEF h
  <2>9. \A x \in Proc \ {p} : ~Token(x)
    BY <1>0 DEF OneVM, Token, OwnerPc
  <2>10. pc[h] \in VMWaitPc
    BY <1>0, <2>4, <2>8, <2>9 DEF QueueInv, Token, GivePc
  <2>11. OneVM'
    BY <1>0, <2>2 DEF OneVM, Token, OwnerPc, GivePc
  <2>12. \A x \in Proc : Given(x)' <=> x = h
    BY <2>2, <2>8, <2>9 DEF Given, Token, GivePc
  <2>13. \A x \in Proc : ~Given(x)
    BY <1>0, <2>9 DEF Given, Token, GivePc
  <2>14. QueueInv'
    <3>1. \A x \in Elems(vmq') : x \in Proc /\ pc'[x] \in VMWaitPc \cup {"give"}
      BY <1>0, <2>2, <2>4, <2>7 DEF QueueInv
    <3>2. \A x \in Proc : pc'[x] \in VMWaitPc => x \in Elems(vmq') \/ Given(x)'
      <4>. SUFFICES ASSUME NEW x \in Proc, pc'[x] \in VMWaitPc, x # h
                    PROVE  x \in Elems(vmq')
        BY <2>12
      <4>1. x # p
        BY <2>2 DEF VMWaitPc, AcqPc
      <4>. QED  BY <1>0, <2>2, <2>4, <2>7, <2>13, <4>1 DEF QueueInv
    <3>3. \A x \in Proc : pc'[x] = "give" => x \in Elems(vmq')
      BY <2>2, <2>7, <2>9 DEF Token, GivePc
    <3>. QED  BY <2>7, <3>1, <3>2, <3>3 DEF QueueInv
  <2>15. GiveInv'
    <3>1. \A x \in Proc : pc'[x] \in GivePc => x = p
      BY <2>2, <2>9 DEF Token
    <3>2. h \notin Elems(vmq') /\ pc'[h] \in VMWaitPc
      BY <2>2, <2>4, <2>7, <2>8, <2>10
    <3>. QED  BY <2>4, <2>8, <3>1, <3>2 DEF GiveInv
  <2>16. irendP = NoProc
    BY <1>0, <2>9 DEF NoLostWakeup, TypeOK, Token, OwnerPc
  <2>17. WakeInv'
    BY <1>0, <2>2, <2>16 DEF WakeInv
  <2>18. RzInv'
    BY <1>0, <2>2 DEF RzInv, Tag, RvPc, GivePc, TypeOK
  <2>19. NoLostWakeup'
    BY <1>0, <2>16 DEF NoLostWakeup
  <2>. QED  BY <2>11, <2>14, <2>15, <2>17, <2>18, <2>19 DEF ProcInv
<1>. QED  BY <1>1, <1>2

\* release hands the VM over, or leaves it idle.
LEMMA ReleaseProcInv ==
  ASSUME NEW p \in Proc, IInv, Release(p)
  PROVE  ProcInv'
<1>. USE NilAssumption
<1>0. /\ TypeOK /\ OneVM /\ QueueInv /\ GiveInv /\ WakeInv /\ RzInv /\ NoLostWakeup
      /\ pc \in [Proc -> PC] /\ pc[p] = "xec" /\ hand \in [Proc -> Proc \cup {NoProc}]
      /\ UNCHANGED <<yield, vmqt, rz, irendP, irendL>>
  BY DEF IInv, ProcInv, TypeOK, Release, irendVars
<1>1. \A x \in Proc \ {p} : ~Token(x)
  BY <1>0 DEF OneVM, Token, OwnerPc
<1>2. irendP = NoProc
  BY <1>0, <1>1 DEF NoLostWakeup, TypeOK, Token, OwnerPc
<1>3. NoLostWakeup'
  BY <1>0, <1>2 DEF NoLostWakeup
<1>4. p \notin Elems(vmq)
  BY <1>0 DEF QueueInv, VMWaitPc, AcqPc
<1>5. \A x \in Proc : ~Given(x)
  BY <1>0, <1>1 DEF Given, Token, GivePc
<1>6. CASE vmq = <<>>
  <2>1. /\ idle' = TRUE /\ pc'[p] \in {"released", "kproc"}
        /\ UNCHANGED <<vmq, hand>>
        /\ \A x \in Proc \ {p} : pc'[x] = pc[x]
    BY <1>0, <1>6 DEF Release, Goto
  <2>2. OneVM'
    BY <1>1, <2>1 DEF OneVM, Token, OwnerPc, GivePc
  <2>3. \A x \in Proc : ~Given(x)' /\ pc'[x] \notin GivePc
    BY <1>1, <2>1 DEF Given, Token, GivePc
  <2>4. QueueInv'
    <3>1. \A x \in Proc : pc'[x] \in VMWaitPc \cup {"give"} <=>
                           pc[x] \in VMWaitPc \cup {"give"}
      BY <1>0, <2>1 DEF VMWaitPc, AcqPc
    <3>2. \A x \in Proc : pc'[x] \in VMWaitPc \cup {"give"} => x \in Elems(vmq)
      BY <1>0, <1>5, <3>1 DEF QueueInv
    <3>3. \A x \in Elems(vmq) : x \in Proc /\ pc'[x] \in VMWaitPc \cup {"give"}
      BY <1>0, <3>1 DEF QueueInv
    <3>. QED  BY <1>0, <2>1, <3>2, <3>3 DEF QueueInv
  <2>5. GiveInv'
    BY <2>3 DEF GiveInv
  <2>6. WakeInv'
    BY <1>0, <1>2, <2>1 DEF WakeInv
  <2>7. RzInv'
    BY <1>0, <2>1 DEF RzInv, Tag, RvPc, GivePc, TypeOK
  <2>. QED  BY <1>3, <2>2, <2>4, <2>5, <2>6, <2>7 DEF ProcInv
<1>7. CASE vmq # <<>>
  <2> DEFINE h == Head(vmq)
  <2>1. /\ hand' = [hand EXCEPT ![p] = h] /\ pc' = [pc EXCEPT ![p] = "handoff"]
        /\ vmq' = Tail(vmq) /\ idle' = idle
    BY <1>7 DEF Release, Goto
  <2>2. /\ pc'[p] = "handoff" /\ hand'[p] = h
        /\ \A x \in Proc \ {p} : pc'[x] = pc[x] /\ hand'[x] = hand[x]
    BY <1>0, <2>1
  <2>3. vmq \in Seq(Proc) /\ NoDup(vmq) /\ LastIs(vmq, vmqt)
    BY <1>0 DEF TypeOK, QueueInv
  <2>4. /\ h \in Proc /\ NoDup(Tail(vmq))
        /\ Elems(vmq) = Elems(Tail(vmq)) \cup {h} /\ h \notin Elems(Tail(vmq))
        /\ LastIs(Tail(vmq), vmqt)
    BY <1>7, <2>3, PopQueue
  <2>5. /\ NoDup(vmq') /\ LastIs(vmq', vmqt')
        /\ Elems(vmq) = Elems(vmq') \cup {h} /\ h \notin Elems(vmq')
    BY <1>0, <2>1, <2>4
  <2> HIDE DEF h
  <2>6. h # p
    BY <1>4, <2>4
  <2>7. pc[h] \in VMWaitPc
    BY <1>0, <1>1, <2>4, <2>6 DEF QueueInv, Token, GivePc
  <2>8. OneVM'
    BY <1>0, <1>1, <2>1, <2>2 DEF OneVM, Token, OwnerPc, GivePc
  <2>9. \A x \in Proc : Given(x)' <=> x = h
    BY <1>1, <2>2 DEF Given, Token, GivePc
  <2>10. QueueInv'
    <3>1. \A x \in Elems(vmq') : x \in Proc /\ pc'[x] \in VMWaitPc \cup {"give"}
      BY <1>0, <1>4, <2>2, <2>5 DEF QueueInv
    <3>2. \A x \in Proc : pc'[x] \in VMWaitPc => x \in Elems(vmq') \/ Given(x)'
      <4>. SUFFICES ASSUME NEW x \in Proc, pc'[x] \in VMWaitPc, x # h
                    PROVE  x \in Elems(vmq')
        BY <2>9
      <4>1. x # p
        BY <2>2 DEF VMWaitPc, AcqPc
      <4>. QED  BY <1>0, <1>5, <2>2, <2>5, <4>1 DEF QueueInv
    <3>3. \A x \in Proc : pc'[x] # "give"
      BY <1>1, <2>2 DEF Token, GivePc
    <3>. QED  BY <2>5, <3>1, <3>2, <3>3 DEF QueueInv
  <2>11. GiveInv'
    <3>1. \A x \in Proc : pc'[x] \in GivePc => x = p
      BY <1>1, <2>2 DEF Token
    <3>2. pc'[h] \in VMWaitPc
      BY <2>2, <2>4, <2>6, <2>7
    <3>. QED  BY <2>2, <2>4, <2>5, <3>1, <3>2 DEF GiveInv
  <2>12. WakeInv'
    BY <1>0, <1>2, <2>2 DEF WakeInv
  <2>13. RzInv'
    BY <1>0, <2>2 DEF RzInv, Tag, RvPc, GivePc, TypeOK
  <2>. QED  BY <1>3, <2>8, <2>10, <2>11, <2>12, <2>13 DEF ProcInv
<1>. QED  BY <1>6, <1>7

\* acquire takes the idle VM, or queues the Proc in front of the vmachines.
LEMMA AcquireProcInv ==
  ASSUME NEW p \in Proc, IInv, Acquire(p)
  PROVE  ProcInv'
<1>. USE NilAssumption
<1>0. /\ TypeOK /\ OneVM /\ QueueInv /\ GiveInv /\ WakeInv /\ RzInv /\ NoLostWakeup
      /\ pc \in [Proc -> PC] /\ pc[p] = "acquire" /\ yield \in Nat
      /\ UNCHANGED <<runq, hand, rz, irendP, irendL>>
  BY DEF IInv, ProcInv, TypeOK, Acquire, progVars, irendVars
<1>1. /\ pc'[p] \in {"resume", "wakeup", "wait"}
      /\ \A x \in Proc \ {p} : pc'[x] = pc[x]
  BY <1>0 DEF Acquire, Goto
<1>2. WakeInv'
  BY <1>0, <1>1 DEF WakeInv, TypeOK
<1>3. RzInv'
  BY <1>0, <1>1 DEF RzInv, Tag, RvPc, GivePc, TypeOK
<1>4. \A x \in Proc : Given(x)' <=> Given(x)
  BY <1>0, <1>1 DEF Given, GivePc
<1>5. p \notin Elems(vmq)
  BY <1>0 DEF QueueInv, VMWaitPc, AcqPc
<1>6. CASE idle
  <2>1. UNCHANGED <<yield, vmq, vmqt>> /\ idle' = FALSE /\ pc'[p] = "resume"
    BY <1>0, <1>6 DEF Acquire, Goto
  <2>2. OneVM'
    BY <1>0, <1>1, <1>6, <2>1 DEF OneVM, Token, OwnerPc, GivePc
  <2>3. QueueInv'
    BY <1>0, <1>1, <1>4, <1>5, <2>1 DEF QueueInv, VMWaitPc, AcqPc
  <2>4. GiveInv'
    BY <1>0, <1>1, <2>1 DEF GiveInv, VMWaitPc, AcqPc, GivePc
  <2>5. irendP = NoProc
    BY <1>0, <1>6 DEF NoLostWakeup, TypeOK, OneVM, Token, OwnerPc
  <2>6. NoLostWakeup'
    BY <1>0, <2>5 DEF NoLostWakeup
  <2>. QED  BY <1>2, <1>3, <2>2, <2>3, <2>4, <2>6 DEF ProcInv
<1>7. CASE ~idle
  <2>1. /\ vmq' = PushHead(vmq, p) /\ vmqt' = (IF vmq = <<>> THEN p ELSE vmqt)
        /\ idle' = idle /\ yield' = yield + 1
        /\ pc'[p] = IF yield = 0 THEN "wakeup" ELSE "wait"
    BY <1>0, <1>7 DEF Acquire, Goto
  <2>2. /\ Elems(PushHead(vmq, p)) = Elems(vmq) \cup {p}
        /\ NoDup(PushHead(vmq, p))
        /\ LastIs(PushHead(vmq, p), IF vmq = <<>> THEN p ELSE vmqt)
    <3>1. vmq \in Seq(Proc) /\ NoDup(vmq) /\ LastIs(vmq, vmqt)
      BY <1>0 DEF TypeOK, QueueInv
    <3>. QED  BY <1>5, <3>1, PushQueue
  <2>3. Elems(vmq') = Elems(vmq) \cup {p} /\ NoDup(vmq') /\ LastIs(vmq', vmqt')
    BY <2>1, <2>2
  <2>4. OneVM'
    BY <1>0, <1>1, <2>1 DEF OneVM, Token, OwnerPc, GivePc
  <2>5. pc'[p] \in VMWaitPc
    BY <2>1 DEF VMWaitPc, AcqPc
  <2>6. QueueInv'
    <3>1. \A x \in Elems(vmq') : x \in Proc /\ pc'[x] \in VMWaitPc \cup {"give"}
      BY <1>0, <1>1, <2>3, <2>5 DEF QueueInv
    <3>2. \A x \in Proc : /\ pc'[x] \in VMWaitPc => x \in Elems(vmq') \/ Given(x)'
                          /\ pc'[x] = "give" => x \in Elems(vmq')
      BY <1>0, <1>1, <1>4, <2>3 DEF QueueInv
    <3>. QED  BY <2>3, <3>1, <3>2 DEF QueueInv
  <2>7. GiveInv'
    BY <1>0, <1>1, <2>1, <2>3, <2>5 DEF GiveInv, VMWaitPc, AcqPc, GivePc
  <2>8. NoLostWakeup'
    <3>. SUFFICES ASSUME irendP # NoProc
                  PROVE  /\ pc'[irendP] = "ksleep" /\ runq = <<>>
                         /\ \E x \in Proc : pc'[x] = "wakeup"
      BY <1>0 DEF NoLostWakeup
    <3>1. irendP \in Proc /\ pc[irendP] = "ksleep" /\ runq = <<>>
      BY <1>0 DEF NoLostWakeup, TypeOK
    <3>2. yield # 0 => \E x \in Proc : pc[x] = "wakeup"
      BY <1>0 DEF NoLostWakeup
    <3>. QED  BY <1>0, <1>1, <2>1, <3>1, <3>2
  <2>. QED  BY <1>2, <1>3, <2>4, <2>6, <2>7, <2>8 DEF ProcInv
<1>. QED  BY <1>6, <1>7

\* The steps of one Proc between two places of acquire's wait for the VM.
LEMMA WaiterFrame ==
  ASSUME IInv, NEW p \in Proc, pc[p] \in {"wakeup", "wake", "wakeunl", "wait"} \cup RvPc,
         pc'[p] = pc[p] \/ (pc[p] \in AcqPc /\ pc'[p] \in AcqPc),
         \A x \in Proc \ {p} : pc'[x] = pc[x] /\ hand'[x] = hand[x],
         pc[p] \in GivePc => hand'[p] = hand[p],
         UNCHANGED <<idle, vmq, vmqt>>
  PROVE  OneVM' /\ QueueInv' /\ GiveInv'
<1>. USE NilAssumption
<1>0. TypeOK /\ OneVM /\ QueueInv /\ GiveInv
  BY DEF IInv, ProcInv
<1>1. \A x \in Proc : /\ Token(x)' <=> Token(x)
                      /\ pc'[x] \in VMWaitPc <=> pc[x] \in VMWaitPc
                      /\ pc'[x] \in GivePc <=> pc[x] \in GivePc
                      /\ pc'[x] = "give" <=> pc[x] = "give"
  BY DEF Token, OwnerPc, VMWaitPc, AcqPc, GivePc
<1>2. \A x \in Proc : Given(x)' <=> Given(x)
  BY <1>1 DEF Given
<1>3. OneVM'
  BY <1>0, <1>1 DEF OneVM
<1>4. QueueInv'
  BY <1>0, <1>1, <1>2 DEF QueueInv
<1>5. GiveInv'
  BY <1>0, <1>1 DEF GiveInv
<1>. QED  BY <1>3, <1>4, <1>5

\* kwakeup takes the sleeper out of irend.
LEMMA WakeupProcInv ==
  ASSUME NEW p \in Proc, IInv, Wakeup(p)
  PROVE  ProcInv'
<1>. USE NilAssumption
<1>0. /\ TypeOK /\ OneVM /\ QueueInv /\ GiveInv /\ WakeInv /\ RzInv /\ NoLostWakeup
      /\ pc \in [Proc -> PC] /\ pc[p] = "wakeup" /\ hand \in [Proc -> Proc \cup {NoProc}]
      /\ UNCHANGED <<idle, yield, vmq, vmqt, runq, rz>> /\ irendL = NoProc
  BY DEF IInv, ProcInv, TypeOK, Wakeup, progVars, lockVars
<1>1. /\ pc'[p] \in {"wait", "wake"}
      /\ \A x \in Proc \ {p} : pc'[x] = pc[x] /\ hand'[x] = hand[x]
  BY <1>0 DEF Wakeup, Goto
<1>2. OneVM' /\ QueueInv' /\ GiveInv'
  BY <1>0, <1>1, WaiterFrame DEF AcqPc, GivePc
<1>3. \A w \in Proc : pc[w] \notin {"wake", "wakeunl"}
  BY <1>0 DEF WakeInv
<1>4. RzInv'
  BY <1>0, <1>1 DEF RzInv, Tag, RvPc, GivePc, TypeOK
<1>5. CASE irendP = NoProc
  <2>1. pc'[p] = "wait" /\ UNCHANGED <<irendP, irendL>>
    BY <1>0, <1>5 DEF Wakeup, Goto, irendVars
  <2>2. WakeInv' /\ NoLostWakeup'
    BY <1>1, <1>3, <1>5, <2>1 DEF WakeInv, NoLostWakeup
  <2>. QED  BY <1>2, <1>4, <2>2 DEF ProcInv
<1>6. CASE irendP # NoProc
  <2>1. pc'[p] = "wake" /\ irendP' = NoProc /\ irendL' = p /\ hand'[p] = irendP
    BY <1>0, <1>6 DEF Wakeup, Goto
  <2>2. irendP \in Proc /\ pc[irendP] = "ksleep" /\ irendP # p
    BY <1>0, <1>6 DEF NoLostWakeup, TypeOK
  <2>3. WakeInv'
    BY <1>1, <1>3, <2>1, <2>2 DEF WakeInv
  <2>4. NoLostWakeup'
    BY <2>1 DEF NoLostWakeup
  <2>. QED  BY <1>2, <1>4, <2>3, <2>4 DEF ProcInv
<1>. QED  BY <1>5, <1>6

\* kwakeup lets go of irend.
LEMMA WakeupUnlockProcInv ==
  ASSUME NEW p \in Proc, IInv, WakeupUnlock(p)
  PROVE  ProcInv'
<1>. USE NilAssumption
<1>0. /\ TypeOK /\ OneVM /\ QueueInv /\ GiveInv /\ WakeInv /\ RzInv /\ NoLostWakeup
      /\ pc \in [Proc -> PC] /\ pc[p] = "wakeunl"
      /\ UNCHANGED <<idle, yield, vmq, vmqt, runq, hand, rz, irendP>> /\ irendL' = NoProc
  BY DEF IInv, ProcInv, TypeOK, WakeupUnlock, progVars, lockVars
<1>1. pc'[p] = "wait" /\ \A x \in Proc \ {p} : pc'[x] = pc[x] /\ hand'[x] = hand[x]
  BY <1>0 DEF WakeupUnlock, Goto
<1>2. OneVM' /\ QueueInv' /\ GiveInv'
  BY <1>0, <1>1, WaiterFrame DEF AcqPc, GivePc
<1>3. \A w \in Proc : pc'[w] \notin {"wake", "wakeunl"}
  <2>1. \A w \in Proc \ {p} : pc[w] \notin {"wake", "wakeunl"}
    BY <1>0 DEF WakeInv, TypeOK
  <2>. QED  BY <1>1, <2>1
<1>4. RzInv'
  BY <1>0, <1>1 DEF RzInv, Tag, RvPc, GivePc, TypeOK
<1>5. WakeInv'
  BY <1>0, <1>1, <1>3 DEF WakeInv, TypeOK
<1>6. NoLostWakeup'
  BY <1>0, <1>1 DEF NoLostWakeup, TypeOK
<1>. QED  BY <1>2, <1>4, <1>5, <1>6 DEF ProcInv

\* krendez by the first of the two Procs.
LEMMA RendezvousWaitProcInv ==
  ASSUME NEW p \in Proc, IInv, RendezvousWait(p)
  PROVE  ProcInv'
<1>. USE NilAssumption
<1>0. /\ TypeOK /\ OneVM /\ QueueInv /\ GiveInv /\ WakeInv /\ RzInv /\ NoLostWakeup
      /\ UNCHANGED <<pc, idle, yield, vmq, vmqt, runq, hand, irendP, irendL>>
      /\ pc[p] \in RvPc /\ rz' = [rz EXCEPT ![Tag(p)] = p]
      /\ rz \in [Proc -> Proc \cup {NoProc}]
  BY DEF IInv, ProcInv, TypeOK, RendezvousWait, progVars, lockVars, irendVars
<1>1. OneVM' /\ GiveInv' /\ WakeInv' /\ NoLostWakeup'
  BY <1>0 DEF OneVM, Token, GiveInv, WakeInv, NoLostWakeup
<1>2. QueueInv'
  <2>1. \A x \in Proc : Given(x)' <=> Given(x)
    BY <1>0 DEF Given
  <2>. QED  BY <1>0, <2>1 DEF QueueInv
<1>3. \A x \in Proc : Tag(x)' = Tag(x)
  BY <1>0 DEF Tag
<1>4. ASSUME NEW t \in Proc, rz'[t] # NoProc
      PROVE  pc'[rz'[t]] \in RvPc /\ Tag(rz[t])' = t
  <2>1. CASE t = Tag(p)
    <3>1. rz'[t] = p
      BY <1>0, <2>1
    <3>. QED  BY <1>0, <2>1, <3>1 DEF Tag
  <2>2. CASE t # Tag(p)
    <3>1. rz'[t] = rz[t] /\ rz[t] \in Proc
      BY <1>0, <1>4, <2>2
    <3>2. pc[rz[t]] \in RvPc /\ Tag(rz[t]) = t
      BY <1>0, <1>4, <3>1 DEF RzInv
    <3>. QED  BY <1>0, <3>1, <3>2 DEF Tag
  <2>. QED  BY <2>1, <2>2
<1>5. RzInv'
  BY <1>4 DEF RzInv
<1>. QED  BY <1>1, <1>2, <1>5 DEF ProcInv

\* Every step keeps ProcInv.
LEMMA ProcStep ==
  ASSUME IInv, [Next]_vars
  PROVE  ProcInv'
<1>. USE NilAssumption
<1>0. /\ TypeOK /\ OneVM /\ QueueInv /\ GiveInv /\ WakeInv /\ RzInv /\ NoLostWakeup
      /\ pc \in [Proc -> PC]
  BY DEF IInv, ProcInv, TypeOK
<1>1. ASSUME NEW p \in Proc,
             LoopTop(p) \/ ExecAtIdle(p) \/ MemLow(p) \/ YieldCheck(p) \/ Slice(p) \/ Resume(p)
             \/ RaiseError(p) \/ Handle(p) \/ ProgBroken(p) \/ ProgExit(p)
             \/ BlockSelf(p) \/ QuantaEnd(p)
      PROVE  ProcInv'
  <2>1. OwnerMove(p)
    BY <1>1 DEF LoopTop, ExecAtIdle, MemLow, YieldCheck, Slice, Resume, RaiseError, Handle,
       ProgBroken, ProgExit, BlockSelf, QuantaEnd, Goto, OwnerMove, OwnerPc, lockVars,
       irendVars
  <2>. QED  BY <2>1, OwnerMoveProcInv
<1>2. ASSUME NEW p \in Proc, Spawn(p) \/ ReadyPeer(p)
      PROVE  ProcInv'
  <2>1. /\ pc[p] \in {"xec", "ret", "idlegc", "error", "memlow"} /\ pc' = [pc EXCEPT ![p] = pc[p]]
        /\ UNCHANGED <<idle, vmq, vmqt, hand, rz, irendP, irendL>>
    BY <1>0, <1>2 DEF Spawn, ReadyPeer, lockVars, irendVars
  <2>2. OwnerMove(p)
    BY <2>1 DEF OwnerMove, OwnerPc, irendVars
  <2>. QED  BY <2>2, OwnerMoveProcInv
<1>3. ASSUME NEW p \in Proc, KProc(p) \/ NativeDone(p)
      PROVE  ProcInv'
  <2>1. UNCHANGED <<idle, yield, vmq, vmqt, runq, hand, rz, irendVars>>
    BY <1>3 DEF KProc, NativeDone, lockVars, progVars
  <2>2. \A x \in Proc :
           \/ pc'[x] = pc[x]
           \/ /\ pc[x] \in {"none", "kproc", "released"}
              /\ pc'[x] \in {"startup", "released", "acquire"}
    BY <1>0, <1>3 DEF KProc, NativeDone, Goto
  <2>. QED  BY <2>1, <2>2, OutsideProcInv
<1>4. CASE UNCHANGED vars
  <2>1. UNCHANGED <<idle, yield, vmq, vmqt, runq, hand, rz, irendVars, pc>>
    BY <1>4 DEF vars, lockVars, progVars
  <2>. QED  BY <2>1, OutsideProcInv
<1>5. ASSUME NEW p \in Proc, Step(p) \/ NativeDone(p)
      PROVE  ProcInv'
  BY <1>1, <1>2, <1>3, <1>5, MeetProcInv, RendezvousWaitProcInv, StartupProcInv,
     SleepProcInv, IYieldProcInv, ReleaseProcInv, AcquireProcInv, WakeupProcInv,
     WakeupUnlockProcInv
  DEF Step
<1>. QED  BY <1>4, <1>5 DEF Next, Rest

(***************************************************************************)
(* The theorems.                                                           *)
(***************************************************************************)

\* The inductive invariant holds in every reachable state.
THEOREM Invariance == Spec => []IInv
<1>1. Init => IInv
  BY InitIInv
<1>2. IInv /\ [Next]_vars => IInv'
  BY TypeStep, OwnStep, ProcStep DEF IInv
<1>. QED  BY <1>1, <1>2, PTL DEF Spec

\* Every variable keeps its type; in particular iyield never takes yield
\* below zero and no slice runs with an empty run queue.
THEOREM TypeCorrect == Spec => []TypeOK
<1>1. IInv => TypeOK
  BY DEF IInv
<1>. QED  BY <1>1, Invariance, PTL

\* The VM is idle, owned by one Proc or being handed over by one Proc,
\* however many Procs and Progs there are.
THEOREM MutualExclusion == Spec => []OneVM
<1>1. IInv => OneVM
  BY DEF IInv, ProcInv
<1>. QED  BY <1>1, Invariance, PTL

\* Every Proc that waits for the VM is on vmq once or is being given it.
THEOREM WaitersKept == Spec => []NobodyForgotten
<1>1. IInv => NobodyForgotten
  <2>. SUFFICES ASSUME IInv PROVE NobodyForgotten
    OBVIOUS
  <2>1. QueueInv /\ GiveInv
    BY DEF IInv, ProcInv
  <2>2. \A p \in Proc : Given(p) => p \notin Elems(vmq)
    BY <2>1 DEF Given, GiveInv
  <2>. QED  BY <2>1, <2>2 DEF QueueInv, NobodyForgotten
<1>. QED  BY <1>1, Invariance, PTL

\* An owner asleep with a request pending is about to be woken.
THEOREM WakeupsKept == Spec => []NoLostWakeup
<1>1. IInv => NoLostWakeup
  BY DEF IInv, ProcInv
<1>. QED  BY <1>1, Invariance, PTL

\* A rendezvous on a Proc's address pairs that Proc with one other, which
\* wakes it for the reason it sleeps.
THEOREM RendezvousSafe == Spec => []RendezvousPaired
<1>1. IInv => RendezvousPaired
  <2>. SUFFICES ASSUME IInv, NEW t \in Proc, NEW p \in Proc,
                       pc[p] \in RvPc, p # t, Tag(p) = t
                PROVE  /\ pc[t] \in IF pc[p] = "wake" THEN {"ksleep"} ELSE VMWaitPc
                       /\ \A q \in Proc \ {p, t} : pc[q] \in RvPc => Tag(q) # t
    BY DEF RendezvousPaired
  <2>0. OneVM /\ GiveInv /\ WakeInv
    BY DEF IInv, ProcInv
  <2>1. pc[p] \in GivePc \cup {"wake"} /\ hand[p] = t
    BY DEF Tag
  <2>2. pc[t] \in IF pc[p] = "wake" THEN {"ksleep"} ELSE VMWaitPc
    BY <2>0, <2>1 DEF GiveInv, WakeInv, GivePc
  <2>3. ASSUME NEW q \in Proc \ {p, t}, pc[q] \in RvPc, Tag(q) = t
        PROVE  FALSE
    <3>1. pc[q] \in GivePc \cup {"wake"} /\ hand[q] = t
      BY <2>3 DEF Tag
    <3>2. ~(pc[p] \in GivePc /\ pc[q] \in GivePc)
      BY <2>0, <2>3 DEF OneVM, Token
    <3>3. ~(pc[p] = "wake" /\ pc[q] = "wake")
      BY <2>0, <2>3 DEF WakeInv
    <3>. QED  BY <2>0, <2>1, <3>1, <3>2, <3>3 DEF GiveInv, WakeInv, VMWaitPc, AcqPc
  <2>. QED  BY <2>2, <2>3
<1>. QED  BY <1>1, Invariance, PTL

\* While a Proc interprets a Prog, that Prog heads the run queue and its
\* registers are loaded.
THEOREM SliceKept == Spec => []SliceIntact
<1>1. IInv => SliceIntact
  BY DEF IInv, OwnInv, SliceIntact
<1>. QED  BY <1>1, Invariance, PTL

-----------------------------------------------------------------------------
(***************************************************************************)
(* The scheduler implements the lock of VMLock, for every set of Procs and *)
(* Progs.  A step of the scheduler is a step of the lock or leaves the     *)
(* lock alone: acquire() that finds the VM in use claims it, release() and *)
(* iyield() drop it, and the lock is taken when an idle VM is found or the *)
(* rendezvous that hands the VM over takes place.                          *)
(***************************************************************************)

\* The Proc that owns the VM is the holder.
LEMMA HolderIs ==
  ASSUME TypeOK, OneVM
  PROVE  /\ \A p \in Proc : Owner(p) <=> holderBar = p
         /\ holderBar \in Proc \cup {NoProc}
<1>. USE NilAssumption
<1>1. CASE \E p \in Proc : Owner(p)
  <2>1. holderBar \in Proc /\ Owner(holderBar)
    BY <1>1 DEF holderBar
  <2>2. \A p, q \in Proc : Owner(p) /\ Owner(q) => p = q
    BY DEF OneVM, Owner, Token
  <2>. QED  BY <2>1, <2>2
<1>2. CASE \A p \in Proc : ~Owner(p)
  BY <1>2 DEF holderBar
<1>. QED  BY <1>1, <1>2

\* The same after a step.
LEMMA HolderIsNext ==
  ASSUME TypeOK', OneVM'
  PROVE  /\ \A p \in Proc : Owner(p)' <=> holderBar' = p
         /\ holderBar' \in Proc \cup {NoProc}
<1>. USE NilAssumption
<1>1. CASE \E p \in Proc : Owner(p)'
  <2>1. holderBar' \in Proc /\ Owner(holderBar)'
    BY <1>1 DEF holderBar, Owner
  <2>2. \A p, q \in Proc : Owner(p)' /\ Owner(q)' => p = q
    BY DEF OneVM, Owner, Token
  <2>. QED  BY <2>1, <2>2 DEF Owner
<1>2. CASE \A p \in Proc : ~Owner(p)'
  BY <1>2 DEF holderBar, Owner
<1>. QED  BY <1>1, <1>2

\* Steps between two places where p owns the VM, or between two where it
\* neither owns nor asks for it, leave the lock alone; likewise the steps
\* of acquire while it waits.
LEMMA Stutter ==
  ASSUME IInv, IInv',
         \A p \in Proc : /\ pc'[p] \in OwnerPc <=> pc[p] \in OwnerPc
                         /\ pc'[p] \in AcqPc <=> pc[p] \in AcqPc
  PROVE  UNCHANGED Lock!vars
<1>1. TypeOK /\ OneVM /\ TypeOK' /\ OneVM'
  BY DEF IInv, ProcInv
<1>2. holderBar' = holderBar
  BY <1>1, HolderIs, HolderIsNext, NilAssumption DEF Owner
<1>3. claimsBar' = claimsBar
  BY DEF claimsBar
<1>. QED  BY <1>2, <1>3 DEF Lock!vars

\* The initial state is one of the lock.
LEMMA LockInit == Init => Lock!Init
<1>. SUFFICES ASSUME Init PROVE Lock!Init
  OBVIOUS
<1>1. \A p \in Proc : pc[p] \in {"none", "startup"}
  BY DEF Init
<1>2. \A p \in Proc : ~Owner(p) /\ pc[p] \notin AcqPc
  BY <1>1 DEF Owner, OwnerPc, AcqPc
<1>3. holderBar = NoProc /\ claimsBar = {}
  BY <1>2 DEF holderBar, claimsBar
<1>. QED  BY <1>3 DEF Lock!Init

\* Every step of the scheduler is one of the lock, or leaves it alone.
LEMMA LockStep ==
  ASSUME IInv, IInv', [Next]_vars
  PROVE  [Lock!Next]_(Lock!vars)
<1>. USE NilAssumption
<1>0. TypeOK /\ OneVM /\ TypeOK' /\ OneVM' /\ pc \in [Proc -> PC]
  BY DEF IInv, ProcInv, TypeOK
<1>1. /\ \A p \in Proc : Owner(p) <=> holderBar = p
      /\ \A p \in Proc : Owner(p)' <=> holderBar' = p
      /\ holderBar \in Proc \cup {NoProc} /\ holderBar' \in Proc \cup {NoProc}
  BY <1>0, HolderIs, HolderIsNext
<1>2. ASSUME NEW p \in Proc,
             RendezvousWait(p) \/ LoopTop(p) \/ ExecAtIdle(p) \/ MemLow(p) \/ Sleep(p)
             \/ YieldCheck(p) \/ Slice(p) \/ Spawn(p) \/ ReadyPeer(p)
             \/ BlockSelf(p) \/ QuantaEnd(p) \/ KProc(p) \/ NativeDone(p) \/ Wakeup(p)
             \/ WakeupUnlock(p) \/ Resume(p) \/ RaiseError(p) \/ Handle(p)
             \/ ProgBroken(p) \/ ProgExit(p)
      PROVE  UNCHANGED Lock!vars
  <2>1. \A q \in Proc : /\ pc'[q] \in OwnerPc <=> pc[q] \in OwnerPc
                        /\ pc'[q] \in AcqPc <=> pc[q] \in AcqPc
    BY <1>0, <1>2 DEF RendezvousWait, LoopTop, ExecAtIdle, MemLow, Sleep, YieldCheck, Slice, Spawn,
       ReadyPeer, BlockSelf, QuantaEnd, KProc, NativeDone, Wakeup, WakeupUnlock, Resume,
       RaiseError, Handle, ProgBroken, ProgExit, Goto, OwnerPc, AcqPc
  <2>. QED  BY <2>1, Stutter
<1>3. ASSUME NEW p \in Proc, Startup(p)
      PROVE  Lock!Take(p) \/ UNCHANGED Lock!vars
  <2>1. pc[p] = "startup" /\ \A q \in Proc \ {p} : pc'[q] = pc[q]
    BY <1>0, <1>3 DEF Startup, Goto
  <2>2. CASE idle
    <3>1. pc'[p] = "loop" /\ \A q \in Proc : ~Owner(q)
      BY <1>0, <1>3, <2>2 DEF Startup, Goto, OneVM, Token, Owner
    <3>2. holderBar = NoProc /\ holderBar' = p
      BY <1>1, <3>1 DEF Owner, OwnerPc
    <3>3. claimsBar' = claimsBar \ {p}
      BY <2>1, <3>1 DEF claimsBar, AcqPc
    <3>. QED  BY <3>2, <3>3 DEF Lock!Take
  <2>3. CASE ~idle
    <3>1. pc'[p] = "park"
      BY <1>0, <1>3, <2>3 DEF Startup, Goto
    <3>. QED  BY <2>1, <3>1, Stutter DEF OwnerPc, AcqPc
  <2>. QED  BY <2>2, <2>3
<1>4. ASSUME NEW p \in Proc, RendezvousMeet(p)
      PROVE  (\E b \in Proc : Lock!Take(b)) \/ UNCHANGED Lock!vars
  <2>1. PICK a, b \in Proc :
           /\ a # b /\ hand[a] = b
           /\ \/ pc[a] \in GivePc /\ pc[b] \in {"park", "yielded", "wait"}
              \/ pc[a] = "wake" /\ pc[b] = "ksleep"
           /\ pc' = [x \in Proc |-> IF x \in {a, b} THEN After(pc[x]) ELSE pc[x]]
    BY <1>4, MeetCases
  <2>2. /\ pc'[a] = After(pc[a]) /\ pc'[b] = After(pc[b])
        /\ \A x \in Proc \ {a, b} : pc'[x] = pc[x]
    BY <2>1
  <2>3. CASE pc[a] \in GivePc /\ pc[b] \in {"park", "yielded", "wait"}
    <3>1. pc'[a] \in {"yielded", "released"} /\ pc'[b] \in {"loop", "slice", "resume"}
      <4>1. pc'[a] \in {"yielded", "released"}
        BY <2>2, <2>3 DEF After, GivePc
      <4>2. pc'[b] \in {"loop", "slice", "resume"}
        BY <2>2, <2>3 DEF After
      <4>. QED  BY <4>1, <4>2
    <3>2. \A x \in Proc : ~Owner(x)
      BY <1>0, <2>3 DEF OneVM, Token, Owner, OwnerPc, GivePc
    <3>3. holderBar = NoProc /\ holderBar' = b
      BY <1>1, <3>1, <3>2 DEF Owner, OwnerPc
    <3>4. claimsBar' = claimsBar \ {b}
      BY <2>2, <2>3, <3>1 DEF claimsBar, AcqPc, GivePc
    <3>. QED  BY <3>3, <3>4 DEF Lock!Take
  <2>4. CASE pc[a] = "wake" /\ pc[b] = "ksleep"
    <3>1. pc'[a] = "wakeunl" /\ pc'[b] = "yieldchk"
      BY <2>2, <2>4 DEF After
    <3>. QED  BY <2>2, <2>4, <3>1, Stutter DEF OwnerPc, AcqPc
  <2>. QED  BY <2>1, <2>3, <2>4
<1>5. ASSUME NEW p \in Proc, IYield(p) \/ Release(p)
      PROVE  Lock!Drop(p) \/ UNCHANGED Lock!vars
  <2>1. /\ pc[p] \in {"iyield", "xec"}
        /\ pc'[p] \in {"slice", "give", "released", "kproc", "handoff"}
        /\ \A q \in Proc \ {p} : pc'[q] = pc[q]
    BY <1>0, <1>5 DEF IYield, Release, Goto
  <2>2. CASE pc'[p] = "slice"
    BY <2>1, <2>2, Stutter DEF OwnerPc, AcqPc
  <2>3. CASE pc'[p] # "slice"
    <3>1. holderBar = p
      BY <1>1, <2>1 DEF Owner, OwnerPc
    <3>2. \A q \in Proc : ~Owner(q)'
      BY <1>1, <2>1, <2>3, <3>1 DEF Owner, OwnerPc
    <3>3. holderBar' = NoProc
      BY <1>1, <3>2
    <3>4. claimsBar' = claimsBar
      BY <2>1 DEF claimsBar, AcqPc
    <3>. QED  BY <3>1, <3>3, <3>4 DEF Lock!Drop
  <2>. QED  BY <2>2, <2>3
<1>6. ASSUME NEW p \in Proc, Acquire(p)
      PROVE  Lock!Take(p) \/ Lock!Claim(p)
  <2>1. pc[p] = "acquire" /\ \A q \in Proc \ {p} : pc'[q] = pc[q]
    BY <1>0, <1>6 DEF Acquire, Goto
  <2>2. CASE idle
    <3>1. pc'[p] = "resume" /\ \A q \in Proc : ~Owner(q)
      BY <1>0, <1>6, <2>2 DEF Acquire, Goto, OneVM, Token, Owner
    <3>2. holderBar = NoProc /\ holderBar' = p
      BY <1>1, <3>1 DEF Owner, OwnerPc
    <3>3. claimsBar' = claimsBar \ {p}
      BY <2>1, <3>1 DEF claimsBar, AcqPc
    <3>. QED  BY <3>2, <3>3 DEF Lock!Take
  <2>3. CASE ~idle
    <3>1. pc'[p] \in {"wakeup", "wait"}
      BY <1>0, <1>6, <2>3 DEF Acquire, Goto
    <3>2. holderBar # p /\ p \notin claimsBar
      BY <1>1, <2>1 DEF Owner, OwnerPc, claimsBar, AcqPc
    <3>3. claimsBar' = claimsBar \cup {p}
      BY <2>1, <3>1 DEF claimsBar, AcqPc
    <3>4. holderBar' = holderBar
      BY <1>1, <2>1, <3>1 DEF Owner, OwnerPc
    <3>. QED  BY <3>2, <3>3, <3>4 DEF Lock!Claim
  <2>. QED  BY <2>2, <2>3
<1>7. CASE UNCHANGED vars
  BY <1>7, Stutter DEF vars
<1>8. ASSUME NEW p \in Proc, Step(p) \/ NativeDone(p)
      PROVE  [Lock!Next]_(Lock!vars)
  <2>1. CASE Startup(p) \/ Acquire(p) \/ IYield(p) \/ Release(p)
    BY <1>3, <1>5, <1>6, <2>1 DEF Lock!Next
  <2>2. CASE RendezvousMeet(p)
    BY <1>4, <2>2 DEF Lock!Next
  <2>. QED  BY <1>2, <1>8, <2>1, <2>2 DEF Step
<1>. QED  BY <1>7, <1>8 DEF Next, Rest

\* Every behaviour of the scheduler, hand-overs by rendezvous, the queue and
\* its counters included, is a behaviour of the abstract lock: at most one
\* holder, taken only when nobody holds it, dropped only by its holder, and
\* a Proc that claimed it stays a claimant until it holds it.
THEOREM LockImplemented == Spec => ImplementsLock
<1>1. IInv /\ IInv' /\ [Next]_vars => [Lock!Next]_(Lock!vars)
  BY LockStep
<1>. QED  BY <1>1, LockInit, Invariance, PTL DEF Spec, ImplementsLock, Lock!Spec

-----------------------------------------------------------------------------
(***************************************************************************)
(* Theorems about the two queues of VMSched, the run queue of Progs and    *)
(* vmq, and about the vmachine Procs that are made to serve them.  Each    *)
(* is proved relative to IInv.                                             *)
(***************************************************************************)

(***************************************************************************)
(* The run queue and the Progs away in native calls.                       *)
(***************************************************************************)

\* The run queue is well formed, pstate says where each Prog is, and a Proc
\* holds one in iprog only while it is away in native code.
RunInv ==
  /\ NoDup(runq) /\ LastIs(runq, runtl)
  /\ \A g \in Prog : /\ pstate[g] = "ready" <=> g \in Elems(runq)
                     /\ pstate[g] = "release" <=> \E p \in Proc : iprog[p] = g
  /\ \A p, q \in Proc : iprog[p] = iprog[q] /\ iprog[p] # NoProg => p = q
  /\ \A p \in Proc : iprog[p] # NoProg => pc[p] \in NativePc

\* Steps that move Procs about and leave Progs alone.
LEMMA RunFrame ==
  ASSUME RunInv, UNCHANGED <<runq, runtl, pstate, iprog>>,
         \A p \in Proc : pc[p] \in NativePc => pc'[p] \in NativePc
  PROVE  RunInv'
  BY DEF RunInv

\* A Prog that is neither ready nor in a native call joins the run queue.
LEMMA AddRunInv ==
  ASSUME TypeOK, RunInv, NEW g \in Prog, pstate[g] \notin {"ready", "release"},
         AddRun(g), UNCHANGED <<pc, iprog>>
  PROVE  RunInv'
<1>1. runq \in Seq(Prog) /\ NoDup(runq) /\ LastIs(runq, runtl) /\ g \notin Elems(runq)
  BY DEF TypeOK, RunInv
<1>2. runq' = Append(runq, g) /\ runtl' = g
  BY <1>1, LinkAfterLast DEF AddRun
<1>3. NoDup(runq') /\ LastIs(runq', runtl') /\ Elems(runq') = Elems(runq) \cup {g}
  BY <1>1, <1>2, AppendQueue
<1>4. pstate'[g] = "ready" /\ \A h \in Prog \ {g} : pstate'[h] = pstate[h]
  BY DEF AddRun, TypeOK
<1>5. \A p \in Proc : iprog[p] # g
  BY DEF RunInv
<1>. QED  BY <1>3, <1>4, <1>5 DEF RunInv

\* The head of the run queue leaves it for a state that is neither.
LEMMA PopRun ==
  ASSUME TypeOK, RunInv, runq # <<>>, NEW st \in PState,
         pstate' = [pstate EXCEPT ![Head(runq)] = st], runq' = Tail(runq),
         runtl' = IF Tail(runq) = <<>> THEN NoProg ELSE runtl
  PROVE  /\ Head(runq) \in Prog /\ pstate[Head(runq)] = "ready"
         /\ NoDup(runq') /\ LastIs(runq', runtl')
         /\ \A g \in Prog \ {Head(runq)} :
              pstate'[g] = pstate[g] /\ (g \in Elems(runq') <=> g \in Elems(runq))
         /\ pstate'[Head(runq)] = st /\ Head(runq) \notin Elems(runq')
<1>1. runq \in Seq(Prog) /\ NoDup(runq) /\ LastIs(runq, runtl)
  BY DEF TypeOK, RunInv
<1>2. /\ Head(runq) \in Prog /\ Elems(runq) = Elems(Tail(runq)) \cup {Head(runq)}
      /\ NoDup(Tail(runq)) /\ Head(runq) \notin Elems(Tail(runq))
      /\ LastIs(Tail(runq), runtl)
  BY <1>1, PopQueue
<1>3. LastIs(runq', runtl')
  BY <1>2 DEF LastIs
<1>4. pstate[Head(runq)] = "ready"
  BY <1>2 DEF RunInv
<1>5. /\ pstate'[Head(runq)] = st
      /\ \A g \in Prog \ {Head(runq)} : pstate'[g] = pstate[g]
  BY <1>2 DEF TypeOK
<1>. QED  BY <1>2, <1>3, <1>4, <1>5

\* The same while every Proc keeps what it holds.
LEMMA PopRunInv ==
  ASSUME TypeOK, RunInv, runq # <<>>, NEW st \in PState \ {"ready", "release"},
         pstate' = [pstate EXCEPT ![Head(runq)] = st], runq' = Tail(runq),
         runtl' = IF Tail(runq) = <<>> THEN NoProg ELSE runtl,
         UNCHANGED iprog,
         \A p \in Proc : pc[p] \in NativePc => pc'[p] \in NativePc
  PROVE  RunInv'
<1> DEFINE h == Head(runq)
<1>1. /\ h \in Prog /\ pstate[h] = "ready" /\ NoDup(runq') /\ LastIs(runq', runtl')
      /\ \A g \in Prog \ {h} : /\ pstate'[g] = pstate[g]
                               /\ g \in Elems(runq') <=> g \in Elems(runq)
      /\ pstate'[h] = st /\ h \notin Elems(runq')
  BY PopRun
<1> HIDE DEF h
<1>2. \A p \in Proc : iprog[p] # h
  BY <1>1 DEF RunInv
<1>. QED  BY <1>1, <1>2 DEF RunInv

\* The end of a slice rotates the run queue or leaves it.
LEMMA RotateInv ==
  ASSUME TypeOK, RunInv, NEW p \in Proc, runq # <<>>, Head(runq) = cur[p],
         EndSlice(p, runq, runtl), UNCHANGED <<pstate, iprog>>,
         \A q \in Proc : pc[q] \in NativePc => pc'[q] \in NativePc
  PROVE  RunInv'
<1> DEFINE h == Head(runq)
<1>1. runq \in Seq(Prog) /\ NoDup(runq) /\ LastIs(runq, runtl)
  BY DEF TypeOK, RunInv
<1>2. /\ h \in Prog /\ Tail(runq) \in Seq(Prog)
      /\ Elems(runq) = Elems(Tail(runq)) \cup {h}
      /\ NoDup(Tail(runq)) /\ h \notin Elems(Tail(runq)) /\ LastIs(Tail(runq), runtl)
  BY <1>1, PopQueue
<1>3. \/ UNCHANGED <<runq, runtl>>
      \/ runq' = LinkAfter(Tail(runq), runtl, h) /\ runtl' = h
  BY DEF EndSlice
<1> HIDE DEF h
<1>4. CASE UNCHANGED <<runq, runtl>>
  BY <1>4, RunFrame
<1>5. CASE runq' = LinkAfter(Tail(runq), runtl, h) /\ runtl' = h
  <2>1. /\ Tail(runq) \in Seq(Prog) /\ h \in Prog /\ NoDup(Tail(runq))
        /\ LastIs(Tail(runq), runtl) /\ h \notin Elems(Tail(runq))
    BY <1>2
  <2>2. LinkAfter(Tail(runq), runtl, h) = Append(Tail(runq), h)
    BY <2>1, LinkAfterLast
  <2>3. /\ NoDup(Append(Tail(runq), h)) /\ LastIs(Append(Tail(runq), h), h)
        /\ Elems(Append(Tail(runq), h)) = Elems(Tail(runq)) \cup {h}
    BY <2>1, AppendQueue, ZenonT(60)
  <2>4. NoDup(runq') /\ LastIs(runq', runtl') /\ Elems(runq') = Elems(runq)
    BY <1>2, <1>5, <2>2, <2>3
  <2>. QED  BY <2>4 DEF RunInv
<1>. QED  BY <1>3, <1>4, <1>5

\* release takes its Prog off the run queue.
LEMMA ReleaseRunInv ==
  ASSUME IInv, RunInv, NEW p \in Proc, Release(p)
  PROVE  RunInv'
<1>. USE NilAssumption
<1> DEFINE h == Head(runq)
<1>1. TypeOK /\ pc[p] = "xec" /\ runq # <<>> /\ DelRun("release")
      /\ pc \in [Proc -> PC] /\ iprog \in [Proc -> Prog \cup {NoProg}]
  BY DEF IInv, OwnInv, Release, TypeOK
<1>2. /\ h \in Prog /\ pstate[h] = "ready" /\ NoDup(runq') /\ LastIs(runq', runtl')
      /\ \A g \in Prog \ {h} : /\ pstate'[g] = pstate[g]
                               /\ g \in Elems(runq') <=> g \in Elems(runq)
      /\ pstate'[h] = "release" /\ h \notin Elems(runq')
  <2>1. "release" \in PState
    BY DEF PState
  <2>. QED  BY <1>1, <2>1, PopRun DEF DelRun
<1>3. iprog' = [iprog EXCEPT ![p] = h] /\ pc'[p] \in {"kproc", "released", "handoff"}
  BY <1>1 DEF Release, Goto
<1>4. \A q \in Proc \ {p} : pc'[q] = pc[q]
  BY <1>1 DEF Release, Goto
<1> HIDE DEF h
<1>5. iprog'[p] = h /\ \A q \in Proc \ {p} : iprog'[q] = iprog[q]
  BY <1>1, <1>3
<1>6. iprog[p] = NoProg
  BY <1>1 DEF RunInv, NativePc, AcqPc
<1>7. \A q \in Proc : iprog[q] # h
  BY <1>2 DEF RunInv
<1>8. \A q \in Proc : iprog'[q] # NoProg => pc'[q] \in NativePc
  BY <1>3, <1>4, <1>5 DEF RunInv, NativePc
<1>9. \A x, q \in Proc : iprog'[x] = iprog'[q] /\ iprog'[x] # NoProg => x = q
  BY <1>5, <1>7 DEF RunInv
<1>10. ASSUME NEW g \in Prog
       PROVE  /\ pstate'[g] = "ready" <=> g \in Elems(runq')
              /\ pstate'[g] = "release" <=> \E q \in Proc : iprog'[q] = g
  <2>1. CASE g = h
    BY <1>2, <1>5, <2>1
  <2>2. CASE g # h
    BY <1>2, <1>5, <1>6, <2>2 DEF RunInv
  <2>. QED  BY <2>1, <2>2
<1>. QED  BY <1>2, <1>8, <1>9, <1>10 DEF RunInv

\* A Proc that has the VM back puts its Prog on the run queue.
LEMMA ResumeRunInv ==
  ASSUME IInv, RunInv, NEW p \in Proc, Resume(p)
  PROVE  RunInv'
<1>. USE NilAssumption
<1> DEFINE h == iprog[p]
<1>1. TypeOK /\ pc[p] = "resume" /\ pc \in [Proc -> PC]
      /\ iprog \in [Proc -> Prog \cup {NoProg}] /\ pstate \in [Prog -> PState]
      /\ runq \in Seq(Prog) /\ NoDup(runq) /\ LastIs(runq, runtl)
  BY DEF IInv, TypeOK, Resume, RunInv
<1>2. h \in Prog /\ pstate[h] = "release" /\ h \notin Elems(runq)
  <2>1. h \in Prog
    BY <1>1 DEF IInv, OwnInv, NativePc
  <2>. QED  BY <2>1 DEF RunInv
<1>3. /\ iprog' = [iprog EXCEPT ![p] = NoProg] /\ pstate' = [pstate EXCEPT ![h] = "ready"]
      /\ runq' = PushHead(runq, h) /\ runtl' = (IF runq = <<>> THEN h ELSE runtl)
  BY DEF Resume
<1>4. \A q \in Proc \ {p} : pc'[q] = pc[q]
  BY <1>1 DEF Resume, Goto
<1>5. /\ iprog'[p] = NoProg /\ \A q \in Proc \ {p} : iprog'[q] = iprog[q] /\ iprog[q] # h
      /\ pstate'[h] = "ready" /\ \A g \in Prog \ {h} : pstate'[g] = pstate[g]
  BY <1>1, <1>2, <1>3 DEF RunInv
<1> HIDE DEF h
<1>6. NoDup(runq') /\ LastIs(runq', runtl') /\ Elems(runq') = Elems(runq) \cup {h}
  <2>1. /\ NoDup(PushHead(runq, h)) /\ Elems(PushHead(runq, h)) = Elems(runq) \cup {h}
        /\ LastIs(PushHead(runq, h), IF runq = <<>> THEN h ELSE runtl)
    BY <1>1, <1>2, PushQueue
  <2>. QED  BY <1>3, <2>1
<1>7. ASSUME NEW g \in Prog
      PROVE  /\ pstate'[g] = "ready" <=> g \in Elems(runq')
             /\ pstate'[g] = "release" <=> \E q \in Proc : iprog'[q] = g
  <2>1. CASE g = h
    BY <1>5, <1>6, <2>1
  <2>2. CASE g # h
    <3>1. iprog[p] # g
      BY <2>2 DEF h
    <3>. QED  BY <1>5, <1>6, <2>2, <3>1 DEF RunInv
  <2>. QED  BY <2>1, <2>2
<1>8. \A q \in Proc : iprog'[q] # NoProg => pc'[q] \in NativePc
  BY <1>4, <1>5 DEF RunInv
<1>. QED  BY <1>5, <1>6, <1>7, <1>8 DEF RunInv

\* Every step keeps RunInv.
LEMMA RunStep ==
  ASSUME IInv, RunInv, [Next]_vars
  PROVE  RunInv'
<1>. USE NilAssumption
<1>0. TypeOK /\ OwnInv /\ pc \in [Proc -> PC]
  BY DEF IInv, TypeOK
<1>1. ASSUME NEW p \in Proc,
             Startup(p) \/ LoopTop(p) \/ ExecAtIdle(p) \/ MemLow(p) \/ Sleep(p) \/ YieldCheck(p)
             \/ IYield(p) \/ Slice(p) \/ KProc(p) \/ NativeDone(p) \/ Acquire(p)
             \/ Wakeup(p) \/ WakeupUnlock(p) \/ RaiseError(p) \/ Handle(p)
      PROVE  RunInv'
  <2>1. UNCHANGED <<runq, runtl, pstate, iprog>>
    BY <1>1 DEF Startup, LoopTop, ExecAtIdle, MemLow, Sleep, YieldCheck, IYield, Slice, KProc,
       NativeDone, Acquire, Wakeup, WakeupUnlock, RaiseError, Handle, progVars
  <2>2. \A q \in Proc : pc[q] \in NativePc => pc'[q] \in NativePc
    BY <1>0, <1>1 DEF Startup, LoopTop, ExecAtIdle, MemLow, Sleep, YieldCheck, IYield, Slice,
       KProc, NativeDone, Acquire, Wakeup, WakeupUnlock, RaiseError, Handle, Goto,
       NativePc, AcqPc
  <2>. QED  BY <2>1, <2>2, RunFrame
<1>2. ASSUME NEW p \in Proc, RendezvousWait(p) \/ RendezvousMeet(p)
      PROVE  RunInv'
  <2>1. UNCHANGED <<runq, runtl, pstate, iprog>>
    BY <1>2 DEF RendezvousWait, RendezvousMeet, progVars
  <2>2. \A l \in NativePc : After(l) \in NativePc
    BY DEF After, NativePc, AcqPc
  <2>3. \A q \in Proc : pc'[q] = pc[q] \/ pc'[q] = After(pc[q])
    BY <1>0, <1>2 DEF RendezvousWait, RendezvousMeet
  <2>. QED  BY <2>1, <2>2, <2>3, RunFrame
<1>3. ASSUME NEW p \in Proc, Spawn(p) \/ ReadyPeer(p)
      PROVE  RunInv'
  <2>1. PICK g \in Prog : pstate[g] \in {"none", "blocked"} /\ AddRun(g)
    BY <1>3 DEF Spawn, ReadyPeer
  <2>2. UNCHANGED <<pc, iprog>>
    BY <1>3 DEF Spawn, ReadyPeer
  <2>. QED  BY <1>0, <2>1, <2>2, AddRunInv
<1>4. ASSUME NEW p \in Proc, BlockSelf(p)
      PROVE  RunInv'
  <2>1. runq # <<>> /\ cur[p] = Head(runq) /\ runq \in Seq(Prog) /\ NoDup(runq)
    BY <1>0, <1>4 DEF BlockSelf, OwnInv, TypeOK, RunInv
  <2>2. Tail(runq) # <<>> => Head(Tail(runq)) # cur[p]
    <3>1. Tail(runq) \in Seq(Prog) /\ Head(runq) \notin Elems(Tail(runq))
      BY <2>1, PopQueue
    <3>2. Tail(runq) # <<>> => Head(Tail(runq)) \in Elems(Tail(runq))
      BY <3>1, PopQueue, ZenonT(60)
    <3>. QED  BY <2>1, <3>1, <3>2
  <2>3. runq' = Tail(runq) /\ runtl' = IF Tail(runq) = <<>> THEN NoProg ELSE runtl
    BY <1>4, <2>2 DEF BlockSelf, EndSlice
  <2>4. /\ pstate' = [pstate EXCEPT ![Head(runq)] = "blocked"] /\ UNCHANGED iprog
        /\ "blocked" \in PState \ {"ready", "release"}
    BY <1>4 DEF BlockSelf, PState
  <2>5. \A q \in Proc : pc[q] \in NativePc => pc'[q] \in NativePc
    BY <1>0, <1>4 DEF BlockSelf, Goto, NativePc, AcqPc
  <2>. QED  BY <1>0, <2>1, <2>3, <2>4, <2>5, PopRunInv
<1>5. ASSUME NEW p \in Proc, QuantaEnd(p)
      PROVE  RunInv'
  <2>1. runq # <<>> /\ Head(runq) = cur[p] /\ EndSlice(p, runq, runtl)
    BY <1>0, <1>5 DEF QuantaEnd, OwnInv
  <2>2. /\ UNCHANGED <<pstate, iprog>>
        /\ \A q \in Proc : pc[q] \in NativePc => pc'[q] \in NativePc
    BY <1>0, <1>5 DEF QuantaEnd, Goto, NativePc, AcqPc
  <2>. QED  BY <1>0, <2>1, <2>2, RotateInv
<1>6. ASSUME NEW p \in Proc, ProgBroken(p) \/ ProgExit(p)
      PROVE  RunInv'
  <2>1. PICK st \in {"broken", "gone"} : DelRun(st)
    BY <1>6 DEF ProgBroken, ProgExit
  <2>2. runq # <<>> /\ UNCHANGED iprog /\ st \in PState \ {"ready", "release"}
    BY <1>0, <1>6 DEF ProgBroken, ProgExit, OwnInv, PState
  <2>3. \A q \in Proc : pc[q] \in NativePc => pc'[q] \in NativePc
    BY <1>0, <1>6 DEF ProgBroken, ProgExit, Goto, NativePc, AcqPc
  <2>. QED  BY <1>0, <2>1, <2>2, <2>3, PopRunInv DEF DelRun
<1>7. CASE UNCHANGED vars
  BY <1>7, RunFrame DEF vars, progVars
<1>. QED
  BY <1>1, <1>2, <1>3, <1>4, <1>5, <1>6, <1>7, ReleaseRunInv, ResumeRunInv
  DEF Next, Step, Rest

\* RunInv holds initially.
LEMMA RunInit == Init => RunInv
<1>. SUFFICES ASSUME Init PROVE RunInv
  OBVIOUS
<1>1. PICK g \in Prog : /\ runq = <<g>> /\ runtl = g
                        /\ pstate = [h \in Prog |-> IF h = g THEN "ready" ELSE "none"]
  BY DEF Init
<1>2. NoDup(runq) /\ LastIs(runq, runtl) /\ Elems(runq) = {g}
  BY <1>1 DEF NoDup, LastIs, Elems
<1>3. \A p \in Proc : iprog[p] = NoProg
  BY DEF Init
<1>. QED  BY <1>1, <1>2, <1>3, NilAssumption DEF RunInv

\* So it holds in every reachable state.
LEMMA RunInvariance == Spec => []RunInv
<1>. QED  BY RunInit, RunStep, Invariance, PTL DEF Spec

\* Every Prog is where its state says: on the run queue, once, exactly if it
\* is ready, and held by exactly one Proc if it is away in a native call,
\* whatever slices, releases, resumptions and errors there were.
THEOREM ProgsKept == Spec => []ProgsAccounted
<1>1. RunInv => ProgsAccounted
  BY NilAssumption DEF RunInv, ProgsAccounted
<1>. QED  BY <1>1, RunInvariance, PTL

\* Both tail pointers are those of their queues, so that an element linked
\* after one of them is appended and nobody behind it is cut off.
THEOREM TailsKept == Spec => []TailsRight
<1>1. IInv /\ RunInv => TailsRight
  BY DEF IInv, ProcInv, QueueInv, RunInv, LastIs, TailsRight
<1>. QED  BY <1>1, Invariance, RunInvariance, PTL

(***************************************************************************)
(* Procs made to serve an idle VM.                                         *)
(***************************************************************************)

\* p is to make a vmachine, or is one that has not reached the VM yet.
Coming(p) == pc[p] \in {"kproc", "startup"}

\* At most one vmachine is on its way.  creating is set for it, except at
\* first, when it is the only Proc there is.
ComingInv ==
  /\ \A p, q \in Proc : Coming(p) /\ Coming(q) => p = q
  /\ creating => \E p \in Proc : Coming(p)
  /\ \A p \in Proc : Coming(p) /\ ~creating =>
       pc[p] = "startup" /\ \A q \in Proc \ {p} : pc[q] = "none"
  /\ idle => \E p \in Proc : Coming(p)

\* Steps that make no vmachine and leave the VM in use.
LEMMA ComingFrame ==
  ASSUME ComingInv, NEW p \in Proc, ~Coming(p), pc[p] # "none",
         creating' = creating, idle' => idle,
         \A q \in Proc : Coming(q)' <=> Coming(q)
  PROVE  ComingInv'
  BY DEF ComingInv

\* Every step keeps ComingInv.
LEMMA ComingStep ==
  ASSUME IInv, ComingInv, [Next]_vars
  PROVE  ComingInv'
<1>0. pc \in [Proc -> PC] /\ OneVM
  BY DEF IInv, ProcInv, TypeOK
<1>1. ASSUME NEW p \in Proc,
             RendezvousWait(p) \/ LoopTop(p) \/ ExecAtIdle(p) \/ MemLow(p) \/ Sleep(p)
             \/ YieldCheck(p) \/ IYield(p) \/ Slice(p) \/ Spawn(p) \/ ReadyPeer(p)
             \/ BlockSelf(p) \/ QuantaEnd(p) \/ NativeDone(p) \/ Acquire(p) \/ Wakeup(p)
             \/ WakeupUnlock(p) \/ Resume(p) \/ RaiseError(p) \/ Handle(p)
             \/ ProgBroken(p) \/ ProgExit(p)
      PROVE  ComingInv'
  <2>1. creating' = creating /\ (idle' => idle)
    BY <1>1 DEF RendezvousWait, LoopTop, ExecAtIdle, MemLow, Sleep, YieldCheck, IYield, Slice,
       Spawn, ReadyPeer, BlockSelf, QuantaEnd, NativeDone, Acquire, Wakeup, WakeupUnlock,
       Resume, RaiseError, Handle, ProgBroken, ProgExit, lockVars
  <2>2. /\ ~Coming(p) /\ pc[p] # "none"
        /\ \A q \in Proc : Coming(q)' <=> Coming(q)
    BY <1>0, <1>1 DEF RendezvousWait, LoopTop, ExecAtIdle, MemLow, Sleep, YieldCheck, IYield, Slice,
       Spawn, ReadyPeer, BlockSelf, QuantaEnd, NativeDone, Acquire, Wakeup, WakeupUnlock,
       Resume, RaiseError, Handle, ProgBroken, ProgExit, Goto, Coming, RvPc, GivePc
  <2>. QED  BY <2>1, <2>2, ComingFrame
<1>2. ASSUME NEW p \in Proc, RendezvousMeet(p)
      PROVE  ComingInv'
  <2>1. creating' = creating /\ idle' = idle /\ pc[p] \in RvPc
    BY <1>2 DEF RendezvousMeet, lockVars
  <2>2. \A l \in PC : After(l) \in {"kproc", "startup"} <=> l \in {"kproc", "startup"}
    BY DEF After
  <2>3. \A q \in Proc : pc'[q] = pc[q] \/ pc'[q] = After(pc[q])
    BY <1>0, <1>2 DEF RendezvousMeet
  <2>4. \A q \in Proc : Coming(q)' <=> Coming(q)
    BY <1>0, <2>2, <2>3 DEF Coming
  <2>. QED  BY <2>1, <2>4, ComingFrame DEF Coming, RvPc, GivePc
<1>3. ASSUME NEW p \in Proc, Startup(p)
      PROVE  ComingInv'
  <2>1. Coming(p) /\ creating' = FALSE /\ ~idle'
    BY <1>3 DEF Startup, Coming
  <2>2. ~Coming(p)' /\ \A q \in Proc \ {p} : Coming(q)' <=> Coming(q)
    BY <1>0, <1>3 DEF Startup, Goto, Coming
  <2>. QED  BY <2>1, <2>2 DEF ComingInv
<1>4. ASSUME NEW p \in Proc, Release(p)
      PROVE  ComingInv'
  <2>1. pc[p] = "xec" /\ ~idle
    BY <1>0, <1>4 DEF Release, OneVM, Token, OwnerPc
  <2>2. \A q \in Proc \ {p} : pc'[q] = pc[q]
    BY <1>0, <1>4 DEF Release, Goto
  <2>3. CASE vmq # <<>>
    <3>1. creating' = creating /\ idle' = idle /\ ~Coming(p)'
      BY <1>0, <1>4, <2>3 DEF Release, Goto, Coming
    <3>. QED  BY <2>1, <2>2, <3>1, ComingFrame DEF Coming
  <2>4. CASE vmq = <<>>
    <3>1. creating' /\ pc'[p] = IF creating THEN "released" ELSE "kproc"
      BY <1>0, <1>4, <2>4 DEF Release, Goto
    <3>2. ~creating => \A q \in Proc : ~Coming(q)
      BY <2>1 DEF ComingInv, Coming
    <3>. QED  BY <2>1, <2>2, <3>1, <3>2 DEF ComingInv, Coming
  <2>. QED  BY <2>3, <2>4
<1>5. ASSUME NEW p \in Proc, KProc(p)
      PROVE  ComingInv'
  <2>1. PICK q \in Proc : pc[q] = "none" /\ pc' = [pc EXCEPT ![p] = "released", ![q] = "startup"]
    BY <1>5 DEF KProc
  <2>2. pc[p] = "kproc" /\ creating' = creating /\ idle' = idle
    BY <1>5 DEF KProc, lockVars
  <2>3. /\ Coming(p) /\ creating /\ p # q
    BY <2>1, <2>2 DEF ComingInv, Coming
  <2>4. Coming(q)' /\ ~Coming(p)' /\ \A x \in Proc \ {p, q} : Coming(x)' <=> Coming(x)
    BY <1>0, <2>1, <2>3 DEF Coming
  <2>. QED  BY <2>2, <2>3, <2>4 DEF ComingInv
<1>6. CASE UNCHANGED vars
  BY <1>6 DEF ComingInv, Coming, vars, lockVars
<1>. QED  BY <1>1, <1>2, <1>3, <1>4, <1>5, <1>6 DEF Next, Step, Rest

\* So it holds in every reachable state.
LEMMA ComingInvariance == Spec => []ComingInv
<1>1. Init => ComingInv
  BY DEF Init, ComingInv, Coming
<1>. QED  BY <1>1, ComingStep, Invariance, PTL DEF Spec

\* An idle VM is about to be served, by the one vmachine that is on its way.
THEOREM IdleServed == Spec => []IdleIsTransient
<1>1. ComingInv => IdleIsTransient
  BY DEF ComingInv, Coming, IdleIsTransient
<1>. QED  BY <1>1, ComingInvariance, PTL

(***************************************************************************)
(* How many Procs it takes.                                                *)
(***************************************************************************)

Born == {p \in Proc : pc[p] # "none"}

\* Procs that hold a Prog each are no more than the Progs.
LEMMA HoldersBound ==
  ASSUME NEW S, NEW f \in [S -> Prog], \A p, q \in S : f[p] = f[q] => p = q
  PROVE  Cardinality(S) <= Cardinality(Prog)
<1>1. f \in Injection(S, Prog)
  BY DEF Injection, IsInjective
<1>. QED  BY <1>1, FiniteAssumption, FS_Injection

\* When a vmachine is ordered nobody waits for the VM, so that every Proc
\* there is holds a Prog of its own.
LEMMA BoundStep ==
  ASSUME IInv, RunInv, ComingInv, RunInv', TypeOK', OwnInv', ProcsBounded, [Next]_vars
  PROVE  ProcsBounded'
<1>0. TypeOK /\ OneVM /\ QueueInv /\ GiveInv /\ OwnInv /\ pc \in [Proc -> PC]
  BY DEF IInv, ProcInv, TypeOK
<1>. SUFFICES ASSUME NEW r \in Proc, pc'[r] = "kproc"
              PROVE  Cardinality(Born') <= Cardinality(Prog)
  BY DEF ProcsBounded, Born
<1>1. CASE pc[r] = "kproc"
  <2>1. \A q \in Proc : pc'[q] # "none" <=> pc[q] # "none"
    <3>1. ASSUME NEW p \in Proc, KProc(p)
          PROVE  FALSE
      BY <1>0, <1>1, <3>1 DEF KProc, ComingInv, Coming
    <3>2. ASSUME NEW p \in Proc, RendezvousMeet(p)
          PROVE  \A q \in Proc : pc'[q] # "none" <=> pc[q] # "none"
      <4>1. \A l \in PC : After(l) # "none" <=> l # "none"
        BY DEF After
      <4>. QED  BY <1>0, <3>2, <4>1 DEF RendezvousMeet
    <3>3. ASSUME NEW p \in Proc,
               Startup(p) \/ RendezvousWait(p) \/ LoopTop(p) \/ ExecAtIdle(p) \/ MemLow(p) \/ Sleep(p)
               \/ YieldCheck(p) \/ IYield(p) \/ Slice(p) \/ Spawn(p) \/ ReadyPeer(p)
               \/ BlockSelf(p) \/ QuantaEnd(p) \/ Release(p) \/ NativeDone(p)
               \/ Acquire(p) \/ Wakeup(p) \/ WakeupUnlock(p) \/ Resume(p)
               \/ RaiseError(p) \/ Handle(p) \/ ProgBroken(p) \/ ProgExit(p)
          PROVE  \A q \in Proc : pc'[q] # "none" <=> pc[q] # "none"
      BY <1>0, <3>3 DEF Startup, RendezvousWait, LoopTop, ExecAtIdle, MemLow, Sleep, YieldCheck,
         IYield, Slice, Spawn, ReadyPeer, BlockSelf, QuantaEnd, Release, NativeDone,
         Acquire, Wakeup, WakeupUnlock, Resume, RaiseError, Handle, ProgBroken, ProgExit,
         Goto
    <3>. QED  BY <3>1, <3>2, <3>3 DEF Next, Step, Rest, vars
  <2>2. Born' = Born
    BY <2>1 DEF Born
  <2>. QED  BY <1>1, <2>2 DEF ProcsBounded, Born
<1>2. CASE pc[r] # "kproc"
  <2>1. Release(r) /\ vmq = <<>>
    <3>1. ASSUME NEW p \in Proc, Release(p)
          PROVE  p = r /\ vmq = <<>>
      BY <1>0, <1>2, <3>1 DEF Release, Goto
    <3>2. ASSUME NEW p \in Proc, RendezvousMeet(p)
          PROVE  FALSE
      <4>1. \A l \in PC : After(l) = "kproc" => l = "kproc"
        BY DEF After
      <4>. QED  BY <1>0, <1>2, <3>2, <4>1 DEF RendezvousMeet
    <3>3. ASSUME NEW p \in Proc,
               Startup(p) \/ RendezvousWait(p) \/ LoopTop(p) \/ ExecAtIdle(p) \/ MemLow(p) \/ Sleep(p)
               \/ YieldCheck(p) \/ IYield(p) \/ Slice(p) \/ Spawn(p) \/ ReadyPeer(p)
               \/ BlockSelf(p) \/ QuantaEnd(p) \/ KProc(p) \/ NativeDone(p)
               \/ Acquire(p) \/ Wakeup(p) \/ WakeupUnlock(p) \/ Resume(p)
               \/ RaiseError(p) \/ Handle(p) \/ ProgBroken(p) \/ ProgExit(p)
          PROVE  FALSE
      BY <1>0, <1>2, <3>3 DEF Startup, RendezvousWait, LoopTop, ExecAtIdle, MemLow, Sleep,
         YieldCheck, IYield, Slice, Spawn, ReadyPeer, BlockSelf, QuantaEnd, KProc,
         NativeDone, Acquire, Wakeup, WakeupUnlock, Resume, RaiseError, Handle,
         ProgBroken, ProgExit, Goto
    <3>. QED  BY <1>2, <3>1, <3>2, <3>3 DEF Next, Step, Rest, vars
  <2>2. pc[r] = "xec" /\ ~creating /\ \A q \in Proc \ {r} : pc'[q] = pc[q]
    BY <1>0, <1>2, <2>1 DEF Release, Goto
  <2>3. \A q \in Proc \ {r} : pc[q] \notin OwnerPc \cup GivePc \cup VMWaitPc
    <3>1. \A q \in Proc \ {r} : pc[q] \notin OwnerPc \cup GivePc
      BY <1>0, <2>2 DEF OneVM, Token, OwnerPc
    <3>2. Elems(vmq) = {}
      BY <2>1 DEF Elems
    <3>3. \A q \in Proc : ~Given(q)
      BY <2>2, <3>1 DEF Given, GivePc
    <3>. QED  BY <1>0, <3>1, <3>2, <3>3 DEF QueueInv
  <2>4. \A q \in Proc \ {r} : pc[q] \notin {"kproc", "startup"}
    BY <2>2 DEF ComingInv, Coming
  <2>5. \A q \in Proc : pc'[q] # "none" => pc'[q] \in NativePc
    BY <1>0, <2>2, <2>3, <2>4 DEF PC, NativePc
  <2>6. \A q \in Born' : iprog'[q] # NoProg
    BY <2>5, NilAssumption DEF Born, OwnInv
  <2> DEFINE f == [q \in Born' |-> iprog'[q]]
  <2>7. f \in [Born' -> Prog]
    BY <2>6 DEF Born, TypeOK
  <2>8. \A x, y \in Born' : f[x] = f[y] => x = y
    BY <2>6 DEF RunInv, Born
  <2> HIDE DEF f
  <2>. QED  BY <2>7, <2>8, HoldersBound
<1>. QED  BY <1>1, <1>2

\* One Proc more than there are Progs is enough for every number of Progs.
THEOREM ProcsSuffice == Spec => []ProcsBounded
<1>1. Init => ProcsBounded
  BY DEF Init, ProcsBounded
<1>2. IInv => TypeOK /\ OwnInv
  BY DEF IInv
<1>. QED  BY <1>1, <1>2, BoundStep, Invariance, RunInvariance, ComingInvariance, PTL
          DEF Spec

(***************************************************************************)
(* Requests for the VM.                                                    *)
(***************************************************************************)

\* The first k elements of q, and no others, are in S.
Leads(S, q, k) == k \in 0 .. Len(q) /\ \A i \in 1 .. Len(q) : q[i] \in S <=> i <= k

\* The head is taken off.
LEMMA LeadsPop ==
  ASSUME NEW S, NEW T, NEW q \in Seq(T), q # <<>>, NEW k \in Nat, Leads(S, q, k)
  PROVE  Leads(S, Tail(q), IF k = 0 THEN 0 ELSE k - 1)
<1>1. /\ Len(Tail(q)) = Len(q) - 1 /\ Len(q) \in Nat \ {0}
      /\ \A i \in 1 .. Len(Tail(q)) : i + 1 \in 1 .. Len(q) /\ Tail(q)[i] = q[i + 1]
  BY HeadTailProperties, EmptySeq
<1>2. \A i \in 1 .. Len(Tail(q)) : Tail(q)[i] \in S <=> i + 1 <= k
  BY <1>1 DEF Leads
<1>. QED  BY <1>1, <1>2 DEF Leads

\* An element that is not in S joins the tail.
LEMMA LeadsAppend ==
  ASSUME NEW S, NEW T, NEW q \in Seq(T), NEW k \in Nat, Leads(S, q, k),
         NEW e \in T, e \notin S
  PROVE  Leads(S, Append(q, e), k)
  BY DEF Leads

\* An element of S joins the head.
LEMMA LeadsPush ==
  ASSUME NEW S, NEW T, NEW q \in Seq(T), NEW k \in Nat, Leads(S, q, k),
         NEW e \in T, e \in S
  PROVE  Leads(S, PushHead(q, e), k + 1)
<1> DEFINE r == PushHead(q, e)
<1>1. /\ Len(r) = Len(q) + 1 /\ r[1] = e /\ Len(q) \in Nat
      /\ \A i \in 1 .. Len(r) : i # 1 => i - 1 \in 1 .. Len(q) /\ r[i] = q[i - 1]
  BY DEF PushHead
<1> HIDE DEF r
<1>2. ASSUME NEW i \in 1 .. Len(r)
      PROVE  r[i] \in S <=> i <= k + 1
  <2>1. CASE i = 1
    BY <1>1, <2>1
  <2>2. CASE i # 1
    <3>1. i - 1 \in 1 .. Len(q) /\ r[i] = q[i - 1]
      BY <1>1, <2>2
    <3>2. q[i - 1] \in S <=> i - 1 <= k
      BY <3>1 DEF Leads
    <3>. QED  BY <3>1, <3>2
  <2>. QED  BY <2>1, <2>2
<1>. QED  BY <1>1, <1>2 DEF Leads, r

\* The Procs queued by acquire() lead vmq, and yield counts them.
RequestsInv == \E k \in Nat : k <= yield /\ Leads(claimsBar, vmq, k)

\* Only the elements of the queue matter.
LEMMA LeadsSame ==
  ASSUME NEW S, NEW R, NEW q, NEW k, Leads(S, q, k),
         \A e \in Elems(q) : e \in S <=> e \in R
  PROVE  Leads(R, q, k)
  BY DEF Leads, Elems

\* A step that changes neither vmq, yield nor who is in acquire.
LEMMA RequestsFrame ==
  ASSUME RequestsInv, UNCHANGED <<yield, vmq>>,
         \A p \in Elems(vmq) : p \in claimsBar' <=> p \in claimsBar
  PROVE  RequestsInv'
  BY LeadsSame DEF RequestsInv

\* Every step keeps RequestsInv.
LEMMA RequestsStep ==
  ASSUME IInv, RequestsInv, [Next]_vars
  PROVE  RequestsInv'
<1>0. /\ TypeOK /\ OneVM /\ QueueInv /\ GiveInv /\ OwnInv
      /\ pc \in [Proc -> PC] /\ vmq \in Seq(Proc) /\ NoDup(vmq) /\ LastIs(vmq, vmqt)
      /\ yield \in Nat
  BY DEF IInv, ProcInv, TypeOK, QueueInv
<1>1. PICK k \in Nat : k <= yield /\ Leads(claimsBar, vmq, k)
  BY DEF RequestsInv
<1>2. ASSUME NEW p \in Proc,
             RendezvousWait(p) \/ LoopTop(p) \/ ExecAtIdle(p) \/ MemLow(p) \/ Sleep(p)
             \/ YieldCheck(p) \/ Slice(p) \/ Spawn(p) \/ ReadyPeer(p)
             \/ BlockSelf(p) \/ QuantaEnd(p) \/ KProc(p) \/ NativeDone(p) \/ Wakeup(p)
             \/ WakeupUnlock(p) \/ Resume(p) \/ RaiseError(p) \/ Handle(p)
             \/ ProgBroken(p) \/ ProgExit(p)
      PROVE  RequestsInv'
  <2>1. UNCHANGED <<yield, vmq>>
    BY <1>2 DEF RendezvousWait, LoopTop, ExecAtIdle, MemLow, Sleep, YieldCheck, Slice, Spawn,
       ReadyPeer, BlockSelf, QuantaEnd, KProc, NativeDone, Wakeup, WakeupUnlock, Resume,
       RaiseError, Handle, ProgBroken, ProgExit, lockVars
  <2>2. \A q \in Proc : pc'[q] \in AcqPc <=> pc[q] \in AcqPc
    BY <1>0, <1>2 DEF RendezvousWait, LoopTop, ExecAtIdle, MemLow, Sleep, YieldCheck, Slice, Spawn,
       ReadyPeer, BlockSelf, QuantaEnd, KProc, NativeDone, Wakeup, WakeupUnlock, Resume,
       RaiseError, Handle, ProgBroken, ProgExit, Goto, AcqPc
  <2>. QED  BY <2>1, <2>2, RequestsFrame DEF claimsBar
<1>3. ASSUME NEW p \in Proc, RendezvousMeet(p)
      PROVE  RequestsInv'
  <2>1. PICK a, b \in Proc :
           /\ a # b /\ hand[a] = b
           /\ \/ pc[a] \in GivePc /\ pc[b] \in {"park", "yielded", "wait"}
              \/ pc[a] = "wake" /\ pc[b] = "ksleep"
           /\ pc' = [x \in Proc |-> IF x \in {a, b} THEN After(pc[x]) ELSE pc[x]]
    BY <1>3, MeetCases
  <2>2. pc[a] \in GivePc => b \notin Elems(vmq)
    BY <1>0, <2>1 DEF GiveInv
  <2>3. pc'[a] \in AcqPc <=> pc[a] \in AcqPc
    BY <2>1 DEF After, GivePc, AcqPc
  <2>4. pc[a] = "wake" => (pc'[b] \in AcqPc <=> pc[b] \in AcqPc)
    BY <2>1 DEF After, GivePc, AcqPc
  <2>5. \A x \in Elems(vmq) : x \in claimsBar' <=> x \in claimsBar
    BY <1>0, <2>1, <2>2, <2>3, <2>4 DEF claimsBar, QueueInv
  <2>6. UNCHANGED <<yield, vmq>>
    BY <1>3 DEF RendezvousMeet, lockVars
  <2>. QED  BY <2>5, <2>6, RequestsFrame
<1>4. ASSUME NEW p \in Proc, Startup(p)
      PROVE  RequestsInv'
  <2>1. claimsBar' = claimsBar /\ p \notin claimsBar /\ yield' = yield
    BY <1>0, <1>4 DEF Startup, Goto, claimsBar, AcqPc
  <2>2. vmq' = vmq \/ vmq' = Append(vmq, p)
    BY <1>0, <1>4, LinkAfterLast DEF Startup
  <2>3. Leads(claimsBar, Append(vmq, p), k)
    BY <1>0, <1>1, <2>1, LeadsAppend
  <2>. QED  BY <1>1, <2>1, <2>2, <2>3 DEF RequestsInv
<1>5. ASSUME NEW p \in Proc, Acquire(p)
      PROVE  RequestsInv'
  <2>1. CASE idle
    <3>1. UNCHANGED <<yield, vmq>> /\ claimsBar' = claimsBar
      BY <1>0, <1>5, <2>1 DEF Acquire, Goto, claimsBar, AcqPc
    <3>. QED  BY <3>1, RequestsFrame
  <2>2. CASE ~idle
    <3>1. /\ yield' = yield + 1 /\ vmq' = PushHead(vmq, p)
          /\ claimsBar' = claimsBar \cup {p}
      BY <1>0, <1>5, <2>2 DEF Acquire, Goto, claimsBar, AcqPc
    <3>2. p \notin Elems(vmq)
      BY <1>0, <1>5 DEF Acquire, QueueInv, VMWaitPc, AcqPc
    <3>3. Leads(claimsBar \cup {p}, vmq, k)
      BY <1>1, <3>2, LeadsSame
    <3>4. Leads(claimsBar \cup {p}, PushHead(vmq, p), k + 1)
      BY <1>0, <3>3, LeadsPush
    <3>. QED  BY <1>0, <1>1, <3>1, <3>4 DEF RequestsInv
  <2>. QED  BY <2>1, <2>2
<1>6. ASSUME NEW p \in Proc, IYield(p)
      PROVE  RequestsInv'
  <2>1. /\ yield # 0 /\ yield' = yield - 1
        /\ claimsBar' = claimsBar /\ p \notin claimsBar
    BY <1>0, <1>6 DEF IYield, OwnInv, Goto, claimsBar, AcqPc
  <2>2. CASE vmq = <<>>
    <3>1. vmq' = vmq /\ Leads(claimsBar, vmq, 0)
      BY <1>6, <2>2 DEF IYield, Leads
    <3>. QED  BY <1>0, <2>1, <3>1 DEF RequestsInv
  <2>3. CASE vmq # <<>>
    <3> DEFINE j == IF k = 0 THEN 0 ELSE k - 1
    <3>1. Tail(vmq) \in Seq(Proc) /\ NoDup(Tail(vmq)) /\ LastIs(Tail(vmq), vmqt)
      BY <1>0, <2>3, PopQueue
    <3>2. vmq' = LinkAfter(Tail(vmq), vmqt, p)
      BY <1>6, <2>3 DEF IYield
    <3>3. vmq' = Append(Tail(vmq), p)
      BY <3>1, <3>2, LinkAfterLast
    <3>4. Leads(claimsBar, Tail(vmq), j)
      BY <1>0, <1>1, <2>3, LeadsPop
    <3>5. j \in Nat /\ j <= yield - 1 /\ yield - 1 \in Nat
      BY <1>0, <1>1, <2>1
    <3> HIDE DEF j
    <3>6. Leads(claimsBar, Append(Tail(vmq), p), j)
      BY <2>1, <3>1, <3>4, <3>5, LeadsAppend
    <3>. QED  BY <2>1, <3>3, <3>5, <3>6 DEF RequestsInv
  <2>. QED  BY <2>2, <2>3
<1>7. ASSUME NEW p \in Proc, Release(p)
      PROVE  RequestsInv'
  <2>1. yield' = yield /\ claimsBar' = claimsBar
    BY <1>0, <1>7 DEF Release, Goto, claimsBar, AcqPc
  <2>2. CASE vmq = <<>>
    BY <1>1, <1>7, <2>1, <2>2 DEF Release, RequestsInv
  <2>3. CASE vmq # <<>>
    <3> DEFINE j == IF k = 0 THEN 0 ELSE k - 1
    <3>1. vmq' = Tail(vmq)
      BY <1>7, <2>3 DEF Release
    <3>2. Leads(claimsBar, Tail(vmq), j)
      BY <1>0, <1>1, <2>3, LeadsPop
    <3>3. j \in Nat /\ j <= yield
      BY <1>0, <1>1
    <3>. QED  BY <2>1, <3>1, <3>2, <3>3 DEF RequestsInv
  <2>. QED  BY <2>2, <2>3
<1>8. CASE UNCHANGED vars
  BY <1>8, RequestsFrame DEF vars, lockVars, claimsBar
<1>. QED  BY <1>2, <1>3, <1>4, <1>5, <1>6, <1>7, <1>8 DEF Next, Step, Rest

\* The Procs that asked for the VM lead vmq and yield counts them, however
\* release, iyield, acquire and startup change both.
THEOREM RequestsHonoured == Spec => []RequestsCounted
<1>1. Init => RequestsInv
  BY DEF Init, RequestsInv, Leads
<1>2. Spec => []RequestsInv
  BY <1>1, RequestsStep, Invariance, PTL DEF Spec
<1>3. IInv /\ RequestsInv => RequestsCounted
  <2>. SUFFICES ASSUME IInv, RequestsInv PROVE RequestsCounted
    OBVIOUS
  <2>1. vmq \in Seq(Proc)
    BY DEF IInv, TypeOK
  <2>2. PICK k \in Nat : k <= yield /\ Leads(claimsBar, vmq, k)
    BY DEF RequestsInv
  <2>3. k \in 0 .. Len(vmq) /\ \A i \in 1 .. Len(vmq) : pc[vmq[i]] \in AcqPc <=> i <= k
    BY <2>1, <2>2 DEF Leads, claimsBar
  <2>. QED  BY <2>2, <2>3 DEF RequestsCounted
<1>. QED  BY <1>2, <1>3, Invariance, PTL
=============================================================================
