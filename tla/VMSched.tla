------------------------------ MODULE VMSched ------------------------------
(***************************************************************************)
(* The processor-level scheduler of the Dis virtual machine                *)
(* (src/dis/kernel/dis.c, ksleep and kwakeup of src/dis/kernel/proc.c).    *)
(*                                                                         *)
(* Several host processes (Proc) can run the interpreter loop vmachine,    *)
(* but only one at a time: the run queue of Progs and the global register  *)
(* set R belong to the Proc that owns the VM.  Native code gives the VM    *)
(* up with release() around a call that may block and takes it back with   *)
(* acquire(); iyield() passes it to a Proc that asked for it.  The VM is   *)
(* handed over by Plan 9 rendezvous, whose tag is the Proc that is woken.  *)
(*                                                                         *)
(* A critical section under isched.l is one action.  The reads of yield    *)
(* outside it, the section of irend.l that kwakeup holds across its        *)
(* rendezvous, and both sides of every rendezvous are actions of their     *)
(* own.                                                                    *)
(*                                                                         *)
(* A definition marked VARIANT is not part of the model: it is the         *)
(* definition after it with one slip in the code, for checking that a      *)
(* property notices.                                                       *)
(***************************************************************************)
EXTENDS Naturals, Sequences, FiniteSets

CONSTANTS Proc,      \* host processes, born or not
          Prog,      \* Dis programs, created or not
          NoProc,    \* nil in a Proc*
          NoProg     \* nil in a Prog*

ASSUME NilAssumption == NoProc \notin Proc /\ NoProg \notin Prog

\* A Prog takes memory, of which there is so much.
ASSUME FiniteAssumption == IsFiniteSet(Prog)

VARIABLES
  pc,        \* [Proc -> PC]: where each Proc is
  idle,      \* isched.idle: nobody owns the VM and nobody is being given it
  yield,     \* isched.yield: requests for the VM not yet answered by iyield
  creating,  \* isched.creating: a vmachine Proc has been asked for
  vmq,       \* the list isched.vmq of Procs waiting for the VM
  vmqt,      \* isched.vmqt
  runq,      \* the list isched.runhd of ready Progs
  runtl,     \* isched.runtl
  pstate,    \* [Prog -> PState]: Prog.state
  regs,      \* the Prog whose registers are in the global R
  cur,       \* [Proc -> Prog or NoProg]: vmachine's local r
  iprog,     \* [Proc -> Prog or NoProg]: Proc.iprog
  hand,      \* [Proc -> Proc or NoProc]: the Proc this one is waking
  raised,    \* [Proc -> BOOLEAN]: acquire() was called by vmachine's error loop
  rz,        \* [Proc -> Proc or NoProc]: who waits in rendezvous on a tag
  irendP,    \* isched.irend.p: the VM owner asleep for lack of work
  irendL     \* isched.irend.l: the Proc holding it across a rendezvous

lockVars  == <<idle, yield, creating, vmq, vmqt>>
progVars  == <<runq, runtl, pstate, regs, cur>>
irendVars == <<irendP, irendL>>
vars == <<pc, lockVars, progVars, iprog, hand, raised, rz, irendVars>>

(***************************************************************************)
(* Program points.                                                         *)
(***************************************************************************)

\* The points at which a Proc blocks in rendezvous, by whom it wakes.
GivePc == {"give", "handoff"}              \* handing the VM to hand[p]
AcqPc  == {"wakeup", "wake", "wakeunl", "wait"}   \* queued by acquire()
VMWaitPc == AcqPc \cup {"park", "yielded"} \* waiting to be handed the VM
RvPc   == GivePc \cup {"park", "ksleep", "yielded", "wake", "wait"}

\* The points at which the code of a Proc relies on owning the VM.
OwnerPc == {"loop", "idlegc", "sleep", "ksleep", "yieldchk", "iyield",
            "slice", "xec", "ret", "memlow", "error", "resume", "exit"}

\* Where a Proc holds the Prog it runs native code for in iprog.
NativePc == {"kproc", "handoff", "released", "acquire", "resume"} \cup AcqPc

PC == OwnerPc \cup GivePc \cup VMWaitPc \cup NativePc \cup {"none", "startup"}

PState == {"none", "ready", "blocked", "release", "broken", "gone"}

\* The Progs on the list isched.head.
Live(ps) == {g \in Prog : ps[g] \notin {"none", "gone"}}

\* cleanexit: the whole process group is gone.
Halted == \E p \in Proc : pc[p] = "exit"

Goto(p, l) == pc' = [pc EXCEPT ![p] = l]

(***************************************************************************)
(* Singly linked queues kept as a head and a tail pointer.  An element is  *)
(* linked after the tail pointer, wherever that points.                    *)
(***************************************************************************)
LinkAfter(q, t, e) ==
  IF q = <<>> THEN <<e>>
  ELSE IF \E i \in 1 .. Len(q) : q[i] = t
       THEN Append(SubSeq(q, 1, CHOOSE i \in 1 .. Len(q) : q[i] = t), e)
       ELSE q

\* VARIANT: the element goes to the tail.
PushHeadAtTail(q, e) == Append(q, e)

PushHead(q, e) == <<e>> \o q

(***************************************************************************)
(* tready: is there work for the owner?                                    *)
(***************************************************************************)
tready == runq # <<>> \/ yield # 0

(***************************************************************************)
(* Rendezvous on a tag: the first to come waits, the second lets both go.  *)
(***************************************************************************)
Tag(p) == IF pc[p] \in GivePc \cup {"wake"} THEN hand[p] ELSE p

Blocked(p) == \E t \in Proc : rz[t] = p

After(l) == CASE l = "park"    -> "loop"
              [] l = "ksleep"  -> "yieldchk"
              [] l = "give"    -> "yielded"
              [] l = "yielded" -> "slice"
              [] l = "handoff" -> "released"
              [] l = "wake"    -> "wakeunl"
              [] l = "wait"    -> "resume"
              [] OTHER         -> l

RendezvousWait(p) ==
  /\ pc[p] \in RvPc /\ ~Blocked(p)
  /\ rz[Tag(p)] = NoProc
  /\ rz' = [rz EXCEPT ![Tag(p)] = p]
  /\ UNCHANGED <<pc, lockVars, progVars, iprog, hand, raised, irendVars>>

RendezvousMeet(p) ==
  /\ pc[p] \in RvPc /\ ~Blocked(p)
  /\ \E q \in Proc :
       /\ rz[Tag(p)] = q
       /\ pc' = [x \in Proc |-> IF x \in {p, q} THEN After(pc[x]) ELSE pc[x]]
       /\ hand' = [hand EXCEPT ![p] = NoProc, ![q] = NoProc]   \* dead from here
  /\ rz' = [rz EXCEPT ![Tag(p)] = NoProc]
  /\ UNCHANGED <<lockVars, progVars, iprog, raised, irendVars>>

(***************************************************************************)
(* startup: a new vmachine takes an idle VM or joins the tail of vmq.      *)
(***************************************************************************)
\* VARIANT: idle is left set when the VM is taken.
StartupStaysIdle(p) ==
  /\ pc[p] = "startup"
  /\ creating' = FALSE
  /\ IF idle
     THEN Goto(p, "loop") /\ UNCHANGED <<vmq, vmqt>>
     ELSE vmq' = LinkAfter(vmq, vmqt, p) /\ vmqt' = p /\ Goto(p, "park")
  /\ UNCHANGED <<idle, yield, progVars, iprog, hand, raised, rz, irendVars>>

\* VARIANT: creating is left set.
StartupStaysCreating(p) ==
  /\ pc[p] = "startup"
  /\ idle' = FALSE
  /\ IF idle
     THEN Goto(p, "loop") /\ UNCHANGED <<vmq, vmqt>>
     ELSE vmq' = LinkAfter(vmq, vmqt, p) /\ vmqt' = p /\ Goto(p, "park")
  /\ UNCHANGED <<yield, creating, progVars, iprog, hand, raised, rz, irendVars>>

Startup(p) ==
  /\ pc[p] = "startup"
  /\ creating' = FALSE
  /\ IF idle
     THEN idle' = FALSE /\ Goto(p, "loop") /\ UNCHANGED <<vmq, vmqt>>
     ELSE /\ vmq' = LinkAfter(vmq, vmqt, p)
          /\ vmqt' = p
          /\ Goto(p, "park")
          /\ UNCHANGED idle
  /\ UNCHANGED <<yield, progVars, iprog, hand, raised, rz, irendVars>>

(***************************************************************************)
(* vmachine: the loop of the owner, from the idle test to the next Prog.   *)
(* execatidle collects garbage with the Proc's own Prog on the run queue   *)
(* and takes it off again; no other Proc can see it there.  What it hangs  *)
(* up meanwhile is in ReadyPeer.                                           *)
(***************************************************************************)
LoopTop(p) ==
  /\ pc[p] = "loop"
  /\ Goto(p, IF tready THEN "yieldchk" ELSE "idlegc")
  /\ UNCHANGED <<lockVars, progVars, iprog, hand, raised, rz, irendVars>>

ExecAtIdle(p) ==
  /\ pc[p] = "idlegc"
  /\ Goto(p, "sleep")
  /\ UNCHANGED <<lockVars, progVars, iprog, hand, raised, rz, irendVars>>

\* VARIANT: the condition tested under irend.l forgets yield.
SleepIgnoresYield(p) ==
  /\ pc[p] = "sleep"
  /\ irendL = NoProc
  /\ IF runq # <<>>
     THEN Goto(p, "yieldchk") /\ UNCHANGED irendP
     ELSE irendP' = p /\ Goto(p, "ksleep")
  /\ UNCHANGED <<lockVars, progVars, iprog, hand, raised, rz, irendL>>

\* ksleep(&isched.irend, tready, 0), up to its rendezvous.
Sleep(p) ==
  /\ pc[p] = "sleep"
  /\ irendL = NoProc
  /\ IF tready
     THEN Goto(p, "yieldchk") /\ UNCHANGED irendP
     ELSE /\ irendP' = p
          /\ Goto(p, "ksleep")
  /\ UNCHANGED <<lockVars, progVars, iprog, hand, raised, rz, irendL>>

\* VARIANT: iyield is called whether or not somebody asked.
YieldCheckAlways(p) ==
  /\ pc[p] = "yieldchk"
  /\ Goto(p, "iyield")
  /\ UNCHANGED <<lockVars, progVars, iprog, hand, raised, rz, irendVars>>

\* VARIANT: iyield is never called.
YieldCheckNever(p) ==
  /\ pc[p] = "yieldchk"
  /\ Goto(p, "slice")
  /\ UNCHANGED <<lockVars, progVars, iprog, hand, raised, rz, irendVars>>

YieldCheck(p) ==
  /\ pc[p] = "yieldchk"
  /\ Goto(p, IF yield # 0 THEN "iyield" ELSE "slice")
  /\ UNCHANGED <<lockVars, progVars, iprog, hand, raised, rz, irendVars>>

IYield(p) ==
  /\ pc[p] = "iyield"
  /\ yield' = yield - 1
  /\ IF vmq = <<>>
     THEN Goto(p, "slice") /\ UNCHANGED <<vmq, vmqt, hand>>
     ELSE /\ hand' = [hand EXCEPT ![p] = Head(vmq)]
          /\ vmq' = LinkAfter(Tail(vmq), vmqt, p)
          /\ vmqt' = p
          /\ Goto(p, "give")
  /\ UNCHANGED <<idle, creating, progVars, iprog, raised, rz, irendVars>>

\* r = isched.runhd; r->xec(r) loads the registers of r.
Slice(p) ==
  /\ pc[p] = "slice"
  /\ IF runq = <<>>
     THEN Goto(p, "loop") /\ UNCHANGED <<regs, cur>>
     ELSE /\ regs' = Head(runq)
          /\ cur' = [cur EXCEPT ![p] = Head(runq)]
          /\ Goto(p, "xec")
  /\ UNCHANGED <<lockVars, runq, runtl, pstate, iprog, hand, raised, rz, irendVars>>

(***************************************************************************)
(* What a slice of the current Prog does to the scheduler.                 *)
(***************************************************************************)
\* VARIANT: the Prog goes to the head.
AddRunAtHead(g) ==
  /\ pstate' = [pstate EXCEPT ![g] = "ready"]
  /\ runq' = PushHead(runq, g)
  /\ runtl' = IF runq = <<>> THEN g ELSE runtl

\* VARIANT: the tail pointer stays behind.
AddRunOldTail(g) ==
  /\ pstate' = [pstate EXCEPT ![g] = "ready"]
  /\ runq' = LinkAfter(runq, runtl, g)
  /\ runtl' = IF runq = <<>> THEN g ELSE runtl

AddRun(g) ==
  /\ pstate' = [pstate EXCEPT ![g] = "ready"]
  /\ runq' = LinkAfter(runq, runtl, g)
  /\ runtl' = g

DelRun(st) ==
  /\ pstate' = [pstate EXCEPT ![Head(runq)] = st]
  /\ runq' = Tail(runq)
  /\ runtl' = IF Tail(runq) = <<>> THEN NoProg ELSE runtl

\* spawn and mspawn: newprog puts a new Prog on the run queue.
Spawn(p) ==
  /\ pc[p] = "xec"
  /\ \E g \in Prog : pstate[g] = "none" /\ AddRun(g)
  /\ UNCHANGED <<pc, lockVars, regs, cur, iprog, hand, raised, rz, irendVars>>

\* A Prog that is blocked becomes ready: an instruction communicates with it,
\* or the channel it is blocked on is freed.  That is done by an instruction,
\* also after a native call in it; by the collector, in idle time or when
\* memory is low; by handler, which unwinds; by progexit (destroystack).
ReadyPeer(p) ==
  /\ pc[p] \in {"xec", "ret", "idlegc", "error"} \/ (pc[p] = "memlow" /\ runq # <<>>)
  /\ \E g \in Prog : pstate[g] = "blocked" /\ AddRun(g)
  /\ UNCHANGED <<pc, lockVars, regs, cur, iprog, hand, raised, rz, irendVars>>

\* VARIANT: no test that the Prog is still the head.
EndSliceUnchecked(p, q, tl) ==
  /\ cur' = [cur EXCEPT ![p] = NoProg]
  /\ IF q # <<>> /\ Head(q) # tl
     THEN runq' = LinkAfter(Tail(q), tl, cur[p]) /\ runtl' = cur[p]
     ELSE runq' = q /\ runtl' = tl

\* VARIANT: no rotation.
EndSliceInPlace(p, q, tl) ==
  cur' = [cur EXCEPT ![p] = NoProg] /\ runq' = q /\ runtl' = tl

\* The end of a slice: save the registers, rotate the run queue if the
\* Prog that ran is still its head.  The local r is dead from here.
EndSlice(p, q, tl) ==
  /\ cur' = [cur EXCEPT ![p] = NoProg]
  /\ IF q # <<>> /\ cur[p] = Head(q) /\ Head(q) # tl
     THEN runq' = LinkAfter(Tail(q), tl, cur[p]) /\ runtl' = cur[p]
     ELSE runq' = q /\ runtl' = tl

\* send, recv or alt finds no partner: delrun, and R.IC = 1 ends the slice.
BlockSelf(p) ==
  /\ pc[p] = "xec"
  /\ pstate' = [pstate EXCEPT ![Head(runq)] = "blocked"]
  /\ EndSlice(p, Tail(runq), IF Tail(runq) = <<>> THEN NoProg ELSE runtl)
  /\ Goto(p, "memlow")
  /\ UNCHANGED <<lockVars, regs, iprog, hand, raised, rz, irendVars>>

\* The quanta is used up, or the native call that ran last has returned:
\* irestore left R.IC = 1.
QuantaEnd(p) ==
  /\ pc[p] \in {"xec", "ret"}
  /\ EndSlice(p, runq, runtl)
  /\ Goto(p, "memlow")
  /\ UNCHANGED <<lockVars, pstate, regs, iprog, hand, raised, rz, irendVars>>

\* The collector has run, if memory is low and a Prog ready, and the loop
\* begins again.
MemLow(p) ==
  /\ pc[p] = "memlow"
  /\ Goto(p, "loop")
  /\ UNCHANGED <<lockVars, progVars, iprog, hand, raised, rz, irendVars>>

(***************************************************************************)
(* release: isave takes the current Prog off the run queue into iprog; the *)
(* VM goes to the head of vmq or becomes idle, with a new vmachine ordered *)
(* unless one is on its way.                                               *)
(***************************************************************************)
\* VARIANT: a vmachine is ordered whether or not one is on its way.
ReleaseAlwaysOrders(p) ==
  /\ pc[p] = "xec"
  /\ DelRun("release")
  /\ iprog' = [iprog EXCEPT ![p] = Head(runq)]
  /\ IF vmq = <<>>
     THEN idle' = TRUE /\ creating' = TRUE /\ Goto(p, "kproc") /\ UNCHANGED <<vmq, hand>>
     ELSE /\ hand' = [hand EXCEPT ![p] = Head(vmq)]
          /\ vmq' = Tail(vmq)
          /\ Goto(p, "handoff")
          /\ UNCHANGED <<idle, creating>>
  /\ UNCHANGED <<yield, vmqt, regs, cur, raised, rz, irendVars>>

Release(p) ==
  /\ pc[p] = "xec"
  /\ DelRun("release")
  /\ iprog' = [iprog EXCEPT ![p] = Head(runq)]
  /\ IF vmq = <<>>
     THEN /\ idle' = TRUE
          /\ creating' = TRUE
          /\ Goto(p, IF creating THEN "released" ELSE "kproc")
          /\ UNCHANGED <<vmq, hand>>
     ELSE /\ hand' = [hand EXCEPT ![p] = Head(vmq)]
          /\ vmq' = Tail(vmq)
          /\ Goto(p, "handoff")
          /\ UNCHANGED <<idle, creating>>
  /\ UNCHANGED <<yield, vmqt, regs, cur, raised, rz, irendVars>>

\* kproc("dis", vmachine, nil, 0).
KProc(p) ==
  /\ pc[p] = "kproc"
  /\ \E q \in Proc :
       /\ pc[q] = "none"
       /\ pc' = [pc EXCEPT ![p] = "released", ![q] = "startup"]
  /\ UNCHANGED <<lockVars, progVars, iprog, hand, raised, rz, irendVars>>

\* The host call returns, or error() leaves it for vmachine's error loop.
NativeDone(p) ==
  /\ pc[p] = "released"
  /\ \E e \in BOOLEAN : raised' = [raised EXCEPT ![p] = e]
  /\ Goto(p, "acquire")
  /\ UNCHANGED <<lockVars, progVars, iprog, hand, rz, irendVars>>

(***************************************************************************)
(* acquire: take an idle VM, or join the HEAD of vmq, ask the owner to     *)
(* yield, wake it if this is the first such request, and wait.             *)
(***************************************************************************)
\* VARIANT: an empty queue gets a head and no tail.
AcquireOldTail(p) ==
  /\ pc[p] = "acquire"
  /\ IF idle
     THEN idle' = FALSE /\ Goto(p, "resume") /\ UNCHANGED <<yield, vmq>>
     ELSE /\ yield' = yield + 1
          /\ vmq' = PushHead(vmq, p)
          /\ Goto(p, IF yield = 0 THEN "wakeup" ELSE "wait")
          /\ UNCHANGED idle
  /\ UNCHANGED <<vmqt, creating, progVars, iprog, hand, raised, rz, irendVars>>

Acquire(p) ==
  /\ pc[p] = "acquire"
  /\ IF idle
     THEN /\ idle' = FALSE
          /\ Goto(p, "resume")
          /\ UNCHANGED <<yield, vmq, vmqt>>
     ELSE /\ yield' = yield + 1
          /\ vmq' = PushHead(vmq, p)
          /\ vmqt' = IF vmq = <<>> THEN p ELSE vmqt
          /\ Goto(p, IF yield = 0 THEN "wakeup" ELSE "wait")
          /\ UNCHANGED idle
  /\ UNCHANGED <<creating, progVars, iprog, hand, raised, rz, irendVars>>

\* VARIANT: the sleeper stays in irend.
WakeupKeepsSleeper(p) ==
  /\ pc[p] = "wakeup"
  /\ irendL = NoProc
  /\ IF irendP = NoProc
     THEN Goto(p, "wait") /\ UNCHANGED <<hand, irendL>>
     ELSE irendL' = p /\ hand' = [hand EXCEPT ![p] = irendP] /\ Goto(p, "wake")
  /\ UNCHANGED <<irendP, lockVars, progVars, iprog, raised, rz>>

\* kwakeup(&isched.irend): lock, and detach the sleeper if there is one.
Wakeup(p) ==
  /\ pc[p] = "wakeup"
  /\ irendL = NoProc
  /\ IF irendP = NoProc
     THEN Goto(p, "wait") /\ UNCHANGED <<hand, irendVars>>
     ELSE /\ irendL' = p
          /\ irendP' = NoProc
          /\ hand' = [hand EXCEPT ![p] = irendP]
          /\ Goto(p, "wake")
  /\ UNCHANGED <<lockVars, progVars, iprog, raised, rz>>

\* kwakeup: unlock after the rendezvous with the sleeper.
WakeupUnlock(p) ==
  /\ pc[p] = "wakeunl"
  /\ irendL' = NoProc
  /\ Goto(p, "wait")
  /\ UNCHANGED <<lockVars, progVars, iprog, hand, raised, rz, irendP>>

\* The rest of acquire, as owner: irestore, and the Prog heads the run queue.
Resume(p) ==
  /\ pc[p] = "resume"
  /\ regs' = iprog[p]
  /\ iprog' = [iprog EXCEPT ![p] = NoProg]
  /\ pstate' = [pstate EXCEPT ![iprog[p]] = "ready"]
  /\ runq' = PushHead(runq, iprog[p])
  /\ runtl' = IF runq = <<>> THEN iprog[p] ELSE runtl
  /\ raised' = [raised EXCEPT ![p] = FALSE]
  /\ cur' = IF raised[p] THEN [cur EXCEPT ![p] = NoProg] ELSE cur
  /\ Goto(p, IF raised[p] THEN "error" ELSE "ret")
  /\ UNCHANGED <<lockVars, hand, rz, irendVars>>

(***************************************************************************)
(* An instruction or a native call raises an error as owner of the VM.     *)
(* vmachine's error loop: handler recovers the current Prog, or progexit   *)
(* breaks it or ends it; the last one ends the emulator.                   *)
(***************************************************************************)
RaiseError(p) ==
  /\ pc[p] \in {"xec", "ret"}
  /\ cur' = [cur EXCEPT ![p] = NoProg]
  /\ Goto(p, "error")
  /\ UNCHANGED <<lockVars, runq, runtl, pstate, regs, iprog, hand, raised, rz,
                 irendVars>>

Handle(p) ==
  /\ pc[p] = "error"
  /\ Goto(p, "loop")
  /\ UNCHANGED <<lockVars, progVars, iprog, hand, raised, rz, irendVars>>

ProgBroken(p) ==
  /\ pc[p] = "error"
  /\ DelRun("broken")
  /\ Goto(p, "loop")
  /\ UNCHANGED <<lockVars, regs, cur, iprog, hand, raised, rz, irendVars>>

ProgExit(p) ==
  /\ pc[p] = "error"
  /\ DelRun("gone")
  /\ Goto(p, IF Live(pstate') = {} THEN "exit" ELSE "loop")
  /\ UNCHANGED <<lockVars, regs, cur, iprog, hand, raised, rz, irendVars>>

(***************************************************************************)
(* disinit leaves one ready Prog, an idle VM and one Proc entering         *)
(* vmachine.                                                               *)
(***************************************************************************)
Init ==
  /\ \E p \in Proc : pc = [q \in Proc |-> IF q = p THEN "startup" ELSE "none"]
  /\ idle = TRUE /\ yield = 0 /\ creating = FALSE
  /\ vmq = <<>> /\ vmqt = NoProc
  /\ \E g \in Prog :
       /\ runq = <<g>> /\ runtl = g
       /\ pstate = [h \in Prog |-> IF h = g THEN "ready" ELSE "none"]
  /\ regs = NoProg
  /\ cur = [p \in Proc |-> NoProg]
  /\ iprog = [p \in Proc |-> NoProg]
  /\ hand = [p \in Proc |-> NoProc]
  /\ raised = [p \in Proc |-> FALSE]
  /\ rz = [p \in Proc |-> NoProc]
  /\ irendP = NoProc /\ irendL = NoProc

\* Everything a Proc does by itself.
Step(p) ==
  \/ RendezvousWait(p) \/ RendezvousMeet(p)
  \/ Startup(p) \/ LoopTop(p) \/ ExecAtIdle(p) \/ Sleep(p)
  \/ YieldCheck(p) \/ IYield(p) \/ Slice(p)
  \/ Spawn(p) \/ ReadyPeer(p) \/ BlockSelf(p) \/ QuantaEnd(p) \/ MemLow(p)
  \/ Release(p) \/ KProc(p)
  \/ Acquire(p) \/ Wakeup(p) \/ WakeupUnlock(p) \/ Resume(p)
  \/ RaiseError(p) \/ Handle(p) \/ ProgBroken(p) \/ ProgExit(p)

\* The system rests: the owner sleeps for lack of work, or has exited, and
\* no Proc has anything to do.
Rest ==
  /\ \/ Halted
     \/ /\ irendP # NoProc /\ ~tready
        /\ \A p \in Proc : pc[p] \in {"none", "park", "yielded", "ksleep"} /\
                           (pc[p] = "none" \/ Blocked(p))
  /\ UNCHANGED vars

Next ==
  \/ ~Halted /\ \E p \in Proc : Step(p) \/ NativeDone(p)
  \/ Rest

\* The host schedules every Proc, but a host call need not return.
Fairness == \A p \in Proc : WF_vars(~Halted /\ Step(p))

Spec == Init /\ [][Next]_vars
FairSpec == Spec /\ Fairness
-----------------------------------------------------------------------------
(***************************************************************************)
(* Properties.                                                             *)
(***************************************************************************)
Elems(q) == {q[i] : i \in 1 .. Len(q)}

NoDup(q) == \A i, j \in 1 .. Len(q) : q[i] = q[j] => i = j

Owner(p) == pc[p] \in OwnerPc

\* p owns the VM, or is in the act of handing it to hand[p].
Token(p) == pc[p] \in OwnerPc \cup GivePc

\* Somebody is handing the VM to p.
Given(p) == \E g \in Proc : pc[g] \in GivePc /\ hand[g] = p

\* Every variable has its type.
TypeOK ==
  /\ pc \in [Proc -> PC]
  /\ idle \in BOOLEAN /\ yield \in Nat /\ creating \in BOOLEAN
  /\ vmq \in Seq(Proc) /\ vmqt \in Proc \cup {NoProc}
  /\ runq \in Seq(Prog) /\ runtl \in Prog \cup {NoProg}
  /\ pstate \in [Prog -> PState]
  /\ regs \in Prog \cup {NoProg}
  /\ cur \in [Proc -> Prog \cup {NoProg}]
  /\ iprog \in [Proc -> Prog \cup {NoProg}]
  /\ hand \in [Proc -> Proc \cup {NoProc}]
  /\ raised \in [Proc -> BOOLEAN]
  /\ rz \in [Proc -> Proc \cup {NoProc}]
  /\ irendP \in Proc \cup {NoProc} /\ irendL \in Proc \cup {NoProc}

\* The VM is in exactly one place: idle, owned by one Proc, or being handed
\* over by one Proc.  Neither a second owner nor a VM that nobody owns can
\* come of the unlocked hand-overs in release, iyield, acquire and startup.
OneVM ==
  /\ \A p, q \in Proc : Token(p) /\ Token(q) => p = q
  /\ idle <=> \A p \in Proc : ~Token(p)

\* A Proc that waits for the VM can be found: it is on vmq, once, or a
\* single Proc is handing the VM to it.  Popping vmq in release and iyield,
\* and appending at vmqt without looking, lose nobody.
NobodyForgotten ==
  /\ NoDup(vmq)
  /\ \A p \in Proc : pc[p] \in VMWaitPc =>
       /\ p \in Elems(vmq) \/ Given(p)
       /\ ~(p \in Elems(vmq) /\ Given(p))

\* The Procs queued by acquire() come first on vmq, before the parked
\* vmachines, and yield counts at least all of them: iyield, run once per
\* unit of yield, cannot pass them over although release takes Procs off
\* vmq without decrementing yield and startup adds some without
\* incrementing it.
RequestsCounted ==
  \E k \in 0 .. Len(vmq) :
     /\ k <= yield
     /\ \A i \in 1 .. Len(vmq) : pc[vmq[i]] \in AcqPc <=> i <= k

\* An owner asleep on irend has no ready Prog, and if a request is pending
\* then its maker is about to call kwakeup: acquire calls it only when it
\* raised yield from 0, and no wakeup is lost.
NoLostWakeup ==
  irendP # NoProc =>
    /\ pc[irendP] = "ksleep"
    /\ runq = <<>>
    /\ yield # 0 => \E q \in Proc : pc[q] = "wakeup"

\* A rendezvous only pairs the Proc its tag names with one other Proc, and
\* that one means to wake it for the reason it sleeps: a VM hand-over meets
\* a Proc waiting for the VM, kwakeup meets a Proc in ksleep.  (The same
\* tag, the Proc's address, serves both.)
RendezvousPaired ==
  \A t, p \in Proc :
    pc[p] \in RvPc /\ p # t /\ Tag(p) = t =>
      /\ pc[t] \in IF pc[p] = "wake" THEN {"ksleep"} ELSE VMWaitPc
      /\ \A q \in Proc \ {p, t} : pc[q] \in RvPc => Tag(q) # t

\* While a Proc interprets a Prog, in a slice or after the native call in
\* it has come back, that Prog heads the run queue and its registers are in
\* the global R, whatever other Procs did to both while it was away.
SliceIntact ==
  \A p \in Proc : pc[p] \in {"xec", "ret"} =>
    /\ runq # <<>> /\ Head(runq) = cur[p]
    /\ regs = cur[p]

\* A Prog is ready exactly if it is on the run queue, once, and in state
\* Prelease exactly if one Proc holds it in iprog.
ProgsAccounted ==
  /\ NoDup(runq)
  /\ \A g \in Prog :
       /\ pstate[g] = "ready" <=> g \in Elems(runq)
       /\ pstate[g] = "release" <=> \E p \in Proc : iprog[p] = g
       /\ \A p, q \in Proc : iprog[p] = g /\ iprog[q] = g => p = q

\* The tail pointers are right whenever they are used.
TailsRight ==
  /\ vmq # <<>> => vmqt = vmq[Len(vmq)]
  /\ runq # <<>> => runtl = runq[Len(runq)]

\* An idle VM always has a vmachine on its way that will take it, and
\* creating keeps a second one from being ordered meanwhile.
IdleIsTransient ==
  /\ idle => \E p \in Proc : pc[p] \in {"kproc", "startup"}
  /\ \A p, q \in Proc :
       pc[p] \in {"kproc", "startup"} /\ pc[q] \in {"kproc", "startup"} => p = q

\* One Proc more than there are Progs is always enough: a vmachine is only
\* ordered when every other one is away in native code.
ProcsBounded ==
  \A p \in Proc :
    pc[p] = "kproc" => Cardinality({q \in Proc : pc[q] # "none"}) <= Cardinality(Prog)

\* acquire returns: a Proc that asks for the VM gets it, although later
\* requests are queued in front of it.
AcquireReturns ==
  \A p \in Proc : pc[p] = "acquire" ~> pc[p] = "resume"

\* A ready Prog comes to the head of the run queue and runs, if only to end
\* on an error, although every Prog that comes back from a native call is
\* put in front of it.  Provided errors stop: one that its Prog recovers from
\* ends the slice without rotating the run queue.
ReadyRuns ==
  <>[](\A p \in Proc : pc[p] # "error") =>
    \A g \in Prog :
      g \in Elems(runq) ~> \E p \in Proc : /\ pc[p] \in {"xec", "error"}
                                           /\ runq # <<>> /\ Head(runq) = g

(***************************************************************************)
(* The scheduler implements the lock of VMLock.                            *)
(***************************************************************************)
holderBar == IF \E p \in Proc : Owner(p)
             THEN CHOOSE p \in Proc : Owner(p) ELSE NoProc

claimsBar == {p \in Proc : pc[p] \in AcqPc}

Lock == INSTANCE VMLock WITH Nobody <- NoProc, holder <- holderBar,
                             claims <- claimsBar

\* Every behaviour of the scheduler is one of the abstract lock.
ImplementsLock == Lock!Spec
=============================================================================
