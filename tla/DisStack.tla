------------------------------ MODULE DisStack ------------------------------
(***************************************************************************)
(* The stack of a Prog and its exceptions: frames and stack extensions     *)
(* (interp/stack.c, frame, call, ret, mcall, spawn and eclr of xec.c), the  *)
(* records of Sys->rescue and the unwinding of the stack to one of them    *)
(* (kernel/exception.c), and the end of the Prog (progexit of dis.c).      *)
(*                                                                         *)
(* A Prog learns that a frame with records in force has returned because   *)
(* the frame's return address was replaced by that of an ieclr instruction *)
(* of the module it returns to: eclr drops the records and goes on at the  *)
(* return address they keep.                                               *)
(*                                                                         *)
(* A definition marked VARIANT is not part of the model: it is the         *)
(* definition after it with a slip.                                        *)
(*                                                                         *)
(* Addresses count units of 16 bytes.  The first frame of extension x is   *)
(* at address x, and the Stkext header is the unit before it.  Progs share *)
(* no stack, so one is enough; what spawn starts is another instance.      *)
(***************************************************************************)
EXTENDS Naturals, Sequences, SequencesExt, FiniteSetsExt, Functions

CONSTANTS
  Types,    \* the types of frames: their sizes
  Module,   \* the modules, strings
  SS,       \* the stack size each module asks for
  Label,    \* the instructions of a module that are told apart, strings
  Pattern,  \* the patterns passed to rescue, sequences of words
  Err,      \* the errors that occur, likewise
  Ext,      \* bound: the addresses malloc gives extensions
  MaxUnits, \* bound: the size of all frames at a time
  MaxRec,   \* bound: exception records at a time
  ErrorsAnywhere, \* whether errors occur while the first frame of an
                  \* extension is yet to be called (see OpensExtension)
  nil

ASSUME StackAssumption ==
  /\ Types \subseteq Nat \ {0}
  /\ SS \in [Module -> Nat \ {0}]
  /\ Ext \subseteq Nat \ {0} /\ Ext # {}
  /\ MaxRec \in Nat /\ ErrorsAnywhere \in BOOLEAN

\* What malloc gives does not overlap: extend asks for the stack size of the
\* module, or for twice the size of a frame that does not fit in that, and the
\* header is before each extension.
ASSUME ExtApart ==
  \A x, y \in Ext : x < y =>
    /\ \A t \in Types : x + 2 * t + 1 <= y
    /\ \A n \in Module : x + SS[n] <= y

ASSUME NamesApart ==
  /\ nil \notin Nat \cup Module
  /\ nil \notin [mod : Module \cup {"Sys"}, at : Label \cup {"eclr"}]
  /\ "eclr" \notin Label /\ "Sys" \notin Module

VARIABLES
  vm,      \* the registers R, the memory of the stack (frm, ext), exsp and exhdlr
  estr,    \* up->env->error
  pstate   \* "run", "broken", "gone"; "fault": the interpreter follows nil

svars == << vm, estr, pstate >>

NoFrame == 0

\* The frames that lie from ex up to sp, the lowest first.
SizeOf(m, a) == IF m.frm[a].t = nil THEN m.ext[a].TR ELSE m.frm[a].t
FramesIn(m, ex, sp) ==
  LET f[a \in Nat] == IF a >= sp \/ a \notin DOMAIN m.frm THEN << >>
                      ELSE << a >> \o f[a + SizeOf(m, a)]
  IN f[ex]

\* All frames, in this extension and those before it, the newest last.
LaidSeq(m) ==
  LET below[ex \in DOMAIN m.ext] ==
        LET sx == m.ext[ex]
        IN IF sx.EX = nil THEN << >> ELSE below[sx.EX] \o FramesIn(m, sx.EX, sx.SP)
  IN below[m.R.EX] \o FramesIn(m, m.R.EX, m.R.SP)
Laid(m) == Range(LaidSeq(m))

\* The frames that were called, the outermost first.
Chain(m) ==
  LET f[a \in DOMAIN m.frm \cup {NoFrame}] ==
        IF a = NoFrame THEN << >> ELSE Append(f[m.frm[a].fp], a)
  IN f[m.R.FP]

\* The frame built last; it is yet to be called unless it is R.FP.
Newest(m) == Last(FramesIn(m, m.R.EX, m.R.SP))
Uncalled(m) == Newest(m) # m.R.FP

\* The current function has no more than one frame to call.
OneUncalled(m) ==
  LET i == CHOOSE j \in 1..Len(LaidSeq(m)) : LaidSeq(m)[j] = m.R.FP
  IN Len(LaidSeq(m)) <= i + 1

activated(m, fp) == fp \in Laid(m)

Drop(f, S) == [a \in (DOMAIN f) \ S |-> f[a]]

\* extend: a new extension of at least the module's stack size.
Extend(m, t, x) ==
  LET ss == SS[m.R.M]
      l == IF ss < t + 1 THEN 2 * t + 1 ELSE ss
      sx == [TR |-> t, SP |-> m.R.SP, TS |-> m.R.TS, EX |-> m.R.EX, l |-> l]
  IN [m EXCEPT !.ext = [a \in DOMAIN m.ext \cup {x} |->
                          IF a = x THEN sx ELSE m.ext[a]],
               !.R.EX = x, !.R.TS = x - 1 + l, !.R.SP = x + t]

NewFrame(m, a, t) ==
  [m EXCEPT !.frm = [b \in DOMAIN m.frm \cup {a} |->
                       IF b = a THEN [lr |-> nil, fp |-> NoFrame, mr |-> nil, t |-> t]
                       ELSE m.frm[b]]]

\* frame and mframe: the test leaves the last unit unused.
Placed(m, t) ==
  LET nsp == m.R.SP + t
      x == Min(Ext \ DOMAIN m.ext)
  IN IF nsp >= m.R.TS THEN NewFrame(Extend(m, t, x), x, nil)
     ELSE NewFrame([m EXCEPT !.R.SP = nsp], m.R.SP, t)

\* unextend, which also frees the extension whose first frame is f.
UnextendAs(m, f, sp) ==
  LET sx == m.ext[f]
  IN [m EXCEPT !.R.SP = sp, !.R.TS = sx.TS, !.R.EX = sx.EX, !.ext = Drop(m.ext, {f})]
Unextend(m, f) == UnextendAs(m, f, m.ext[f].SP)

\* The current frame is taken off: by ret, unwind, and the end of a native call.
PopFrame(m) ==
  LET f == m.R.FP
      r == m.frm[f]
      n == [m EXCEPT !.R.FP = r.fp, !.R.SP = f, !.R.PC = r.lr,
                     !.R.M = IF r.mr # nil THEN r.mr ELSE m.R.M]
      u == IF r.t = nil THEN Unextend(n, f) ELSE n
  IN [u EXCEPT !.frm = Drop(u.frm, {f})]

Linked(m, f) == [m EXCEPT !.frm[f].lr = m.R.PC, !.frm[f].fp = m.R.FP, !.R.FP = f]

\* call, and mcall, which remembers the caller's module.
Called(m, l) ==
  [Linked(m, Newest(m)) EXCEPT !.R.PC = [mod |-> m.R.M, at |-> l]]
Mcalled(m, n, pc) ==
  LET f == Newest(m)
  IN [Linked(m, f) EXCEPT !.frm[f].mr = m.R.M, !.R.M = n, !.R.PC = pc]

\* A built-in function is called with the newest frame; Sys is its module.
Entered(m) == Mcalled(m, "Sys", m.R.PC)

-----------------------------------------------------------------------------
(* Exception records: exsp has them newest first. *)

Without(s, i) == SubSeq(s, 1, i - 1) \o SubSeq(s, i + 1, Len(s))
RecordsOf(s, fp) == {i \in 1..Len(s) : s[i].R.FP = fp}

\* VARIANT of restorepc: other records for the frame are not looked for.
RestorePCAlways(m, e, s) == [m EXCEPT !.frm[e.R.FP].lr = e.lr]
\* The return address of e's frame is its own again, unless another record
\* in s is for the same frame.
restorepc(m, e, s) ==
  IF RecordsOf(s, e.R.FP) # {} THEN m ELSE [m EXCEPT !.frm[e.R.FP].lr = e.lr]

Unlinked(m, i) ==
  LET s == Without(m.exsp, i)
  IN [restorepc(m, m.exsp[i], s) EXCEPT !.exsp = s]

\* The registers rescue keeps: those its caller has when rescue returns.
SavedRegsAsIs(m, cf) ==
  [m.R EXCEPT !.PC = m.frm[cf].lr, !.FP = m.frm[cf].fp, !.M = m.frm[cf].mr, !.SP = cf]
SavedRegs(m, cf) ==
  LET r == SavedRegsAsIs(m, cf)
      sx == m.ext[cf]
  IN IF m.frm[cf].t # nil THEN r ELSE [r EXCEPT !.SP = sx.SP, !.TS = sx.TS, !.EX = sx.EX]

\* Sys->rescue, called with frame cf by frame bf: bf's first record has its
\* return address replaced, by the eclr of the module bf returns to.
Rescued(m, pat) ==
  LET cf == m.R.FP
      bf == m.frm[cf].fp
      same == RecordsOf(m.exsp, bf)
      back == IF m.frm[bf].mr # nil THEN m.frm[bf].mr ELSE m.frm[cf].mr
      e == [id |-> Min((1..MaxRec) \ {m.exsp[i].id : i \in 1..Len(m.exsp)}),
            pat |-> pat, R |-> SavedRegs(m, cf),
            lr |-> IF same = {} THEN m.frm[bf].lr ELSE m.exsp[Min(same)].lr]
      n == IF same = {} THEN [m EXCEPT !.frm[bf].lr = [mod |-> back, at |-> "eclr"]]
           ELSE m
  IN [n EXCEPT !.exsp = << e >> \o m.exsp]

ematch(pat, e) ==
  \/ pat = e
  \/ /\ pat # << >> /\ Last(pat) = "*"
     /\ Len(pat) = 1 \/ IsPrefix(Front(pat), e)

\* popex: the newest records, while they are f's, are dropped.
PopEx(m, f) ==
  LET n == Max({i \in 0..Len(m.exsp) : \A j \in 1..i : m.exsp[j].R.FP = f})
  IN IF n = 0 THEN m
     ELSE [m EXCEPT !.frm[f].lr = m.exsp[n].lr,
                    !.exsp = SubSeq(m.exsp, n + 1, Len(m.exsp))]

\* The loop takes off a frame at a time.
Unwind(m, to) ==
  LET n == Cardinality(DOMAIN m.frm)
      after[k \in 0..n] ==
        IF k = 0 THEN m
        ELSE LET s == after[k - 1]
             IN IF s.R.FP = to THEN s ELSE PopFrame(PopEx(s, s.R.FP))
  IN after[n]

Handlers(m, e) ==
  {i \in 1..Len(m.exsp) : ematch(m.exsp[i].pat, e) /\ activated(m, m.exsp[i].R.FP)}
Handles(m, e) == m.exhdlr = 0 /\ Handlers(m, e) # {}

\* VARIANT of Handled: the search goes on after a match.
HandledOldest(m, e) ==
  LET h == m.exsp[Max(Handlers(m, e))]
      n == [Unwind(m, h.R.FP) EXCEPT !.R = h.R]
  IN [n EXCEPT !.frm = Restrict(n.frm, Laid(n)), !.exhdlr = h.id]
\* handler: what lies above the saved stack pointer is gone with the frames.
Handled(m, e) ==
  LET h == m.exsp[Min(Handlers(m, e))]
      n == [Unwind(m, h.R.FP) EXCEPT !.R = h.R]
  IN [n EXCEPT !.frm = Restrict(n.frm, Laid(n)), !.exhdlr = h.id]

\* An extension whose first frame was not called.  destroystack looks for that
\* frame among the called ones and follows their links to nil; handler
\* restores the registers and forgets the extension.
OpensExtension(m) == \E x \in DOMAIN m.ext : x \notin Range(Chain(m))

IsBroken(e) == e # << >> /\ Head(e) \notin {"fail:", "interrupted"}

\* progexit, with destroystack and closeexp.
ProgExit(m, e) ==
  IF IsBroken(e) THEN vm' = m /\ pstate' = "broken"
  ELSE IF OpensExtension(m) THEN vm' = m /\ pstate' = "fault"
  ELSE /\ vm' = [m EXCEPT !.ext = << >>, !.frm = << >>, !.exsp = << >>, !.R.EX = nil]
       /\ pstate' = "gone"

\* error, up to the error loop of vmachine.
Error(m, e) ==
  /\ ErrorsAnywhere \/ ~OpensExtension(m)
  /\ estr' = e
  /\ IF Handles(m, e) THEN vm' = Handled(m, e) /\ UNCHANGED pstate
     ELSE ProgExit(m, e)
-----------------------------------------------------------------------------
(* Instructions. *)

\* newstack, for the frame of type t that spawn was given.
Init ==
  /\ \E t \in Types, n \in Module, l \in Label :
       LET x == Min(Ext)
           len == IF SS[n] < t + 1 THEN t + 1 ELSE SS[n]
       IN vm = [R |-> [PC |-> [mod |-> n, at |-> l], FP |-> x, SP |-> x + t,
                       TS |-> x - 1 + len, EX |-> x, M |-> n],
                frm |-> [a \in {x} |-> [lr |-> nil, fp |-> NoFrame, mr |-> nil, t |-> nil]],
                ext |-> [a \in {x} |-> [TR |-> t, SP |-> nil, TS |-> nil,
                                        EX |-> nil, l |-> len]],
                exsp |-> << >>, exhdlr |-> 0]
  /\ estr = << >>
  /\ pstate = "run"

AtEclr == vm.R.PC.at = "eclr"
Go(m) == vm' = m /\ UNCHANGED << estr, pstate >>

Frame(t) ==
  /\ t + FoldFunction(+, 0, [a \in DOMAIN vm.frm |-> SizeOf(vm, a)]) <= MaxUnits
  /\ DOMAIN vm.ext # Ext
  /\ Go(Placed(vm, t))

Call(l) == Uncalled(vm) /\ Go(Called(vm, l))
Mcall(n, l) == Uncalled(vm) /\ Go(Mcalled(vm, n, [mod |-> n, at |-> l]))

\* The frame is copied to the new Prog's stack and taken off this one.  A
\* spawn statement has no other frame under construction.
Spawn ==
  LET f == Newest(vm)
      n == IF vm.frm[f].t = nil THEN UnextendAs(vm, f, vm.R.FP + SizeOf(vm, vm.R.FP))
           ELSE [vm EXCEPT !.R.SP = vm.R.FP + SizeOf(vm, vm.R.FP)]
  IN /\ Uncalled(vm)
     /\ OneUncalled(vm)
     /\ Go([n EXCEPT !.frm = Drop(n.frm, {f})])

\* A function calls the frames it builds, and one whose handler has run says
\* so (rescued, unrescue) before it returns: nothing else clears exhdlr.
Ret ==
  /\ ~Uncalled(vm)
  /\ IF vm.frm[vm.R.FP].fp = NoFrame THEN Error(vm, << >>)
     ELSE /\ \A i \in RecordsOf(vm.exsp, vm.R.FP) : vm.exsp[i].id # vm.exhdlr
          /\ Go(PopFrame(vm))

\* eclr with unlinkex: drop the newest records while their frames are gone.
Dead(m) == {i \in 1..Len(m.exsp) : \A j \in 1..i : ~activated(m, m.exsp[j].R.FP)}
Eclr ==
  LET i == {j \in Dead(vm) : vm.exsp[j].lr # nil}
      n == [vm EXCEPT !.exsp = SubSeq(vm.exsp, Cardinality(Dead(vm)) + 1, Len(vm.exsp))]
  IN IF i = {} THEN Error(n, << "bad unlinkex" >>)
     ELSE Go([n EXCEPT !.R.PC = vm.exsp[Max(i)].lr])

\* No other frame of the caller is under construction: one that was called
\* and taken off would come back with the stack pointer.
Sys_rescue(p, l) ==
  /\ Uncalled(vm) /\ Len(vm.exsp) < MaxRec
  /\ OneUncalled(vm)
  /\ Go(PopFrame(Rescued(Entered([vm EXCEPT !.R.PC.at = l]), p)))

Sys_unrescue ==
  LET m == [Entered(vm) EXCEPT !.exhdlr = 0]
  IN /\ Uncalled(vm)
     /\ Go(PopFrame(IF m.exsp # << >> /\ m.exsp[1].R.FP = m.frm[m.R.FP].fp
                      THEN Unlinked(m, 1) ELSE m))

Sys_rescued(flag) ==
  LET m == Entered(vm)
      n == [m EXCEPT !.exhdlr = 0]
      i == {j \in 1..Len(m.exsp) : m.exsp[j].id = m.exhdlr}
      u == IF i = {} THEN n ELSE Unlinked(n, Min(i))
  IN /\ Uncalled(vm)
     /\ \/ vm.exhdlr = 0 /\ Go(PopFrame(m))
        \/ vm.exhdlr # 0 /\ flag = "ACTIVE" /\ Go(PopFrame(n))
        \/ vm.exhdlr # 0 /\ flag = "EXIT" /\ Error(m, estr)
        \/ vm.exhdlr # 0 /\ flag = "ONCE" /\ Go(PopFrame(u))
        \/ vm.exhdlr # 0 /\ flag = "RAISE" /\ \E e \in Err \cup {estr} : Error(u, e)

\* An instruction fails, or a built-in function does.
Fault(e) == Error(vm, e)
Sys_raise(e) == Uncalled(vm) /\ Error(Entered(vm), e)

Next ==
  /\ pstate = "run"
  /\ \/ AtEclr /\ Eclr
     \/ /\ ~AtEclr
        /\ \/ \E t \in Types : Frame(t)
           \/ \E l \in Label : Call(l)
           \/ \E n \in Module, l \in Label : Mcall(n, l)
           \/ Spawn
           \/ Ret
           \/ \E p \in Pattern, l \in Label : Sys_rescue(p, l)
           \/ Sys_unrescue
           \/ \E flag \in {"ACTIVE", "ONCE", "RAISE", "EXIT"} : Sys_rescued(flag)
           \/ \E e \in Err : Fault(e) \/ Sys_raise(e)

Spec == Init /\ [][Next]_svars
-----------------------------------------------------------------------------
(* Properties. *)

Extensions(m) ==
  LET f[x \in DOMAIN m.ext] ==
        IF m.ext[x].EX = nil THEN << x >> ELSE << x >> \o f[m.ext[x].EX]
  IN f[m.R.EX]

\* The registers r describe the extension they name: its frames fill it from
\* the first unit to the stack pointer, within what was allocated.
Sound(m, r) ==
  /\ r.EX \in DOMAIN m.ext
  /\ LET s == FramesIn(m, r.EX, r.SP)
     IN s # << >> /\ Last(s) + SizeOf(m, Last(s)) = r.SP
  /\ r.SP <= r.TS /\ r.TS = r.EX - 1 + m.ext[r.EX].l

\* Frames tile the stack, extensions are neither lost nor freed early, and
\* the registers each extension and each rescue has saved still describe the
\* stack they will be restored to, whatever was built, extended and taken off
\* since.
StackTiled ==
  pstate = "run" =>
    /\ DOMAIN vm.ext = Range(Extensions(vm))
    /\ DOMAIN vm.frm = Laid(vm)
    /\ Range(Chain(vm)) \subseteq Laid(vm)
    /\ Sound(vm, vm.R)
    /\ \A x \in DOMAIN vm.ext : vm.ext[x].EX # nil => Sound(vm, vm.ext[x])
    /\ \A i \in 1..Len(vm.exsp) :
         activated(vm, vm.exsp[i].R.FP) => Sound(vm, vm.exsp[i].R)

\* The module each called frame runs in, and the instruction it stands at
\* once records have given back the return addresses they keep.
ModsOf(m) ==
  LET c == Chain(m)
      mods[i \in 1..Len(c)] ==
        IF i = Len(c) THEN m.R.M
        ELSE IF m.frm[c[i + 1]].mr # nil THEN m.frm[c[i + 1]].mr ELSE mods[i + 1]
  IN mods
LrOf(m, f) ==
  LET r == RecordsOf(m.exsp, f) IN IF r = {} THEN m.frm[f].lr ELSE m.exsp[Min(r)].lr
PCsOf(m) ==
  LET lrs[a \in DOMAIN m.frm \cup {NoFrame}] == IF a = NoFrame THEN << >> ELSE Append(lrs[m.frm[a].fp], LrOf(m, a))
      here == IF m.R.PC.at = "eclr" THEN m.exsp[Max(Dead(m))].lr ELSE m.R.PC
  IN Append(Tail(lrs[m.R.FP]), here)

\* A frame returns to eclr exactly when a record in force is for it, to the
\* eclr of the module that is then current; the program counter is always in
\* the current module; eclr has a record to drop.
EclrAgrees ==
  pstate = "run" =>
    LET c == Chain(vm)
        mods == ModsOf(vm)
    IN /\ \A i \in 1..Len(c) :
            LET lr == vm.frm[c[i]].lr
                patched == lr # nil /\ lr.at = "eclr"
            IN /\ patched <=> RecordsOf(vm.exsp, c[i]) # {}
               /\ lr # nil /\ i > 1 => lr.mod = mods[i - 1]
       /\ vm.R.PC.mod = vm.R.M
       /\ AtEclr <=> Dead(vm) # {}

\* The activations and the rescues in force that a program sees.
Activations(m) ==
  LET of[c \in Seq(Nat), mods \in Seq(Module \cup {"Sys"})] ==
        LET pcs == PCsOf(m)
        IN [i \in 1..Len(c) |-> [t |-> SizeOf(m, c[i]), mod |-> mods[i], pc |-> pcs[i]]]
  IN of[Chain(m), ModsOf(m)]
LiveRecords(m) ==
  LET of[laid \in SUBSET Nat] == SelectSeq(Reverse(m.exsp), LAMBDA e : e.R.FP \in laid)
  IN of[Laid(m)]
Tries(m) ==
  LET of[c \in Seq(Nat), live \in Seq(Range(m.exsp))] ==
        [i \in 1..Len(live) |->
           [depth |-> CHOOSE d \in 1..Len(c) : c[d] = live[i].R.FP,
            pat |-> live[i].pat, pc |-> live[i].R.PC]]
  IN of[Chain(m), LiveRecords(m)]

Abs == INSTANCE CallStack WITH
  stack <- IF pstate = "run" THEN Activations(vm) ELSE << >>,
  tries <- IF pstate = "run" THEN Tries(vm) ELSE << >>,
  active <- IF pstate # "run" \/ vm.exhdlr = 0 THEN 0
            ELSE LET live == LiveRecords(vm)
                 IN CHOOSE i \in 1..Len(live) : live[i].id = vm.exhdlr,
  err <- estr,
  state <- pstate

\* Calls, returns, rescues and exceptions are those of CallStack: a return
\* goes to the instruction after the call, in the caller's module, whether or
\* not rescues were in force; an exception resumes the newest rescue that
\* matches; building a frame, spawn and eclr are not seen.
ImplementsCallStack == Abs!Spec
=============================================================================
