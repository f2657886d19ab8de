------------------------------ MODULE DisHeap ------------------------------
(***************************************************************************)
(* The heap of Dis: reference counts (src/dis/interp/heap.c), the          *)
(* concurrent collector for what they miss (src/dis/interp/gc.c), and the  *)
(* instructions that move references about (src/dis/interp/xec.c, stack.c).*)
(*                                                                         *)
(* The collector has the colours of VCGC.  An epoch colours what it        *)
(* reaches with the colour of the mutators; the colour of the epoch before *)
(* last is garbage.  rungc visits the blocks of the heap in the order of   *)
(* their addresses, again and again, a few at a time; Progs execute        *)
(* instructions between.                                                   *)
(*                                                                         *)
(* Free blocks split and join (src/dis/kernel/alloc.c): between two calls  *)
(* of rungc the block it is to visit next may have become the middle of    *)
(* another, free or allocated again.                                       *)
(*                                                                         *)
(* An instruction is one action, but for destroy(), whose recursion is     *)
(* spread over actions of its own that nothing interrupts: todo is what    *)
(* remains to be destroyed.  So is the loop of marklist().                 *)
(*                                                                         *)
(* A definition marked VARIANT is not part of the model: it is the         *)
(* definition after it with one slip in the code, for checking that a      *)
(* property notices.                                                       *)
(***************************************************************************)
EXTENDS Naturals, Sequences, FiniteSets

CONSTANTS Prog,
          N,         \* places where a block may begin
          H,         \* nil in a reference
          Slots,     \* pointers in a frame
          Fields,    \* pointers in a heap object
          Depth,     \* frames on a stack
          Nest,      \* destroy() recurses no deeper (64 in the code)
          MaxRef,    \* bound on the reference counts
          CopiesUnmarked, \* see Marked
          DataAsHeader    \* see Misread

Obj == 1 .. N

ASSUME HeapAssumption ==
  /\ N \in Nat \ {0, 1} /\ H \notin Obj
  /\ Slots \in Nat /\ Fields \in Nat \ {0} /\ Depth \in Nat \ {0}
  /\ Nest \in Nat /\ MaxRef \in Nat
  /\ CopiesUnmarked \in BOOLEAN /\ DataAsHeader \in BOOLEAN

ASSUME FiniteAssumption == IsFiniteSet(Prog)

VARIABLES
  blocks,  \* the places where a block begins, free or allocated
  kind,    \* [Obj -> Kind]: Heap.t, or "free" if no allocated block begins here
  color,   \* [Obj -> 0 .. 3]: Heap.color
  ref,     \* [Obj -> Nat]: Heap.ref
  fld,     \* [Obj -> [1 .. Fields -> Ref]]: the pointers in the object
  stk,     \* [Prog -> Seq(Frame)]: the stack; <<>> if there is no such Prog
  built,   \* [Prog -> BOOLEAN]: the last frame is not called yet
  M,       \* [Prog -> Ref]: R.M, the Modlink
  todo,    \* the references destroy() still has to drop, and how deep it is
  walk,    \* the List marklist() is at, or H
  ptr,     \* the block rungc visits next
  mutator, \* the colour of what is reached
  nprop,   \* something may have become propagator since the pass began
  epochs   \* epochs completed since a Prog ran, up to 3

objVars  == <<blocks, kind, color, ref, fld>>
progVars == <<stk, built, M>>
gcVars   == <<walk, ptr, mutator, epochs>>
vars == <<objVars, progVars, todo, nprop, gcVars>>

Kind == {"free", "adt", "list", "modlink"}
Ref == Obj \cup {H}
Frame == [slot : [1 .. Slots -> Ref], mr : Ref]

propagator == 3
sweeper == (mutator + 1) % 3

\* The first pointer of a Modlink is its MP, that of a List its tail.
First == 1

Nils == [f \in 1 .. Fields |-> H]
NoPtrs == [s \in 1 .. Slots |-> H]

MP(m) == IF m = H THEN H ELSE fld[m][First]

Busy == todo # <<>> \/ walk # H

(***************************************************************************)
(* The blocks: each goes on to where the next begins.                      *)
(***************************************************************************)
\* B2NB: the end of the block that goes from o on, as a set of one.
NextBlock(b, o) == {n \in b \cup {N + 1} : o < n /\ \A c \in b : o < c => n <= c}

\* What b may be when poolalloc has taken the free block o: all of it, or
\* what is left over is a block.
Split(b, o) == {b} \cup {b \cup {c} : c \in {c \in Obj : o < c /\ \A n \in b : o < n => c < n}}

\* poolfree joins the block with a free one after it and one before it.
Join(o) ==
  blocks' = blocks \ ({n \in blocks \cap NextBlock(blocks, o) : kind[n] = "free"}
                      \cup {n \in {o} : \E b \in blocks : kind[b] = "free" /\ o \in NextBlock(blocks, b)})

(***************************************************************************)
(* Setmark on each member of S, with the colours c.                        *)
(***************************************************************************)
\* VARIANT: the colour is not tested.
SetmarkAlways(c, S) ==
  /\ color' = [o \in Obj |-> IF o \in S THEN propagator ELSE c[o]]
  /\ nprop' = (nprop \/ S \cap Obj # {})

Setmark(c, S) ==
  /\ color' = [o \in Obj |-> IF o \in S /\ c[o] # mutator THEN propagator ELSE c[o]]
  /\ nprop' = (nprop \/ \E o \in S \cap Obj : c[o] # mutator)

(***************************************************************************)
(* destroy().                                                              *)
(***************************************************************************)
\* The references of the sequence v, to be dropped n calls deep.
Drops(v, n) ==
  LET w[i \in 0 .. Len(v)] ==
        IF i = 0 THEN <<>>
        ELSE IF v[i] = H THEN w[i - 1]
        ELSE Append(w[i - 1], [o |-> v[i], n |-> n]) IN
  w[Len(v)]

\* What freeing o drops: freelist drops the tail in a loop, not a call.
Children(o, n) ==
  IF kind[o] = "list"
  THEN Drops(Tail(fld[o]), n + 1) \o Drops(<<fld[o][First]>>, n)
  ELSE Drops(fld[o], n + 1)

\* poolfree: what the block holds is dead.
PoolFree(o) ==
  /\ Join(o)
  /\ kind' = [kind EXCEPT ![o] = "free"]
  /\ color' = [color EXCEPT ![o] = 0]
  /\ ref' = [ref EXCEPT ![o] = 0]
  /\ fld' = [fld EXCEPT ![o] = Nils]

Destroy ==
  /\ todo # <<>>
  /\ LET t == Head(todo) IN
     IF ref[t.o] > 1 \/ t.n > Nest
     THEN /\ ref' = [ref EXCEPT ![t.o] = @ - 1]
          /\ todo' = Tail(todo)
          /\ UNCHANGED <<blocks, kind, color, fld>>
     ELSE todo' = Children(t.o, t.n) \o Tail(todo) /\ PoolFree(t.o)
  /\ UNCHANGED <<progVars, nprop, gcVars>>

(***************************************************************************)
(* Operands: a pointer in the current frame or the one being built, in the *)
(* module's data, or in an object that one of those points to.             *)
(***************************************************************************)
Top(p) == Len(stk[p])
Cur(p) == IF built[p] THEN Top(p) - 1 ELSE Top(p)

InFrame(p, ks) == [frame : ks, at : 1 .. Slots]

Holders(p) ==
  LET mp == MP(M[p])
      via == {stk[p][Cur(p)].slot[s] : s \in 1 .. Slots}
             \cup (IF mp = H THEN {} ELSE {mp} \cup {fld[mp][f] : f \in 1 .. Fields}) IN
  via \ {H}

InObject(S) == [obj : S, at : 1 .. Fields]

\* The destinations; a List is never changed, a Modlink not by a Prog.
Cells(p) ==
  InFrame(p, {Cur(p), Top(p)}) \cup InObject({o \in Holders(p) : kind[o] = "adt"})

Get(p, c) == IF "frame" \in DOMAIN c THEN stk[p][c.frame].slot[c.at]
                                     ELSE fld[c.obj][c.at]

\* The references p can copy: nil, what is in a source, and what is in a List.
Values(p) ==
  LET direct == {Get(p, c) : c \in InFrame(p, {Cur(p)}) \cup
                               InObject({o \in Holders(p) : kind[o] = "adt"})}
      inList == {fld[l][f] : l \in {x \in direct \ {H} : kind[x] = "list"}, f \in 1 .. Fields}
  IN  {H} \cup direct \cup inList

\* P(c) = v, with the objects fs (which have just got new fields).
Put(p, c, v, fs) ==
  IF "frame" \in DOMAIN c
  THEN stk' = [stk EXCEPT ![p][c.frame].slot[c.at] = v] /\ fld' = fs
  ELSE fld' = [fs EXCEPT ![c.obj][c.at] = v] /\ UNCHANGED stk

Inc(r, v) == [o \in Obj |-> IF o = v THEN r[o] + 1 ELSE r[o]]

\* p executes an instruction.
Runs(p) == stk[p] # <<>> /\ ~Busy /\ ptr <= N

Mutate == epochs' = 0 /\ UNCHANGED <<walk, ptr, mutator>>

\* nheap and heap: the block o becomes an object of kind k with fields v.
New(o, k) ==
  /\ o \in blocks /\ kind[o] = "free"
  /\ blocks' \in Split(blocks, o)
  /\ kind' = [kind EXCEPT ![o] = k]

(***************************************************************************)
(* movp, and what is done by it: headp, tail, sending from p to q.         *)
(***************************************************************************)
\* VARIANT: no mark.
MovpUnmarked(p, v, q, d) ==
  /\ ref' = Inc(ref, v)
  /\ Put(q, d, v, fld)
  /\ todo' = Drops(<<Get(q, d)>>, 0)
  /\ Mutate
  /\ UNCHANGED <<blocks, color, nprop, kind, built, M>>

MovpTo(p, v, q, d) ==
  /\ ref' = Inc(ref, v)
  /\ Setmark(color, {v})
  /\ Put(q, d, v, fld)
  /\ todo' = Drops(<<Get(q, d)>>, 0)
  /\ Mutate
  /\ UNCHANGED <<blocks, kind, built, M>>

Movp(p) ==
  /\ Runs(p)
  /\ \E v \in Values(p), d \in Cells(p) : MovpTo(p, v, p, d)

\* send and recv: the one that waits has its operand in its frame.
Communicate(p, q) ==
  /\ Runs(p) /\ q # p /\ stk[q] # <<>>
  /\ \/ \E v \in Values(p), d \in InFrame(q, {Cur(q)}) : MovpTo(p, v, q, d)
     \/ \E c \in InFrame(q, {Cur(q)}), d \in Cells(p) : MovpTo(q, Get(q, c), p, d)

NewAdt(p) ==
  /\ Runs(p)
  /\ \E o \in Obj, d \in Cells(p) :
       /\ New(o, "adt")
       /\ color' = [color EXCEPT ![o] = mutator]
       /\ ref' = [ref EXCEPT ![o] = 1]
       /\ Put(p, d, o, fld)
       /\ todo' = Drops(<<Get(p, d)>>, 0)
  /\ Mutate
  /\ UNCHANGED <<built, M, nprop>>

\* VARIANT: the old list is not marked.
ConsUnmarked(p) ==
  /\ Runs(p)
  /\ \E o \in Obj, d \in Cells(p) :
       LET lv == Get(p, d) IN
       /\ lv # H => kind[lv] = "list"
       /\ New(o, "list")
       /\ color' = [color EXCEPT ![o] = mutator]
       /\ ref' = [ref EXCEPT ![o] = 1]
       /\ Put(p, d, o, [fld EXCEPT ![o][First] = lv])
  /\ Mutate
  /\ UNCHANGED <<built, M, todo, nprop>>

\* cons: the destination's old list becomes the tail; movmp of the data.
Cons(p) ==
  /\ Runs(p)
  /\ \E o \in Obj, d \in Cells(p) :
     \E data \in [2 .. Fields -> Values(p)] :
       LET lv == Get(p, d) IN
       /\ lv # H => kind[lv] = "list"
       /\ New(o, "list")
       /\ Setmark([color EXCEPT ![o] = mutator], {lv} \cup {data[f] : f \in 2 .. Fields})
       /\ ref' = [x \in Obj |-> IF x = o THEN 1
                                ELSE ref[x] + Cardinality({f \in 2 .. Fields : data[f] = x})]
       /\ Put(p, d, o, [fld EXCEPT ![o] = [f \in 1 .. Fields |-> IF f = First THEN lv ELSE data[f]]])
  /\ Mutate
  /\ UNCHANGED <<built, M, todo>>

(***************************************************************************)
(* Modules.                                                                *)
(***************************************************************************)
\* Two instructions copy a reference v without marking it.  Progs that only
\* do so when the collector has marked it already are all there are unless
\* CopiesUnmarked.
Marked(v) == ~CopiesUnmarked /\ v # H => color[v] \in {mutator, propagator}

\* iload of a module, with or without data.
Load(p) ==
  /\ Runs(p)
  /\ \E ml \in Obj, d \in Cells(p) : \E mp \in Obj \cup {H} :
       /\ mp # ml /\ ml \in blocks /\ kind[ml] = "free" /\ (mp # H => kind[mp] = "free")
       /\ \E b \in Split(blocks, ml) :
            IF mp = H THEN blocks' = b ELSE mp \in b /\ blocks' \in Split(b, mp)
       /\ kind' = [o \in Obj |-> IF o = ml THEN "modlink"
                                 ELSE IF o = mp THEN "adt" ELSE kind[o]]
       /\ color' = [o \in Obj |-> IF o \in {ml, mp} THEN mutator ELSE color[o]]
       /\ ref' = [o \in Obj |-> IF o \in {ml, mp} THEN 1 ELSE ref[o]]
       /\ Put(p, d, ml, [fld EXCEPT ![ml][First] = mp])
       /\ todo' = Drops(<<Get(p, d)>>, 0)
  /\ Mutate
  /\ UNCHANGED <<built, M, nprop>>

\* linkmod gets a Modlink, but no memory for the data: what is free is in
\* blocks that are too small.
LoadFails(p) ==
  /\ Runs(p)
  /\ \E ml \in Obj :
       /\ New(ml, "modlink")
       /\ color' = [color EXCEPT ![ml] = mutator]
       /\ ref' = [ref EXCEPT ![ml] = 1]
  /\ Mutate
  /\ UNCHANGED <<fld, progVars, todo, nprop>>

\* iload of "$self": the new Modlink shares the data of this one.
LoadSelf(p) ==
  /\ Runs(p)
  /\ Marked(MP(M[p]))
  /\ \E ml \in Obj, d \in Cells(p) :
       LET mp == MP(M[p]) IN
       /\ New(ml, "modlink")
       /\ color' = [color EXCEPT ![ml] = mutator]
       /\ ref' = Inc([ref EXCEPT ![ml] = 1], mp)
       /\ Put(p, d, ml, [fld EXCEPT ![ml][First] = mp])
       /\ todo' = Drops(<<Get(p, d)>>, 0)
  /\ Mutate
  /\ UNCHANGED <<built, M, nprop>>

(***************************************************************************)
(* Frames.                                                                 *)
(***************************************************************************)
NewFrame(p) ==
  /\ Runs(p) /\ ~built[p] /\ Top(p) < Depth
  /\ stk' = [stk EXCEPT ![p] = Append(@, [slot |-> NoPtrs, mr |-> H])]
  /\ built' = [built EXCEPT ![p] = TRUE]
  /\ Mutate
  /\ UNCHANGED <<objVars, M, todo, nprop>>

Call(p) ==
  /\ Runs(p) /\ built[p]
  /\ built' = [built EXCEPT ![p] = FALSE]
  /\ Mutate
  /\ UNCHANGED <<objVars, stk, M, todo, nprop>>

\* mcall of a function in Dis; the frame keeps the caller's Modlink.
Mcall(p) ==
  /\ Runs(p) /\ built[p]
  /\ \E ml \in Values(p) \ {H} :
       /\ kind[ml] = "modlink" /\ Marked(ml)
       /\ stk' = [stk EXCEPT ![p][Top(p)].mr = M[p]]
       /\ M' = [M EXCEPT ![p] = ml]
       /\ ref' = Inc(ref, ml)
  /\ built' = [built EXCEPT ![p] = FALSE]
  /\ Mutate
  /\ UNCHANGED <<blocks, kind, color, fld, todo, nprop>>

Ret(p) ==
  /\ Runs(p) /\ ~built[p] /\ Top(p) > 1
  /\ LET f == stk[p][Top(p)] IN
     /\ stk' = [stk EXCEPT ![p] = SubSeq(@, 1, Top(p) - 1)]
     /\ IF f.mr = H
        THEN todo' = Drops(f.slot, 0) /\ UNCHANGED M
        ELSE todo' = Drops(f.slot \o <<M[p]>>, 0) /\ M' = [M EXCEPT ![p] = f.mr]
  /\ Mutate
  /\ UNCHANGED <<objVars, built, nprop>>

\* An error: unwind follows the frames that were called, and forgets one
\* that was being built.
Unwind(p) ==
  /\ Runs(p) /\ built[p]
  /\ stk' = [stk EXCEPT ![p] = SubSeq(@, 1, Top(p) - 1)]
  /\ built' = [built EXCEPT ![p] = FALSE]
  /\ Mutate
  /\ UNCHANGED <<objVars, M, todo, nprop>>

\* VARIANT: no reference is counted.
SpawnInUncounted(p, q, m) ==
  /\ stk' = [stk EXCEPT ![p] = SubSeq(@, 1, Top(p) - 1), ![q] = <<stk[p][Top(p)]>>]
  /\ built' = [built EXCEPT ![p] = FALSE]
  /\ M' = [M EXCEPT ![q] = m]
  /\ Setmark(color, {m, MP(m)})
  /\ Mutate
  /\ UNCHANGED <<blocks, kind, fld, ref, todo>>

\* spawn and mspawn: the frame that was built becomes the stack of q, which
\* runs the module m.
SpawnIn(p, q, m) ==
  /\ stk' = [stk EXCEPT ![p] = SubSeq(@, 1, Top(p) - 1), ![q] = <<stk[p][Top(p)]>>]
  /\ built' = [built EXCEPT ![p] = FALSE]
  /\ M' = [M EXCEPT ![q] = m]
  /\ ref' = Inc(ref, m)
  /\ Setmark(color, {m, MP(m)})
  /\ Mutate
  /\ UNCHANGED <<blocks, kind, fld, todo>>

Spawn(p, q) ==
  /\ Runs(p) /\ built[p] /\ stk[q] = <<>>
  /\ \E m \in {M[p]} \cup {v \in Values(p) \ {H} : kind[v] = "modlink"} : SpawnIn(p, q, m)

\* destroystack: the pointers of the frames that were called, and every
\* Modlink; and the Prog is gone.
Exit(p) ==
  /\ Runs(p)
  /\ LET drops[k \in 0 .. Cur(p)] ==
           IF k = 0 THEN <<>>
           ELSE Drops(stk[p][k].slot \o <<stk[p][k].mr>>, 1) \o drops[k - 1] IN
     todo' = drops[Cur(p)] \o Drops(<<M[p]>>, 1)
  /\ stk' = [stk EXCEPT ![p] = <<>>]
  /\ built' = [built EXCEPT ![p] = FALSE]
  /\ M' = [M EXCEPT ![p] = H]
  /\ Mutate
  /\ UNCHANGED <<objVars, nprop>>

(***************************************************************************)
(* The collector: rungc, one block at a time.                              *)
(***************************************************************************)
Collect == UNCHANGED <<stk, built, M, mutator, epochs>>

\* What t->mark marks at once: all pointers, but a List's tail.
Pointers(o) == {fld[o][f] : f \in IF kind[o] = "list" THEN 2 .. Fields ELSE 1 .. Fields}

\* The block at ptr: t->mark if it is a propagator, or it is swept.
Visit ==
  /\ ~Busy /\ ptr \in blocks
  /\ IF kind[ptr] # "free" /\ color[ptr] = propagator
     THEN LET c == [color EXCEPT ![ptr] = mutator] IN
          /\ Setmark(c, Pointers(ptr))
          /\ walk' = IF kind[ptr] = "list" THEN ptr ELSE walk
          /\ UNCHANGED <<blocks, kind, ref, fld>>
     ELSE /\ IF kind[ptr] # "free" /\ color[ptr] = sweeper
             THEN PoolFree(ptr) ELSE UNCHANGED objVars
          /\ UNCHANGED <<nprop, walk>>
  /\ ptr' \in NextBlock(blocks', ptr)
  /\ Collect
  /\ UNCHANGED todo

\* The cell at ptr is in the object o now, and what o has there may read as a
\* header.  The code does not exclude it (gc.c:303): rungc then takes data for
\* an object and may free it, with the memory of o from there on.
Misread(o) ==
  DataAsHeader /\ kind[o] # "free" /\ o < ptr /\ \A n \in NextBlock(blocks, o) : ptr < n

\* VARIANT: the pass has come to its end.
RestartEndsPass ==
  /\ ~Busy /\ ptr <= N /\ ptr \notin blocks
  /\ \E o \in {H} \cup {o \in Obj : Misread(o)} :
       IF o = H THEN ptr' = N + 1 /\ UNCHANGED objVars
       ELSE PoolFree(o) /\ ptr' \in NextBlock(blocks', ptr)
  /\ Collect
  /\ UNCHANGED <<todo, nprop, walk>>

\* okbhdr(ptr) fails: the block that began there was freed since, and joined
\* to the one before it.  The pass begins again; nprop stays as it is.
Restart ==
  /\ ~Busy /\ ptr <= N /\ ptr \notin blocks
  /\ \E o \in {H} \cup {o \in Obj : Misread(o)} :
       IF o = H THEN ptr' = 1 /\ UNCHANGED objVars
       ELSE PoolFree(o) /\ ptr' \in NextBlock(blocks', ptr)
  /\ Collect
  /\ UNCHANGED <<todo, nprop, walk>>

\* marklist goes on to the next element l of the list, with its data; then,
\* if that uses the visits of this call up, the one after is left to do.
Marklist ==
  /\ walk # H
  /\ LET l == fld[walk][First]
         data == Pointers(l) IN
     IF l = H
     THEN walk' = H /\ UNCHANGED <<color, nprop>>
     ELSE \/ Setmark(color, {l} \cup data) /\ walk' = l
          \/ /\ LET after == fld[l][First] IN
                Setmark([o \in Obj |-> IF o = after THEN propagator ELSE color[o]],
                        {l, after} \cup data)
             /\ walk' = H
  /\ Collect
  /\ UNCHANGED <<blocks, kind, ref, fld, ptr, todo>>

Frames(p) == {stk[p][k] : k \in 1 .. Top(p)}

\* What rootset marks: Modlinks and their data, and the stacks.
Roots ==
  LET links == (UNION {{M[p]} \cup {f.mr : f \in Frames(p)} : p \in Prog}) \ {H} IN
  links \cup {MP(m) : m \in links}
        \cup UNION {{f.slot[s] : f \in Frames(p), s \in 1 .. Slots} : p \in Prog}

\* VARIANT: the colours are not taken modulo three.
EndPassCounts ==
  /\ ~Busy /\ ptr = N + 1
  /\ ptr' = 1
  /\ IF nprop THEN nprop' = FALSE /\ UNCHANGED <<color, mutator, epochs>>
     ELSE LET m == mutator + 1 IN
          /\ mutator' = m
          /\ color' = [o \in Obj |-> IF o \in Roots /\ color[o] # m
                                     THEN propagator ELSE color[o]]
          /\ nprop' = \E o \in Roots \ {H} : color[o] # m
          /\ epochs' = IF epochs < 3 THEN epochs + 1 ELSE 3
  /\ UNCHANGED <<blocks, kind, ref, fld, progVars, todo, walk>>

\* A pass ends.  One in which nothing may have become propagator ends the
\* epoch: the colours change their roles and rootset begins the next.
EndPass ==
  /\ ~Busy /\ ptr = N + 1
  /\ ptr' = 1
  /\ IF nprop THEN nprop' = FALSE /\ UNCHANGED <<color, mutator, epochs>>
     ELSE LET m == (mutator + 1) % 3 IN
          /\ mutator' = m
          /\ color' = [o \in Obj |-> IF o \in Roots /\ color[o] # m
                                     THEN propagator ELSE color[o]]
          /\ nprop' = \E o \in Roots \ {H} : color[o] # m
          /\ epochs' = IF epochs < 3 THEN epochs + 1 ELSE 3
  /\ UNCHANGED <<blocks, kind, ref, fld, progVars, todo, walk>>

\* disinit: one Prog, in a module with or without data; the rest is free.
Init ==
  /\ \E p \in Prog : \E mp \in {H, 2} :
       /\ kind = [o \in Obj |-> IF o = 1 THEN "modlink" ELSE IF o = mp THEN "adt" ELSE "free"]
       /\ blocks = {o \in Obj : o <= 2 \/ (o = 3 /\ mp = 2)}
       /\ ref = [o \in Obj |-> IF o \in {1, mp} THEN 1 ELSE 0]
       /\ fld = [o \in Obj |-> IF o = 1 THEN [Nils EXCEPT ![First] = mp] ELSE Nils]
       /\ stk = [q \in Prog |-> IF q = p THEN <<[slot |-> NoPtrs, mr |-> H]>> ELSE <<>>]
       /\ M = [q \in Prog |-> IF q = p THEN 1 ELSE H]
  /\ color = [o \in Obj |-> 0]
  /\ built = [p \in Prog |-> FALSE]
  /\ todo = <<>> /\ walk = H
  /\ ptr = 1 /\ mutator = 0 /\ nprop = FALSE /\ epochs = 0

Instruction(p) ==
  \/ Movp(p) \/ NewAdt(p) \/ Cons(p)
  \/ Load(p) \/ LoadFails(p) \/ LoadSelf(p)
  \/ NewFrame(p) \/ Call(p) \/ Mcall(p) \/ Ret(p) \/ Unwind(p) \/ Exit(p)
  \/ \E q \in Prog : Communicate(p, q) \/ Spawn(p, q)

\* The bound MaxRef, on what instructions count.
Bounded == \A o \in Obj : ref'[o] <= MaxRef

RunGC == Visit \/ Marklist \/ EndPass \/ Restart

Next == (\E p \in Prog : Instruction(p) /\ Bounded) \/ Destroy \/ RunGC

Spec == Init /\ [][Next]_vars

\* rungc is called again and again: in idle time, or when memory is low.
FairSpec == Spec /\ WF_vars(RunGC \/ Destroy)
-----------------------------------------------------------------------------
(***************************************************************************)
(* Properties.                                                             *)
(***************************************************************************)

\* Every variable has its type.
TypeOK ==
  /\ blocks \subseteq Obj
  /\ kind \in [Obj -> Kind] /\ color \in [Obj -> 0 .. 3] /\ ref \in [Obj -> Nat]
  /\ fld \in [Obj -> [1 .. Fields -> Ref]]
  /\ stk \in [Prog -> Seq(Frame)] /\ built \in [Prog -> BOOLEAN] /\ M \in [Prog -> Ref]
  /\ todo \in Seq([o : Obj, n : Nat])
  /\ walk \in Ref /\ ptr \in 1 .. N + 1
  /\ mutator \in 0 .. 2 /\ nprop \in BOOLEAN /\ epochs \in 0 .. 3

Allocated == {o \in Obj : kind[o] # "free"}

\* What the collector may not sweep in this epoch.
Kept == {o \in Allocated : color[o] # sweeper}

\* What Progs can reach.
Reachable ==
  LET R[k \in 0 .. N] ==
        IF k = 0 THEN Roots \ {H}
        ELSE R[k - 1] \cup ((UNION {{fld[o][f] : f \in 1 .. Fields} : o \in R[k - 1]}) \ {H})
  IN R[N]

\* Nothing a Prog can reach is freed, whether by destroy when a count gets to
\* zero or by the collector, however instructions come between the visits, and
\* whatever becomes meanwhile of the block the collector was to visit next:
\* unless it takes data for a header, which gc.c:303 leaves possible (Misread).
NoDangling == Reachable \subseteq Allocated

\* The collector's invariant, which tells that what is swept is garbage: what
\* has been visited, and what a Prog holds, points to nothing that this epoch
\* has yet to find; what the last epoch found points to nothing it did not.
NoLostObject ==
  LET found == {o \in Allocated : color[o] \in {mutator, propagator}}
      seen == {o \in Allocated : color[o] = mutator /\ o # walk} IN
  /\ \A p \in Prog : {M[p]} \cup UNION {{f.mr} \cup {f.slot[s] : s \in 1 .. Slots} : f \in Frames(p)}
                     \subseteq found \cup {H}
  /\ \A o \in seen, f \in 1 .. Fields : fld[o][f] \in found \cup {H}
  /\ \A o \in Kept, f \in 1 .. Fields : fld[o][f] \in Kept \cup {H}

\* A count is never less than the references there are, those about to be
\* dropped included and those in what the collector is about to sweep not.
\* (It may be more: unwind forgets a frame that is being built, destroy does
\* not go too deep, and sweeping drops nothing.)
RefsCounted ==
  \A o \in Allocated :
    Cardinality({c \in Kept \X (1 .. Fields) : fld[c[1]][c[2]] = o})
    + Cardinality({p \in Prog : M[p] = o})
    + Cardinality({c \in Prog \X (1 .. Depth) : c[2] <= Top(c[1]) /\ stk[c[1]][c[2]].mr = o})
    + Cardinality({c \in Prog \X (1 .. Depth) \X (1 .. Slots) :
                     c[2] <= Top(c[1]) /\ stk[c[1]][c[2]].slot[c[3]] = o})
    + Cardinality({i \in 1 .. Len(todo) : todo[i].o = o})
    <= ref[o]

\* destroy is called for objects that are allocated: its consistency check.
DestroyConsistent == \A i \in 1 .. Len(todo) : todo[i].o \in Allocated

\* Three epochs in idle time, as execatidle runs, free all garbage.
IdleCollects == epochs = 3 /\ ~Busy => Allocated \subseteq Reachable

\* Once the Progs are quiet, epochs come to an end: no list or cycle keeps
\* the collector marking for ever.
EpochsEnd == <>[][RunGC \/ Destroy]_vars => <>(epochs = 3)
=============================================================================
