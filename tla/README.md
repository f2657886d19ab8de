# TLA+ specifications of the Dis interpreter

This directory holds a formal model of the Dis virtual machine under `src/dis`
(a stand-alone interpreter for Limbo programs on Plan 9), the TLC
configurations that check it on small instances, and TLAPS proofs about it.

Contents: the system · what is hard about it · the modules · the runs · bounds
and fairness · the proofs · findings · what is not modelled · the plan.

## The system

A host process (`Proc`) runs `vmachine()`, which executes Dis programs
(`Prog`) one slice at a time. Several Procs may exist, because a native call
that could block gives the virtual machine up, and another Proc goes on with
the remaining Progs. Limbo threads talk over channels; memory is reference
counted, with a concurrent (VCGC) collector for cycles.

| Component | Source | State | Operations |
|---|---|---|---|
| VM scheduler | `kernel/dis.c` | `isched` (idle, yield, creating, `vmq`, `runhd`/`runtl`, `irend`), `Prog.state`, `R`, `Proc.iprog` | `vmachine`, `startup`, `acquire`, `release`, `iyield`, `addrun`, `delrun`, `newprog`, `delprog`, `progexit` |
| Proc sleep and rendezvous | `kernel/proc.c`, `Plan9/Plan9.c` | `Rendez` (lock, sleeper), the kernel's rendezvous tags | `ksleep`, `kwakeup`, `kproc`, `krendez` |
| Channels and alt | `interp/alt.c`, `interp/xec.c`, `interp/heap.c` | `Channel` (send, recv, sendalt, recvalt, sendq), `Prog.comm`, `Prog.chan` | `isend`, `irecv`, `xecalt` (alt, nbalt), `csendq`, `freechan`, `killcomm`, `altgone` |
| Heap and collector | `interp/gc.c`, `interp/heap.c` | per object: reference count, colour, type; the collector's cursor, `nprop`, epoch | `destroy`, `movp`, `markheap`, `rungc`, `Setmark`, `gclock` |
| Pool allocator | `kernel/alloc.c` | arenas, block headers and tails, the free tree, `cursize`/`arenasize` | `malloc`, `free`, `realloc`; `poolalloc`, `poolfree`, `poolcompact`, `poolimmutable`, the audits |
| Exceptions and stacks | `kernel/exception.c`, `kernel/kernel.c`, `interp/stack.c`, `interp/raise.c` | frames, the stack extensions `Stkext`, the records `Exception` of a Prog, `Proc.estack` | `Sys_rescue`, `Sys_rescued`, `Sys_unrescue`, `Sys_raise`, `handler`, `unwind`, `unlinkex`; `extend`, `unextend`, `newstack`; `waserror`, `error` |
| Module loading | `interp/load.c`, `interp/link.c`, `interp/readmod.c`, `Plan9/{dl,dynsyms,mymod}.c` | the table `modules` with its counts, link tables | `readmod`, `parsemod`, `parsenativemod`, `lookmod`, `unload`, `linkmod` |
| Strings | `interp/string.c` | length, capacity, ASCII or runes; shared by reference | `newstring`, `splitc`, `insc`, `slicer`, `addstring`, `c2string`, `stringcmp` |
| Instruction set | `interp/xec.c`, `interp/dec.c` | the registers `R` | one function per instruction; operand decoding |
| Built-in modules | `interp/runt.c`, `Plan9/mymod.c` | none between calls | `Sys_*` and native library calls |
| Just-in-time compiler | `interp/comp-386.c` | code buffers | `compile`, and `comp` for each instruction |
| Disassembler | `interp/das-386.c` | none | `das` |
| Start-up, formatting, FP | `Plan9/main.c`, `Plan9/fp.c`, `interp/fmt.c`, `kernel/{error,devprog}.c` | none | command line, printing |

How they interact. The Procs share `isched` under `isched.l`, wake each other by
Plan 9 `rendezvous`, and otherwise rely on owning the VM: the run queue, the
registers, the channels, the heap and the module list have no lock of their
own. A native module calls `release()` before and `acquire()` after a host call.
Instructions that block take the current Prog off the run queue; the
instruction of a partner puts it back. Dropping the last reference to a channel
(in an instruction, in the stack of a Prog that exits, or in the collector)
hangs it up, which wakes Progs with an error; errors unwind by `longjmp` to
`vmachine`, which looks for a handler or breaks or ends the Prog.

## What is hard about it, and what makes each part correct

`PROJECT.json` lists the hazards line by line. In short:

* **Scheduler.** The VM changes hands outside the lock: a Proc is unlinked from
  `vmq` under `isched.l` and met in a rendezvous later; `acquire` jumps the queue
  and counts itself in `yield`, `release` serves it without uncounting it; the
  owner may be asleep; an error may be raised while the VM is not owned.
  Correct means: one owner or none; every waiter can be found; no wakeup is lost;
  a rendezvous never pairs the wrong Procs; the registers loaded are those of the
  Prog that runs; requests and ready Progs are served.
* **Channels.** Five fields per channel, set in different orders by plain, alt and
  asynchronous operations; an alt is withdrawn from every channel when one
  completes; a channel may be freed under its waiters. Correct means: nobody
  waits while a partner does; a completed or hung up communication makes its
  Prog ready exactly once; the alternative chosen is a ready one and is the one
  that is reported.
* **Heap.** The collector runs between slices with three colours and a reference
  count per object: nothing reachable is freed, cycles are freed two epochs later.
* **Allocator.** The structure is kept three times: in headers, in tails and in
  the free tree; it must agree through splitting, joining, arenas that meet, and
  two Procs of which one is in the middle of a `realloc` or of a merge. The books
  must count what is allocated, and the limit must hold.
* **Exceptions and stacks.** The interpreter has no table of handlers: `rescue`
  saves the registers and patches the return address of its caller, and `eclr`
  finds out afterwards which records are out of force. Correct means: calls, returns
  and exceptions are those of a stack of activations with a stack of rescues, and the
  saved registers still describe the stack when they are restored.
* **Strings.** Two representations, sharing, and changes in place. Correct means:
  a program sees values.
* **Loading.** The table is a cache whose entries are used across a release of
  the VM, while other Progs load and unload and the file changes. Correct means:
  the counts are right, and nobody gets a version older than what was there when he asked.
* **Compiler.** A second implementation of the instructions. Correct means: it
  does what the first one does.

## The modules

### VMSched — the scheduler (with VMLock and VMSchedProofs)

One `pc` per Proc, at the points between which another Proc can interfere. A
section under `isched.l` is one action. What happens outside it has actions of
its own: the unlocked test of `yield` (`LoopTop`, `YieldCheck`), the section of
`irend.l` that `kwakeup` holds across its rendezvous (`Wakeup`, `WakeupUnlock`),
and the two sides of every rendezvous (`RendezvousWait`, `RendezvousMeet`). A
rendezvous tag is the address of the Proc to be woken, so tags are Procs.

| Code | TLA+ |
|---|---|
| `startup` | `Startup` |
| `vmachine`: idle test, `execatidle`, `ksleep`, `iyield` test, slice, rotation, collection when memory is low | `LoopTop`, `ExecAtIdle`, `Sleep`, `YieldCheck`, `Slice`, `QuantaEnd`/`EndSlice`, `MemLow` |
| `vmachine`'s error loop, `handler`, `progexit` | `RaiseError`, `Handle`, `ProgBroken`, `ProgExit` |
| `release`, `kproc` | `Release`, `KProc` |
| the host call of a native module, which may end in `error()` | `NativeDone` |
| `acquire`, `kwakeup`, `irestore` | `Acquire`, `Wakeup`, `WakeupUnlock`, `Resume` |
| `iyield` | `IYield` |
| `spawn`, `delrun` | `Spawn`, `BlockSelf` |
| `addrun` of a blocked Prog by a partner, or by `freechan` when its channel is freed: in an instruction (also after its native call), in a collection, in `handler`, in `progexit` | `ReadyPeer` |

A queue is a sequence with its tail pointer beside it. `LinkAfter` appends after
the element the tail pointer names, as `vmqt->qnext = p` does, so a stale tail
pointer would lose elements in the model too. `VMLock` is the abstract
specification: claim, take, drop. `VMSched` refines it with
`holder` = the Proc at an owner's program point and `claims` = the Procs waiting in `acquire`.

Interpreting is reduced to what it does to the scheduler. Three outcomes of an
error (recovered, broken, gone) stand for `handler` and `progexit`.

### DisChan — channels (with Rendezvous and DisChanProofs)

An instruction of the Prog at the head of the run queue is one action (the Progs
share one VM, and channels are touched by its owner only). A message is named by
the Prog that sent it, and the variable `last` records what the latest step
copied: from which Prog and which of its alternatives, to which Prog and which
of its alternatives. `Sends(a)` and `Recvs(a)` are the channels of an alt with
their places; an array of channels contributes one place per element that is not
nil. `Xecalt` is the whole instruction: `altrdy` marks and counts (`AltReady`),
`altcomm` counts again (`AltChoices`) and communicates through `isend` or `irecv`,
`altdone` takes the marks off. `xrand() % nrdy` is a choice among those
counted. `Freechan` is enabled at any moment at which the last reference may go,
provided no array holds the channel; it wakes the alts it marks, then the senders,
then the receivers. The identifier of a freed channel may be used again, as its
address may.

`Rendezvous` is the promise: a Prog waits with a set of offers; a communication
pairs an offer of the running Prog with a matching one of a waiting Prog and takes
all offers of the latter back; nobody waits while a partner does; messages left
by `csendq` come out in order, and only when no sender is blocked is that
decided by the code. The refinement mapping takes the offers from `Prog.state`,
`Prog.chan` and the Alt of each Prog, not from the channel's own queues, so the
redundancy between the two is what the refinement checks.

`csendq` is an interface for native modules; nothing in the repository calls it.
It is modelled because `irecv` and alt serve `sendq`.

### DisHeap — reference counts and the collector (with DisHeapProofs)

The heap is a row of `N` places in the order of their addresses; `blocks` are the places
where a block begins. A block is free or an
object with a kind, a colour, a count and a few pointers: `adt` stands for
whatever a Prog may change (records, arrays, channels, module data), `list` for
what `cons` makes and nothing changes, `modlink` for an instance of a module,
whose first pointer is its data (`MP`). A frame has pointers and `mr`, the
caller's module.

| Code | TLA+ |
|---|---|
| `movp`, `movmp`, `headp`, `tail` | `Movp` |
| the same done by `send` and `recv`, from or to the frame of the Prog that waits | `Communicate` |
| `new`, `newz`, `mnewz` and other allocations | `NewAdt` |
| `consp`, `consmp`, `cons` | `Cons` |
| `iload`: of a module, without memory for its data, of `$self` | `Load`, `LoadFails`, `LoadSelf` |
| `frame`, `mframe`, `call`, `mcall`, `ret` | `NewFrame`, `Call`, `Mcall`, `Ret` |
| `unwind` past a frame under construction (the called ones are left as by `ret`) | `Unwind` |
| `spawn`, `mspawn`, `newprog`; `destroystack` | `Spawn`; `Exit` |
| `destroy` and the `t->free` functions | `Destroy` |
| `rungc`, `markheap`; `marklist`; the end of a pass with `rootset` | `Visit`; `Marklist`; `EndPass` |
| `rungc` when `okbhdr(ptr)` fails ("Chain broken ?") | `Restart` |
| `poolalloc` splits a block, or takes all of it; `poolfree` joins free neighbours; `B2NB` | `Split`; `Join`; `NextBlock` |

`Destroy` and `Marklist` are loops of one call, during which nothing else runs:
`todo` and `walk` say what is left, and no other action is enabled. Instructions
may come between any two visits, although `rungc` makes fifty in a row: this only adds
interleavings. A `Visit` that completes a pass is followed by `EndPass` before
any instruction.

`ptr`, where `rungc` goes on, is a place. Between two quanta the block there may be
freed, by an instruction, and joined to the one before it, which sets its magic to 0
(`alloc.c:407`, `alloc.c:415`). `okbhdr` then fails and the pass begins again, with
`nprop` as it was (`Restart`). But the larger block may also have been allocated
meanwhile, and then the magic that `okbhdr` tests is data of the new object. The comment at
`gc.c:303` calls this "a corruption opportunity", and it is one: `Misread` is the case, and
with `DataAsHeader = TRUE` it may happen. TLC then finds, with `DisHeap_objects.cfg` and that
one constant changed, a trace of eight states (allocate, free, join, allocate, misread) after which an object is freed
that a Prog holds. No run and no theorem claims otherwise: all of them have `DataAsHeader = FALSE`, which
means that no data at such a place has the value of a magic number, not that the place is never
inside another block.

`NoLostObject` is the invariant that makes the collector right, `NoDangling` what
it is for. `RefsCounted` is one half of what makes `destroy` right; the other half,
that counts are not too high, the code does not have (a frame under construction,
deep structures, swept objects), which is why it needs the collector for more than cycles;
`IdleCollects` says that this is enough.

Not in the model: the counts of types (those of modules are in `ModLoad`), references held by native
code (`ptradd`), the `eptr` of exception handlers, operands of waiting Progs
that are in heap objects, and a pool of several arenas or one that grows during a pass (`base->clink`, `limit`): here
the heap is one arena, which `DisPool` shows to be tiled by its blocks.

### DisPool — the allocator (with DisPoolProofs and Recursion)

Addresses and sizes count units of `quanta+1` bytes. A header is the value of `blk` at an
address and a tail that of `tail`; both are kept apart, as in memory, and
`poolfree` reads the block before it through the tail only. The free tree has the
links of the code (`left`, `right`, `parent`, and `fwd`/`prev` for the ring of blocks of one
size), and `PoolAdd` and `PoolDel` change them as the code does, case by case.

| Code | TLA+ |
|---|---|
| `pooladd`, `pooldel` | `PoolAdd`, `PoolDel` (`Hang`, `Child`, `Unring`, `Replacement`) |
| `poolalloc`: the search; a block taken whole or split | `Search`, `TakeFree` |
| `poolalloc`: at the limit; `sbrk` fails; a new arena; one that follows the last | `TooLarge`, `SbrkFails`, `NewArena`, `ExtendArena` |
| `poolfree`, with both joins | `PoolFree` |
| `malloc`, `mallocz`; `free`; `realloc` | `Malloc`; `Free`; `Realloc`, then `Resume` |
| `poolimmutable`, `poolmutable` | `PoolImmutable`, `PoolMutable` |
| `poolaudit`, `_auditmemloc` | `Walk`, `Audited` (in the properties) |

A section of the pool's lock is one action. Between the sections of one call other Procs
run: `job` says what a Proc has left to do: `realloc`'s free of the old block, or the free
of a merged arena and then the allocation from the start. `lost` is a history
variable: what `poolalloc` has added to `arenasize` for an `sbrk` that
failed, which the code never takes back. Memory other pools take from `sbrk` is a gap before the
new arena.

### DisStack — frames, extensions and exceptions (with CallStack, DisStackProofs and Recursion)

`vm` has the registers `R`, the frames by address, the extensions by the
address of their first frame, the records of `rescue` (`exsp`, newest first) and the one
whose handler runs (`exhdlr`). A frame is `lr`, `fp`, `mr` and a type, which is nil for the
first frame of an extension, as in the code. Addresses are real: whether a frame
fits is the comparison of the code, and so is whether a record's frame is still
there (`activated`).

| Code | TLA+ |
|---|---|
| `newstack`, `frame`, `mframe`, `extend` | `Init`, `Frame` (`Placed`, `Extend`) |
| `call`, `mcall`, `ret`, `unextend` | `Call`, `Mcall`, `Ret` (`PopFrame`, `Unextend`) |
| `spawn`, `mspawn` with `unframe` | `Spawn` |
| `Sys_rescue`, `Sys_unrescue`, `Sys_rescued`, `Sys_raise` | the same names |
| `restorepc`, `unlinkex` with `eclr` | `restorepc`, `Unlinked`, `Eclr` |
| `handler`, `unwind`, `popex`, `ematch` | `Handled`, `Unwind`, `PopEx`, `ematch` |
| `progexit`, `destroystack`, `closeexp` | `ProgExit` |

`CallStack` is what a program relies on: a sequence of activations, a sequence of
rescues with the depth they belong to, the one being answered, and the last
exception. It has no frames, no link registers and no `eclr`. The refinement mapping
gives each activation the instruction it stands at, taking the return address from a record where the
frame's own has been replaced.

### DisString — strings (with StringValues)

A string is a sequence of cells, each of which remembers the width it was stored
with: reading it with the other width, or storing it behind the string's memory, gives
junk, which no program asked for. `var` and `str` model sharing: variables refer to strings, `Refer`
frees those nobody refers to. `StringValues` has values only, `ImplementsStringValues`
states that every instruction assigns to one variable what its meaning says, and that
`lenc`, `indc` and `stringcmp` return what they should. `Encoded` and `Decoded` do to UTF
what the code does, torn characters included; a byte is a half of a character.

### DisCompile — the instruction set, interpreted and compiled (with DisCompileProofs)

No behaviour but a function: what an instruction does to memory and to the pc,
once by `dec` and `xec` and once by `comp`. `dec` computes the addresses of
all operands, as the decoding functions do; `comp` chooses by operation and mode. `ins` is the
operation and the modes chosen; the invariant quantifies over operands and
memories. `icase` and `maccase` are the two searches of case tables: each goes from
one rest of the table (`Rests`: where it begins and how many entries it has) to a smaller one,
and they compare in a different order.

### ModLoad — the table of modules (with ModLoadProofs)

One action per stretch of `readmod` between two calls of the host, during which other Progs
run and the file may be written or removed: `Iload` (`lookmod`, `release`), `Open`,
`Fstat`, `ParseNativeMod`, `Kread`, `Acquire` (the rest, with `parsemod` and
`linkmod`). The owner of the VM is not a variable here: `VMLock`, which `VMSched` implements,
is what allows the parts with the VM to be one action each. A module remembers the version it was recorded with
and the one it was read from.

### MC modules

`MCVMSched`, `MCDisChan`, `MCDisHeap` and `MCDisPool` instantiate one module each: symmetry sets
(safety runs only), the alts the Progs execute, start states for liveness
and for the findings, and a fragmented arena. `MCInstr` extends `DisStack`, `DisCompile` and `ModLoad` and
instantiates `DisString`. They share no state, so a step of one is allowed only while the
others are in an initial state: the states explored are those of the four, added and
not multiplied. It names the properties of the instance again, for the configs.

Definitions marked VARIANT are not part of a model. Each is the definition after
it with one slip in the code; replacing the definition by it must make TLC find
a property violated, which shows that the property says something.

## The runs

| Run | Module, config | Checks |
|---|---|---|
| `sched_safety` | `MCVMSched`, `VMSched_safety.cfg` | eleven invariants of the scheduler with 4 Procs and 3 Progs; 169,172 states up to symmetry |
| `sched_live` | `MCVMSched`, `VMSched_live.cfg` | `acquire` returns, ready Progs run, the scheduler implements `VMLock`; 3 Procs, 2 Progs; 94,127 states |
| `chan_safety` | `MCDisChan`, `DisChan_safety.cfg` | six invariants of channels and the refinement of `Rendezvous`; 3 Progs, 2 channels, an array of two, six alts; 67,980 states up to symmetry |
| `chan_live` | `MCDisChan`, `DisChan_live.cfg` | a hung up Prog learns of it, senders are served in turn; 3 Progs, 1 channel |
| `chan_stores` | `MCDisChan`, `DisChan_stores.cfg` | expected violation, see *Findings* |
| `heap_objects` | `MCDisHeap`, `DisHeap_objects.cfg` | sweeping only garbage, and all of it, and nothing reachable freed, also when the block to be visited next is freed, joined and allocated again and the pass begins anew; epochs end; 1 Prog, up to 4 blocks, 1 frame; 495,363 states |
| `heap_shared` | `MCDisHeap`, `DisHeap_shared.cfg` | counts are high enough; 2 Progs, 2 frames each, 2 blocks; 489,732 states up to symmetry |
| `heap_mcall` | `MCDisHeap`, `DisHeap_mcall.cfg` | expected violation, see *Findings* |
| `pool` | `MCDisPool`, `DisPool_pool.cfg` | blocks tile the arenas, the free tree is exact, the best block is found, the books agree; 237,881 states up to symmetry |
| `instr` | `MCInstr`, `MCInstr_instr.cfg` | stacks and exceptions implement `CallStack`, strings `StringValues`; compiled code agrees with the interpreter; loads count and are fresh; 124,224 states |
| `strings_max` | `MCInstr`, `MCInstr_max.cfg` | expected violation, see *Findings* |
| `jit_beql` | `MCInstr`, `MCInstr_beql.cfg` | expected violation, see *Findings* |

Run one with `tlc -config <cfg> <module>`.

What they show, beyond the comments at the properties:

* `OneVM`, `NobodyForgotten`, `RendezvousPaired`: the hand-over is safe although
  it is split between a locked and an unlocked part, and `release` and `iyield` use
  the tail pointer without looking at it.
* `RequestsCounted`: although `release` serves a request without decrementing
  `yield`, and an error may make `acquire` run from the error loop, `yield` never
  falls below the number of requests in front of the parked vmachines. It may
  exceed it; `iyield` then merely rotates the vmachines.
* `NoLostWakeup`: `acquire` calls `kwakeup` only when it raises `yield` from zero,
  and `yield` is not protected by the lock `ksleep` tests it under; still no
  request finds a sleeping owner that nobody will wake.
* `ProcsBounded`, `IdleIsTransient`: at most one vmachine is on its way; one Proc
  more than there are Progs is enough.
* `ReadyRuns` needs a premise: errors that stop. A Prog that raises and handles
  errors for ever is resumed without rotating the run queue (`dis.c:699`), so it
  keeps the VM. This is recorded as a hazard.
* `NoMissedMeeting`, `ImplementsRendezvous`: no mixture of plain, alt, nbalt and
  asynchronous operations, hangups and errors leaves a sender and a receiver
  both waiting, transfers a message to or from the wrong place, or completes two
  alternatives of one alt.
* `AltCountsAgree`: `altcomm` counts while the channels bear the Prog's own marks,
  `altrdy` before; the numbers agree because `altrdy` refuses a channel in both
  directions.
* `PoolAudited`, `FreeTreeExact`: no order of allocations, frees and merges, also
  half done ones of two Procs, leaves a tail, a header or a link of the tree that
  belongs to a block that is no more; free neighbours are always joined.
* `AccountsAgree`: `arenasize` is the arenas plus what `sbrk` refused, so that failed
  requests do use the limit up for good (`alloc.c:309`), and nothing else does.
* `StackTiled`, `EclrAgrees`, `ImplementsCallStack`: patching return addresses works
  for rescues in the same frame, in nested frames, across modules and extensions, and
  with records that are out of force but not dropped yet.
* `CompiledAgrees`: every operation in `MCOps` in every operand mode, with operands that
  overlap, alias or are immediate.
* `ModulesCounted`: the path for native modules keeps a reference of an older
  module for ever (`readmod.c:40`), which the counter `kept` records; there is
  no other leak, and no reference is dropped twice.
* `LoadFresh`: a file that changes while it is read may be recorded as older than
  what was read, which costs a later load the use of the table; the reverse, which nobody would notice, does not happen.
* `SendersServed`: a queue of senders is served in turn, on channels no alt sends
  on. With such alts a blocked sender can starve (`xec.c:671`), a hazard.

### Findings

`altdone` finds the channels of a waiting alt through the array operands of the
alt (`alt.c:34`, `alt.c:56-59`). If another Prog stores a different channel into
such an array meanwhile, the old channel keeps the mark of a Prog that no longer
waits, although `interp.h:100` calls it the "Single prog waiting to receive in
ALT". A later send on it delivers into, and wakes, a Prog that is running or waits
elsewhere. `chan_stores` allows such stores (`StoresWhileWaiting = TRUE`) and
TLC finds the invariant `AltMarkWaits` violated. The other runs exclude such stores,
so that what they show holds for programs that leave the array alone.

`mcall` copies the reference to the module it calls to `R.M` and counts it, but
does not mark it (`xec.c:591-593`), unlike `movp` and `newprog`. Suppose the
operand is in a heap object that the collector has not visited in this
epoch, and that the callee drops it. The collector then never finds the module,
and the epoch ends. As the next begins, `rootset` marks the module and its
data, but what the data points to already has the colour that is swept. If
its block comes before that of the data, `rungc` frees it: a Prog still reaches it, and
when the callee drops that pointer, `destroy` is given a free block, which its
"consistency check" (`heap.c:198`) is there to exclude. `heap_mcall` starts from a state
with such a module, restricts the program to the three instructions the call
needs, and lets TLC find the rest. `iload` of `$self` shares the running module's
data in the same way. The other runs of `DisHeap` have
`CopiesUnmarked = FALSE`: these two instructions then copy only references the collector
has marked already.

`insc` counts capacity in runes for a string of runes (`string.c:77`), and
`interp.h:112` says "maximum length in representation". When a rune is stored
into a string that is empty but not nil, `splitc` is not called (`string.c:67`), the string keeps the
memory it has, and its `max` stays in bytes: twice as many runes fit by
`max` as by its memory. `strings_max` (`EmptyGrows = TRUE`) reaches such a string; the runes
appended to it come to lie behind its memory, which in `DisString` makes them
junk. `instr` excludes the step, and shows that all else is right.

`beql` is compiled to a comparison of the low words alone. `cbral` puts out the first jump of
`ANDAND` in short form (`comp-386.c:596`) but is given `Ojnel` (`comp-386.c:1324`), the second byte of the long form:
as an opcode of its own, 0x85 is `TEST`, and the processor goes on to the second
comparison. `jit_beql` finds two longs with equal low words for which the
compiled branch is taken and the interpreted one is not. `bnel` and the ordered branches
agree, and are part of `instr`.

## Bounds and fairness

`VMSched` needs no bound: with finitely many Procs and Progs its state space is
finite (`yield` is bounded by the requests made since an `iyield`; TLC confirms).
Four Procs and three Progs give a waiter behind a waiter while a third hands over
and a fourth is created, which every race of the code involves at most.
Prog and Proc identifiers are not reused.

`DisChan` has `Quanta` (2, so that a slice ends after a communication as well as
before it; 1 for liveness), `Lim` (1, the limit given to `csendq`, so that full
and not full both occur), `ArrLen` (2) and `Alts` (six alts: both directions on
one channel and two channels, an array, a nil channel, a channel twice). Three Progs and two
channels let two Progs wait on either side while a third acts.

`DisHeap` has places for blocks (`N`), pointers per object and per frame (1 each), frames
(`Depth`), Progs, the depth at which `destroy` gives up (`Nest`, 1 for the code's 64)
and `MaxRef`, which keeps instructions from counting beyond 2 or 3. Four
blocks are the least with which `cons` hides a list from the collector: a module, an object
the collector has yet to visit, the list in it, and the new element. Two Progs
with more than two blocks are out of TLC's reach, so objects on one side, and frames and Progs on the other, are varied
in two runs, one at the cost of the other. Four places are also enough for the block the
collector is to visit next to be freed, joined to the one before it, and allocated again as a part of that.

`DisPool` has two Procs, sizes 1 and 5 (one that leaves a rest worth splitting off any block, one larger
than the chunk of 4), a limit of 11, `Memory` (the last address, 15, so that `sbrk`
also fails for lack of room), gaps of 0 and 1 (arenas that meet and that do not) and one
immutable block at a time. Such a pool has few free blocks at once; the second start, an arena of 13 units
with four free blocks of different sizes, a root with two children, and the right one with a left child, is where
`pooldel` meets every position; there one Proc frees blocks and allocates large ones.

`DisStack` has frames of 1 and 2 units, `MaxUnits` (4 units of frames at a time), two modules that ask for 4 and for 2, so that
some calls open an extension and others do not, three extensions (`Ext`), two records
(`MaxRec`), two patterns and two errors, of which each pattern matches another set. One
`Label` per module is enough to tell instructions of different modules apart; the record keeps which
return address it holds. `ErrorsAnywhere = FALSE`: errors do not occur between the opening of an
extension and the call of its first frame. There the code fails: `destroystack` looks for that frame
among the called ones and follows nil (`xec.c:1063`), and `handler` forgets the extension. This is among the
hazards. The guards of `Spawn`, `Sys_rescue` and `Ret` state what the Limbo compiler's code does: no
other frame is under construction at a spawn or a rescue, a function calls
the frames it builds, and one whose handler has run answers before it returns.

`DisString` has two variables, strings up to three characters of which one is
ASCII and one is not, and an allocator that rounds to three bytes (`Quantum`, `Header`), so that a string may have room
for one more byte and not for one more rune. `DisCompile` has words of 4 bits and bytes of 2,
memory of 16 words, two offsets, three values of the middle operand (among them a
negative immediate), and 36 memories (`MCSeeds`); the operands
include pointers into memory, so that source, middle and destination overlap. `Legal` excludes operands outside memory, shifts by the
width or more, division by zero and longs that overlap in part, for which neither
version says what it does. `Tables` are all tables of up to three intervals over 0..6. `ModLoad` has two Progs, a file that
changes once (`MaxVers`), to each of four kinds, and one kept reference (`MaxKept`).

Deadlock is not checked in `instr`: an instruction chosen in `DisCompile` is the end of its
behaviour, and a Prog that has ended in `DisStack` does nothing more. It is checked in all other passing runs.

Fairness in `VMSched` is weak fairness of each Proc's own steps: the host
schedules runnable processes. The end of a host call (`NativeDone`) has no
fairness: a read may block for ever. Both sides of a rendezvous are steps of a
Proc; the locks have no fairness assumption of their own because each section is
one action, and `irend.l` is held across one rendezvous only by a single waker.
In `DisChan` it is weak fairness of instructions, of delivering a hangup and of ending an
exiting Prog: `vmachine` goes on while a Prog is ready, as `sched_live` shows
under the premise about errors. Nothing is assumed about which instruction it is.
In `DisHeap` it is weak fairness of the collector and of `destroy`: the former is called
again and again while the machine is idle (`execatidle`), and `EpochsEnd` is about
behaviours in which Progs have become quiet; the latter is a call that runs to its end.
`Rest` stands for a machine that sleeps, so that a lack of other steps would
be reported as a deadlock; both models are checked for deadlock.

## The proofs

Every theorem is about all values of the constants. The proof modules and what they
assume:

| Module | Theorem | Statement | Assuming |
|---|---|---|---|
| `VMSchedProofs` | `TypeCorrect` | `Spec => []TypeOK` | the nil values are no Procs or Progs |
| | `MutualExclusion` | `Spec => []OneVM` | |
| | `WaitersKept` | `Spec => []NobodyForgotten` | |
| | `WakeupsKept` | `Spec => []NoLostWakeup` | |
| | `RendezvousSafe` | `Spec => []RendezvousPaired` | |
| | `SliceKept` | `Spec => []SliceIntact` | |
| | `LockImplemented` | `Spec => ImplementsLock` | |
| | `ProgsKept` | `Spec => []ProgsAccounted` | |
| | `TailsKept` | `Spec => []TailsRight` | |
| | `IdleServed` | `Spec => []IdleIsTransient` | |
| | `ProcsSuffice` | `Spec => []ProcsBounded` | finitely many Progs |
| | `RequestsHonoured` | `Spec => []RequestsCounted` | |
| `DisChanProofs` | `TypesKept` | `Spec => []TypeOK` | `StoresWhileWaiting = FALSE` |
| | `ReadyQueuedOnce` | `Spec => []ReadyOnce` | the same |
| | `BlockedQueued` | `Spec => []WaitersQueued` | the same |
| | `MarksRight` | `Spec => []AltMarks` | the same |
| | `NobodyMissed` | `Spec => []NoMissedMeeting` | the same |
| | `CountsAgree` | `Spec => []AltCountsAgree` | the same |
| | `RendezvousImplemented` | `Spec => ImplementsRendezvous` | the same |
| `DisHeapProofs` | `HeapInvariant` | `Spec => [](HInv /\ Layout)` | `CopiesUnmarked = FALSE`, `DataAsHeader = FALSE`, finitely many Progs, at least two places |
| | `HeapTyped` | `Spec => []TypeOK` | the same |
| | `NothingLost` | `Spec => []NoLostObject` | the same |
| | `NothingDangles` | `Spec => []NoDangling` | the same |
| | `ReferencesCounted` | `Spec => []RefsCounted` | the same |
| | `DestroyedAllocated` | `Spec => []DestroyConsistent` | the same |
| | `GarbageFound` | `Spec => []IdleCollects` | the same |
| `ModLoadProofs` | `ModulesKept` | `LoadSpec => []ModulesCounted` | finitely many Progs |
| | `LoadsFresh` | `LoadSpec => LoadFresh` | finitely many Progs |
| `DisPoolProofs` | `PoolInvariant` | `Spec => []IInv` | sizes asked for are positive |
| | `PoolStaysAudited` | `Spec => []PoolAudited` | the same |
| | `FreeTreeStaysExact` | `Spec => []FreeTreeExact` | the same |
| | `SearchStaysBest` | `Spec => []SearchFindsBest` | the same |
| | `AccountsStayRight` | `Spec => []AccountsAgree` | the same |
| `DisStackProofs` | `StackInvariant` | `Spec => []IInv` | `ErrorsAnywhere = FALSE` |
| | `StackStaysTiled` | `Spec => []StackTiled` | the same |
| | `EclrStaysInAgreement` | `Spec => []EclrAgrees` | the same |
| `DisCompileProofs` | `CompiledRight` | `InsSpec => []CompiledAgrees` | `Ops` are modelled ones but `beql`, offsets and values of `reg` in range |
| | `EveryMemory` | `comp` = `xec` on every memory | the same, as `Sane` and `Legal` |
| | `CaseRight` | `CaseAgrees` for tables of any length | intervals in order |

### The scheduler

The theorems of `VMSchedProofs` follow from `Invariance`: `Spec => []IInv`. None of the
properties is inductive by itself. To keep `OneVM` one must know that the Proc that is
woken is waiting for the VM and for nothing else, hence `RzInv` (who waits in a
rendezvous came with that tag), `GiveInv` (the VM is handed to a Proc taken off `vmq`
that waits) and `WakeInv` (a waker holds `irend.l`, its sleeper is in `ksleep`). To keep
those, `vmq` must hold every waiter once and its tail pointer must be right when used:
`QueueInv`. The parts depend on each other, so `ProcInv` is proved as one
conjunction, one lemma per action. `OwnInv` is the part about Progs: what the code
of the owner relies on at each of its points (a non-empty run queue, `cur` at its
head, `regs` loaded). `iyield` decrements `yield` without a test; that it
never goes below zero is part of `TypeOK` by `OwnInv`. The lemmas at the start of the
module are about `LinkAfter`, `PushHead`, `Tail` and `NoDup`.

The part about the queues adds to `IInv`, one at a time: `RunInv` (the run queue has each ready
Prog once and its tail pointer is right; a Proc in a native call has a Prog of its own,
which is in state `release`), `ComingInv` (with an idle VM exactly one vmachine is coming, and
`creating` tells of it) and `RequestsInv` (the Procs in `acquire` lead `vmq`; `yield` counts
at least those). `ProcsBounded` needs no further invariant but an argument: when `startup`
orders a Proc, every other one is in native code with a Prog of its own, by `RunInv`, so the Procs there are
inject into the Progs.

The part about `VMLock` shows that each action is a step of `VMLock` or leaves `holder` and `claims`
alone, given `IInv`.

### Channels

`IInv` of `DisChanProofs` states each queue from the other side, by the state of the Progs:
the run queue lists exactly those that are ready (`Queued`), each channel's
queues exactly those blocked on it, the marks name exactly those that wait in an alt
there (`Marked`, both directions), whose alternatives are recorded nowhere else
(`Placed`), and no channel has waiters on both sides (`Alternate`). `Alternate` is
`NoMissedMeeting`; it is what makes `isend`'s look at `recvalt` and `recv` enough. TLC
checked the conjunction before it was proved.

The hypothesis `StoresWhileWaiting = FALSE` (nobody assigns to an array of
channels on which a Prog waits in an alt) cannot be dropped: without it `AltMarks` fails, which is the
first finding above, and a stale mark wakes a Prog that is ready already, so `ReadyOnce` fails too. It is a constant of the model, and
the runs `chan_safety` and `chan_live` have it FALSE.

The last part of `DisChanProofs` proves the refinement step by step: `PassOnMeets`, `FetchMeets` and
`ReceiveMeets` show that what the code does when it finds a partner is one meeting of
`Rendezvous`, of the alternatives that `last` records. The offers of the abstract state come from the Progs, those the code looks at from
the channels; `IInv` is what makes them the same.

### The heap

`NoDangling` is not inductive, and neither is `NoLostObject`. `HInv` of `DisHeapProofs`, which TLC checked in the runs
`heap_objects` and `heap_shared` before it was proved, has these parts:

* `HeldFound`: what Progs hold (`Cell`: `M`, and each frame's `mr` and slots) was found in this epoch
  (`Found`: it has the mutators' colour or is a propagator).
* `SeenFound`: what has been visited points to what was found. The list element `marklist`
  is at is the exception; `Walking` says that all but its tail is found.
* `KeptKept`: what is not about to be swept (`Kept`) points to nothing that is. It is the invariant of
  the epoch before, still true of its colour, and carries over what this epoch has yet to find.
* `Passed`: a propagator the pass has gone by is noted in `nprop`, and what it has gone by is swept.
  Without it one could not say that a pass without new propagators ends the epoch.
* `Counted` and `TodoKept`: `RefsCounted`, with the references kept as two functions of places
  (`Held`, `Pointed`), and what `destroy` is to drop is still there.
* `Shapes`: free blocks have no pointers, a frame under construction has one below it.

Beside it, `Layout`: an object begins where a block does. So a visit that goes on to the next block passes
no object by (`VisitMoves`), which `Passed` needs; a pass that begins again has passed none
(`RestartKeeps`), and leaves `nprop` as it is, so what it forgets it will come to again.

`HeldFound`, `SeenFound` and `KeptKept` together are `NoLostObject`. At the end of an epoch (`EpochKeeps`) all that was
found becomes what is kept, because no propagator is left (`Passed`), and the roots are
found anew. `NoDangling` follows: the roots are kept, and what is kept points to what is kept.

`RefsCounted` needs `KeptKept`: `destroy` frees an object whose count gets to zero, and its count covers only
references from what is kept. The counts are cardinalities; `OccPut` says how one store changes them,
`OccRename` that a frame moved to another Prog's stack (`SpawnMoves`) changes none, and `DropsCount` and `ChildrenCount`
that a list of references to be dropped counts each once. Every instruction that stores is an instance of
`StoreKeeps`, those that only make or call frames of `FrameKeeps`, and the marks of the collector of
`ColouringKeeps`.

`GarbageFound` rests on `Quiet`, for which `HInv` is needed: when one epoch has gone by without an
instruction, all that was found in this one is reachable; after two, so is all that is kept; after three, all that
is allocated. The epoch's end hands each set on to the next (`EndPassQuiet`), and between ends the collector colours
only what reachable blocks point to (`RecoloursQuiet`) and `destroy` has nothing to do. `Reachable` is a recursion of N
steps from the roots; that it is closed under pointers (`ReachClosed`), and so the least such set (`ReachLeast`), holds
because every step but the last finds a new block, and there are N. TLC checked `Quiet` in `heap_objects` first.

Three recursive functions had to be understood: that of `Reachable`, `Drops` and the one in `Exit`. No induction theorem of the library can be
used, but well-foundedness of the natural numbers can: `SetInduction` (in `Recursion`) is induction for a set instead of a
predicate, and `StepRecursion` gives the function that a recursive definition describes.

The hypothesis `CopiesUnmarked = FALSE` excludes the second finding above: `mcall` and `iload` of `$self`
then copy a reference only if the collector has marked it. With `TRUE`, `heap_mcall` shows
`DestroyConsistent` to fail, so it cannot be dropped. `DataAsHeader = FALSE` excludes what `gc.c:303` admits, a cursor in
the middle of an object whose data reads as a header; with `TRUE` TLC finds `NoDangling` violated, so that cannot be
dropped either. Nothing is assumed about where the cursor is, or how often a pass begins again. No other bound is assumed: `Nest` and `MaxRef` are any numbers.

### The table of modules

`Good(t, count)` says that the table `t` holds each module once and counts `count`
references to it. Each step of `Acquire` takes a good table to a good table (`unload`,
`Ref`, `Added`, `LinkedTo` have a lemma each), for a count that has one reference more or less; the count in the state is
the number of Progs whose variable, or whose load, holds the module. `JobRight` is what `LoadFresh` needs of a load under
way: what it has read or is to record is no older than the file was when it began.

### The allocator

The theorems hold for any number of Procs, any sizes, any limit and any amount of memory;
`Memory` is the last address `sbrk` returns. They are about `Spec`, which starts with an empty pool; the run starts in a
fragmented arena as well, which `Spec` reaches only in many steps. `IInv` of
`DisPoolProofs` is `PoolOK`, about the pool, and `JobsOK`, about the Procs. The properties say what the code's
own walks find (`Walk`, `Arenas`, `Below`, `Search` are recursions), which is not a form a step can be shown to
keep; `PoolOK` says it of the headers and links alone:

* `Laid` (headers and tails): `Kinds` of headers; `Tiles`, each block ends where a header or an
  end mark follows whose tail leads back, and no header is inside it; `Bounds`, arenas have all the blocks, end with
  an end mark and do not overlap; `Chained`, the leaders are linked in the order of their addresses.
* `Joined`: no two free blocks are side by side. That a freed block needs one look at each side is because of it.
* `InMemory`: all is below the break, so a new arena overlaps nothing.
* `Books`: `cursize` and `arenasize` are weights of sets of blocks. A `Weight` is the cardinality of the set of
  units in the blocks (the sum the model has is a fold, equal to it by `TotalIs`), so that joining
  and splitting are facts about finite sets (`MergeWeight`, `HalveWeight`).
* `TreeHolds`: there is a function to the subtrees of the nodes (`Subtrees`), in search order, with the parents, of
  different sizes, and one ring for each size.

`JobsOK`: the block a Proc is in the middle of freeing, and the one `realloc` has yet to free, is in use
and no other Proc's. Without it `poolfree` after the lock was given up could be of a block that is free or gone.

There is a lemma for each way to change the headers, over any headers and tails: `RetagLaid`, `MergeLaid`
(two blocks become one), `HalveLaid`, `ArenaLaid`, `GrowLaid`. `FreeLaid` composes `poolfree`'s four cases of them.
`DelKeeps` and `AddKeeps` are those of the tree: `pooldel` by its cases (first of its ring or not; no child, one, or the
leftmost node of the right subtree in its place, which may be the child itself). `FreeKeeps`, `TakeKeeps`, `NewKeeps`, `GrowKeeps` and
`FailKeeps` put both together, one per action. `WalkFinds` then says that the audit's walk finds the block of every address, and
`SearchBest` that the descent finds a smallest block.

The recursions are on sets with a rank (`RankRecursion`, `RankInduction`: the size of a subtree, the distance to
the end of memory), from the well-foundedness of the natural numbers. For them `Search` is written with
the block passed last as the argument of a second function, and `Arenas` recurs over leaders only. `Recursion` holds
what these proofs share with those of the stack and of the case tables: `SetInduction`, induction for a set of numbers, and `RankRecursion`, by
which steps that look at values of lower rank only (`Descends`) have a function that they define (`Solves`).

### The stack

`StackTiled` and `EclrAgrees` speak of what the code's own walks find: `FramesIn` goes up from frame to frame,
`LaidSeq` and `Extensions` down from extension to extension, `Chain` and `ModsOf` along the links of the called frames. `Good(m)`, the
invariant in `DisStackProofs`, says it once, of lists: there are frames `fs[1]` to `fs[n]` with their extensions
`hm`, of which those at the places `p[1] < ... < p[k]` were called, in the modules `ms`, and the records are for the called
frames `dp`.

* `Stored`, `Tiled`, `Whole`: extensions do not overlap; each frame begins where the one before it ends, or
  at the start of an extension that has saved the registers as they were; there are no other frames.
* `Describes(m, r, j, ...)`: the registers `r` are those of a stack whose last frame is `fs[j]`. It is true of the current
  registers with `j = n`, and of those a record has saved with `j` the place of the frame that called `rescue`.
* `Chained`: `fp` leads from each called frame to the one before it, `mr` from each module to its caller's; frames yet to be
  called have neither.
* `Saved`, `Returns`, `Recorded`: a called frame returns to `eclr` if a record is for it, to an instruction of its caller's module if
  not; the records for one frame keep the return address that it had; records are in the order of their frames, the innermost
  first, and the first `q` of them are for frames that are gone.
* `AtRest(m, q)`: between instructions, `eclr` is next when `q > 0`, and then the address in each of those `q` records is one of the
  current module.

No part holds without the others. The order of the records is needed for `popex` and `unlinkex`, which stop
at the first record that is not for their frame; that a record keeps the return address of its frame,
because the last of them to go gives it back. `Describes` for saved registers is what `handler` needs to restore them,
and it survives because frames below `fs[j]` stay where they are: `Cut` and `Keeps` are the stack without
its last frames, and `KeepsTiled`, `CutChained`, `CutSaved` say that what is left is one.

There is a lemma for each change: `PlacedKeeps` (a frame, in an extension of its own or not), `CalledKeeps`,
`EnteredKeeps`, `PopIs` and what follows from it for `ret`, for a native call and for `unwind`, `SpawnKeeps`, `UnlinkedKeeps`, `EclrKeeps`,
`RescueKeeps`, `RescuedSteps` and `UnrescueKeeps`. `UnwindSteps` follows the loop of `unwind`: `Unwound(m, s, c, ...)` says that the
frames above the c-th called one are gone from `s`, with their records; the loop gets to the handler's frame within
as many steps as there are frames, since that frame is one of those that were called. `HandledKeeps` adds what `handler` does after that.

The hypothesis `ErrorsAnywhere = FALSE` cannot be dropped: after an error before the first frame of an
extension is called, `handler` forgets the extension (see the bounds of `DisStack`), and TLC finds `StackTiled` violated when
the constant is TRUE. `IInv` was checked by TLC, with the lists found by the walks, on the instance of `instr`. Of the sizes it is assumed that extensions
do not overlap (`ExtApart`), which is what `malloc` promises.

### The compiler

The run chooses two offsets, three values of `reg` and 36 memories; `CompiledRight` is about all of them, and
`EveryMemory` says so without the machine around it: for all 16^16 memories and every operand that
`Legal` lets an instruction have, the compiled code leaves memory, pc and registers as the interpreter does. What stays
fixed is `Width`: words of 4 bits, of which the proofs use the range, not a list of cases, wherever the arithmetic can be
done by the provers that way. `beql` is left out because the code is wrong there (`jit_beql`); the operations
for which the theorem holds (`Right`) are all others of the model, that is `MCOps`.

The proof follows the code. `Source`, `Destination`, `Middle` and `Loaded` show that what `comp` loads through its registers
is what `dec` makes addresses of, for each operand mode; there is then a lemma for each function of
`comp-386.c` (`arithAgrees`, `shiftAgrees`, `cbralAgrees` ...), and `puntAgrees` for what is left to the interpreter's own
functions: the registers are set as `dec` sets them. Under those are facts about words: sums and products may be
reduced at any moment (`LoSums`), two words added or subtracted with carry are the long (`Carries`, `Halves`), shifts of a long by less than
a word and by more (`ShiftedNear`, `ShiftedFar`), and longs compared by the high words and then the
low ones without sign (`LongCompare`).

`CaseRight` assumes no bound on the table. Both searches satisfy one recursion (`Searches`), although they compare in a
different order; what is found in a rest of the table is the entry of that rest that holds the value (`FoundStep`), by
induction on the number of entries left, and as the intervals are in order there is one at most (`HoldsOnce`).

### Only model-checked

Everything about `DisString`, the
refinements of `CallStack` and `StringValues` (their mappings are recursive definitions), and liveness (`AcquireReturns`,
`ReadyRuns`, `HangupNoticed`, `SendersServed`, `EpochsEnd`), which is out of TLAPS's reach.

## Not modelled

* `killprog`, `swiprog`, `cblock`, `swiproc`, `osenter`/`osleave`: nothing in the repository
  calls them in a way that is ever reached.
* The branches of `acquire` and `release` for Procs that are not of type `Interp`.
* `poolcompact`: nothing calls `poolsetcompact`, so no pool has a mover and it
  returns at once. `poolsetsize` has no caller.
* The error stack of a Proc (`waserror`, `poperror`, `nexterror`): `setjmp` and `longjmp`
  leave their mark in the models as the places an error goes to.
* Arrays with their sizes (`newa`, `slicea`, `slicela`, `indx`), floating point, bitwise operations,
  `casec`, `tcmp`, and `divb` and `modb`, whose compiled code takes the operands from register halves
  that no instruction has set (`comp-386.c:1237`).
* The decoding of a module file (`parsemod`'s `operand`, types and data items) and the
  matching of links; the bytes of compiled code and the two passes of `compile`.
* For the collector: a pool of several arenas, and what `rungc` does with data it has taken for a
  header (`gc.c:303`), beyond that it may free the object.
* The disassembler prints; it has no state and nothing depends on it.
* Formatting, command line, floating point set-up: no state.
* What the plan below lists as left.

## The plan

What is done, and what is left, in order of importance.

1. **VMSched** (modelled, checked, all invariants and the refinement of `VMLock` proved).
2. **DisChan** (modelled, checked, all invariants and the refinement of `Rendezvous` proved).
3. **DisHeap** (modelled, checked, all safety invariants proved).
4. **ModLoad** (modelled, checked, both properties proved).
5. **DisPool** (modelled, checked, all invariants proved).
6. **DisCompile** (modelled, checked, agreement proved for every memory and every case table): left is the
   proof for words of any width.
7. **DisStack** (modelled, checked, both invariants proved), **DisString** (modelled, checked): left are
   the proofs that they implement `CallStack` and `StringValues`, the error stack of a Proc, lack of memory for an extension, conversions between strings and
   numbers, arrays, and the instructions listed above.
8. **Loading's arithmetic**: operand decoding, the array size check and the limits of `parsemod`, as pure functions.
