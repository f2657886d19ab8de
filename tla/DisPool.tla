------------------------------- MODULE DisPool -------------------------------
(***************************************************************************)
(* A memory pool of kernel/alloc.c: arenas obtained with sbrk, tiled by    *)
(* blocks with a header and a tail, free blocks in a binary tree of rings  *)
(* ordered by size.                                                        *)
(*                                                                         *)
(* Addresses and sizes are in units of quanta+1 bytes, the granularity of  *)
(* every block; a leader and an end marker take one unit (ldr).  A header  *)
(* is the value of blk at the block's first address and a tail the value   *)
(* of tail at its end; what a merge or a split leaves behind inside a      *)
(* block is user data from then on, and has no entry in either.            *)
(*                                                                         *)
(* A critical section of the pool's lock is one step.  An allocation that  *)
(* extends an arena, and realloc, take several, with other Procs between.  *)
(***************************************************************************)
EXTENDS Integers, FiniteSets, Folds

CONSTANTS
  Proc,     \* kernel processes that allocate
  Sizes,    \* sizes they ask for, header and rounding included
  chunk,    \* size of an arena when less is asked for
  MaxSizes, \* limits of the pools there are
  Memory,   \* bound: last address sbrk can return
  Gaps,     \* memory other pools took from sbrk since the last call
  MaxImm    \* bound: blocks that are immutable at a time

ASSUME PoolAssumption ==
  /\ chunk \in Nat \ {0} /\ MaxSizes \subseteq Nat /\ Memory \in Nat /\ MaxImm \in Nat
  /\ Sizes \subseteq Nat \ {0} /\ Gaps \subseteq Nat

nil == 0
ldr == 1
Addr == 1..Memory

VARIABLES
  blk,        \* headers
  tail,       \* tail[a]: the header of the block that ends before a (hdr)
  root, node, \* the free tree and its links
  chain,      \* the last arena's leader
  cursize, arenasize,
  maxsize,    \* the limit: poolsetsize, which would change it, has no caller
  brk,        \* the program's break
  lost,       \* history: sizes counted in arenasize that sbrk refused
  job         \* what each Proc has begun: a retry of alloc, or of free

vars == <<blk, tail, root, node, chain, cursize, arenasize, maxsize, brk, lost, job>>

tree == [root |-> root, node |-> node]
Idle == [pc |-> "idle", size |-> 0, old |-> nil, block |-> nil]

B2NB(b) == b + blk[b].size
B2LIMIT(b) == b + blk[b].csize

Header(magic, size) == [magic |-> magic, size |-> size]
EndMark == Header("E", 0)
Leader(csize, clink) ==
  [magic |-> "E", size |-> ldr, csize |-> csize, clink |-> clink]

\* f without its entries at S.
Forget(f, S) == [x \in (DOMAIN f) \ S |-> f[x]]

\* f with the entries of g, which win.
Over(f, g) == [x \in DOMAIN f \cup DOMAIN g |-> IF x \in DOMAIN g THEN g[x] ELSE f[x]]
At(x, v) == [y \in {x} |-> v]

-----------------------------------------------------------------------------
(* The free tree.  T is a record of its root and of the links of its nodes; *)
(* size gives the size of each.                                             *)

\* The node of T at or below which a block of n units belongs: one of that
\* size, or the one whose child it becomes.
Place(T, size, n) ==
  LET Down[t \in DOMAIN T.node] ==
        LET next == IF n < size[t] THEN T.node[t].left ELSE T.node[t].right
        IN IF size[t] = n \/ next = nil THEN t ELSE Down[next]
  IN Down[T.root]

PoolAdd(T, size, q) ==
  LET leaf == [left |-> nil, right |-> nil, parent |-> nil, fwd |-> q, prev |-> q]
      t == Place(T, size, size[q])
      last == T.node[t].prev
  IN IF T.root = nil THEN [root |-> q, node |-> At(q, leaf)]
     ELSE IF size[t] = size[q]   \* joins the ring, before its head
     THEN LET N == Over(T.node, At(q, [leaf EXCEPT !.prev = last, !.fwd = t]))
          IN [T EXCEPT !.node = [N EXCEPT ![last].fwd = q, ![t].prev = q]]
     ELSE LET N == Over(T.node, At(q, [leaf EXCEPT !.parent = t]))
          IN [T EXCEPT !.node =
                IF size[q] < size[t] THEN [N EXCEPT ![t].left = q]
                                     ELSE [N EXCEPT ![t].right = q]]

\* T with f, which may be nil, where t hangs.
Hang(T, t, f) ==
  LET s == T.node[t].parent
      N == IF f = nil THEN T.node ELSE [T.node EXCEPT ![f].parent = s]
  IN IF s = nil THEN [root |-> f, node |-> N]
     ELSE [T EXCEPT !.node =
             IF N[s].left = t THEN [N EXCEPT ![s].left = f]
                              ELSE [N EXCEPT ![s].right = f]]

\* N with f's child on the named side.
Child(N, f, side, c) ==
  LET L == [N EXCEPT ![f][side] = c]
  IN IF c = nil THEN L ELSE [L EXCEPT ![c].parent = f]

\* VARIANT of Unring: the way back is left as it was.
UnringForward(N, t) == [N EXCEPT ![N[t].prev].fwd = N[t].fwd]

Unring(N, t) == [N EXCEPT ![N[t].prev].fwd = N[t].fwd, ![N[t].fwd].prev = N[t].prev]

Leftmost(N, t) ==
  LET Down[s \in DOMAIN N] == IF N[s].left = nil THEN s ELSE Down[N[s].left]
  IN Down[t]

\* The node that takes t's place, with the links that need changing below.
Replacement(N, t) ==
  LET l == N[t].left  r == N[t].right  rp == Leftmost(N, r)
      f == N[rp].parent
      Below == IF f = t THEN N
               ELSE Child(Child(N, f, "left", N[rp].right), rp, "right", r)
  IN IF l = nil THEN [rp |-> r, node |-> N]
     ELSE IF r = nil THEN [rp |-> l, node |-> N]
     ELSE [rp |-> rp, node |-> Child(Below, rp, "left", l)]

PoolDel(T, t) ==
  LET n == T.node[t]
      R == Replacement(T.node, t)
      After == IF n.parent = nil /\ T.root # t
               THEN [T EXCEPT !.node = Unring(T.node, t)]
               ELSE IF n.fwd # t
               THEN LET N == Child(Child(T.node, n.fwd, "left", n.left),
                                   n.fwd, "right", n.right)
                    IN Hang([T EXCEPT !.node = Unring(N, t)], t, n.fwd)
               ELSE Hang([T EXCEPT !.node = R.node], t, R.rp)
  IN [After EXCEPT !.node = Forget(After.node, {t})]

\* VARIANT of Search: a larger block passed on the way is not remembered.
SearchForgets ==
  [n \in Sizes |->
     LET Down[t \in DOMAIN node \cup {nil}] ==
           [q \in DOMAIN node \cup {nil} |->
              IF t = nil THEN q
              ELSE IF blk[t].size = n THEN node[t].fwd
              ELSE IF n < blk[t].size THEN Down[node[t].left][q]
              ELSE Down[node[t].right][q]]
     IN Down[root][nil]]

\* The block poolalloc takes for n units: one of that size, else the last
\* larger one on the way down.
Search ==
  [n \in Sizes |->
     LET Down[t \in DOMAIN node \cup {nil}] ==
           [q \in DOMAIN node \cup {nil} |->
              IF t = nil THEN q
              ELSE IF blk[t].size = n THEN node[t].fwd
              ELSE IF n < blk[t].size THEN Down[node[t].left][t]
              ELSE Down[node[t].right][q]]
     IN Down[root][nil]]

-----------------------------------------------------------------------------

Init ==
  /\ blk = << >> /\ tail = << >>
  /\ root = nil /\ node = << >>
  /\ chain = nil
  /\ cursize = 0 /\ arenasize = 0
  /\ maxsize \in MaxSizes
  /\ brk = 1 /\ lost = 0
  /\ job = [p \in Proc |-> Idle]

SizeIn(B) == [a \in DOMAIN B |-> B[a].size]

Tree(T) == root' = T.root /\ node' = T.node

\* What p does once it has the memory: realloc frees the old block.
Got(p, old) ==
  job' = [job EXCEPT ![p] = IF old = nil THEN Idle
                            ELSE [Idle EXCEPT !.pc = "free", !.old = old]]

\* A free block is large enough: it is taken whole when it has the size
\* asked for or little more, and split otherwise.
TakeFree(p, n, old) ==
  LET q == Search[n]
      ns == blk[q].size - n
      T == PoolDel(tree, q)
      split == 4 * ns >= n
      B == Over([blk EXCEPT ![q] = Header("A", n)], At(q + n, Header("F", ns)))
  IN /\ q # nil
     /\ IF ns = 0 \/ ~split
        THEN /\ blk' = [blk EXCEPT ![q].magic = "A"]
             /\ cursize' = cursize + blk[q].size
             /\ Tree(T)
             /\ UNCHANGED tail
        ELSE /\ blk' = B
             /\ tail' = Over(tail, [a \in {q + n, q + n + ns} |->
                                      IF a = q + n THEN q ELSE q + n])
             /\ cursize' = cursize + n
             /\ Tree(PoolAdd(T, SizeIn(B), q + n))
     /\ Got(p, old)
     /\ UNCHANGED <<chain, arenasize, brk, lost, maxsize>>

\* VARIANT of ArenaFor: the last arena's leader and end marker are not counted.
ArenaForWhole(n) ==
  LET ns == IF n > chunk THEN n ELSE chunk
  IN IF arenasize + ns + 2 * ldr > maxsize THEN maxsize - arenasize ELSE ns

\* The size of the arena a request of n units asks sbrk for, its leader and
\* end marker left out: less than the chunk when that is all the pool may have.
ArenaFor(n) ==
  LET ns == IF n > chunk THEN n ELSE chunk
  IN IF arenasize + ns + 2 * ldr > maxsize THEN maxsize - arenasize - 2 * ldr ELSE ns

\* No block, and the pool is at its limit (poolcompact returns 0: nothing
\* calls poolsetcompact): poolalloc returns nil.
TooLarge(p, n) ==
  /\ Search[n] = nil
  /\ ArenaFor(n) < n
  /\ job' = [job EXCEPT ![p] = Idle]
  /\ UNCHANGED <<blk, tail, root, node, chain, cursize, arenasize, brk, lost, maxsize>>

SbrkFails(p, n) ==
  LET alloc == ArenaFor(n) + 2 * ldr
  IN /\ Search[n] = nil
     /\ ArenaFor(n) >= n
     /\ arenasize' = arenasize + alloc
     /\ lost' = lost + alloc
     /\ job' = [job EXCEPT ![p] = Idle]
     /\ UNCHANGED <<blk, tail, root, node, chain, cursize, brk, maxsize>>

\* The new memory t does not follow the last arena: a leader, the block, the
\* rest and an end marker are made of it.
NewArena(p, n, old) ==
  LET ns == ArenaFor(n)
  IN \E gap \in Gaps :
     LET t == brk + gap
         b == t + ldr
         q == b + n
         end == b + ns
         B == Over(Over(blk, At(t, Leader(ns + ldr, chain))),
                   Over(At(b, Header("A", n)),
                        IF ns > n THEN Over(At(q, Header("F", ns - n)), At(end, EndMark))
                        ELSE At(end, EndMark)))
     IN /\ Search[n] = nil
        /\ ns >= n
        /\ end <= Memory
        /\ chain # nil => t # B2LIMIT(chain) + ldr
        /\ blk' = B
        /\ tail' = Over(tail, [a \in {b, q, end} |->
                                 IF a = b THEN t ELSE IF a = q THEN b ELSE q])
        /\ IF ns > n THEN Tree(PoolAdd(tree, SizeIn(B), q)) ELSE UNCHANGED <<root, node>>
        /\ chain' = t
        /\ arenasize' = arenasize + ns + 2 * ldr
        /\ cursize' = cursize + n
        /\ brk' = end + ldr
        /\ Got(p, old)
        /\ UNCHANGED <<lost, maxsize>>

\* It does: the end marker and the new memory become an allocated block, to
\* be freed, and the allocation is begun again.
ExtendArena(p, n, old) ==
  LET alloc == ArenaFor(n) + 2 * ldr
      q == B2LIMIT(chain)
  IN /\ Search[n] = nil
     /\ ArenaFor(n) >= n
     /\ chain # nil /\ 0 \in Gaps
     /\ brk = q + ldr
     /\ q + alloc <= Memory
     /\ blk' = Over([blk EXCEPT ![q] = Header("A", alloc),
                                ![chain].csize = @ + alloc],
                    At(q + alloc, EndMark))
     /\ tail' = Over(tail, At(q + alloc, q))
     /\ arenasize' = arenasize + alloc
     /\ cursize' = cursize + alloc
     /\ brk' = q + alloc + ldr
     /\ job' = [job EXCEPT ![p] = [pc |-> "merged", size |-> n, old |-> old, block |-> q]]
     /\ UNCHANGED <<root, node, chain, lost, maxsize>>

PoolAlloc(p, n, old) ==
  \/ TakeFree(p, n, old)
  \/ TooLarge(p, n)
  \/ SbrkFails(p, n)
  \/ NewArena(p, n, old)
  \/ ExtendArena(p, n, old)

JoinsFore(b) == blk[B2NB(b)].magic = "F"

\* VARIANT of JoinsBack: not looked at when the block after was joined.
JoinsBackElse(b) == ~JoinsFore(b) /\ blk[tail[b]].magic = "F"

JoinsBack(b) == blk[tail[b]].magic = "F"

\* The block a freed b is part of after joining its neighbours.
PoolFree(b) ==
  LET c == B2NB(b)
      T1 == IF JoinsFore(b) THEN PoolDel(tree, c) ELSE tree
      size == blk[b].size + IF JoinsFore(b) THEN blk[c].size ELSE 0
      prior == tail[b]
      T2 == IF JoinsBack(b) THEN PoolDel(T1, prior) ELSE T1
      q == IF JoinsBack(b) THEN prior ELSE b
      all == size + IF JoinsBack(b) THEN blk[prior].size ELSE 0
      gone == (IF JoinsFore(b) THEN {c} ELSE {}) \cup (IF JoinsBack(b) THEN {b} ELSE {})
      B == [Forget(blk, gone) EXCEPT ![q] = Header("F", all)]
  IN /\ cursize' = cursize - blk[b].size
     /\ blk' = B
     /\ tail' = Over(Forget(tail, gone), At(q + all, q))
     /\ Tree(PoolAdd(T2, SizeIn(B), q))

-----------------------------------------------------------------------------

\* Blocks the program holds: not the ones a Proc is in the middle of freeing.
Held == {b \in DOMAIN blk : blk[b].magic \in {"A", "I"}}
          \ UNION {{job[p].old, job[p].block} : p \in Proc}

Malloc(p) ==
  /\ job[p] = Idle
  /\ \E n \in Sizes : PoolAlloc(p, n, nil)

Free(p) ==
  /\ job[p] = Idle
  /\ \E b \in Held : PoolFree(b)
  /\ UNCHANGED <<chain, arenasize, brk, lost, job, maxsize>>

Realloc(p) ==
  /\ job[p] = Idle
  /\ \E b \in Held, n \in Sizes : n > blk[b].size /\ PoolAlloc(p, n, b)

\* p goes on where it was: realloc's poolfree, or the merge's.
Resume(p) ==
  \/ /\ job[p].pc = "free"
     /\ PoolFree(job[p].old)
     /\ job' = [job EXCEPT ![p] = Idle]
     /\ UNCHANGED <<chain, arenasize, brk, lost, maxsize>>
  \/ /\ job[p].pc = "merged"
     /\ PoolFree(job[p].block)
     /\ job' = [job EXCEPT ![p].pc = "retry", ![p].block = nil]
     /\ UNCHANGED <<chain, arenasize, brk, lost, maxsize>>
  \/ /\ job[p].pc = "retry"
     /\ PoolAlloc(p, job[p].size, job[p].old)

SetMagic(b, from, to) ==
  /\ blk[b].magic = from
  /\ blk' = [blk EXCEPT ![b].magic = to]
  /\ UNCHANGED <<tail, root, node, chain, cursize, arenasize, brk, lost, job, maxsize>>

PoolImmutable ==
  /\ Cardinality({b \in Held : blk[b].magic = "I"}) < MaxImm
  /\ \E b \in Held : SetMagic(b, "A", "I")
PoolMutable == \E b \in Held : SetMagic(b, "I", "A")

Next ==
  \/ \E p \in Proc : Malloc(p) \/ Free(p) \/ Realloc(p) \/ Resume(p)
  \/ PoolImmutable
  \/ PoolMutable

Spec == Init /\ [][Next]_vars

-----------------------------------------------------------------------------

Blocks == {b \in DOMAIN blk : blk[b] # EndMark}
Is(magic) == {b \in Blocks : blk[b].magic = magic}

\* The leaders on p->chain.
Arenas ==
  LET From[c \in Is("E") \cup {nil}] ==
        IF c = nil THEN {} ELSE {c} \cup From[blk[c].clink]
  IN From[chain]

\* poolaudit's and _auditmemloc's walk over the blocks of the arena at bc,
\* up to the one that holds address v: nil when a header is bad.
Walk(bc, v) ==
  LET ec == B2LIMIT(bc)
      Good(b) ==
        /\ b \in DOMAIN blk
        /\ blk[b].size > 0
        /\ blk[b].magic \in {"A", "F", "I"} \/ (blk[b].magic = "E" /\ b = bc)
      From[b \in Addr] ==
        IF b >= ec THEN IF b = ec /\ ec \in DOMAIN blk /\ blk[b].magic = "E" THEN b ELSE nil
        ELSE IF ~Good(b) THEN nil
        ELSE IF v < B2NB(b) THEN b
        ELSE From[B2NB(b)]
  IN From[bc]

\* What the audit reports of the arena at bc.
Audited(bc) == blk[bc].magic = "E" /\ Walk(bc, B2LIMIT(bc)) = B2LIMIT(bc)

TypeOK ==
  /\ \A b \in DOMAIN blk : b \in Addr /\ blk[b].magic \in {"A", "F", "I", "E"}
  /\ DOMAIN tail \subseteq Addr
  /\ root \in DOMAIN node \cup {nil} /\ chain \in DOMAIN blk \cup {nil}
  /\ cursize \in 0..maxsize /\ arenasize \in 0..maxsize
  /\ \A p \in Proc : job[p].pc \in {"idle", "free", "merged", "retry"}

\* Whatever was allocated, freed, merged or left half done, every arena is
\* tiled by its blocks (poolaudit finds nothing and _auditmemloc finds the
\* block of every address), the tail poolfree reads before a block leads to
\* the block before it, and no two free blocks are side by side: no
\* poolfree forgot to join (alloc.c:392-422).
PoolAudited ==
  /\ TypeOK
  /\ \A bc \in Arenas : Audited(bc)
  /\ \A b \in Blocks :
       /\ \E bc \in Arenas : \A v \in b..B2NB(b) - 1 : bc <= v /\ v < B2LIMIT(bc) /\ Walk(bc, v) = b
       /\ tail[B2NB(b)] = b
       /\ blk[b].magic = "F" => blk[B2NB(b)].magic # "F"

\* The nodes at and below t.
Below ==
  LET From[t \in DOMAIN node \cup {nil}] ==
        IF t = nil THEN {} ELSE {t} \cup From[node[t].left] \cup From[node[t].right]
  IN From

\* The ring t is on.
Ring(t) == {q \in DOMAIN node : blk[q].size = blk[t].size}

\* The free tree holds the free blocks, each once: the nodes of the tree have
\* different sizes, in search order, with the parents pooldel relies on, and
\* the other blocks of a size are on its node's ring and have no parent
\* (alloc.c:117-240).
FreeTreeExact ==
  /\ DOMAIN node = Is("F")
  /\ \A t \in Below[root] :
       /\ \A q \in Below[node[t].left] : blk[q].size < blk[t].size /\ q # t
       /\ \A q \in Below[node[t].right] : blk[q].size > blk[t].size /\ q # t
       /\ \A c \in {node[t].left, node[t].right} \ {nil} : node[c].parent = t
  /\ root # nil => node[root].parent = nil
  /\ \A t \in DOMAIN node :
       /\ Ring(t) \cap Below[root] # {}
       /\ t \notin Below[root] => node[t].parent = nil
       /\ node[node[t].fwd].prev = t /\ node[t].fwd \in Ring(t)
       /\ \A S \in SUBSET Ring(t) : (S # {} /\ \A q \in S : node[q].fwd \in S) => S = Ring(t)

\* poolalloc goes to sbrk only when no free block is large enough, and takes
\* the smallest that is (alloc.c:259-301).
SearchFindsBest ==
  \A n \in Sizes :
    LET fit == {blk[b].size : b \in {q \in Is("F") : blk[q].size >= n}}
    IN IF fit = {} THEN Search[n] = nil
       ELSE Search[n] # nil /\ blk[Search[n]].size = CHOOSE m \in fit : \A k \in fit : m <= k

Total(S) == MapThenFoldSet(+, 0, LAMBDA b : blk[b].size, LAMBDA T : CHOOSE x \in T : TRUE, S)

\* The pool's books: cursize counts the allocated blocks, and arenasize the
\* arenas with their leaders and end markers, never more than maxsize; what
\* sbrk refused stays counted for good (alloc.c:309-332).
AccountsAgree ==
  /\ cursize = Total(Is("A") \cup Is("I"))
  /\ arenasize = lost + Total(Blocks) + Cardinality(Arenas)
  /\ arenasize <= maxsize
=============================================================================
