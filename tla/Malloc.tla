------------------------------ MODULE Malloc ------------------------------
(***************************************************************************)
(* malloc, realloc and free over the page allocator.  A descriptor per     *)
(* block size keeps, under its lock, a list of free blocks in arenas of    *)
(* one page each; a request that fits no descriptor gets whole pages.      *)
(* palloc takes pages under the lock of the pool and gives them back       *)
(* without it, one bit of the map after the other.                         *)
(*                                                                         *)
(* The size of a request is the descriptor or the number of pages it comes *)
(* to.  The scan of the map is one step: only frees can run during it.     *)
(***************************************************************************)
EXTENDS Integers, SequencesExt, FiniteSets

CONSTANTS
  Callers,    \* threads that allocate
  PageCnt,    \* pages of the kernel pool
  Descs,      \* descriptors
  PerArena,   \* blocks_per_arena of each
  BigPages,   \* page counts of big blocks
  MaxHeld,    \* bound: blocks a caller holds at a time
  Null        \* null pointer

PoolPages == 0..(PageCnt-1)

MallocAssumption ==
  /\ PageCnt \in Nat /\ PerArena \in [Descs -> Nat \ {0}] /\ BigPages \subseteq Nat \ {0}
  /\ MaxHeld \in Nat /\ Null \notin Callers \cup Descs \cup PoolPages \cup BigPages
  /\ Descs \cap BigPages = {}

VARIABLES
  usedMap,   \* pages marked used
  arena,     \* header of the page: owner (descriptor or page count), free_cnt
  freeList,  \* free_list of each descriptor: <<page, index>>
  descLock,  \* its lock
  held,      \* blocks each caller has; <<page, 0>> is a big block
  call       \* where each caller is in which call

mallocVars == <<usedMap, arena, freeList, descLock, held, call>>

Blocks(d, p) == {<<p, i>> : i \in 0..(PerArena[d] - 1)}
NoArena == [owner |-> Null, free |-> 0]
Idle == [at |-> "idle", size |-> Null, block |-> Null]

\* block: what realloc or free gets.  "free" and "push" are in free, before
\* and after the lock; "unmark" clears the bits from block to size.
CallStates == [at : {"idle", "malloc", "locked", "free", "push", "unmark"},
               size : Descs \cup BigPages \cup {Null} \cup 0..PageCnt,
               block : (PoolPages \X Nat) \cup {Null}]

Init ==
  /\ usedMap = {} /\ arena = [p \in PoolPages |-> NoArena]
  /\ freeList = [d \in Descs |-> <<>>] /\ descLock = [d \in Descs |-> Null]
  /\ held = [t \in Callers |-> {}] /\ call = [t \in Callers |-> Idle]

\* bitmap_scan_and_flip: the first n free pages in a row.
Runs(n) == {p \in PoolPages : p + n <= PageCnt /\ p..(p + n - 1) \cap usedMap = {}}
FirstRun(n) == CHOOSE p \in Runs(n) : \A q \in Runs(n) : p <= q
----------------------------------------------------------------------------
\* malloc or, with an old block, realloc; the caller may call when it is out
\* of both.
Malloc(t) ==
  /\ call[t] = Idle /\ Cardinality(held[t]) < MaxHeld
  /\ \E s \in Descs \cup BigPages, b \in held[t] \cup {Null} :
       call' = [call EXCEPT ![t] = [at |-> "malloc", size |-> s, block |-> b]]
  /\ UNCHANGED <<usedMap, arena, freeList, descLock, held>>

\* malloc returns the blocks of new, one or none; realloc goes on to free
\* the old block if there is one and the new one is not null.
Done(t, new) ==
  IF call[t].block = Null \/ new = {}
  THEN /\ call' = [call EXCEPT ![t] = Idle]
       /\ held' = [held EXCEPT ![t] = @ \cup new]
  ELSE /\ call' = [call EXCEPT ![t].at = "free", ![t].size = Null]
       /\ held' = [held EXCEPT ![t] = (@ \ {call[t].block}) \cup new]

\* A big block: pages that start with an arena of their own.
MallocBig(t) ==
  /\ call[t].at = "malloc" /\ call[t].size \in BigPages
  /\ LET n == call[t].size IN
     IF Runs(n) = {} THEN Done(t, {}) /\ UNCHANGED <<usedMap, arena>>
     ELSE LET p == FirstRun(n) IN
          /\ usedMap' = usedMap \cup p..(p + n - 1)
          /\ arena' = [arena EXCEPT ![p] = [owner |-> n, free |-> n]]
          /\ Done(t, {<<p, 0>>})
  /\ UNCHANGED <<freeList, descLock>>

Lock(t) ==
  /\ call[t].at = "malloc" /\ call[t].size \in Descs /\ descLock[call[t].size] = Null
  /\ descLock' = [descLock EXCEPT ![call[t].size] = t]
  /\ call' = [call EXCEPT ![t].at = "locked"]
  /\ UNCHANGED <<usedMap, arena, freeList, held>>

\* The list is empty: a new arena with its blocks, or failure.
Grow(t) ==
  /\ call[t].at = "locked"
  /\ LET d == call[t].size IN
     /\ freeList[d] = <<>>
     /\ IF Runs(1) = {}
        THEN /\ Done(t, {}) /\ descLock' = [descLock EXCEPT ![d] = Null]
             /\ UNCHANGED <<usedMap, arena, freeList>>
        ELSE LET p == FirstRun(1) IN
             /\ usedMap' = usedMap \cup {p}
             /\ arena' = [arena EXCEPT ![p] = [owner |-> d, free |-> PerArena[d]]]
             /\ freeList' = [freeList EXCEPT ![d] = [i \in 1..PerArena[d] |-> <<p, i - 1>>]]
             /\ UNCHANGED <<descLock, held, call>>

\* The front block of the list.
Take(t) ==
  /\ call[t].at = "locked"
  /\ LET d == call[t].size IN
     /\ freeList[d] # <<>>
     /\ freeList' = [freeList EXCEPT ![d] = Tail(@)]
     /\ arena' = [arena EXCEPT ![Head(freeList[d])[1]].free = @ - 1]
     /\ descLock' = [descLock EXCEPT ![d] = Null]
     /\ Done(t, {Head(freeList[d])})
  /\ UNCHANGED usedMap
----------------------------------------------------------------------------
\* The caller frees one of its blocks.
Free(t) ==
  /\ call[t] = Idle
  /\ \E b \in held[t] :
       /\ held' = [held EXCEPT ![t] = @ \ {b}]
       /\ call' = [call EXCEPT ![t] = [at |-> "free", size |-> Null, block |-> b]]
  /\ UNCHANGED <<usedMap, arena, freeList, descLock>>

\* free finds the arena of the block: the lock of its descriptor, or the
\* pages from..to-1 to give back.
FreeLock(t) ==
  /\ call[t].at = "free"
  /\ LET p == call[t].block[1]
         d == arena[p].owner IN
     IF d \in Descs
     THEN /\ descLock[d] = Null
          /\ descLock' = [descLock EXCEPT ![d] = t]
          /\ call' = [call EXCEPT ![t].at = "push"]
          /\ UNCHANGED arena
     ELSE /\ call' = [call EXCEPT ![t].at = "unmark", ![t].size = p + d]
          /\ arena' = [arena EXCEPT ![p] = NoArena]
          /\ UNCHANGED descLock
  /\ UNCHANGED <<usedMap, freeList, held>>

\* Mutant of Emptied: an arena goes while one of its blocks is out.
EmptiedEarly(d, p) == arena[p].free + 1 >= PerArena[d] - 1

\* With the freed block all blocks of arena p are free.
Emptied(d, p) == arena[p].free + 1 >= PerArena[d]

\* The block goes to the front of the list, and its arena back to the pool
\* if that was its last one out.
Push(t) ==
  /\ call[t].at = "push"
  /\ LET b == call[t].block
         d == arena[b[1]].owner IN
     /\ IF Emptied(d, b[1])
        THEN /\ freeList' = [freeList EXCEPT ![d] = SelectSeq(@, LAMBDA c : c[1] # b[1])]
             /\ arena' = [arena EXCEPT ![b[1]] = NoArena] /\ usedMap' = usedMap \ {b[1]}
        ELSE /\ freeList' = [freeList EXCEPT ![d] = <<b>> \o @]
             /\ arena' = [arena EXCEPT ![b[1]].free = @ + 1] /\ UNCHANGED usedMap
     /\ descLock' = [descLock EXCEPT ![d] = Null]
     /\ call' = [call EXCEPT ![t] = Idle]
  /\ UNCHANGED held

\* palloc_free_multiple: one bit at a time.
Unmark(t) ==
  /\ call[t].at = "unmark"
  /\ LET p == call[t].block[1] IN
     /\ usedMap' = usedMap \ {p}
     /\ call' = [call EXCEPT ![t] =
                   IF p + 1 = call[t].size THEN Idle ELSE [@ EXCEPT !.block = <<p + 1, 0>>]]
  /\ UNCHANGED <<arena, freeList, descLock, held>>

Next == \E t \in Callers :
  \/ Malloc(t) \/ MallocBig(t) \/ Lock(t) \/ Grow(t) \/ Take(t)
  \/ Free(t) \/ FreeLock(t) \/ Push(t) \/ Unmark(t)

Spec == Init /\ [][Next]_mallocVars
----------------------------------------------------------------------------
\* Every part is of its type.
TypeOK ==
  /\ usedMap \subseteq PoolPages
  /\ arena \in [PoolPages -> [owner : Descs \cup BigPages \cup {Null}, free : Nat]]
  /\ \A d \in Descs : Range(freeList[d]) \subseteq PoolPages \X Nat
  /\ descLock \in [Descs -> Callers \cup {Null}]
  /\ \A t \in Callers : held[t] \subseteq PoolPages \X Nat /\ call[t] \in CallStates

\* Blocks that free is about to look at are still in use.
InFree == {call[t].block : t \in {u \in Callers : call[u].at \in {"free", "push"}}}
Out == UNION {held[t] : t \in Callers} \cup InFree

Extent(p) == IF arena[p].owner \in BigPages THEN p..(p + arena[p].owner - 1) ELSE {p}
Unmarked == UNION {call[t].block[1]..(call[t].size - 1) : t \in {u \in Callers : call[u].at = "unmark"}}
Live == {p \in PoolPages : arena[p].owner # Null}

\* No page serves two purposes: arenas, big blocks and pages on their way
\* back are disjoint, and together they are the pages marked used.
PagesExact ==
  /\ usedMap = UNION {Extent(p) : p \in Live} \cup Unmarked
  /\ \A p, q \in Live : p # q => Extent(p) \cap Extent(q) = {}
  /\ \A p \in Live : Extent(p) \cap Unmarked = {}

\* No block has two users: what callers have is theirs alone, is in a live
\* arena and on no list, also while other callers free and reallocate.
BlocksExclusive ==
  /\ \A t, u \in Callers : t # u => held[t] \cap held[u] = {}
  /\ \A b \in Out : arena[b[1]].owner # Null
  /\ \A d \in Descs : IsInjective(freeList[d]) /\ Range(freeList[d]) \cap Out = {}

\* free_cnt counts the listed blocks of the arena, every block of an arena
\* is listed or out, and an arena all of whose blocks are free is returned.
FreeCntExact ==
  \A d \in Descs : \A p \in {q \in PoolPages : arena[q].owner = d} :
    LET listed == Range(freeList[d]) \cap Blocks(d, p) IN
    /\ arena[p].free = Cardinality(listed)
    /\ listed \cup (Out \cap Blocks(d, p)) = Blocks(d, p)
    /\ descLock[d] = Null => arena[p].free < PerArena[d]
=============================================================================
