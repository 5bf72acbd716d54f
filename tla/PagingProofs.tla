---------------------------- MODULE PagingProofs ----------------------------
(***************************************************************************)
(* Paging, for every set of processes, pages, frames and swap slots: each  *)
(* frame and each slot is in one place, eviction takes a frame only from a *)
(* page that may lose it, a page is loaded when it is not mapped,          *)
(* processes wait in a circle only where a mapped file is written out, and *)
(* a page has the value last stored to it.                                 *)
(***************************************************************************)
EXTENDS Paging, FiniteSetTheorems, TLAPS

EvictPcs == {"scan", "out", "unload", "clear", "reget"}
LoadPcs == {"get", "add", "fill", "evict"} \cup EvictPcs
DropPcs == {"save", "lookup", "free"}
CallPcs == {"args", "call", "copy", "load_done"}
Pcs == {"user", "unborn", "dead", "refuse", "exit"} \cup CallPcs \cup LoadPcs \cup DropPcs

Point == [pc : Pcs, page : Pages \cup {None}, then : {None, "fault", "boot", "args", "buf"},
          frame : Frames \cup {None}, todo : SUBSET Frames,
          victim : Frames \cup {None}, vpage : Pages \cup {None},
          op : {None, "read", "write", "exec", "mmap", "munmap", "exit"},
          esp : Pages \cup {None}, buf : Pages \cup Procs \cup {None}]

AtType == at \in [Procs -> Point]

KindOK ==
  /\ kind \in [Pages -> {"data", "bss", "stack", "mmap"}]
  /\ \A p \in Procs : kind[Start[p]] = "stack"

----------------------------------------------------------------------------
\* What is true of a process p at each of its program points.

\* p is in a system call.
InCall(p) ==
  \/ at[p].pc \in CallPcs
  \/ at[p].pc \in LoadPcs /\ at[p].then \in {"args", "buf"}
  \/ at[p].pc \in {"exit"} \cup DropPcs /\ at[p].op = "munmap"

\* The local variables that are in use.
Locals(p) ==
  /\ at[p].pc \in LoadPcs \cup DropPcs => at[p].page \in Pages /\ Owner[at[p].page] = p
  /\ at[p].pc \in LoadPcs => at[p].then \in {"fault", "boot", "args", "buf"}
  /\ at[p].pc \in {"add", "fill"} => at[p].frame \in Frames
  /\ at[p].pc \in {"out", "unload", "clear"} => at[p].victim \in Frames /\ at[p].vpage \in Pages
  /\ InCall(p) => /\ at[p].op \in {"read", "write", "exec", "mmap", "munmap"}
                  /\ at[p].esp \in Pages /\ Owner[at[p].esp] = p /\ kind[at[p].esp] = "stack"
  /\ InCall(p) /\ at[p].pc # "load_done" => at[p].buf \in Pages /\ Owner[at[p].buf] = p
  /\ InCall(p) /\ at[p].op \in {"mmap", "munmap"} => kind[at[p].buf] = "mmap"
  /\ at[p].pc = "load_done" => at[p].buf \in Procs
  /\ at[p].pc \in {"exit"} \cup DropPcs => at[p].op \in {"munmap", "exit"}

\* frame_table_lock is held by the process in frame_evict.
LockedBy(p) == at[p].pc \in EvictPcs <=> lock["ft"] = p

\* A page that is being loaded is locked and not in memory.
Loading(p) ==
  at[p].pc \in LoadPcs =>
    /\ spt[at[p].page].locked
    /\ spt[at[p].page].present => ~ spt[at[p].page].loaded
    /\ ~ spt[at[p].page].present => /\ spt[at[p].page].type = "SWAP"
                                    /\ kind[at[p].page] = "stack"
    /\ at[p].pc # "fill" => \A f \in Frames : ft[f] # at[p].page
    /\ at[p].pc = "fill" => /\ ft[at[p].frame] = at[p].page
                            /\ pte[at[p].page].frame = None

\* The victim stays where it is until the evictor lets go of it.
Evicting(p) ==
  /\ at[p].pc = "scan" => \A f \in at[p].todo : ft[f] # None
  /\ at[p].pc \in {"out", "unload"} =>
       /\ spt[at[p].vpage].present /\ spt[at[p].vpage].loaded
       /\ ft[at[p].victim] = at[p].vpage
  /\ at[p].pc \in {"out", "unload", "clear"} => pte[at[p].vpage].frame = at[p].victim
  /\ at[p].pc = "unload" /\ spt[at[p].vpage].type = "SWAP" => spt[at[p].vpage].slot # None

\* The page that is given up.
Dropping(p) ==
  at[p].pc \in DropPcs =>
    /\ at[p].op = "munmap" => spt[at[p].page].present /\ spt[at[p].page].type = "MMAP"
    /\ at[p].pc = "save" => kind[at[p].page] = "mmap"
    /\ at[p].pc = "free" => pte[at[p].page].frame \in {None, at[p].frame}

PointOK(p) == Locals(p) /\ LockedBy(p) /\ Loading(p) /\ Evicting(p) /\ Dropping(p)
PointsOK == \A p \in Procs : PointOK(p)

----------------------------------------------------------------------------
\* The tables.

\* p has taken f from the pool or the table and not put it into the other.
Holds(p, f) == \/ at[p].pc = "add" /\ at[p].frame = f
               \/ at[p].pc = "clear" /\ at[p].victim = f

\* A frame is in one place: free, in the table, or held by one process.
HeldApart == \A p \in Procs, f \in Frames : Holds(p, f) => f \notin pool /\ ft[f] = None
HeldByOne == \A p, q \in Procs, f \in Frames : Holds(p, f) /\ Holds(q, f) => p = q
PoolApart == \A f \in pool : ft[f] = None
Somewhere == \A f \in Frames : f \notin pool /\ ft[f] = None => \E p \in Procs : Holds(p, f)

\* p has put the frame of page g into the table and not mapped it yet.
Fills(p, f, g) == at[p].pc = "fill" /\ at[p].page = g /\ at[p].frame = f

\* The page in the table is mapped to the frame, or about to be.
TableOK ==
  \A f \in Frames, g \in Pages : ft[f] = g =>
     \/ spt[g].present /\ spt[g].loaded /\ pte[g].frame = f
     \/ Fills(Owner[g], f, g)

\* p has taken frame f from page g and not cleared the mapping yet.
Clears(p, f, g) == at[p].pc = "clear" /\ at[p].vpage = g /\ at[p].victim = f

\* A mapped page has its frame in the table, or is being evicted.
MapOK ==
  \A g \in Pages : pte[g].frame # None =>
     ft[pte[g].frame] = g \/ \E p \in Procs : Clears(p, pte[g].frame, g)

UnbornOK == \A g \in Pages : at[Owner[g]].pc = "unborn" =>
                               ~ spt[g].present /\ pte[g].frame = None

TypesOK == \A g \in Pages : spt[g].present => (spt[g].type = "MMAP" <=> kind[g] = "mmap")

\* A slot is the slot of one page, whose contents it has.
Unloads(p, g) == at[p].pc = "unload" /\ at[p].vpage = g
SlotOwned ==
  \A g \in Pages : spt[g].slot # None =>
    /\ spt[g].slot \in slots /\ spt[g].present /\ spt[g].type = "SWAP"
    /\ spt[g].loaded => \E p \in Procs : Unloads(p, g)
SlotOnce == \A g, h \in Pages : spt[g].slot # None /\ spt[g].slot = spt[h].slot => g = h
SlotKept ==
  \A g \in Pages : spt[g].present /\ spt[g].type = "SWAP" /\ ~ spt[g].loaded
                      => spt[g].slot # None

\* p has ended, or is on its way.
Ends(p) == \/ at[p].pc = "dead"
           \/ at[p].pc \in {"exit"} \cup DropPcs /\ at[p].op = "exit"
SlotUsed == \A s \in slots : (\E g \in Pages : spt[g].slot = s) \/ (\E p \in Procs : Ends(p))

FrameInv == HeldApart /\ HeldByOne /\ PoolApart /\ Somewhere /\ TableOK /\ MapOK
SlotInv == SlotOwned /\ SlotOnce /\ SlotKept /\ SlotUsed

PInv == TypeOK /\ AtType /\ KindOK /\ PointsOK /\ FrameInv /\ UnbornOK /\ TypesOK /\ SlotInv

----------------------------------------------------------------------------
\* What is assumed of the constants, in the form the proofs use.
LEMMA PagingConstants ==
  /\ First \in Procs /\ Zero \in Values /\ Inputs \subseteq Values
  /\ Owner \in [Pages -> Procs] /\ Start \in [Procs -> Pages]
  /\ \A p \in Procs : Owner[Start[p]] = p
  /\ None \notin Procs /\ None \notin Pages /\ None \notin Frames
  /\ None \notin Slots /\ None \notin Values
BY PagingAssumption

\* Process p moves and no other, and only entries of its own pages change.
Alone(p) ==
  /\ \A q \in Procs \ {p} : at'[q] = at[q]
  /\ \A g \in Pages : Owner[g] # p => spt'[g] = spt[g]
  /\ kind' = kind

\* No frame, slot or mapping changes its place.
TablesStay ==
  /\ ft' = ft /\ pool' = pool /\ slots' = slots
  /\ \A g \in Pages :
        /\ pte'[g].frame = pte[g].frame
        /\ spt'[g].present = spt[g].present /\ spt'[g].slot = spt[g].slot
        /\ spt[g].present => /\ spt'[g].type = spt[g].type
                             /\ spt'[g].loaded = spt[g].loaded

\* The program points at which a process holds a frame or owes a change to a table.
Busy == {"add", "clear", "fill", "unborn"}

\* What a step has to leave alone for what is true of another process to stay
\* true: the page the process loads or gives up, and the victim of an evictor.
Spares(q) ==
  /\ at'[q] = at[q] /\ kind' = kind /\ (lock'["ft"] = q <=> lock["ft"] = q)
  /\ at[q].pc \in LoadPcs =>
       /\ spt'[at[q].page] = spt[at[q].page]
       /\ \A f \in Frames : ft'[f] = at[q].page <=> ft[f] = at[q].page
  /\ at[q].pc \in DropPcs /\ at[q].op = "munmap" =>
       /\ spt'[at[q].page].present = spt[at[q].page].present
       /\ spt[at[q].page].present => spt'[at[q].page].type = spt[at[q].page].type
  /\ at[q].pc \in LoadPcs \cup DropPcs =>
       pte'[at[q].page].frame \in {pte[at[q].page].frame, None}
  /\ at[q].pc \in EvictPcs => ft' = ft
  /\ at[q].pc \in {"out", "unload"} =>
       /\ spt'[at[q].vpage].present = spt[at[q].vpage].present
       /\ spt'[at[q].vpage].loaded = spt[at[q].vpage].loaded
       /\ spt'[at[q].vpage].type = spt[at[q].vpage].type
       /\ spt'[at[q].vpage].slot = spt[at[q].vpage].slot
  /\ at[q].pc \in {"out", "unload", "clear"} =>
       pte'[at[q].vpage].frame = pte[at[q].vpage].frame

\* What is true of a process stays true while the others spare it.
LEMMA PointStays ==
  ASSUME PInv, NEW q \in Procs, Spares(q)
  PROVE  PointOK(q)'
<1> USE PagingConstants DEF PInv
<1>1. PointOK(q) /\ Locals(q)
  BY DEF PointsOK, PointOK
<1>2. Locals(q)'
  BY <1>1 DEF Spares, Locals, InCall
<1>3. LockedBy(q)'
  BY <1>1 DEF Spares, PointOK, LockedBy
<1>4. Loading(q)'
  <2> SUFFICES ASSUME at[q].pc \in LoadPcs PROVE Loading(q)'
    BY DEF Spares, Loading
  <2>1. at[q].pc = "fill" => at[q].frame \in Frames
    BY <1>1 DEF Locals
  <2>2. Loading(q)
    BY <1>1 DEF PointOK
  <2> QED
    BY <2>1, <2>2 DEF Spares, Loading
<1>5. Evicting(q)'
  <2>1. Evicting(q)
    BY <1>1 DEF PointOK
  <2>2. /\ at[q].pc = "scan" => ft' = ft
        /\ at[q].pc \in {"out", "unload"} => ft' = ft
    BY DEF Spares, EvictPcs
  <2> QED
    BY <2>1, <2>2 DEF Spares, Evicting
<1>6. Dropping(q)'
  BY <1>1 DEF Spares, PointOK, Dropping
<1> QED
  BY <1>2, <1>3, <1>4, <1>5, <1>6 DEF PointOK

\* The evictor is the only one.
LEMMA OneEvictor ==
  ASSUME PInv, NEW p \in Procs, NEW q \in Procs \ {p},
         at[p].pc \in EvictPcs \/ lock["ft"] = None
  PROVE  at[q].pc \notin EvictPcs
BY PagingConstants DEF PInv, PointsOK, PointOK, LockedBy

\* p takes frame_table_lock, lets go of it, or leaves it alone.
LockMove(p) ==
  \/ lock'["ft"] = lock["ft"]
  \/ lock["ft"] = None /\ lock'["ft"] = p
  \/ lock["ft"] = p /\ lock'["ft"] = None

\* A step of p that leaves the tables alone, between program points that owe
\* nothing, has to establish only what is said of p.
LEMMA QuietStep ==
  ASSUME PInv, NEW p \in Procs, TypeOK', AtType', Alone(p), TablesStay,
         LockMove(p), at[p].pc \notin Busy, at[p].pc # "unload", at'[p].pc \notin Busy,
         Ends(p) => Ends(p)', PointOK(p)'
  PROVE  PInv'
<1> USE PagingConstants DEF Alone, PInv
<1>1. KindOK'
  BY DEF KindOK
<1>2. PointsOK'
  <2>1. \A q \in Procs \ {p} : PointOK(q)'
    <3> TAKE q \in Procs \ {p}
    <3>1. Locals(q) /\ Evicting(q)
      BY DEF PointsOK, PointOK
    <3>2. at[q].pc \in LoadPcs \cup DropPcs => at[q].page \in Pages /\ Owner[at[q].page] = q
      BY <3>1 DEF Locals
    <3>3. at[q].pc \in {"out", "unload", "clear"} => at[q].vpage \in Pages
      BY <3>1 DEF Locals
    <3>4. lock'["ft"] = q <=> lock["ft"] = q
      BY DEF LockMove
    <3>5. Spares(q)
      BY <3>1, <3>2, <3>3, <3>4 DEF Spares, TablesStay, Evicting
    <3> QED
      BY <3>5, PointStays
  <2> QED
    BY <2>1 DEF PointsOK
<1>3. \A q \in Procs, f \in Frames, g \in Pages :
        /\ Holds(q, f)' <=> Holds(q, f)
        /\ Fills(q, f, g)' <=> Fills(q, f, g)
        /\ Clears(q, f, g)' <=> Clears(q, f, g)
  BY DEF Busy, Holds, Fills, Clears
<1>4. \A q \in Procs : /\ \A g \in Pages : Unloads(q, g) => Unloads(q, g)'
                       /\ Ends(q) => Ends(q)'
  BY DEF Busy, Unloads, Ends
<1>5. HeldApart' /\ HeldByOne' /\ PoolApart' /\ Somewhere'
  BY <1>3 DEF FrameInv, HeldApart, HeldByOne, PoolApart, Somewhere, TablesStay, TypeOK
<1>6. TableOK' /\ MapOK'
  <2>1. TableOK'
    BY <1>3 DEF FrameInv, TableOK, TablesStay
  <2>2. MapOK'
    BY <1>3 DEF FrameInv, MapOK, TablesStay, TypeOK
  <2> QED
    BY <2>1, <2>2
<1>7. UnbornOK'
  BY DEF UnbornOK, TablesStay, Busy
<1>8. TypesOK'
  BY DEF TypesOK, TablesStay
<1>9. SlotInv'
  <2>1. SlotOwned'
    <3> SUFFICES ASSUME NEW g \in Pages, spt'[g].slot # None
                 PROVE  /\ spt'[g].slot \in slots' /\ spt'[g].present /\ spt'[g].type = "SWAP"
                        /\ spt'[g].loaded => \E q \in Procs : Unloads(q, g)'
      BY DEF SlotOwned
    <3> QED
      BY <1>4 DEF SlotInv, SlotOwned, TablesStay
  <2>2. SlotOnce'
    BY DEF SlotInv, SlotOnce, TablesStay
  <2>3. SlotKept'
    BY DEF SlotInv, SlotKept, TablesStay
  <2>4. SlotUsed'
    BY <1>4 DEF SlotInv, SlotUsed, TablesStay
  <2> QED
    BY <2>1, <2>2, <2>3, <2>4 DEF SlotInv
<1> QED
  BY <1>1, <1>2, <1>5, <1>6, <1>7, <1>8, <1>9 DEF FrameInv

\* The local variables of p by its program point, and what is true there.
LEMMA Known ==
  ASSUME PInv, NEW p \in Procs
  PROVE  at[p] \in Point /\ Locals(p) /\ LockedBy(p) /\ Loading(p) /\ Evicting(p) /\ Dropping(p)
BY DEF PInv, AtType, PointsOK, PointOK

\* A step that changes none of the variables.
LEMMA NothingMoves ==
  ASSUME PInv, UNCHANGED <<kind, tables, stores, lock, at, history>>
  PROVE  PInv'
<1> USE DEF tables, stores, history, PInv
<1>1. TypeOK' /\ AtType' /\ KindOK'
  BY DEF TypeOK, AtType, KindOK
<1>2. PointsOK'
  BY DEF PointsOK, PointOK, Locals, InCall, LockedBy, Loading, Evicting, Dropping
<1>3. FrameInv'
  BY DEF FrameInv, HeldApart, HeldByOne, PoolApart, Somewhere, TableOK, MapOK, Holds, Fills,
         Clears
<1>4. UnbornOK' /\ TypesOK'
  BY DEF UnbornOK, TypesOK
<1>5. SlotInv'
  BY DEF SlotInv, SlotOwned, SlotOnce, SlotKept, SlotUsed, Unloads, Ends
<1> QED
  BY <1>1, <1>2, <1>3, <1>4, <1>5

----------------------------------------------------------------------------
\* The steps of user code and of system calls.

\* Reading or storing through a mapped page moves no page.
LEMMA TouchTypes ==
  ASSUME TypeOK, NEW g \in Pages, NEW v \in Values \cup {None}, Touch(g, v)
  PROVE  /\ pte' \in [Pages -> [frame : Frames \cup {None}, acc : BOOLEAN, dirty : BOOLEAN]]
         /\ mem' \in [Frames -> Values] /\ want' \in [Pages -> Values] /\ torn' \subseteq Pages
         /\ \A h \in Pages : pte'[h].frame = pte[h].frame
<1> USE PagingConstants
<1> DEFINE Entry == [frame : Frames \cup {None}, acc : BOOLEAN, dirty : BOOLEAN]
<1>1. pte \in [Pages -> Entry] /\ mem \in [Frames -> Values] /\ want \in [Pages -> Values]
      /\ torn \subseteq Pages /\ pte[g] \in Entry
  BY DEF TypeOK
<1>2. CASE v = None
  <2>1. pte' = [pte EXCEPT ![g] = [pte[g] EXCEPT !.acc = TRUE]] /\ UNCHANGED <<mem, want, torn>>
    BY <1>2 DEF Touch
  <2>2. [pte[g] EXCEPT !.acc = TRUE] \in Entry
    BY <1>1
  <2>3. pte' \in [Pages -> Entry]
    BY <1>1, <2>1, <2>2
  <2>4. \A h \in Pages : pte'[h].frame = pte[h].frame
    BY <1>1, <2>1
  <2> QED
    BY <2>1, <2>3, <2>4, <1>1
<1>3. CASE v # None
  <2>1. /\ pte' = [pte EXCEPT ![g] = [pte[g] EXCEPT !.acc = TRUE, !.dirty = TRUE]]
        /\ mem' = [mem EXCEPT ![pte[g].frame] = v]
        /\ want' = [want EXCEPT ![g] = v]
        /\ torn' = torn \cup {g} \/ torn' = torn \ {g}
    BY <1>3 DEF Touch
  <2>2. [pte[g] EXCEPT !.acc = TRUE, !.dirty = TRUE] \in Entry
    BY <1>1
  <2>3. pte' \in [Pages -> Entry]
    BY <1>1, <2>1, <2>2
  <2>4. \A h \in Pages : pte'[h].frame = pte[h].frame
    BY <1>1, <2>1
  <2>5. mem' \in [Frames -> Values] /\ want' \in [Pages -> Values] /\ torn' \subseteq Pages
    BY <1>1, <1>3, <2>1
  <2> QED
    BY <2>3, <2>4, <2>5
<1> QED
  BY <1>2, <1>3

\* User code touches a page.
LEMMA AccessKeeps ==
  ASSUME PInv, NEW p \in Procs, Access(p)
  PROVE  PInv'
<1> USE PagingConstants
<1>1. PICK g \in Pages, v \in Inputs \cup {None} :
         Owner[g] = p /\ pte[g].frame # None /\ Touch(g, v)
  BY DEF Access
<1>2. at[p].pc = "user" /\ UNCHANGED <<spt, ft, pool, file, swap, slots, lock, at, kind>>
  BY DEF Access, On, Fine
<1>3. pte' \in [Pages -> [frame : Frames \cup {None}, acc : BOOLEAN, dirty : BOOLEAN]]
  BY <1>1, TouchTypes DEF PInv
<1>31. mem' \in [Frames -> Values] /\ want' \in [Pages -> Values] /\ torn' \subseteq Pages
  BY <1>1, TouchTypes DEF PInv
<1>32. \A h \in Pages : pte'[h].frame = pte[h].frame
  BY <1>1, TouchTypes DEF PInv
<1>33. TypeOK'
  BY <1>2, <1>3, <1>31 DEF PInv, TypeOK
<1>4. AtType' /\ Alone(p)
  BY <1>2 DEF PInv, AtType, Alone
<1>5. TablesStay
  BY <1>2, <1>32 DEF TablesStay
<1>6. PointOK(p)'
  <2>1. Spares(p)
    BY <1>2, <1>5, Known DEF Spares, TablesStay, Locals
  <2> QED
    BY <2>1, PointStays
<1> QED
  BY <1>2, <1>33, <1>4, <1>5, <1>6, QuietStep DEF LockMove, Busy, Ends, DropPcs

\* load_page and grow_stack up to frame_alloc: what becomes of the entry.
Brought(g) ==
  /\ spt' \in [Pages -> PageState]
  /\ \A h \in Pages \ {g} : spt'[h] = spt[h]
  /\ spt'[g].present = spt[g].present /\ spt'[g].slot = spt[g].slot
  /\ spt[g].present => spt'[g].type = spt[g].type /\ spt'[g].loaded = spt[g].loaded
  /\ spt'[g].locked
  /\ spt[g].present => ~ spt'[g].loaded
  /\ ~ spt[g].present => spt'[g].type = "SWAP" /\ kind[g] = "stack"

\* load_page locks the entry of a page that is not in memory.
LEMMA LocksEntry ==
  ASSUME PInv, NEW g \in Pages, spt' = [spt EXCEPT ![g].locked = TRUE],
         spt[g].present, ~ spt[g].loaded
  PROVE  Brought(g)
<1>1. spt \in [Pages -> PageState]
  BY DEF PInv, TypeOK
<1>2. spt' \in [Pages -> PageState]
  BY <1>1 DEF PageState
<1>3. \A h \in Pages \ {g} : spt'[h] = spt[h]
  BY <1>1
<1>4. /\ spt'[g].locked
      /\ spt'[g].present = spt[g].present /\ spt'[g].slot = spt[g].slot
      /\ spt'[g].type = spt[g].type /\ spt'[g].loaded = spt[g].loaded
  BY <1>1 DEF PageState
<1> QED
  BY <1>2, <1>3, <1>4 DEF Brought

\* grow_stack makes an entry, which is not in the table yet.
LEMMA MakesEntry ==
  ASSUME PInv, NEW g \in Pages, ~ spt[g].present, kind[g] = "stack",
         spt' = [spt EXCEPT ![g] = [Absent EXCEPT !.type = "SWAP", !.loaded = TRUE,
                                                  !.locked = TRUE]]
  PROVE  Brought(g)
<1>1. spt \in [Pages -> PageState] /\ spt[g].slot = None /\ spt[g].present = FALSE
  BY DEF PInv, TypeOK, PageState, SlotInv, SlotOwned
<1>2. spt' \in [Pages -> PageState]
  BY <1>1 DEF PageState, Absent
<1>3. /\ \A h \in Pages \ {g} : spt'[h] = spt[h]
      /\ spt'[g] = [Absent EXCEPT !.type = "SWAP", !.loaded = TRUE, !.locked = TRUE]
  BY <1>1
<1> QED
  BY <1>1, <1>2, <1>3 DEF Brought, Absent

\* A page that is not in memory, and that its owner is not filling, is not in
\* the frame table.
LEMMA NotInTable ==
  ASSUME PInv, NEW g \in Pages, at[Owner[g]].pc # "fill", ~ (spt[g].present /\ spt[g].loaded),
         NEW f \in Frames
  PROVE  ft[f] # g
BY PagingConstants DEF PInv, FrameInv, TableOK, Fills

\* Either of the two.
LEMMA Brings ==
  ASSUME PInv, NEW p \in Procs, NEW g \in Pages, NEW then \in {"fault", "buf"},
         Bring(p, g, then)
  PROVE  /\ Brought(g) /\ ~ (spt[g].present /\ spt[g].loaded)
         /\ at' = [at EXCEPT ![p].pc = "get", ![p].page = g, ![p].then = then]
<1>1. CASE spt[g].present /\ ~ spt[g].loaded /\ BeginLoad(p, g, then)
  BY <1>1, LocksEntry DEF BeginLoad
<1>2. CASE ~ spt[g].present /\ kind[g] = "stack" /\ BeginGrow(p, g, then)
  BY <1>2, MakesEntry DEF BeginGrow
<1> QED
  BY <1>1, <1>2 DEF Bring

\* A process that begins to load a page of its own.
LEMMA BeginsToLoad ==
  ASSUME PInv, NEW p \in Procs, NEW g \in Pages, Owner[g] = p, Brought(g),
         ~ (spt[g].present /\ spt[g].loaded),
         at[p].pc \notin EvictPcs, at[p].pc \notin Busy, kind' = kind,
         AtType', \A q \in Procs \ {p} : at'[q] = at[q], lock'["ft"] = lock["ft"],
         at'[p].pc = "get", at'[p].page = g, at'[p].then \in {"fault", "boot", "args", "buf"},
         Locals(p)', UNCHANGED <<pte, ft, pool, slots>>
  PROVE  Alone(p) /\ TablesStay /\ LockMove(p) /\ PointOK(p)'
<1> USE PagingConstants
<1>1. Alone(p) /\ TablesStay /\ LockMove(p)
  BY DEF Alone, TablesStay, LockMove, Brought
<1>2. LockedBy(p)'
  BY Known DEF LockedBy, EvictPcs
<1>3. Loading(p)'
  BY NotInTable DEF Loading, LoadPcs, Busy, Brought
<1>4. Evicting(p)' /\ Dropping(p)'
  BY DEF Evicting, Dropping, DropPcs
<1> QED
  BY <1>1, <1>2, <1>3, <1>4 DEF PointOK

\* A page fault of user code begins to load a page.
LEMMA PageFaultKeeps ==
  ASSUME PInv, NEW p \in Procs, PageFault(p)
  PROVE  PInv'
<1> USE PagingConstants
<1>1. PICK g \in Pages : Owner[g] = p /\ pte[g].frame = None /\ Bring(p, g, "fault")
  BY DEF PageFault
<1>2. at[p].pc = "user" /\ UNCHANGED <<pte, ft, pool, mem, file, swap, slots, lock, want, torn, kind>>
  BY DEF PageFault, On, Fine, stores, history
<1>3. /\ Brought(g) /\ ~ (spt[g].present /\ spt[g].loaded)
      /\ at' = [at EXCEPT ![p].pc = "get", ![p].page = g, ![p].then = "fault"]
  BY <1>1, Brings
<1>4. TypeOK'
  BY <1>2, <1>3 DEF PInv, TypeOK, Brought
<1>5. AtType'
  <2>1. at[p] \in Point
    BY Known
  <2>2. [at[p] EXCEPT !.pc = "get", !.page = g, !.then = "fault"] \in Point
    BY <2>1 DEF Point, Pcs, LoadPcs
  <2>3. at' = [at EXCEPT ![p] = [at[p] EXCEPT !.pc = "get", !.page = g, !.then = "fault"]]
    BY <1>3 DEF PInv, AtType, Point
  <2> QED
    BY <2>2, <2>3 DEF PInv, AtType
<1>6. \A q \in Procs \ {p} : at'[q] = at[q]
  BY <1>3 DEF PInv, AtType
<1>7. at'[p].pc = "get" /\ at'[p].page = g /\ at'[p].then = "fault" /\ at'[p].op = at[p].op
  BY <1>3 DEF PInv, AtType, Point
<1>8. Locals(p)'
  BY <1>1, <1>7 DEF Locals, InCall, CallPcs, LoadPcs, EvictPcs, DropPcs
<1>9. Alone(p) /\ TablesStay /\ LockMove(p) /\ PointOK(p)'
  BY <1>1, <1>2, <1>3, <1>5, <1>6, <1>7, <1>8, BeginsToLoad DEF Busy, EvictPcs
<1> QED
  BY <1>2, <1>4, <1>5, <1>7, <1>9, QuietStep DEF Busy, Ends, DropPcs
\* A system call is about a page of its caller.
LEMMA CallTypes ==
  ASSUME NEW c \in Calls
  PROVE  /\ c[1] \in Procs /\ c[2] \in {"read", "write", "exec", "mmap", "munmap"}
         /\ c[3] \in Pages /\ Owner[c[3]] = c[1]
BY PagingAssumption

\* The program points between system calls.
LEMMA AtPoint ==
  /\ At("user") \in Point /\ At("dead") \in Point
  /\ [At("exit") EXCEPT !.op = "exit"] \in Point
BY DEF At, Point, Pcs

\* Entries of p's pages are locked or unlocked, and nothing else.
Relocked(p) ==
  /\ spt' \in [Pages -> PageState]
  /\ \A g \in Pages : Owner[g] # p => spt'[g] = spt[g]
  /\ \A g \in Pages : /\ spt'[g].present = spt[g].present /\ spt'[g].type = spt[g].type
                      /\ spt'[g].loaded = spt[g].loaded /\ spt'[g].slot = spt[g].slot

\* One entry is locked or unlocked.
LEMMA Relocks ==
  ASSUME PInv, NEW p \in Procs, NEW g \in Pages, Owner[g] = p, NEW b \in BOOLEAN,
         spt' = [spt EXCEPT ![g].locked = b]
  PROVE  Relocked(p)
<1>1. spt \in [Pages -> PageState]
  BY DEF PInv, TypeOK
<1>2. spt' \in [Pages -> PageState]
  BY <1>1 DEF PageState
<1>3. \A h \in Pages \ {g} : spt'[h] = spt[h]
  BY <1>1
<1>4. /\ spt'[g].present = spt[g].present /\ spt'[g].slot = spt[g].slot
      /\ spt'[g].type = spt[g].type /\ spt'[g].loaded = spt[g].loaded
  BY <1>1 DEF PageState
<1> QED
  BY <1>2, <1>3, <1>4 DEF Relocked

\* No entry is.
LEMMA NoneRelocked ==
  ASSUME PInv, NEW p \in Procs, spt' = spt
  PROVE  Relocked(p)
BY DEF PInv, TypeOK, Relocked

\* The frames, slots and contents stay; a page may be touched.
Touched ==
  /\ pte' \in [Pages -> [frame : Frames \cup {None}, acc : BOOLEAN, dirty : BOOLEAN]]
  /\ mem' \in [Frames -> Values] /\ want' \in [Pages -> Values] /\ torn' \subseteq Pages
  /\ \A h \in Pages : pte'[h].frame = pte[h].frame

\* No page is touched.
LEMMA NoneTouched ==
  ASSUME PInv, UNCHANGED <<pte, mem, want, torn>>
  PROVE  Touched
BY DEF PInv, TypeOK, Touched

\* A step of p to a program point at which it holds nothing of the tables.
LEMMA CalmStep ==
  ASSUME PInv, NEW p \in Procs,
         NEW x \in Point, at' = [at EXCEPT ![p] = x],
         at[p].pc \notin EvictPcs \cup Busy,
         x.pc \notin LoadPcs \cup DropPcs \cup {"unborn"},
         Locals(p)', Ends(p) => Ends(p)',
         Relocked(p), Touched, kind' = kind, ft' = ft, pool' = pool, slots' = slots,
         file' = file, swap' = swap,
         lock'["ft"] = lock["ft"], lock' \in [{"ft", "fs"} -> Procs \cup {None}]
  PROVE  PInv'
<1> USE PagingConstants
<1>1. AtType' /\ at'[p] = x /\ \A q \in Procs \ {p} : at'[q] = at[q]
  BY DEF PInv, AtType
<1>2. TypeOK'
  BY DEF PInv, TypeOK, Relocked, Touched
<1>3. Alone(p) /\ TablesStay /\ LockMove(p)
  BY <1>1 DEF Alone, TablesStay, LockMove, Relocked, Touched
<1>4. PointOK(p)'
  <2>1. LockedBy(p)'
    BY <1>1, Known DEF LockedBy, LoadPcs
  <2>2. Loading(p)' /\ Evicting(p)' /\ Dropping(p)'
    BY <1>1 DEF Loading, Evicting, Dropping, LoadPcs, EvictPcs
  <2> QED
    BY <2>1, <2>2 DEF PointOK
<1> QED
  BY <1>1, <1>2, <1>3, <1>4, QuietStep DEF Busy, EvictPcs, LoadPcs

\* p leaves user mode or a system call for process_exit, or goes back.
LEMMA EndStep ==
  ASSUME PInv, NEW p \in Procs,
         NEW x \in {At("user"), [At("exit") EXCEPT !.op = "exit"]}, at' = [at EXCEPT ![p] = x],
         at[p].pc \in {"user", "refuse"} \cup CallPcs,
         Relocked(p), Touched, kind' = kind, ft' = ft, pool' = pool, slots' = slots,
         file' = file, swap' = swap,
         lock'["ft"] = lock["ft"], lock' \in [{"ft", "fs"} -> Procs \cup {None}]
  PROVE  PInv'
<1>1. x \in Point /\ x.pc \in {"user", "exit"} /\ (x.pc = "exit" => x.op = "exit")
  BY AtPoint DEF At
<1>2. at'[p] = x
  BY DEF PInv, AtType
<1>3. Locals(p)'
  BY <1>1, <1>2 DEF Locals, InCall, CallPcs, LoadPcs, EvictPcs, DropPcs
<1>4. ~ Ends(p)
  BY DEF Ends, CallPcs, DropPcs
<1> QED
  BY <1>1, <1>3, <1>4, CalmStep DEF CallPcs, EvictPcs, LoadPcs, DropPcs, Busy

\* sys_exit, or the process is killed.
LEMMA ExitKeeps ==
  ASSUME PInv, NEW p \in Procs, Exit(p)
  PROVE  PInv'
<1>1. /\ at[p].pc = "user" /\ at' = [at EXCEPT ![p] = [At("exit") EXCEPT !.op = "exit"]]
      /\ UNCHANGED <<kind, spt, pte, ft, pool, mem, file, swap, slots, lock, want, torn>>
  BY DEF Exit, On, Fine, tables, stores, history
<1>2. Relocked(p) /\ Touched
  BY <1>1, NoneRelocked, NoneTouched
<1> QED
  BY <1>1, <1>2, EndStep DEF PInv, TypeOK

\* verify_user failed: the lock is released and the process exits.
LEMMA RefuseKeeps ==
  ASSUME PInv, NEW p \in Procs, Refuse(p)
  PROVE  PInv'
<1>1. /\ at[p].pc = "refuse" /\ at' = [at EXCEPT ![p] = [At("exit") EXCEPT !.op = "exit"]]
      /\ lock' = [lock EXCEPT !["fs"] = None]
      /\ UNCHANGED <<kind, spt, pte, ft, pool, mem, file, swap, slots, want, torn>>
  BY DEF Refuse, On, Fine, Release, tables, stores, history
<1>2. Relocked(p) /\ Touched
  BY <1>1, NoneRelocked, NoneTouched
<1>3. lock'["ft"] = lock["ft"] /\ lock' \in [{"ft", "fs"} -> Procs \cup {None}]
  BY <1>1 DEF PInv, TypeOK
<1> QED
  BY <1>1, <1>2, <1>3, EndStep

\* The page of esp is unlocked when the system call returns.
LEMMA Unpins ==
  ASSUME PInv, NEW p \in Procs, InCall(p), Unpin(p)
  PROVE  Relocked(p)
<1>1. at[p].esp \in Pages /\ Owner[at[p].esp] = p
  BY Known DEF Locals
<1> QED
  BY <1>1, Relocks DEF Unpin

\* sys_exec returns.
LEMMA ExecReturnsKeeps ==
  ASSUME PInv, NEW p \in Procs, ExecReturns(p)
  PROVE  PInv'
<1>1. /\ at[p].pc = "load_done" /\ at' = [at EXCEPT ![p] = At("user")]
      /\ lock' = [lock EXCEPT !["fs"] = None] /\ Unpin(p)
      /\ UNCHANGED <<kind, pte, ft, pool, mem, file, swap, slots, want, torn>>
  BY DEF ExecReturns, On, Fine, Release, stores, history
<1>2. Relocked(p) /\ Touched
  BY <1>1, Unpins, NoneTouched DEF InCall, CallPcs
<1>3. lock'["ft"] = lock["ft"] /\ lock' \in [{"ft", "fs"} -> Procs \cup {None}]
  BY <1>1 DEF PInv, TypeOK
<1> QED
  BY <1>1, <1>2, <1>3, EndStep DEF CallPcs

\* The buffer of sys_read or sys_write is touched and the call returns.
LEMMA CopyKeeps ==
  ASSUME PInv, NEW p \in Procs, Copy(p)
  PROVE  PInv'
<1> USE PagingConstants
<1> DEFINE b == at[p].buf
<1>1. /\ at[p].pc = "copy" /\ at' = [at EXCEPT ![p] = At("user")]
      /\ lock' = [lock EXCEPT !["fs"] = None] /\ Unpin(p)
      /\ UNCHANGED <<kind, ft, pool, file, swap, slots>>
      /\ \E v \in Inputs \cup {None} : Touch(b, v)
  BY DEF Copy, On, Fine, Release
<1>2. Relocked(p)
  BY <1>1, Unpins DEF InCall, CallPcs
<1>3. Touched
  <2>1. b \in Pages
    BY <1>1, Known DEF Locals, InCall, CallPcs
  <2> QED
    BY <1>1, <2>1, TouchTypes DEF Touched, PInv
<1>4. lock'["ft"] = lock["ft"] /\ lock' \in [{"ft", "fs"} -> Procs \cup {None}]
  BY <1>1 DEF PInv, TypeOK
<1> QED
  BY <1>1, <1>2, <1>3, <1>4, EndStep DEF CallPcs

\* The arguments are read, or the process exits.
LEMMA CopyInKeeps ==
  ASSUME PInv, NEW p \in Procs, CopyIn(p)
  PROVE  PInv'
<1> USE PagingConstants
<1>1. at[p].pc = "args" /\ UNCHANGED <<kind, spt, ft, pool, file, swap, slots, lock>>
  BY DEF CopyIn, On, Fine
<1>2. Relocked(p) /\ lock' \in [{"ft", "fs"} -> Procs \cup {None}]
  BY <1>1, NoneRelocked DEF PInv, TypeOK
<1>3. CASE pte[at[p].esp].frame # None
  <2>1. Touch(at[p].esp, None) /\ at' = [at EXCEPT ![p].pc = "call"]
    BY <1>3 DEF CopyIn
  <2>2. Touched
    <3>1. at[p].esp \in Pages
      BY <1>1, Known DEF Locals, InCall, CallPcs
    <3> QED
      BY <2>1, <3>1, TouchTypes DEF Touched, PInv
  <2> DEFINE x == [at[p] EXCEPT !.pc = "call"]
  <2>3. x \in Point /\ at' = [at EXCEPT ![p] = x]
    <3>1. at[p] \in Point
      BY Known
    <3> QED
      BY <2>1, <3>1 DEF Point, Pcs, CallPcs
  <2>4. /\ at'[p].pc = "call" /\ at'[p].op = at[p].op /\ at'[p].esp = at[p].esp
        /\ at'[p].buf = at[p].buf
    BY <2>1 DEF PInv, AtType, Point
  <2>5. Locals(p)'
    BY <1>1, <2>4, Known DEF Locals, InCall, CallPcs, LoadPcs, EvictPcs, DropPcs
  <2>6. ~ Ends(p)
    BY <1>1 DEF Ends, DropPcs
  <2>7. x.pc = "call"
    BY Known DEF Point
  <2> HIDE DEF x
  <2> QED
    BY <1>1, <1>2, <2>2, <2>3, <2>5, <2>6, <2>7, CalmStep DEF EvictPcs, LoadPcs, DropPcs, Busy
<1>4. CASE pte[at[p].esp].frame = None
  <2>1. /\ at' = [at EXCEPT ![p] = [At("exit") EXCEPT !.op = "exit"]]
        /\ UNCHANGED <<pte, mem, want, torn>>
    BY <1>4 DEF CopyIn
  <2>2. Touched
    BY <2>1, NoneTouched
  <2> QED
    BY <1>1, <1>2, <2>1, <2>2, EndStep DEF CallPcs
<1> QED
  BY <1>3, <1>4

\* A system call that begins, or goes on without having to load a page.
LEMMA CallStep ==
  ASSUME PInv, NEW p \in Procs, NEW x \in Point, at' = [at EXCEPT ![p] = x],
         at[p].pc \in {"user"} \cup CallPcs, x.pc \in {"args", "call", "copy", "refuse"},
         Locals(p)', Relocked(p),
         UNCHANGED <<kind, pte, ft, pool, mem, want, torn, slots, file, swap>>,
         lock'["ft"] = lock["ft"], lock' \in [{"ft", "fs"} -> Procs \cup {None}]
  PROVE  PInv'
<1>1. Touched
  BY NoneTouched
<1>2. ~ Ends(p)
  BY DEF Ends, CallPcs, DropPcs
<1> QED
  BY <1>1, <1>2, CalmStep DEF CallPcs, EvictPcs, LoadPcs, DropPcs, Busy

\* A system call that has to bring the page in first.
LEMMA LoadStep ==
  ASSUME PInv, NEW p \in Procs, NEW g \in Pages, Owner[g] = p, Brought(g),
         ~ (spt[g].present /\ spt[g].loaded),
         NEW x \in Point, at' = [at EXCEPT ![p] = x],
         at[p].pc \in {"user"} \cup CallPcs, x.pc = "get", x.page = g,
         x.then \in {"fault", "boot", "args", "buf"}, Locals(p)',
         UNCHANGED <<kind, pte, ft, pool, mem, want, torn, slots, file, swap>>,
         lock'["ft"] = lock["ft"], lock' \in [{"ft", "fs"} -> Procs \cup {None}]
  PROVE  PInv'
<1>1. AtType' /\ at'[p] = x /\ \A q \in Procs \ {p} : at'[q] = at[q]
  BY DEF PInv, AtType
<1>2. TypeOK'
  BY DEF PInv, TypeOK, Brought
<1>3. at[p].pc \notin EvictPcs /\ at[p].pc \notin Busy /\ at[p].pc # "unload" /\ ~ Ends(p)
  BY DEF CallPcs, EvictPcs, Busy, Ends, DropPcs
<1>4. Alone(p) /\ TablesStay /\ LockMove(p) /\ PointOK(p)'
  BY <1>1, <1>3, BeginsToLoad
<1> QED
  BY <1>1, <1>2, <1>3, <1>4, QuietStep DEF Busy

\* A system call begins: the page of esp is locked, and loaded first if it
\* is out.
LEMMA SyscallKeeps ==
  ASSUME PInv, NEW p \in Procs, Syscall(p)
  PROVE  PInv'
<1> USE PagingConstants
<1>1. PICK g \in Pages, c \in Calls :
          /\ Owner[g] = p /\ kind[g] = "stack" /\ c[1] = p
          /\ c[2] \in {"mmap", "munmap"} => kind[c[3]] = "mmap"
          /\ LET s == [at[p] EXCEPT !.op = c[2], !.esp = g, !.buf = c[3]] IN
             IF spt[g].present /\ spt[g].loaded
             THEN /\ spt' = [spt EXCEPT ![g].locked = TRUE]
                  /\ at' = [at EXCEPT ![p] = [s EXCEPT !.pc = "args"]]
             ELSE LET t == [s EXCEPT !.pc = "get", !.page = g, !.then = "args"] IN
                  /\ at' = [at EXCEPT ![p] = t]
                  /\ spt' = [spt EXCEPT ![g] =
                               IF spt[g].present THEN [@ EXCEPT !.locked = TRUE]
                               ELSE [Absent EXCEPT !.type = "SWAP", !.loaded = TRUE,
                                                   !.locked = TRUE]]
  BY DEF Syscall
<1>2. /\ at[p].pc = "user"
      /\ UNCHANGED <<kind, pte, ft, pool, mem, want, torn, slots, file, swap, lock>>
  BY DEF Syscall, On, Fine, stores, history
<1>3. /\ c[2] \in {"read", "write", "exec", "mmap", "munmap"}
      /\ c[3] \in Pages /\ Owner[c[3]] = p
  BY <1>1, CallTypes
<1>4. lock' \in [{"ft", "fs"} -> Procs \cup {None}]
  BY <1>2 DEF PInv, TypeOK
<1> DEFINE s == [at[p] EXCEPT !.op = c[2], !.esp = g, !.buf = c[3]]
<1>5. at[p] \in Point
  BY Known
<1>6. s \in Point /\ s.op = c[2] /\ s.esp = g /\ s.buf = c[3]
  BY <1>3, <1>5 DEF Point
<1>7. CASE spt[g].present /\ spt[g].loaded
  <2> DEFINE x == [s EXCEPT !.pc = "args"]
  <2>1. at' = [at EXCEPT ![p] = x] /\ spt' = [spt EXCEPT ![g].locked = TRUE]
    BY <1>1, <1>7
  <2> HIDE DEF s
  <2>2. x \in Point /\ x.pc = "args" /\ x.op = c[2] /\ x.esp = g /\ x.buf = c[3]
    BY <1>6 DEF Point, Pcs, CallPcs
  <2> HIDE DEF x
  <2>3. at'[p] = x
    BY <2>1 DEF PInv, AtType
  <2>4. Locals(p)'
    BY <1>1, <1>2, <1>3, <2>2, <2>3 DEF Locals, InCall, CallPcs, LoadPcs, EvictPcs, DropPcs
  <2>5. Relocked(p)
    BY <1>1, <2>1, Relocks
  <2> QED
    BY <1>2, <1>4, <2>1, <2>2, <2>4, <2>5, CallStep
<1>8. CASE ~ (spt[g].present /\ spt[g].loaded)
  <2> DEFINE x == [s EXCEPT !.pc = "get", !.page = g, !.then = "args"]
  <2>1. /\ at' = [at EXCEPT ![p] = x]
        /\ spt' = [spt EXCEPT ![g] = IF spt[g].present THEN [@ EXCEPT !.locked = TRUE]
                                     ELSE [Absent EXCEPT !.type = "SWAP", !.loaded = TRUE,
                                                         !.locked = TRUE]]
    BY <1>1, <1>8
  <2> HIDE DEF s
  <2>2. /\ x \in Point /\ x.pc = "get" /\ x.page = g /\ x.then = "args"
        /\ x.op = c[2] /\ x.esp = g /\ x.buf = c[3]
    BY <1>6 DEF Point, Pcs, LoadPcs
  <2> HIDE DEF x
  <2>3. at'[p] = x
    BY <2>1 DEF PInv, AtType
  <2>4. Locals(p)'
    BY <1>1, <1>2, <1>3, <2>2, <2>3 DEF Locals, InCall, CallPcs, LoadPcs, EvictPcs, DropPcs
  <2>5. Brought(g)
    <3>1. CASE spt[g].present
      BY <1>8, <2>1, <3>1, LocksEntry
    <3>2. CASE ~ spt[g].present
      BY <1>1, <2>1, <3>2, MakesEntry
    <3> QED
      BY <3>1, <3>2
  <2> QED
    BY <1>1, <1>2, <1>4, <1>8, <2>1, <2>2, <2>4, <2>5, LoadStep
<1> QED
  BY <1>7, <1>8

\* verify_user takes fs_lock, and loads the page of the buffer if it is out.
LEMMA VerifyKeeps ==
  ASSUME PInv, NEW p \in Procs, Verify(p)
  PROVE  PInv'
<1> USE PagingConstants
<1> DEFINE b == at[p].buf
<1>1. /\ at[p].pc = "call" /\ at[p].op \in {"read", "write"}
      /\ lock' = [lock EXCEPT !["fs"] = p]
      /\ UNCHANGED <<kind, pte, ft, pool, mem, want, torn, slots, file, swap>>
  BY DEF Verify, On, Fine, Take, stores, history
<1>2. lock'["ft"] = lock["ft"] /\ lock' \in [{"ft", "fs"} -> Procs \cup {None}]
  BY <1>1 DEF PInv, TypeOK
<1>3. at[p] \in Point /\ Locals(p)
  BY Known
<1>4. b \in Pages /\ Owner[b] = p
  BY <1>1, <1>3 DEF Locals, InCall, CallPcs
<1>5. ASSUME NEW to \in {"copy", "refuse"}, at' = [at EXCEPT ![p].pc = to], spt' = spt
      PROVE  PInv'
  <2> DEFINE x == [at[p] EXCEPT !.pc = to]
  <2>1. at' = [at EXCEPT ![p] = x]
    BY <1>5
  <2>2. /\ x \in Point /\ x.pc = to /\ x.op = at[p].op /\ x.esp = at[p].esp
        /\ x.buf = at[p].buf
    BY <1>3 DEF Point, Pcs, CallPcs
  <2> HIDE DEF x
  <2>3. at'[p] = x
    BY <2>1 DEF PInv, AtType
  <2>4. Locals(p)'
    BY <1>1, <1>3, <2>2, <2>3 DEF Locals, InCall, CallPcs, LoadPcs, EvictPcs, DropPcs
  <2>5. Relocked(p)
    BY <1>5, NoneRelocked
  <2> QED
    BY <1>1, <1>2, <2>1, <2>2, <2>4, <2>5, CallStep DEF CallPcs
<1>6. CASE Bring(p, b, "buf")
  <2> DEFINE x == [at[p] EXCEPT !.pc = "get", !.page = b, !.then = "buf"]
  <2>1. /\ Brought(b) /\ ~ (spt[b].present /\ spt[b].loaded)
        /\ at' = [at EXCEPT ![p].pc = "get", ![p].page = b, ![p].then = "buf"]
    BY <1>4, <1>6, Brings
  <2>2. at' = [at EXCEPT ![p] = x]
    BY <2>1 DEF PInv, AtType
  <2>3. /\ x \in Point /\ x.pc = "get" /\ x.page = b /\ x.then = "buf"
        /\ x.op = at[p].op /\ x.esp = at[p].esp /\ x.buf = b
    BY <1>3, <1>4 DEF Point, Pcs, LoadPcs
  <2> HIDE DEF x
  <2>4. at'[p] = x
    BY <2>2 DEF PInv, AtType
  <2>5. Locals(p)'
    BY <1>1, <1>3, <1>4, <2>3, <2>4 DEF Locals, InCall, CallPcs, LoadPcs, EvictPcs, DropPcs
  <2> QED
    <3>1. /\ at[p].pc \in {"user"} \cup CallPcs /\ x.then \in {"fault", "boot", "args", "buf"}
          /\ UNCHANGED <<kind, pte, ft, pool, mem, want, torn, slots, file, swap>>
      BY <1>1, <2>3 DEF CallPcs
    <3> QED
      BY ONLY PInv, p \in Procs, <1>2, <1>4, <2>1, <2>2, <2>3, <2>5, <3>1, LoadStep
<1> QED
  BY <1>5, <1>6 DEF Verify

\* sys_munmap begins to give up the page.
LEMMA MunmapKeeps ==
  ASSUME PInv, NEW p \in Procs, Munmap(p)
  PROVE  PInv'
<1>1. /\ at[p].pc = "call" /\ at[p].op = "munmap" /\ at' = [at EXCEPT ![p].pc = "exit"]
      /\ UNCHANGED <<kind, spt, pte, ft, pool, mem, file, swap, slots, lock, want, torn>>
  BY DEF Munmap, On, Fine, tables, stores, history
<1>2. at[p] \in Point /\ Locals(p)
  BY Known
<1> DEFINE x == [at[p] EXCEPT !.pc = "exit"]
<1>3. at' = [at EXCEPT ![p] = x]
  BY <1>1
<1>4. x \in Point /\ x.pc = "exit" /\ x.op = "munmap" /\ x.esp = at[p].esp /\ x.buf = at[p].buf
  BY <1>1, <1>2 DEF Point, Pcs
<1> HIDE DEF x
<1>5. at'[p] = x
  BY <1>3 DEF PInv, AtType
<1>6. Locals(p)'
  BY <1>1, <1>2, <1>4, <1>5 DEF Locals, InCall, CallPcs, LoadPcs, EvictPcs, DropPcs
<1>7. Relocked(p) /\ Touched
  BY <1>1, NoneRelocked, NoneTouched
<1>8. ~ Ends(p) /\ lock' \in [{"ft", "fs"} -> Procs \cup {None}]
  BY <1>1 DEF Ends, DropPcs, PInv, TypeOK
<1> QED
  BY <1>1, <1>3, <1>4, <1>6, <1>7, <1>8, CalmStep
     DEF EvictPcs, LoadPcs, DropPcs, Busy

----------------------------------------------------------------------------
\* The steps of munmap and process_exit that leave the tables alone.

\* munmap writes a dirty page to its file.
LEMMA SaveKeeps ==
  ASSUME PInv, NEW p \in Procs, Save(p)
  PROVE  PInv'
<1> USE PagingConstants
<1> DEFINE g == at[p].page
<1>1. /\ at[p].pc = "save" /\ (pte[g].dirty => pte[g].frame # None)
      /\ file' = IF pte[g].dirty THEN [file EXCEPT ![g] = mem[pte[g].frame]] ELSE file
      /\ at' = [at EXCEPT ![p].pc = "lookup"]
      /\ UNCHANGED <<kind, spt, pte, ft, pool, mem, swap, slots, lock, want, torn>>
  BY DEF Save, On, Fine, tables, history
<1>2. at[p] \in Point /\ Locals(p) /\ LockedBy(p) /\ Dropping(p)
  BY Known
<1>3. TypeOK'
  <2>1. g \in Pages
    BY <1>1, <1>2 DEF Locals, DropPcs
  <2>2. file' \in [Pages -> Values]
    BY <1>1, <2>1 DEF PInv, TypeOK
  <2> QED
    BY <1>1, <2>2 DEF PInv, TypeOK
<1> DEFINE x == [at[p] EXCEPT !.pc = "lookup"]
<1>4. at' = [at EXCEPT ![p] = x]
  BY <1>1
<1>5. /\ x \in Point /\ x.pc = "lookup" /\ x.page = g /\ x.op = at[p].op
      /\ x.esp = at[p].esp /\ x.buf = at[p].buf
  BY <1>1, <1>2 DEF Point, Pcs, DropPcs
<1> HIDE DEF x
<1>6. at'[p] = x /\ \A q \in Procs \ {p} : at'[q] = at[q]
  BY <1>4 DEF PInv, AtType
<1>7. AtType' /\ Alone(p) /\ TablesStay /\ LockMove(p)
  BY <1>1, <1>4, <1>5, <1>6 DEF PInv, AtType, Alone, TablesStay, LockMove
<1>8. Locals(p)'
  BY <1>1, <1>2, <1>5, <1>6 DEF Locals, InCall, CallPcs, LoadPcs, EvictPcs, DropPcs
<1>9. LockedBy(p)' /\ Loading(p)' /\ Evicting(p)' /\ Dropping(p)'
  BY <1>1, <1>2, <1>5, <1>6 DEF LockedBy, Loading, Evicting, Dropping, LoadPcs, EvictPcs, DropPcs
<1> QED
  BY <1>1, <1>3, <1>5, <1>6, <1>7, <1>8, <1>9, QuietStep DEF PointOK, Busy, Ends, DropPcs

\* The frame of the page to free is looked up: it stays the page's, or the
\* page loses it.
LEMMA LookupKeeps ==
  ASSUME PInv, NEW p \in Procs, Lookup(p)
  PROVE  PInv'
<1> USE PagingConstants
<1> DEFINE g == at[p].page
<1>1. /\ at[p].pc = "lookup"
      /\ at' = [at EXCEPT ![p].pc = "free", ![p].frame = pte[g].frame]
      /\ UNCHANGED <<kind, spt, pte, ft, pool, mem, file, swap, slots, lock, want, torn>>
  BY DEF Lookup, On, Fine, tables, stores, history
<1>2. at[p] \in Point /\ Locals(p) /\ LockedBy(p) /\ Dropping(p)
  BY Known
<1>3. TypeOK'
  BY <1>1 DEF PInv, TypeOK
<1>4. g \in Pages /\ pte[g].frame \in Frames \cup {None}
  BY <1>1, <1>2 DEF Locals, DropPcs, PInv, TypeOK
<1> DEFINE x == [at[p] EXCEPT !.pc = "free", !.frame = pte[g].frame]
<1>5. at' = [at EXCEPT ![p] = x]
  BY <1>1 DEF PInv, AtType
<1>6. /\ x \in Point /\ x.pc = "free" /\ x.page = g /\ x.frame = pte[g].frame
      /\ x.op = at[p].op /\ x.esp = at[p].esp /\ x.buf = at[p].buf
  BY <1>1, <1>2, <1>4 DEF Point, Pcs, DropPcs
<1> HIDE DEF x
<1>7. at'[p] = x /\ \A q \in Procs \ {p} : at'[q] = at[q]
  BY <1>5 DEF PInv, AtType
<1>8. AtType' /\ Alone(p) /\ TablesStay /\ LockMove(p)
  BY <1>1, <1>5, <1>6, <1>7 DEF PInv, AtType, Alone, TablesStay, LockMove
<1>9. Locals(p)'
  BY <1>1, <1>2, <1>6, <1>7 DEF Locals, InCall, CallPcs, LoadPcs, EvictPcs, DropPcs
<1>10. LockedBy(p)' /\ Loading(p)' /\ Evicting(p)' /\ Dropping(p)'
  BY <1>1, <1>2, <1>6, <1>7 DEF LockedBy, Loading, Evicting, Dropping, LoadPcs, EvictPcs, DropPcs
<1> QED
  BY <1>1, <1>3, <1>6, <1>7, <1>8, <1>9, <1>10, QuietStep DEF PointOK, Busy, Ends, DropPcs

\* No page is left to give up.
LEMMA DroppedKeeps ==
  ASSUME PInv, NEW p \in Procs, Dropped(p)
  PROVE  PInv'
<1>1. /\ at[p].pc = "exit"
      /\ UNCHANGED <<kind, pte, ft, pool, mem, file, swap, slots, lock, want, torn>>
  BY DEF Dropped, On, Fine, stores, history
<1>2. Touched /\ lock' \in [{"ft", "fs"} -> Procs \cup {None}]
  BY <1>1, NoneTouched DEF PInv, TypeOK
<1>3. ASSUME NEW x \in {At("user"), At("dead")}, at' = [at EXCEPT ![p] = x], Relocked(p),
             Ends(p) => x.pc = "dead"
      PROVE  PInv'
  <2>1. x \in Point /\ x.pc \in {"user", "dead"}
    BY AtPoint DEF At
  <2>2. at'[p] = x
    BY <1>3 DEF PInv, AtType
  <2>3. Locals(p)'
    BY <2>1, <2>2 DEF Locals, InCall, CallPcs, LoadPcs, EvictPcs, DropPcs
  <2>4. Ends(p) => Ends(p)'
    <3>1. x.pc = "dead" => Ends(p)'
      BY <2>2 DEF Ends
    <3> QED
      BY <1>3, <3>1
  <2> QED
    BY <1>1, <1>2, <1>3, <2>1, <2>3, <2>4, CalmStep DEF EvictPcs, LoadPcs, DropPcs, Busy
<1>4. CASE at[p].op = "munmap" /\ Unpin(p) /\ at' = [at EXCEPT ![p] = At("user")]
  <2>1. Relocked(p)
    BY <1>1, <1>4, Unpins DEF InCall
  <2>2. ~ Ends(p)
    BY <1>1, <1>4 DEF Ends
  <2> QED
    BY <1>3, <1>4, <2>1, <2>2
<1>5. CASE at[p].op = "exit" /\ spt' = spt /\ at' = [at EXCEPT ![p] = At("dead")]
  <2>1. Relocked(p) /\ At("dead").pc = "dead"
    BY <1>5, NoneRelocked DEF At
  <2> QED
    BY <1>3, <1>5, <2>1
<1> QED
  BY <1>4, <1>5 DEF Dropped

\* The page that munmap or process_exit gives up next.
LEMMA LeftPage ==
  ASSUME NEW p \in Procs, NEW g \in Left(p)
  PROVE  /\ g \in Pages /\ spt[g].present /\ Owner[g] = p
         /\ at[p].op = "munmap" => spt[g].type = "MMAP"
BY DEF Left

\* A page that is in memory is next.
LEMMA DropLoadedKeeps ==
  ASSUME PInv, NEW p \in Procs, NEW g \in Left(p), at[p].pc = "exit", HasFrame(g),
         spt' = [spt EXCEPT ![g].locked = @ \/ spt[g].type = "MMAP"],
         at' = [at EXCEPT ![p].pc = IF spt[g].type = "MMAP" THEN "save" ELSE "lookup",
                          ![p].page = g],
         UNCHANGED <<kind, pte, ft, pool, mem, file, swap, slots, lock, want, torn>>
  PROVE  PInv'
<1> USE PagingConstants
<1>1. at[p] \in Point /\ Locals(p) /\ LockedBy(p)
  BY Known
<1>2. /\ g \in Pages /\ spt[g].present /\ Owner[g] = p
      /\ at[p].op = "munmap" => spt[g].type = "MMAP"
  BY LeftPage
<1> DEFINE to == IF spt[g].type = "MMAP" THEN "save" ELSE "lookup"
           x == [at[p] EXCEPT !.pc = to, !.page = g]
<1>3. at' = [at EXCEPT ![p] = x]
  BY DEF PInv, AtType
<1>4. to \in {"save", "lookup"} /\ (to = "save" <=> spt[g].type = "MMAP")
  OBVIOUS
<1> HIDE DEF to
<1>5. /\ x \in Point /\ x.pc = to /\ x.page = g
      /\ x.op = at[p].op /\ x.esp = at[p].esp /\ x.buf = at[p].buf
  BY <1>1, <1>2, <1>4 DEF Point, Pcs, DropPcs
<1> HIDE DEF x
<1>6. at'[p] = x /\ \A q \in Procs \ {p} : at'[q] = at[q]
  BY <1>3 DEF PInv, AtType
<1>7. Relocked(p)
  <2>1. (spt[g].locked \/ spt[g].type = "MMAP") \in BOOLEAN
    OBVIOUS
  <2>2. spt' = [spt EXCEPT ![g].locked = (spt[g].locked \/ spt[g].type = "MMAP")]
    BY <1>2 DEF PInv, TypeOK, PageState
  <2> QED
    BY <1>2, <2>1, <2>2, Relocks
<1>8. TypeOK' /\ AtType'
  <2>1. TypeOK'
    BY <1>7 DEF PInv, TypeOK, Relocked
  <2>2. AtType'
    BY <1>3, <1>5 DEF PInv, AtType
  <2> QED
    BY <2>1, <2>2
<1>9. Alone(p) /\ TablesStay /\ LockMove(p)
  BY <1>6, <1>7 DEF Alone, TablesStay, LockMove, Relocked
<1>10. Locals(p)'
  BY ONLY <1>1, <1>2, <1>4, <1>5, <1>6, at[p].pc = "exit", kind' = kind
     DEF Locals, InCall, CallPcs, LoadPcs, EvictPcs, DropPcs
<1>11. Dropping(p)'
  BY <1>2, <1>4, <1>5, <1>6, <1>7 DEF Dropping, DropPcs, Relocked, PInv, TypesOK
<1>12. LockedBy(p)' /\ Loading(p)' /\ Evicting(p)'
  BY <1>1, <1>4, <1>5, <1>6 DEF LockedBy, Loading, Evicting, LoadPcs, EvictPcs
<1> QED
  BY <1>4, <1>5, <1>6, <1>8, <1>9, <1>10, <1>11, <1>12, QuietStep
     DEF PointOK, Busy, Ends, DropPcs

----------------------------------------------------------------------------
\* The steps of a process that waits for a frame that leave the tables alone.

\* p goes on loading the same page.
LEMMA LoaderStep ==
  ASSUME PInv, NEW p \in Procs, NEW x \in Point, at' = [at EXCEPT ![p] = x],
         at[p].pc \in {"get", "evict", "scan", "out", "reget"},
         x.pc \in {"evict", "scan", "out", "unload"},
         x.page = at[p].page, x.then = at[p].then, x.op = at[p].op, x.esp = at[p].esp,
         x.buf = at[p].buf, TypeOK', TablesStay, spt' = spt, kind' = kind, LockMove(p),
         x.pc \in EvictPcs <=> lock'["ft"] = p,
         x.pc \in {"out", "unload"} => x.victim \in Frames /\ x.vpage \in Pages,
         Evicting(p)'
  PROVE  PInv'
<1>1. at'[p] = x /\ \A q \in Procs \ {p} : at'[q] = at[q]
  BY DEF PInv, AtType
<1>2. AtType' /\ Alone(p)
  BY <1>1 DEF PInv, AtType, Alone
<1>3. Locals(p) /\ Loading(p)
  BY Known
<1>4. Locals(p)'
  BY <1>1, <1>3 DEF TablesStay, Locals, InCall, CallPcs, LoadPcs, EvictPcs, DropPcs
<1>5. LockedBy(p)' /\ Dropping(p)'
  BY <1>1 DEF LockedBy, Dropping, DropPcs
<1>6. Loading(p)'
  BY <1>1, <1>3 DEF Loading, LoadPcs, EvictPcs, TablesStay
<1> QED
  BY <1>1, <1>2, <1>4, <1>5, <1>6, QuietStep DEF PointOK, Busy, Ends, DropPcs

\* The pool is empty: frame_alloc goes to frame_evict.
LEMMA GetNoFrameKeeps ==
  ASSUME PInv, NEW p \in Procs, at[p].pc = "get", at' = [at EXCEPT ![p].pc = "evict"],
         UNCHANGED <<kind, spt, pte, ft, pool, mem, file, swap, slots, lock, want, torn>>
  PROVE  PInv'
<1>1. at[p] \in Point /\ LockedBy(p)
  BY Known
<1> DEFINE x == [at[p] EXCEPT !.pc = "evict"]
<1>2. at' = [at EXCEPT ![p] = x]
  OBVIOUS
<1>3. /\ x \in Point /\ x.pc = "evict" /\ x.page = at[p].page /\ x.then = at[p].then
      /\ x.op = at[p].op /\ x.esp = at[p].esp /\ x.buf = at[p].buf
  BY <1>1 DEF Point, Pcs, LoadPcs
<1> HIDE DEF x
<1>4. TypeOK' /\ TablesStay /\ LockMove(p)
  BY DEF PInv, TypeOK, TablesStay, LockMove
<1>5. x.pc \in EvictPcs <=> lock'["ft"] = p
  BY <1>1, <1>3 DEF LockedBy, EvictPcs
<1>6. Evicting(p)'
  BY <1>2, <1>3 DEF Evicting, PInv, AtType
<1> QED
  BY <1>2, <1>3, <1>4, <1>5, <1>6, LoaderStep

\* frame_evict takes the lock: nobody else evicts.
LEMMA EvictKeeps ==
  ASSUME PInv, NEW p \in Procs, Evict(p)
  PROVE  PInv'
<1> USE PagingConstants
<1>1. /\ at[p].pc = "evict" /\ lock["ft"] = None /\ lock' = [lock EXCEPT !["ft"] = p]
      /\ at' = [at EXCEPT ![p].pc = "scan", ![p].todo = {f \in Frames : ft[f] # None}]
      /\ UNCHANGED <<kind, spt, pte, ft, pool, mem, file, swap, slots, want, torn>>
  BY DEF Evict, On, Fine, Free, Take, tables, stores, history
<1>2. at[p] \in Point
  BY Known
<1> DEFINE taken == {f \in Frames : ft[f] # None}
           x == [at[p] EXCEPT !.pc = "scan", !.todo = taken]
<1>3. at' = [at EXCEPT ![p] = x] /\ taken \in SUBSET Frames
  BY <1>1 DEF PInv, AtType
<1> HIDE DEF taken
<1>4. /\ x \in Point /\ x.pc = "scan" /\ x.page = at[p].page /\ x.then = at[p].then
      /\ x.op = at[p].op /\ x.esp = at[p].esp /\ x.buf = at[p].buf /\ x.todo = taken
  BY ONLY <1>2, <1>3 DEF Point, Pcs, LoadPcs, EvictPcs
<1> HIDE DEF x
<1> USE DEF taken
<1>5. TypeOK' /\ TablesStay /\ LockMove(p) /\ lock'["ft"] = p
  BY <1>1 DEF PInv, TypeOK, TablesStay, LockMove
<1>6. Evicting(p)'
  BY <1>1, <1>3, <1>4 DEF Evicting, PInv, AtType
<1> QED
  BY <1>1, <1>3, <1>4, <1>5, <1>6, LoaderStep DEF EvictPcs

\* The iteration ends without a victim.
LEMMA NothingToEvictKeeps ==
  ASSUME PInv, NEW p \in Procs, NothingToEvict(p)
  PROVE  PInv'
<1> USE PagingConstants
<1>1. /\ at[p].pc = "scan" /\ lock' = [lock EXCEPT !["ft"] = None]
      /\ at' = [at EXCEPT ![p].pc = "evict"]
      /\ UNCHANGED <<kind, spt, pte, ft, pool, mem, file, swap, slots, want, torn>>
  BY DEF NothingToEvict, On, Fine, Release, tables, stores, history
<1>2. at[p] \in Point /\ lock["ft"] = p
  BY <1>1, Known DEF LockedBy, EvictPcs
<1> DEFINE x == [at[p] EXCEPT !.pc = "evict"]
<1>3. at' = [at EXCEPT ![p] = x]
  BY <1>1
<1>4. /\ x \in Point /\ x.pc = "evict" /\ x.page = at[p].page /\ x.then = at[p].then
      /\ x.op = at[p].op /\ x.esp = at[p].esp /\ x.buf = at[p].buf
  BY <1>2 DEF Point, Pcs, LoadPcs
<1> HIDE DEF x
<1>5. TypeOK' /\ TablesStay /\ LockMove(p) /\ lock'["ft"] = None
  BY <1>1, <1>2 DEF PInv, TypeOK, TablesStay, LockMove
<1>6. Evicting(p)'
  BY <1>1, <1>3, <1>4 DEF Evicting, PInv, AtType
<1> QED
  BY <1>1, <1>3, <1>4, <1>5, <1>6, LoaderStep DEF EvictPcs

\* The frame that was freed has gone to another process.
LEMMA RegetNoneKeeps ==
  ASSUME PInv, NEW p \in Procs, at[p].pc = "reget", lock' = [lock EXCEPT !["ft"] = None],
         at' = [at EXCEPT ![p].pc = "evict", ![p].todo = {}],
         UNCHANGED <<kind, spt, pte, ft, pool, mem, file, swap, slots, want, torn>>
  PROVE  PInv'
<1> USE PagingConstants
<1>1. at[p] \in Point /\ lock["ft"] = p
  BY Known DEF LockedBy, EvictPcs
<1> DEFINE x == [at[p] EXCEPT !.pc = "evict", !.todo = {}]
<1>2. at' = [at EXCEPT ![p] = x]
  BY DEF PInv, AtType
<1>3. /\ x \in Point /\ x.pc = "evict" /\ x.page = at[p].page /\ x.then = at[p].then
      /\ x.op = at[p].op /\ x.esp = at[p].esp /\ x.buf = at[p].buf
  BY <1>1 DEF Point, Pcs, LoadPcs
<1> HIDE DEF x
<1>4. TypeOK' /\ TablesStay /\ LockMove(p) /\ lock'["ft"] = None
  BY <1>1 DEF PInv, TypeOK, TablesStay, LockMove
<1>5. Evicting(p)'
  BY <1>2, <1>3 DEF Evicting, PInv, AtType
<1> QED
  BY <1>2, <1>3, <1>4, <1>5, LoaderStep DEF EvictPcs

\* The page of a frame in the table that is not locked is in memory: frame_evict
\* does not choose a page that is being loaded.
LEMMA UnlockedInMemory ==
  ASSUME PInv, NEW f \in Frames, NEW g \in Pages, ft[f] = g, ~ spt[g].locked
  PROVE  spt[g].present /\ spt[g].loaded /\ pte[g].frame = f
<1>1. ~ Fills(Owner[g], f, g)
  BY Known, PagingConstants DEF Fills, Loading, LoadPcs
<1> QED
  BY <1>1 DEF PInv, FrameInv, TableOK

\* A page that is not locked is not being loaded, so a victim is in memory.
LEMMA ScanKeeps ==
  ASSUME PInv, NEW p \in Procs, Scan(p)
  PROVE  PInv'
<1> USE PagingConstants
<1>1. PICK f \in at[p].todo :
         IF spt[ft[f]].locked \/ pte[ft[f]].acc
         THEN /\ pte' = IF spt[ft[f]].locked THEN pte ELSE [pte EXCEPT ![ft[f]].acc = FALSE]
              /\ at' = [at EXCEPT ![p].todo = @ \ {f}]
         ELSE /\ at' = [at EXCEPT ![p].pc = "out", ![p].todo = {},
                                  ![p].victim = f, ![p].vpage = ft[f]]
              /\ UNCHANGED pte
  BY DEF Scan
<1>2. /\ at[p].pc = "scan"
      /\ UNCHANGED <<kind, spt, ft, pool, mem, file, swap, slots, lock, want, torn>>
  BY DEF Scan, On, Fine, stores, history
<1>3. at[p] \in Point /\ Evicting(p) /\ lock["ft"] = p
  BY <1>2, Known DEF LockedBy, EvictPcs
<1>4. f \in Frames /\ ft[f] \in Pages
  BY <1>2, <1>3 DEF Point, Evicting, PInv, TypeOK
<1>5. CASE spt[ft[f]].locked \/ pte[ft[f]].acc
  <2>1. /\ pte' = IF spt[ft[f]].locked THEN pte ELSE [pte EXCEPT ![ft[f]].acc = FALSE]
        /\ at' = [at EXCEPT ![p].todo = @ \ {f}]
    BY <1>1, <1>5
  <2>2. /\ pte' \in [Pages -> [frame : Frames \cup {None}, acc : BOOLEAN, dirty : BOOLEAN]]
        /\ \A h \in Pages : pte'[h].frame = pte[h].frame
    <3> DEFINE Entry == [frame : Frames \cup {None}, acc : BOOLEAN, dirty : BOOLEAN]
    <3>1. pte \in [Pages -> Entry] /\ pte[ft[f]] \in Entry
      BY <1>4 DEF PInv, TypeOK
    <3>2. [pte[ft[f]] EXCEPT !.acc = FALSE] \in Entry
      BY <3>1
    <3>3. \/ pte' = pte
          \/ pte' = [pte EXCEPT ![ft[f]] = [pte[ft[f]] EXCEPT !.acc = FALSE]]
      BY <2>1
    <3>4. pte' \in [Pages -> Entry]
      BY <3>1, <3>2, <3>3
    <3>5. \A h \in Pages : pte'[h].frame = pte[h].frame
      BY <3>1, <3>3
    <3> QED
      BY <3>4, <3>5
  <2> DEFINE x == [at[p] EXCEPT !.todo = @ \ {f}]
  <2>3. at' = [at EXCEPT ![p] = x]
    BY <2>1
  <2>4. /\ x \in Point /\ x.pc = "scan" /\ x.page = at[p].page /\ x.then = at[p].then
        /\ x.op = at[p].op /\ x.esp = at[p].esp /\ x.buf = at[p].buf /\ x.todo = at[p].todo \ {f}
    BY <1>2, <1>3 DEF Point
  <2> HIDE DEF x
  <2>5. TypeOK' /\ TablesStay /\ LockMove(p)
    BY <1>2, <2>2 DEF PInv, TypeOK, TablesStay, LockMove
  <2>6. Evicting(p)'
    BY <1>2, <1>3, <2>3, <2>4 DEF Evicting, PInv, AtType
  <2> QED
    BY <1>2, <1>3, <2>3, <2>4, <2>5, <2>6, LoaderStep DEF EvictPcs
<1>6. CASE ~ (spt[ft[f]].locked \/ pte[ft[f]].acc)
  <2>1. /\ at' = [at EXCEPT ![p].pc = "out", ![p].todo = {}, ![p].victim = f, ![p].vpage = ft[f]]
        /\ UNCHANGED pte
    BY <1>1, <1>6
  <2>2. spt[ft[f]].present /\ spt[ft[f]].loaded /\ pte[ft[f]].frame = f
    BY <1>4, <1>6, UnlockedInMemory
  <2> DEFINE x == [at[p] EXCEPT !.pc = "out", !.todo = {}, !.victim = f, !.vpage = ft[f]]
  <2>3. at' = [at EXCEPT ![p] = x]
    BY <2>1 DEF PInv, AtType
  <2>4. /\ x \in Point /\ x.pc = "out" /\ x.page = at[p].page /\ x.then = at[p].then
        /\ x.op = at[p].op /\ x.esp = at[p].esp /\ x.buf = at[p].buf
        /\ x.victim = f /\ x.vpage = ft[f]
    BY <1>3, <1>4 DEF Point, Pcs, LoadPcs, EvictPcs
  <2> HIDE DEF x
  <2>5. TypeOK' /\ TablesStay /\ LockMove(p)
    BY <1>2, <2>1 DEF PInv, TypeOK, TablesStay, LockMove
  <2>6. Evicting(p)'
    BY <1>2, <1>3, <2>1, <2>2, <2>3, <2>4 DEF Evicting, PInv, AtType
  <2> QED
    BY <1>2, <1>3, <1>4, <2>3, <2>4, <2>5, <2>6, LoaderStep DEF EvictPcs
<1> QED
  BY <1>5, <1>6

----------------------------------------------------------------------------
\* The steps that make and free entries of pages without a frame.

\* Holding and owing follow from the program points alone.
LEMMA SamePoints ==
  ASSUME NEW q \in Procs, at'[q] = at[q]
  PROVE  /\ \A f : Holds(q, f)' <=> Holds(q, f)
         /\ \A f, g : Fills(q, f, g)' <=> Fills(q, f, g)
         /\ \A f, g : Clears(q, f, g)' <=> Clears(q, f, g)
         /\ \A g : Unloads(q, g)' <=> Unloads(q, g)
         /\ Ends(q)' <=> Ends(q)
BY DEF Holds, Fills, Clears, Unloads, Ends

\* Most program points owe nothing.
LEMMA NoPoints ==
  ASSUME NEW q \in Procs, at[q].pc \notin {"add", "clear", "fill", "unload"}
  PROVE  /\ \A f : ~ Holds(q, f)
         /\ \A f, g : ~ Fills(q, f, g) /\ ~ Clears(q, f, g)
         /\ \A g : ~ Unloads(q, g)
BY DEF Holds, Fills, Clears, Unloads

\* Another process than p has its page among its own, and its victim, if it
\* has not let go of it, in the table.
LEMMA OtherPages ==
  ASSUME PInv, NEW q \in Procs
  PROVE  /\ at[q].pc \in LoadPcs \cup DropPcs => at[q].page \in Pages /\ Owner[at[q].page] = q
         /\ at[q].pc \in {"out", "unload", "clear"} =>
              at[q].victim \in Frames /\ at[q].vpage \in Pages
         /\ at[q].pc \in {"out", "unload"} => ft[at[q].victim] = at[q].vpage
BY Known DEF Locals, Evicting

\* p makes or frees the entry of page b, which has no frame.
LEMMA EntryStep ==
  ASSUME PInv, NEW p \in Procs, NEW b \in Pages, Owner[b] = p, \A f \in Frames : ft[f] # b,
         NEW x \in Point, at' = [at EXCEPT ![p] = x],
         at[p].pc \in {"call", "exit"}, x.pc \in {"user", "exit"},
         Locals(p)', Ends(p) => Ends(p)',
         spt' \in [Pages -> PageState],
         \A h \in Pages : Owner[h] # p => spt'[h] = spt[h],
         \A h \in Pages \ {b} :
            /\ spt'[h].present = spt[h].present /\ spt'[h].type = spt[h].type
            /\ spt'[h].loaded = spt[h].loaded /\ spt'[h].slot = spt[h].slot,
         spt'[b].slot = None,
         spt'[b].present => spt'[b].type = "MMAP" /\ kind[b] = "mmap",
         spt[b].slot # None => Ends(p)',
         UNCHANGED <<kind, pte, ft, pool, mem, file, swap, slots, lock>>,
         want' \in [Pages -> Values], torn' \subseteq Pages
  PROVE  PInv'
<1> USE PagingConstants
<1>1. at'[p] = x /\ \A q \in Procs \ {p} : at'[q] = at[q]
  BY DEF PInv, AtType
<1>2. TypeOK' /\ KindOK'
  BY DEF PInv, TypeOK, KindOK
<1>3. AtType'
  BY DEF PInv, AtType
<1>4. PointsOK'
  <2>1. ASSUME NEW q \in Procs \ {p} PROVE PointOK(q)'
    <3>1. Spares(q)
      BY <1>1, OtherPages DEF Spares
    <3> QED
      BY <3>1, PointStays
  <2>2. PointOK(p)'
    <3>1. LockedBy(p)' /\ Loading(p)' /\ Evicting(p)' /\ Dropping(p)'
      BY <1>1, Known DEF LockedBy, Loading, Evicting, Dropping, LoadPcs, EvictPcs, DropPcs
    <3> QED
      BY <3>1 DEF PointOK
  <2> QED
    BY <2>1, <2>2 DEF PointsOK
<1>5. \A q \in Procs :
        /\ \A f : Holds(q, f)' <=> Holds(q, f)
        /\ \A f, g : Fills(q, f, g)' <=> Fills(q, f, g)
        /\ \A f, g : Clears(q, f, g)' <=> Clears(q, f, g)
        /\ \A g : Unloads(q, g) => Unloads(q, g)'
        /\ Ends(q) => Ends(q)'
  <2>1. TAKE q \in Procs
  <2>2. CASE q # p
    BY <1>1, <2>2, SamePoints
  <2>3. CASE q = p
    BY <1>1, <2>3 DEF Holds, Fills, Clears, Unloads
  <2> QED
    BY <2>2, <2>3
<1>6. FrameInv'
  <2>1. HeldApart' /\ HeldByOne' /\ PoolApart' /\ Somewhere'
    BY <1>5 DEF PInv, FrameInv, HeldApart, HeldByOne, PoolApart, Somewhere, TypeOK
  <2>2. TableOK'
    BY <1>5 DEF PInv, FrameInv, TableOK
  <2>3. MapOK'
    BY <1>5 DEF PInv, FrameInv, MapOK, TypeOK
  <2> QED
    BY <2>1, <2>2, <2>3 DEF FrameInv
<1>7. UnbornOK'
  BY <1>1 DEF PInv, UnbornOK
<1>8. TypesOK'
  BY DEF PInv, TypesOK
<1>9. SlotInv'
  <2>1. SlotOwned'
    BY <1>5 DEF PInv, SlotInv, SlotOwned
  <2>2. SlotOnce'
    BY DEF PInv, SlotInv, SlotOnce
  <2>3. SlotKept'
    BY DEF PInv, SlotInv, SlotKept
  <2>4. SlotUsed'
    BY <1>5 DEF PInv, SlotInv, SlotUsed
  <2> QED
    BY <2>1, <2>2, <2>3, <2>4 DEF SlotInv
<1> QED
  BY <1>2, <1>3, <1>4, <1>6, <1>7, <1>8, <1>9 DEF PInv

\* sys_mmap makes the entry of a page without a frame.
LEMMA MmapKeeps ==
  ASSUME PInv, NEW p \in Procs, Mmap(p)
  PROVE  PInv'
<1> USE PagingConstants
<1> DEFINE b == at[p].buf
           e == at[p].esp
<1>1. /\ at[p].pc = "call" /\ at[p].op = "mmap" /\ at' = [at EXCEPT ![p] = At("user")]
      /\ spt' = [spt EXCEPT ![b] = IF spt[b].present THEN @ ELSE NewEntry(b),
                            ![e].locked = FALSE]
      /\ UNCHANGED <<kind, pte, ft, pool, mem, file, swap, slots, lock, want, torn>>
  BY DEF Mmap, On, Fine, stores, history
<1>2. /\ b \in Pages /\ Owner[b] = p /\ kind[b] = "mmap"
      /\ e \in Pages /\ Owner[e] = p /\ kind[e] = "stack"
  BY <1>1, Known DEF Locals, InCall, CallPcs
<1>3. spt \in [Pages -> PageState] /\ spt[b] \in PageState /\ spt[e] \in PageState
  BY <1>2 DEF PInv, TypeOK
<1>4. CASE spt[b].present
  <2>1. spt' = [spt EXCEPT ![e].locked = FALSE]
    BY <1>1, <1>2, <1>3, <1>4
  <2>2. Relocked(p) /\ Touched
    BY <1>1, <1>2, <2>1, Relocks, NoneTouched
  <2> QED
    BY <1>1, <2>2, EndStep DEF CallPcs, PInv, TypeOK
<1>5. CASE ~ spt[b].present
  <2>1. /\ NewEntry(b) \in PageState /\ NewEntry(b).present /\ NewEntry(b).type = "MMAP"
        /\ NewEntry(b).slot = None
    BY <1>2 DEF NewEntry, Absent, PageState
  <2>2. [spt[e] EXCEPT !.locked = FALSE] \in PageState
    BY <1>3 DEF PageState
  <2>3. spt' = [spt EXCEPT ![b] = NewEntry(b), ![e] = [spt[e] EXCEPT !.locked = FALSE]]
    BY <1>1, <1>2, <1>3, <1>5
  <2>4. spt' \in [Pages -> PageState] /\ spt'[b] = NewEntry(b)
    BY <1>2, <1>3, <2>1, <2>2, <2>3
  <2>5. \A h \in Pages \ {b, e} : spt'[h] = spt[h]
    BY <1>3, <2>3
  <2>6. /\ spt'[e].present = spt[e].present /\ spt'[e].type = spt[e].type
        /\ spt'[e].loaded = spt[e].loaded /\ spt'[e].slot = spt[e].slot
    BY <1>2, <1>3, <2>3 DEF PageState
  <2>7. spt[b].slot = None
    BY <1>2, <1>5 DEF PInv, SlotInv, SlotOwned
  <2>8. \A f \in Frames : ft[f] # b
    BY <1>1, <1>2, <1>5, NotInTable
  <2>9. at'[p] = At("user") /\ At("user") \in Point /\ At("user").pc = "user"
    BY <1>1, AtPoint DEF PInv, AtType, At
  <2>10. Locals(p)' /\ ~ Ends(p)
    BY <1>1, <2>9 DEF Locals, InCall, CallPcs, LoadPcs, EvictPcs, DropPcs, Ends
  <2>11. want' \in [Pages -> Values] /\ torn' \subseteq Pages
    BY <1>1 DEF PInv, TypeOK
  <2>12. \A h \in Pages \ {b} :
            /\ spt'[h].present = spt[h].present /\ spt'[h].type = spt[h].type
            /\ spt'[h].loaded = spt[h].loaded /\ spt'[h].slot = spt[h].slot
    BY <2>5, <2>6
  <2>13. \A h \in Pages : Owner[h] # p => spt'[h] = spt[h]
    BY <1>2, <2>5
  <2>14. spt'[b].slot = None /\ spt'[b].type = "MMAP"
    BY <2>1, <2>4
  <2> HIDE DEF b, e
  <2> QED
    BY <1>1, <1>2, <2>4, <2>7, <2>8, <2>9, <2>10, <2>11, <2>12, <2>13, <2>14, EntryStep
<1> QED
  BY <1>4, <1>5

\* The histories of a page that is given up.
LEMMA ForgetTypes ==
  ASSUME PInv, NEW g \in Pages, Forget(g)
  PROVE  want' \in [Pages -> Values] /\ torn' \subseteq Pages
BY PagingConstants DEF PInv, TypeOK, Forget, history

\* The entry of a page that is not in memory is freed.
LEMMA DropUnloadedKeeps ==
  ASSUME PInv, NEW p \in Procs, NEW g \in Left(p), at[p].pc = "exit", ~ HasFrame(g),
         spt' = [spt EXCEPT ![g] = Absent], Forget(g),
         UNCHANGED <<at, kind, pte, ft, pool, mem, file, swap, slots, lock>>
  PROVE  PInv'
<1> USE PagingConstants
<1>1. /\ g \in Pages /\ spt[g].present /\ Owner[g] = p
      /\ at[p].op = "munmap" => spt[g].type = "MMAP"
  BY LeftPage
<1>2. at[p] \in Point /\ Locals(p) /\ at' = [at EXCEPT ![p] = at[p]]
  BY Known DEF PInv, AtType
<1>3. Locals(p)' /\ (Ends(p)' <=> Ends(p))
  BY <1>2 DEF Locals, InCall, Ends
<1>4. spt[g].slot # None => Ends(p)
  BY <1>1, <1>2 DEF PInv, SlotInv, SlotOwned, Ends, Locals
<1>5. \A f \in Frames : ft[f] # g
  BY <1>1, NotInTable DEF HasFrame
<1>6. Absent \in PageState /\ ~ Absent.present /\ Absent.slot = None
  BY DEF Absent, PageState
<1>7. /\ spt' \in [Pages -> PageState] /\ spt'[g] = Absent
      /\ \A h \in Pages \ {g} : spt'[h] = spt[h]
  BY <1>1, <1>6 DEF PInv, TypeOK
<1>8. want' \in [Pages -> Values] /\ torn' \subseteq Pages
  BY <1>1, ForgetTypes
<1>9. spt'[g].slot = None /\ ~ spt'[g].present
  BY <1>6, <1>7
<1>10. PICK x \in Point : x = at[p]
  BY <1>2
<1>11. at' = [at EXCEPT ![p] = x] /\ x.pc \in {"user", "exit"}
  BY <1>2, <1>10
<1>12. (Ends(p) => Ends(p)') /\ (spt[g].slot # None => Ends(p)')
  BY <1>3, <1>4
<1>13. /\ \A h \in Pages : Owner[h] # p => spt'[h] = spt[h]
       /\ \A h \in Pages \ {g} :
            /\ spt'[h].present = spt[h].present /\ spt'[h].type = spt[h].type
            /\ spt'[h].loaded = spt[h].loaded /\ spt'[h].slot = spt[h].slot
  BY <1>1, <1>7
<1>14. g \in Pages /\ Owner[g] = p /\ \A f \in Frames : ft[f] # g
  BY <1>1, <1>5
<1>15. at' = [at EXCEPT ![p] = x] /\ at[p].pc \in {"call", "exit"} /\ x.pc \in {"user", "exit"}
  BY <1>11
<1>16. Locals(p)' /\ (Ends(p) => Ends(p)')
  BY <1>3, <1>12
<1>17. spt' \in [Pages -> PageState]
  BY <1>7
<1>18. spt'[g].present => spt'[g].type = "MMAP" /\ kind[g] = "mmap"
  BY <1>9
<1>19. UNCHANGED <<kind, pte, ft, pool, mem, file, swap, slots, lock>>
  OBVIOUS
<1> QED
  BY ONLY PInv, p \in Procs, x \in Point,
          <1>14, <1>15, <1>16, <1>17, <1>18, <1>19, <1>8, <1>9, <1>13, <1>12, EntryStep

\* Either kind of page is given up.
LEMMA DropKeeps ==
  ASSUME PInv, NEW p \in Procs, Drop(p)
  PROVE  PInv'
<1>1. /\ at[p].pc = "exit"
      /\ UNCHANGED <<kind, pte, ft, pool, mem, file, swap, slots, lock>>
  BY DEF Drop, On, Fine, stores
<1>2. PICK g \in Left(p) :
          \/ /\ ~ HasFrame(g)
             /\ spt' = [spt EXCEPT ![g] = Absent]
             /\ Forget(g)
             /\ UNCHANGED at
          \/ /\ HasFrame(g)
             /\ spt' = [spt EXCEPT ![g].locked = @ \/ spt[g].type = "MMAP"]
             /\ at' = [at EXCEPT ![p].pc = IF spt[g].type = "MMAP" THEN "save" ELSE "lookup",
                                 ![p].page = g]
             /\ UNCHANGED history
  BY DEF Drop
<1>3. CASE ~ HasFrame(g)
  BY <1>1, <1>2, <1>3, DropUnloadedKeeps
<1>4. CASE HasFrame(g)
  BY <1>1, <1>2, <1>4, DropLoadedKeeps DEF history
<1> QED
  BY <1>3, <1>4

----------------------------------------------------------------------------
\* The steps that move frames.

\* palloc_get_page gives process p, which waits for it, frame f.
LEMMA TakeStep ==
  ASSUME PInv, NEW p \in Procs, NEW f \in pool, NEW x \in Point, at' = [at EXCEPT ![p] = x],
         at[p].pc \in {"get", "reget"}, x.pc = "add", x.frame = f, x.page = at[p].page,
         x.then = at[p].then, x.op = at[p].op, x.esp = at[p].esp, x.buf = at[p].buf,
         pool' = pool \ {f}, LockMove(p), lock'["ft"] # p,
         lock' \in [{"ft", "fs"} -> Procs \cup {None}],
         UNCHANGED <<kind, spt, pte, ft, mem, file, swap, slots, want, torn>>
  PROVE  PInv'
<1> USE PagingConstants
<1>1. at'[p] = x /\ \A q \in Procs \ {p} : at'[q] = at[q]
  BY DEF PInv, AtType
<1>2. f \in Frames /\ TypeOK' /\ KindOK'
  BY DEF PInv, TypeOK, KindOK
<1>3. AtType'
  BY DEF PInv, AtType
<1>4. PointsOK'
  <2>1. ASSUME NEW q \in Procs \ {p} PROVE PointOK(q)'
    <3>1. lock'["ft"] = q <=> lock["ft"] = q
      BY DEF LockMove
    <3>2. Spares(q)
      BY <1>1, <3>1, OtherPages DEF Spares
    <3> QED
      BY <3>2, PointStays
  <2>2. PointOK(p)'
    <3>1. Locals(p) /\ Loading(p)
      BY Known
    <3>2. Locals(p)'
      BY <1>1, <1>2, <3>1 DEF Locals, InCall, CallPcs, LoadPcs, EvictPcs, DropPcs
    <3>3. LockedBy(p)' /\ Loading(p)' /\ Evicting(p)' /\ Dropping(p)'
      BY <1>1, <3>1 DEF LockedBy, Loading, Evicting, Dropping, LoadPcs, EvictPcs, DropPcs
    <3> QED
      BY <3>2, <3>3 DEF PointOK
  <2> QED
    BY <2>1, <2>2 DEF PointsOK
<1>5. \A q \in Procs \ {p}, h \in Frames : Holds(q, h)' <=> Holds(q, h)
  BY <1>1 DEF Holds
<1>6. \A h \in Frames : ~ Holds(p, h) /\ (Holds(p, h)' <=> h = f)
  BY <1>1 DEF Holds
<1>7. \A q \in Procs : /\ \A h \in Frames, g \in Pages : Fills(q, h, g)' <=> Fills(q, h, g)
                       /\ \A h \in Frames, g \in Pages : Clears(q, h, g)' <=> Clears(q, h, g)
                       /\ \A g \in Pages : Unloads(q, g)' <=> Unloads(q, g)
                       /\ Ends(q)' <=> Ends(q)
  BY <1>1 DEF Fills, Clears, Unloads, Ends, DropPcs
<1>8. FrameInv'
  <2>1. HeldApart'
    BY <1>5, <1>6 DEF PInv, FrameInv, HeldApart, PoolApart
  <2>2. HeldByOne'
    BY <1>5, <1>6 DEF PInv, FrameInv, HeldApart, HeldByOne
  <2>3. PoolApart' /\ Somewhere'
    BY <1>5, <1>6 DEF PInv, FrameInv, PoolApart, Somewhere
  <2>4. TableOK'
    BY <1>7 DEF PInv, FrameInv, TableOK
  <2>5. MapOK'
    BY <1>7 DEF PInv, FrameInv, MapOK, TypeOK
  <2> QED
    BY <2>1, <2>2, <2>3, <2>4, <2>5 DEF FrameInv
<1>9. UnbornOK' /\ TypesOK'
  BY <1>1 DEF PInv, UnbornOK, TypesOK
<1>10. SlotInv'
  BY <1>7 DEF PInv, SlotInv, SlotOwned, SlotOnce, SlotKept, SlotUsed
<1> QED
  BY <1>2, <1>3, <1>4, <1>8, <1>9, <1>10 DEF PInv

\* A frame leaves the pool, or there is none.
LEMMA GetFrameKeeps ==
  ASSUME PInv, NEW p \in Procs, GetFrame(p)
  PROVE  PInv'
<1> USE PagingConstants
<1>1. /\ at[p].pc = "get"
      /\ UNCHANGED <<kind, spt, pte, ft, mem, file, swap, slots, lock, want, torn>>
  BY DEF GetFrame, On, Fine, stores, history
<1>2. CASE pool = {}
  BY <1>1, <1>2, GetNoFrameKeeps DEF GetFrame
<1>3. CASE pool # {}
  <2>1. PICK f \in pool : /\ pool' = pool \ {f}
                          /\ at' = [at EXCEPT ![p].pc = "add", ![p].frame = f]
    BY <1>3 DEF GetFrame
  <2>2. at[p] \in Point /\ f \in Frames
    BY Known DEF PInv, TypeOK
  <2> DEFINE x == [at[p] EXCEPT !.pc = "add", !.frame = f]
  <2>3. at' = [at EXCEPT ![p] = x]
    BY <2>1 DEF PInv, AtType
  <2>4. /\ x \in Point /\ x.pc = "add" /\ x.frame = f /\ x.page = at[p].page
        /\ x.then = at[p].then /\ x.op = at[p].op /\ x.esp = at[p].esp /\ x.buf = at[p].buf
    BY <2>2 DEF Point, Pcs, LoadPcs
  <2> HIDE DEF x
  <2>5. /\ LockMove(p) /\ lock'["ft"] # p /\ lock' \in [{"ft", "fs"} -> Procs \cup {None}]
    BY <1>1, Known DEF LockMove, LockedBy, EvictPcs, PInv, TypeOK
  <2> QED
    BY <1>1, <2>1, <2>3, <2>4, <2>5, TakeStep
<1> QED
  BY <1>2, <1>3

\* After an eviction a frame leaves the pool, or there is none again.
LEMMA RegetKeeps ==
  ASSUME PInv, NEW p \in Procs, Reget(p)
  PROVE  PInv'
<1> USE PagingConstants
<1>1. /\ at[p].pc = "reget" /\ lock' = [lock EXCEPT !["ft"] = None]
      /\ UNCHANGED <<kind, spt, pte, ft, mem, file, swap, slots, want, torn>>
  BY DEF Reget, On, Fine, Release, stores, history
<1>2. CASE pool = {} /\ at' = [at EXCEPT ![p].pc = "evict", ![p].todo = {}] /\ UNCHANGED pool
  BY <1>1, <1>2, RegetNoneKeeps
<1>3. ASSUME NEW f \in pool, pool' = pool \ {f},
             at' = [at EXCEPT ![p].pc = "add", ![p].frame = f, ![p].todo = {}]
      PROVE  PInv'
  <2>1. at[p] \in Point /\ f \in Frames
    BY Known DEF PInv, TypeOK
  <2> DEFINE x == [at[p] EXCEPT !.pc = "add", !.frame = f, !.todo = {}]
  <2>2. at' = [at EXCEPT ![p] = x]
    BY <1>3 DEF PInv, AtType
  <2>3. /\ x \in Point /\ x.pc = "add" /\ x.frame = f /\ x.page = at[p].page
        /\ x.then = at[p].then /\ x.op = at[p].op /\ x.esp = at[p].esp /\ x.buf = at[p].buf
    BY <2>1 DEF Point, Pcs, LoadPcs
  <2> HIDE DEF x
  <2>4. lock["ft"] = p
    BY <1>1, Known DEF LockedBy, EvictPcs
  <2>5. LockMove(p) /\ lock'["ft"] # p /\ lock' \in [{"ft", "fs"} -> Procs \cup {None}]
    BY <1>1, <2>4 DEF LockMove, PInv, TypeOK
  <2> QED
    BY <1>1, <1>3, <2>2, <2>3, <2>5, TakeStep
<1> QED
  BY <1>2, <1>3 DEF Reget

\* Without an evictor only the table says what is mapped.
LEMMA NobodyClears ==
  ASSUME PInv, lock["ft"] = None, NEW q \in Procs
  PROVE  at[q].pc \notin EvictPcs
BY Known, PagingConstants DEF LockedBy

\* The frame goes from its holder into the table: frame_add_to_ft waits for
\* the evictor.
LEMMA AddsToTable ==
  ASSUME PInv, NEW p \in Procs, AddToTable(p)
  PROVE  PInv'
<1> USE PagingConstants
<1> DEFINE f == at[p].frame
           g == at[p].page
<1>1. /\ at[p].pc = "add" /\ lock["ft"] = None /\ ft' = [ft EXCEPT ![f] = g]
      /\ at' = [at EXCEPT ![p].pc = "fill"]
      /\ UNCHANGED <<kind, spt, pte, pool, mem, file, swap, slots, lock, want, torn>>
  BY DEF AddToTable, On, Fine, Free, stores, history
<1>2. at[p] \in Point /\ Locals(p) /\ Loading(p)
  BY Known
<1>3. f \in Frames /\ g \in Pages /\ Owner[g] = p /\ \A h \in Frames : ft[h] # g
  BY <1>1, <1>2 DEF Locals, Loading, LoadPcs
<1>4. Holds(p, f) /\ f \notin pool /\ ft[f] = None
  BY <1>1, <1>3 DEF Holds, PInv, FrameInv, HeldApart
<1>5. \A q \in Procs : at[q].pc \notin EvictPcs
  BY <1>1, NobodyClears
<1>6. \A h \in Frames, k \in Pages, q \in Procs : ~ Clears(q, h, k)
  BY <1>5 DEF Clears, EvictPcs
<1>7. pte[g].frame = None
  BY <1>3, <1>6 DEF PInv, FrameInv, MapOK, TypeOK
<1> DEFINE x == [at[p] EXCEPT !.pc = "fill"]
<1>8. at' = [at EXCEPT ![p] = x]
  BY <1>1
<1>9. /\ x \in Point /\ x.pc = "fill" /\ x.frame = f /\ x.page = g
      /\ x.then = at[p].then /\ x.op = at[p].op /\ x.esp = at[p].esp /\ x.buf = at[p].buf
  BY <1>2 DEF Point, Pcs, LoadPcs
<1> HIDE DEF x
<1>10. at'[p] = x /\ \A q \in Procs \ {p} : at'[q] = at[q]
  BY <1>8 DEF PInv, AtType
<1>11. TypeOK' /\ KindOK'
  BY <1>1, <1>3 DEF PInv, TypeOK, KindOK
<1>12. AtType'
  BY <1>8, <1>9 DEF PInv, AtType
<1>13. \A h \in Frames : ft'[h] = IF h = f THEN g ELSE ft[h]
  BY <1>1 DEF PInv, TypeOK
<1>14. PointsOK'
  <2>1. ASSUME NEW q \in Procs \ {p} PROVE PointOK(q)'
    <3>1. Spares(q)
      BY <1>1, <1>3, <1>4, <1>5, <1>10, <1>13, OtherPages DEF Spares, EvictPcs
    <3> QED
      BY <3>1, PointStays
  <2>2. PointOK(p)'
    <3>1. Locals(p)'
      BY <1>1, <1>2, <1>3, <1>9, <1>10 DEF Locals, InCall, CallPcs, LoadPcs, EvictPcs, DropPcs
    <3>2. Loading(p)'
      BY <1>1, <1>2, <1>3, <1>7, <1>9, <1>10, <1>13 DEF Loading, LoadPcs
    <3>3. LockedBy(p)' /\ Evicting(p)' /\ Dropping(p)'
      BY <1>1, <1>9, <1>10 DEF LockedBy, Evicting, Dropping, EvictPcs, DropPcs
    <3> QED
      BY <3>1, <3>2, <3>3 DEF PointOK
  <2> QED
    BY <2>1, <2>2 DEF PointsOK
<1>15. \A q \in Procs \ {p}, h \in Frames : Holds(q, h)' <=> Holds(q, h)
  BY <1>10 DEF Holds
<1>16. \A h \in Frames : (Holds(p, h) => h = f) /\ ~ Holds(p, h)'
  BY <1>1, <1>9, <1>10 DEF Holds
<1>17. \A q \in Procs : /\ \A h \in Frames, k \in Pages : Fills(q, h, k) => Fills(q, h, k)'
                        /\ \A k \in Pages : Unloads(q, k)' <=> Unloads(q, k)
                        /\ Ends(q)' <=> Ends(q)
  BY <1>1, <1>9, <1>10 DEF Fills, Unloads, Ends, DropPcs
<1>18. FrameInv'
  <2>1. HeldApart'
    BY <1>1, <1>4, <1>13, <1>15, <1>16 DEF PInv, FrameInv, HeldApart, HeldByOne
  <2>2. HeldByOne'
    BY <1>15, <1>16 DEF PInv, FrameInv, HeldByOne
  <2>3. PoolApart' /\ Somewhere'
    <3>1. PoolApart'
      BY <1>1, <1>4, <1>13 DEF PInv, FrameInv, PoolApart, TypeOK
    <3>2. ASSUME NEW h \in Frames, h \notin pool', ft'[h] = None
          PROVE  \E q \in Procs : Holds(q, h)'
      <4>1. h # f /\ h \notin pool /\ ft[h] = None
        BY <1>1, <1>3, <1>13, <3>2
      <4>2. PICK q \in Procs : Holds(q, h)
        BY <4>1 DEF PInv, FrameInv, Somewhere
      <4> QED
        BY <1>15, <1>16, <4>1, <4>2
    <3> QED
      BY <3>1, <3>2 DEF Somewhere
  <2>4. TableOK'
    <3>1. Fills(p, f, g)'
      BY <1>9, <1>10 DEF Fills
    <3> QED
      BY <1>1, <1>3, <1>13, <1>17, <3>1 DEF PInv, FrameInv, TableOK
  <2>5. MapOK'
    BY <1>1, <1>4, <1>6, <1>13 DEF PInv, FrameInv, MapOK, TypeOK
  <2> QED
    BY <2>1, <2>2, <2>3, <2>4, <2>5 DEF FrameInv
<1>19. UnbornOK' /\ TypesOK'
  BY <1>1, <1>9, <1>10 DEF PInv, UnbornOK, TypesOK
<1>20. SlotInv'
  BY <1>1, <1>17 DEF PInv, SlotInv, SlotOwned, SlotOnce, SlotKept, SlotUsed
<1> QED
  BY <1>11, <1>12, <1>14, <1>18, <1>19, <1>20 DEF PInv

\* The victim is declared gone: its frame leaves the table for the evictor's
\* hands.
LEMMA UnloadKeeps ==
  ASSUME PInv, NEW p \in Procs, Unload(p)
  PROVE  PInv'
<1> USE PagingConstants
<1> DEFINE f == at[p].victim
           g == at[p].vpage
<1>1. /\ at[p].pc = "unload" /\ spt' = [spt EXCEPT ![g].loaded = FALSE]
      /\ ft' = [ft EXCEPT ![f] = None] /\ at' = [at EXCEPT ![p].pc = "clear"]
      /\ UNCHANGED <<kind, pte, pool, mem, file, swap, slots, lock, want, torn>>
  BY DEF Unload, On, Fine, stores, history
<1>2. at[p] \in Point /\ Locals(p) /\ Loading(p) /\ Evicting(p) /\ LockedBy(p)
  BY Known
<1>3. /\ f \in Frames /\ g \in Pages /\ spt[g].present /\ spt[g].loaded /\ ft[f] = g
      /\ pte[g].frame = f /\ (spt[g].type = "SWAP" => spt[g].slot # None)
  BY <1>1, <1>2 DEF Locals, Evicting
<1>4. \A q \in Procs \ {p} : at[q].pc \notin EvictPcs
  BY <1>1, OneEvictor DEF EvictPcs
<1>5. spt \in [Pages -> PageState] /\ spt[g] \in PageState
  BY <1>3 DEF PInv, TypeOK
<1>6. /\ spt' \in [Pages -> PageState]
      /\ \A h \in Pages \ {g} : spt'[h] = spt[h]
  BY <1>1, <1>3, <1>5 DEF PageState
<1>7. /\ spt'[g].present = spt[g].present /\ spt'[g].type = spt[g].type
      /\ spt'[g].slot = spt[g].slot /\ ~ spt'[g].loaded
  BY <1>1, <1>3, <1>5 DEF PageState
<1>8. \A h \in Frames : ft'[h] = IF h = f THEN None ELSE ft[h]
  BY <1>1 DEF PInv, TypeOK
<1> DEFINE x == [at[p] EXCEPT !.pc = "clear"]
<1>9. at' = [at EXCEPT ![p] = x]
  BY <1>1
<1>10. /\ x \in Point /\ x.pc = "clear" /\ x.frame = at[p].frame /\ x.page = at[p].page
       /\ x.then = at[p].then /\ x.op = at[p].op /\ x.esp = at[p].esp /\ x.buf = at[p].buf
       /\ x.victim = f /\ x.vpage = g
  BY <1>2 DEF Point, Pcs, LoadPcs, EvictPcs
<1> HIDE DEF x
<1>11. at'[p] = x /\ \A q \in Procs \ {p} : at'[q] = at[q]
  BY <1>9 DEF PInv, AtType
<1>12. TypeOK' /\ KindOK'
  BY <1>1, <1>6 DEF PInv, TypeOK, KindOK
<1>13. AtType'
  BY <1>9, <1>10 DEF PInv, AtType
<1>14. PointsOK'
  <2>1. ASSUME NEW q \in Procs PROVE at[q].pc \in LoadPcs => at[q].page # g
    BY <1>3, Known DEF Loading
  <2>2. ASSUME NEW q \in Procs \ {p} PROVE PointOK(q)'
    <3>1. at[q].pc \in LoadPcs => spt'[at[q].page] = spt[at[q].page]
      BY <1>6, <2>1, OtherPages
    <3>2. at[q].pc \in DropPcs => /\ spt'[at[q].page].present = spt[at[q].page].present
                                  /\ spt'[at[q].page].type = spt[at[q].page].type
      BY <1>6, <1>7, OtherPages
    <3>3. at[q].pc \in LoadPcs => \A h \in Frames : ft'[h] = at[q].page <=> ft[h] = at[q].page
      BY <1>3, <1>8, <2>1, OtherPages
    <3>4. at[q].pc \notin EvictPcs /\ at[q].pc \notin {"out", "unload", "clear"}
      BY <1>4 DEF EvictPcs
    <3>5. Spares(q)
      BY <1>1, <1>11, <3>1, <3>2, <3>3, <3>4 DEF Spares
    <3> QED
      BY <3>5, PointStays
  <2>3. PointOK(p)'
    <3>1. Locals(p)'
      BY <1>1, <1>2, <1>3, <1>10, <1>11
         DEF Locals, InCall, CallPcs, LoadPcs, EvictPcs, DropPcs
    <3>2. at[p].page \in Pages /\ at[p].page # g
      BY <1>1, <1>2, <2>1 DEF Locals, LoadPcs, EvictPcs
    <3>3. Loading(p)'
      BY <1>1, <1>2, <1>6, <1>8, <1>10, <1>11, <3>2 DEF Loading, LoadPcs, EvictPcs
    <3>4. LockedBy(p)' /\ Evicting(p)' /\ Dropping(p)'
      BY <1>1, <1>2, <1>3, <1>10, <1>11 DEF LockedBy, Evicting, Dropping, EvictPcs, DropPcs
    <3> QED
      BY <3>1, <3>3, <3>4 DEF PointOK
  <2> QED
    BY <2>2, <2>3 DEF PointsOK
<1>15. \A q \in Procs \ {p}, h \in Frames : Holds(q, h)' <=> Holds(q, h)
  BY <1>11 DEF Holds
<1>16. \A h \in Frames : ~ Holds(p, h) /\ (Holds(p, h)' <=> h = f)
  BY <1>1, <1>10, <1>11 DEF Holds
<1>17. \A q \in Procs : \A h \in Frames, k \in Pages : Fills(q, h, k)' <=> Fills(q, h, k)
  BY <1>1, <1>10, <1>11 DEF Fills
<1>18. \A q \in Procs, h \in Frames, k \in Pages : Clears(q, h, k)' <=> (q = p /\ h = f /\ k = g)
  BY <1>4, <1>10, <1>11 DEF Clears, EvictPcs
<1>19. \A q \in Procs, h \in Frames, k \in Pages : ~ Clears(q, h, k)
  BY <1>1, <1>4 DEF Clears, EvictPcs
<1>20. \A q \in Procs, k \in Pages : Unloads(q, k) <=> (q = p /\ k = g)
  BY <1>1, <1>4 DEF Unloads, EvictPcs
<1>21. \A q \in Procs : Ends(q)' <=> Ends(q)
  BY <1>1, <1>10, <1>11 DEF Ends, DropPcs
<1>22. FrameInv'
  <2>1. HeldApart' /\ HeldByOne'
    <3>1. f \notin pool /\ \A q \in Procs : ~ Holds(q, f)
      BY <1>3 DEF PInv, FrameInv, PoolApart, HeldApart
    <3>2. HeldApart'
      BY <1>1, <1>8, <1>15, <1>16, <3>1 DEF PInv, FrameInv, HeldApart
    <3>3. HeldByOne'
      <4>1. HeldByOne
        BY DEF PInv, FrameInv
      <4> QED
        BY ONLY <1>15, <1>16, <3>1, <4>1 DEF HeldByOne
    <3> QED
      BY <3>2, <3>3
  <2>2. PoolApart'
    BY <1>1, <1>8 DEF PInv, FrameInv, PoolApart, TypeOK
  <2>3. Somewhere'
    BY <1>1, <1>8, <1>15, <1>16 DEF PInv, FrameInv, Somewhere
  <2>4. TableOK'
    <3>1. SUFFICES ASSUME NEW h \in Frames, NEW k \in Pages, ft'[h] = k
                   PROVE  \/ spt'[k].present /\ spt'[k].loaded /\ pte'[k].frame = h
                          \/ Fills(Owner[k], h, k)'
      BY DEF TableOK
    <3>2. h # f /\ ft[h] = k
      BY <1>8, <3>1
    <3>3. \/ spt[k].present /\ spt[k].loaded /\ pte[k].frame = h
          \/ Fills(Owner[k], h, k)
      BY <3>2 DEF PInv, FrameInv, TableOK
    <3>4. k # g
      <4>1. ~ Fills(Owner[g], h, g)
        BY <1>3, Known DEF Fills, Loading, LoadPcs
      <4> QED
        BY <1>3, <3>2, <3>3, <4>1
    <3> QED
      BY <1>1, <1>6, <1>17, <3>3, <3>4
  <2>5. MapOK'
    BY <1>1, <1>3, <1>8, <1>18, <1>19 DEF PInv, FrameInv, MapOK, TypeOK
  <2> QED
    BY <2>1, <2>2, <2>3, <2>4, <2>5 DEF FrameInv
<1>23. UnbornOK' /\ TypesOK'
  <2>1. UnbornOK'
    BY <1>1, <1>6, <1>7, <1>10, <1>11 DEF PInv, UnbornOK
  <2>2. TypesOK'
    BY <1>1, <1>6, <1>7 DEF PInv, TypesOK
  <2> QED
    BY <2>1, <2>2
<1>24. SlotInv'
  <2>1. SlotOwned'
    BY <1>1, <1>6, <1>7, <1>20 DEF PInv, SlotInv, SlotOwned
  <2>2. SlotOnce'
    BY <1>6, <1>7 DEF PInv, SlotInv, SlotOnce
  <2>3. SlotKept'
    BY <1>3, <1>6, <1>7 DEF PInv, SlotInv, SlotKept
  <2>4. SlotUsed'
    BY <1>1, <1>6, <1>7, <1>21 DEF PInv, SlotInv, SlotUsed
  <2> QED
    BY <2>1, <2>2, <2>3, <2>4 DEF SlotInv
<1> QED
  BY <1>12, <1>13, <1>14, <1>22, <1>23, <1>24 DEF PInv

\* The victim's mapping is cleared and its frame goes back to the pool.
LEMMA ClearKeeps ==
  ASSUME PInv, NEW p \in Procs, Clear(p)
  PROVE  PInv'
<1> USE PagingConstants
<1> DEFINE f == at[p].victim
           g == at[p].vpage
<1>1. /\ at[p].pc = "clear"
      /\ pte' = [pte EXCEPT ![g] = IF spt[g].type = "MMAP" THEN [@ EXCEPT !.frame = None]
                                   ELSE NoPte]
      /\ pool' = pool \cup {f} /\ mem' = [mem EXCEPT ![f] = Zero]
      /\ at' = [at EXCEPT ![p].pc = "reget", ![p].victim = None, ![p].vpage = None]
      /\ UNCHANGED <<kind, spt, ft, file, swap, slots, lock, want, torn>>
  BY DEF Clear, On, Fine, PallocFree, history
<1>2. at[p] \in Point /\ Locals(p) /\ Loading(p) /\ Evicting(p) /\ LockedBy(p)
  BY Known
<1>3. f \in Frames /\ g \in Pages /\ pte[g].frame = f
  BY <1>1, <1>2 DEF Locals, Evicting
<1>4. \A q \in Procs \ {p} : at[q].pc \notin EvictPcs
  BY <1>1, OneEvictor DEF EvictPcs
<1>5. Holds(p, f) /\ f \notin pool /\ ft[f] = None
  BY <1>1, <1>3 DEF Holds, PInv, FrameInv, HeldApart
<1>6. /\ pte' \in [Pages -> [frame : Frames \cup {None}, acc : BOOLEAN, dirty : BOOLEAN]]
      /\ pte'[g].frame = None
      /\ \A h \in Pages \ {g} : pte'[h] = pte[h]
  <2> DEFINE Entry == [frame : Frames \cup {None}, acc : BOOLEAN, dirty : BOOLEAN]
             e == IF spt[g].type = "MMAP" THEN [pte[g] EXCEPT !.frame = None] ELSE NoPte
  <2>1. pte \in [Pages -> Entry] /\ pte[g] \in Entry
    BY <1>3 DEF PInv, TypeOK
  <2>2. e \in Entry /\ e.frame = None
    BY <2>1 DEF NoPte
  <2>3. pte' = [pte EXCEPT ![g] = e]
    BY <1>1, <1>3
  <2> HIDE DEF e
  <2> QED
    BY <1>3, <2>1, <2>2, <2>3
<1> DEFINE x == [at[p] EXCEPT !.pc = "reget", !.victim = None, !.vpage = None]
<1>7. at' = [at EXCEPT ![p] = x]
  BY <1>1 DEF PInv, AtType
<1>8. /\ x \in Point /\ x.pc = "reget" /\ x.frame = at[p].frame /\ x.page = at[p].page
      /\ x.then = at[p].then /\ x.op = at[p].op /\ x.esp = at[p].esp /\ x.buf = at[p].buf
  BY <1>2 DEF Point, Pcs, LoadPcs, EvictPcs
<1> HIDE DEF x
<1>9. at'[p] = x /\ \A q \in Procs \ {p} : at'[q] = at[q]
  BY <1>7 DEF PInv, AtType
<1>10. TypeOK' /\ KindOK'
  <2>1. mem' \in [Frames -> Values] /\ pool' \subseteq Frames
    BY <1>1, <1>3 DEF PInv, TypeOK
  <2> QED
    BY <1>1, <1>6, <2>1 DEF PInv, TypeOK, KindOK
<1>11. AtType'
  BY <1>7, <1>8 DEF PInv, AtType
<1>12. PointsOK'
  <2>1. ASSUME NEW q \in Procs \ {p} PROVE PointOK(q)'
    <3>1. Spares(q)
      BY <1>1, <1>4, <1>6, <1>9, OtherPages DEF Spares, EvictPcs
    <3> QED
      BY <3>1, PointStays
  <2>2. PointOK(p)'
    <3>1. Locals(p)'
      BY <1>1, <1>2, <1>8, <1>9 DEF Locals, InCall, CallPcs, LoadPcs, EvictPcs, DropPcs
    <3>2. Loading(p)'
      <4>1. /\ at'[p].pc = "reget" /\ at'[p].page = at[p].page /\ ft' = ft /\ spt' = spt
            /\ kind' = kind /\ at[p].pc = "clear" /\ Loading(p)
        BY <1>1, <1>2, <1>8, <1>9
      <4> QED
        BY ONLY <4>1 DEF Loading, LoadPcs, EvictPcs
    <3>3. LockedBy(p)' /\ Evicting(p)' /\ Dropping(p)'
      BY <1>1, <1>2, <1>8, <1>9 DEF LockedBy, Evicting, Dropping, EvictPcs, DropPcs
    <3> QED
      BY <3>1, <3>2, <3>3 DEF PointOK
  <2> QED
    BY <2>1, <2>2 DEF PointsOK
<1>13. \A q \in Procs \ {p}, h \in Frames : Holds(q, h)' <=> Holds(q, h)
  BY <1>9 DEF Holds
<1>14. \A h \in Frames : (Holds(p, h) => h = f) /\ ~ Holds(p, h)'
  BY <1>1, <1>8, <1>9 DEF Holds
<1>15. \A q \in Procs : \A h \in Frames, k \in Pages : Fills(q, h, k)' <=> Fills(q, h, k)
  BY <1>1, <1>8, <1>9 DEF Fills
<1>16. \A q \in Procs, h \in Frames, k \in Pages : Clears(q, h, k) => k = g
  BY <1>1, <1>4 DEF Clears, EvictPcs
<1>17. \A q \in Procs : /\ \A k \in Pages : Unloads(q, k)' <=> Unloads(q, k)
                        /\ Ends(q)' <=> Ends(q)
  <2>1. at[p].pc = "clear" /\ at'[p].pc = "reget"
    BY <1>1, <1>8, <1>9
  <2> QED
    BY ONLY <1>9, <2>1 DEF Unloads, Ends, DropPcs
<1>18. FrameInv'
  <2>1. HeldApart'
    BY <1>1, <1>5, <1>13, <1>14 DEF PInv, FrameInv, HeldApart, HeldByOne
  <2>2. HeldByOne'
    BY <1>13, <1>14 DEF PInv, FrameInv, HeldByOne
  <2>3. PoolApart'
    BY <1>1, <1>5 DEF PInv, FrameInv, PoolApart
  <2>4. Somewhere'
    BY <1>1, <1>13, <1>14 DEF PInv, FrameInv, Somewhere
  <2>5. TableOK'
    BY <1>1, <1>3, <1>5, <1>6, <1>15 DEF PInv, FrameInv, TableOK
  <2>6. MapOK'
    BY <1>1, <1>6, <1>16 DEF PInv, FrameInv, MapOK, TypeOK
  <2> QED
    BY <2>1, <2>2, <2>3, <2>4, <2>5, <2>6 DEF FrameInv
<1>19. UnbornOK' /\ TypesOK'
  <2>1. UnbornOK'
    <3> SUFFICES ASSUME NEW k \in Pages, at'[Owner[k]].pc = "unborn"
                 PROVE  ~ spt'[k].present /\ pte'[k].frame = None
      BY DEF UnbornOK
    <3>1. at[Owner[k]].pc = "unborn"
      BY <1>8, <1>9
    <3>2. ~ spt[k].present /\ pte[k].frame = None
      BY <3>1 DEF PInv, UnbornOK
    <3> QED
      BY <1>1, <1>6, <3>2
  <2>2. TypesOK'
    BY <1>1 DEF PInv, TypesOK
  <2> QED
    BY <2>1, <2>2
<1>20. SlotInv'
  BY <1>1, <1>17 DEF PInv, SlotInv, SlotOwned, SlotOnce, SlotKept, SlotUsed
<1> QED
  BY <1>10, <1>11, <1>12, <1>18, <1>19, <1>20 DEF PInv

\* frame_free waits for the evictor, and frees the frame if it is still the
\* page's.
LEMMA FreeFrameKeeps ==
  ASSUME PInv, NEW p \in Procs, FreeFrame(p)
  PROVE  PInv'
<1> USE PagingConstants
<1> DEFINE f == at[p].frame
           g == at[p].page
           found == f # None /\ ft[f] # None
<1>1. /\ at[p].pc = "free" /\ lock["ft"] = None /\ (found => ft[f] = g)
      /\ ft' = IF found THEN [ft EXCEPT ![f] = None] ELSE ft
      /\ IF found THEN PallocFree(f) ELSE UNCHANGED <<pool, mem>>
      /\ pte' = [pte EXCEPT ![g] = NoPte] /\ spt' = [spt EXCEPT ![g] = Absent] /\ Forget(g)
      /\ at' = [at EXCEPT ![p].pc = "exit", ![p].page = None, ![p].frame = None]
      /\ UNCHANGED <<kind, file, swap, slots, lock>>
  BY DEF FreeFrame, On, Fine, Free
<1>2. at[p] \in Point /\ Locals(p) /\ Dropping(p)
  BY Known
<1>3. /\ g \in Pages /\ Owner[g] = p /\ at[p].op \in {"munmap", "exit"}
      /\ at[p].op = "munmap" => spt[g].type = "MMAP"
      /\ pte[g].frame \in {None, f}
  BY <1>1, <1>2 DEF Locals, Dropping, DropPcs
<1>4. f \in Frames \cup {None} /\ (found => f \in Frames)
  BY <1>2 DEF Point
<1>5. \A q \in Procs : at[q].pc \notin EvictPcs
  BY <1>1, NobodyClears
<1>6. /\ spt' \in [Pages -> PageState] /\ spt'[g] = Absent
      /\ \A h \in Pages \ {g} : spt'[h] = spt[h]
  <2>1. Absent \in PageState
    BY DEF Absent, PageState
  <2> QED
    BY <1>1, <1>3, <2>1 DEF PInv, TypeOK
<1>7. ~ spt'[g].present /\ spt'[g].slot = None
  BY <1>6 DEF Absent
<1>8. /\ pte' \in [Pages -> [frame : Frames \cup {None}, acc : BOOLEAN, dirty : BOOLEAN]]
      /\ pte'[g].frame = None
      /\ \A h \in Pages \ {g} : pte'[h] = pte[h]
  <2> DEFINE Entry == [frame : Frames \cup {None}, acc : BOOLEAN, dirty : BOOLEAN]
  <2>1. pte \in [Pages -> Entry]
    BY DEF PInv, TypeOK
  <2>2. NoPte \in Entry /\ NoPte.frame = None
    BY DEF NoPte
  <2> HIDE DEF Entry
  <2>3. pte' \in [Pages -> Entry] /\ pte'[g] = NoPte
    BY <1>1, <1>3, <2>1, <2>2
  <2>4. \A h \in Pages \ {g} : pte'[h] = pte[h]
    BY <1>1, <2>1
  <2> QED
    BY <2>2, <2>3, <2>4 DEF Entry
<1>9. \A h \in Frames : ft'[h] = IF found /\ h = f THEN None ELSE ft[h]
  BY <1>1, <1>4 DEF PInv, TypeOK
<1>10. pool' = IF found THEN pool \cup {f} ELSE pool
  BY <1>1 DEF PallocFree
<1> DEFINE x == [at[p] EXCEPT !.pc = "exit", !.page = None, !.frame = None]
<1>11. at' = [at EXCEPT ![p] = x]
  BY <1>1 DEF PInv, AtType
<1>12. x \in Point /\ x.pc = "exit" /\ x.op = at[p].op /\ x.esp = at[p].esp /\ x.buf = at[p].buf
  BY <1>2 DEF Point, Pcs
<1> HIDE DEF x
<1>13. at'[p] = x /\ \A q \in Procs \ {p} : at'[q] = at[q]
  BY <1>11 DEF PInv, AtType
<1>14. TypeOK' /\ KindOK'
  <2>1. want' \in [Pages -> Values] /\ torn' \subseteq Pages
    BY <1>1, <1>3, ForgetTypes
  <2>2. pool' \subseteq Frames
    BY <1>4, <1>10 DEF PInv, TypeOK
  <2>3. mem' \in [Frames -> Values]
    <3>1. CASE found
      BY <1>1, <3>1 DEF PInv, TypeOK, PallocFree
    <3>2. CASE ~ found
      BY <1>1, <3>2 DEF PInv, TypeOK
    <3> QED
      BY <3>1, <3>2
  <2>4. ft' \in [Frames -> Pages \cup {None}]
    BY <1>1 DEF PInv, TypeOK
  <2> QED
    BY <1>1, <1>6, <1>8, <2>1, <2>2, <2>3, <2>4 DEF PInv, TypeOK, KindOK
<1>15. AtType'
  BY <1>11, <1>12 DEF PInv, AtType
<1>16. PointsOK'
  <2>1. ASSUME NEW q \in Procs \ {p} PROVE PointOK(q)'
    <3>1. at[q].pc \in LoadPcs \cup DropPcs => at[q].page \in Pages \ {g}
      BY <1>3, OtherPages
    <3>2. at[q].pc \in LoadPcs => \A h \in Frames : ft'[h] = at[q].page <=> ft[h] = at[q].page
      BY <1>1, <1>9, <3>1
    <3>3. at[q].pc \notin EvictPcs /\ at[q].pc \notin {"out", "unload", "clear"}
      BY <1>5 DEF EvictPcs
    <3>4. Spares(q)
      BY <1>1, <1>6, <1>8, <1>13, <3>1, <3>2, <3>3 DEF Spares
    <3> QED
      BY <3>4, PointStays
  <2>2. PointOK(p)'
    <3>1. Locals(p)'
      BY <1>1, <1>2, <1>12, <1>13 DEF Locals, InCall, CallPcs, LoadPcs, EvictPcs, DropPcs
    <3>2. LockedBy(p)' /\ Loading(p)' /\ Evicting(p)' /\ Dropping(p)'
      BY <1>1, <1>12, <1>13 DEF LockedBy, Loading, Evicting, Dropping, LoadPcs, EvictPcs, DropPcs
    <3> QED
      BY <3>1, <3>2 DEF PointOK
  <2> QED
    BY <2>1, <2>2 DEF PointsOK
<1>17. \A q \in Procs, h \in Frames : Holds(q, h)' <=> Holds(q, h)
  BY <1>1, <1>12, <1>13 DEF Holds
<1>18. \A q \in Procs : \A h \in Frames, k \in Pages : /\ Fills(q, h, k)' <=> Fills(q, h, k)
                                                       /\ ~ Clears(q, h, k)
  BY <1>1, <1>5, <1>12, <1>13 DEF Fills, Clears, EvictPcs
<1>19. \A q \in Procs : \A k \in Pages : ~ Unloads(q, k)
  BY <1>5 DEF Unloads, EvictPcs
<1>20. \A q \in Procs : Ends(q)' <=> Ends(q)
  <2>1. at[p].pc = "free" /\ at'[p].pc = "exit" /\ at'[p].op = at[p].op
    BY <1>1, <1>12, <1>13
  <2> QED
    BY ONLY <1>13, <2>1 DEF Ends, DropPcs
<1>21. \A h \in Frames : ft[h] = g => found /\ h = f
  <2>1. \A h \in Frames : ~ Fills(p, h, g)
    BY <1>1 DEF Fills
  <2> QED
    BY <1>3, <2>1 DEF PInv, FrameInv, TableOK
<1> HIDE DEF found
<1>22. FrameInv'
  <2>1. found => ft[f] # None
    BY DEF found
  <2>2. HeldApart'
    BY <1>4, <1>9, <1>10, <1>17, <2>1 DEF PInv, FrameInv, HeldApart
  <2>3. HeldByOne'
    BY <1>17 DEF PInv, FrameInv, HeldByOne
  <2>4. PoolApart'
    BY <1>4, <1>9, <1>10 DEF PInv, FrameInv, PoolApart, TypeOK
  <2>5. Somewhere'
    BY <1>9, <1>10, <1>17 DEF PInv, FrameInv, Somewhere
  <2>6. TableOK'
    BY <1>6, <1>8, <1>9, <1>18, <1>21 DEF PInv, FrameInv, TableOK
  <2>7. MapOK'
    BY <1>1, <1>8, <1>9, <1>18 DEF PInv, FrameInv, MapOK, TypeOK
  <2> QED
    BY <2>2, <2>3, <2>4, <2>5, <2>6, <2>7 DEF FrameInv
<1>23. UnbornOK' /\ TypesOK'
  <2>1. UnbornOK'
    BY <1>6, <1>7, <1>8, <1>12, <1>13 DEF PInv, UnbornOK
  <2>2. TypesOK'
    BY <1>1, <1>6, <1>7 DEF PInv, TypesOK
  <2> QED
    BY <2>1, <2>2
<1>24. SlotInv'
  <2>1. SlotOwned'
    BY <1>1, <1>6, <1>7, <1>19 DEF PInv, SlotInv, SlotOwned
  <2>2. SlotOnce'
    BY <1>6, <1>7 DEF PInv, SlotInv, SlotOnce
  <2>3. SlotKept'
    BY <1>6, <1>7 DEF PInv, SlotInv, SlotKept
  <2>4. SlotUsed'
    <3>1. spt[g].slot # None => Ends(p)
      BY <1>1, <1>3 DEF PInv, SlotInv, SlotOwned, Ends, DropPcs
    <3> QED
      <4>1. slots' = slots /\ \A h \in Pages \ {g} : spt'[h] = spt[h]
        BY <1>1, <1>6
      <4>2. SlotUsed /\ None \notin slots
        BY DEF PInv, SlotInv, TypeOK
      <4> QED
        BY ONLY <1>20, <3>1, <4>1, <4>2, p \in Procs DEF SlotUsed
  <2> QED
    BY <2>1, <2>2, <2>3, <2>4 DEF SlotInv
<1> QED
  BY <1>14, <1>15, <1>16, <1>22, <1>23, <1>24 DEF PInv

\* frame_evict writes the contents of the victim to a free swap slot.
LEMMA SwapOutKeeps ==
  ASSUME PInv, NEW p \in Procs, NEW s \in Slots \ slots, NEW g \in Pages, g = at[p].vpage,
         at[p].pc = "out", spt[g].type # "MMAP",
         slots' = slots \cup {s}, swap' = [swap EXCEPT ![s] = mem[at[p].victim]],
         spt' = [spt EXCEPT ![g].type = "SWAP", ![g].slot = s],
         at' = [at EXCEPT ![p].pc = "unload"],
         UNCHANGED <<kind, pte, ft, pool, mem, file, lock, want, torn>>
  PROVE  PInv'
<1> USE PagingConstants
<1> DEFINE f == at[p].victim
<1>2. at[p] \in Point /\ Locals(p) /\ Loading(p) /\ Evicting(p) /\ LockedBy(p)
  BY Known
<1>3. /\ f \in Frames /\ spt[g].present /\ spt[g].loaded /\ ft[f] = g
      /\ pte[g].frame = f
  BY <1>2 DEF Locals, Evicting
<1>4. \A q \in Procs \ {p} : at[q].pc \notin EvictPcs
  BY OneEvictor DEF EvictPcs
<1>5. spt \in [Pages -> PageState] /\ spt[g] \in PageState
  BY DEF PInv, TypeOK
<1>6. /\ spt' \in [Pages -> PageState]
      /\ \A h \in Pages \ {g} : spt'[h] = spt[h]
  BY <1>5 DEF PageState
<1>7. /\ spt'[g].present = spt[g].present /\ spt'[g].type = "SWAP"
      /\ spt'[g].slot = s /\ spt'[g].loaded = spt[g].loaded
  BY <1>5 DEF PageState
<1>8. spt[g].slot = None
  <2>1. \A q \in Procs : ~ Unloads(q, g)
    BY <1>4 DEF Unloads, EvictPcs
  <2> QED
    BY <1>3, <2>1 DEF PInv, SlotInv, SlotOwned
<1> DEFINE x == [at[p] EXCEPT !.pc = "unload"]
<1>9. at' = [at EXCEPT ![p] = x]
  OBVIOUS
<1>10. /\ x \in Point /\ x.pc = "unload" /\ x.frame = at[p].frame /\ x.page = at[p].page
       /\ x.then = at[p].then /\ x.op = at[p].op /\ x.esp = at[p].esp /\ x.buf = at[p].buf
       /\ x.victim = f /\ x.vpage = g
  BY <1>2 DEF Point, Pcs, LoadPcs, EvictPcs
<1> HIDE DEF x
<1>11. at'[p] = x /\ \A q \in Procs \ {p} : at'[q] = at[q]
  BY <1>9 DEF PInv, AtType
<1>12. TypeOK' /\ KindOK'
  <2>1. swap' \in [Slots -> Values] /\ slots' \subseteq Slots
    BY <1>3 DEF PInv, TypeOK
  <2> QED
    BY <1>6, <2>1 DEF PInv, TypeOK, KindOK
<1>13. AtType'
  BY <1>9, <1>10 DEF PInv, AtType
<1>14. PointsOK'
  <2>1. ASSUME NEW q \in Procs PROVE at[q].pc \in LoadPcs => at[q].page # g
    BY <1>3, Known DEF Loading
  <2>2. ASSUME NEW q \in Procs \ {p} PROVE PointOK(q)'
    <3>1. at[q].pc \in LoadPcs => spt'[at[q].page] = spt[at[q].page]
      BY <1>6, <2>1, OtherPages
    <3>2. at[q].pc \in DropPcs /\ at[q].op = "munmap" => spt'[at[q].page] = spt[at[q].page]
      <4>1. at[q].pc \in DropPcs => at[q].page \in Pages
        BY OtherPages
      <4>2. at[q].pc \in DropPcs /\ at[q].op = "munmap" => spt[at[q].page].type = "MMAP"
        BY Known DEF Dropping
      <4> QED
        BY <1>6, <4>1, <4>2
    <3>3. at[q].pc \notin EvictPcs /\ at[q].pc \notin {"out", "unload", "clear"}
      BY <1>4 DEF EvictPcs
    <3>4. Spares(q)
      BY <1>11, <3>1, <3>2, <3>3 DEF Spares
    <3> QED
      BY <3>4, PointStays
  <2>3. PointOK(p)'
    <3>1. Locals(p)'
      BY <1>2, <1>3, <1>10, <1>11 DEF Locals, InCall, CallPcs, LoadPcs, EvictPcs, DropPcs
    <3>2. at[p].page \in Pages /\ at[p].page # g
      BY <1>2, <2>1 DEF Locals, LoadPcs, EvictPcs
    <3>3. Loading(p)'
      <4>1. /\ at'[p].pc = "unload" /\ at'[p].page = at[p].page /\ ft' = ft /\ kind' = kind
            /\ spt'[at[p].page] = spt[at[p].page]
        BY <1>6, <1>10, <1>11, <3>2
      <4>2. Loading(p) /\ at[p].pc \in LoadPcs /\ at[p].pc # "fill"
        BY <1>2 DEF LoadPcs, EvictPcs
      <4> QED
        BY ONLY <4>1, <4>2 DEF Loading
    <3>4. LockedBy(p)'
      BY <1>2, <1>10, <1>11 DEF LockedBy, EvictPcs
    <3>5. Evicting(p)'
      <4>1. spt'[g].present /\ spt'[g].loaded /\ ft'[f] = g /\ pte'[g].frame = f
        BY <1>3, <1>7
      <4>2. spt'[g].slot # None
        BY <1>7
      <4> QED
        BY <1>10, <1>11, <4>1, <4>2 DEF Evicting
    <3>6. Dropping(p)'
      BY <1>10, <1>11 DEF Dropping, DropPcs
    <3> QED
      BY <3>1, <3>3, <3>4, <3>5, <3>6 DEF PointOK
  <2> QED
    BY <2>2, <2>3 DEF PointsOK
<1>15. \A q \in Procs : /\ \A h \in Frames : Holds(q, h)' <=> Holds(q, h)
                        /\ \A h \in Frames, k \in Pages : Fills(q, h, k)' <=> Fills(q, h, k)
                        /\ \A h \in Frames, k \in Pages : Clears(q, h, k)' <=> Clears(q, h, k)
                        /\ \A k \in Pages : ~ Unloads(q, k)
                        /\ Ends(q)' <=> Ends(q)
  BY <1>4, <1>10, <1>11 DEF Holds, Fills, Clears, Unloads, Ends, DropPcs, EvictPcs
<1>16. Unloads(p, g)'
  BY <1>10, <1>11 DEF Unloads
<1>17. FrameInv'
  <2>1. HeldApart' /\ HeldByOne' /\ PoolApart' /\ Somewhere'
    BY <1>15 DEF PInv, FrameInv, HeldApart, HeldByOne, PoolApart, Somewhere, TypeOK
  <2>2. TableOK'
    BY <1>6, <1>7, <1>15 DEF PInv, FrameInv, TableOK
  <2>3. MapOK'
    BY <1>15 DEF PInv, FrameInv, MapOK, TypeOK
  <2> QED
    BY <2>1, <2>2, <2>3 DEF FrameInv
<1>18. UnbornOK' /\ TypesOK'
  <2>1. UnbornOK'
    BY <1>6, <1>7, <1>10, <1>11 DEF PInv, UnbornOK
  <2>2. TypesOK'
    BY <1>3, <1>6, <1>7 DEF PInv, TypesOK
  <2> QED
    BY <2>1, <2>2
<1>19. SlotInv'
  <2>1. SlotOwned'
    BY <1>3, <1>6, <1>7, <1>15, <1>16 DEF PInv, SlotInv, SlotOwned
  <2>2. SlotOnce'
    BY <1>6, <1>7 DEF PInv, SlotInv, SlotOnce, SlotOwned
  <2>3. SlotKept'
    BY <1>3, <1>6, <1>7 DEF PInv, SlotInv, SlotKept
  <2>4. SlotUsed'
    <3> SUFFICES ASSUME NEW k \in slots'
                 PROVE  (\E h \in Pages : spt'[h].slot = k) \/ \E q \in Procs : Ends(q)'
      BY DEF SlotUsed
    <3>1. CASE k = s
      BY <1>3, <1>7, <3>1
    <3>2. CASE k # s
      <4>1. k \in slots /\ k # None
        BY <3>2 DEF PInv, TypeOK
      <4>2. (\E h \in Pages : spt[h].slot = k) \/ \E q \in Procs : Ends(q)
        BY <4>1 DEF PInv, SlotInv, SlotUsed
      <4>3. \A h \in Pages : spt[h].slot = k => h # g
        BY <1>8, <4>1
      <4> QED
        BY <1>6, <1>15, <4>2, <4>3
    <3> QED
      BY <3>1, <3>2
  <2> QED
    BY <2>1, <2>2, <2>3, <2>4 DEF SlotInv
<1> QED
  BY <1>12, <1>13, <1>14, <1>17, <1>18, <1>19 DEF PInv

\* The contents go to the mapped file, to a swap slot, or nowhere.
LEMMA PageOutKeeps ==
  ASSUME PInv, NEW p \in Procs, PageOut(p)
  PROVE  PInv'
<1> USE PagingConstants
<1> DEFINE f == at[p].victim
<1>1. PICK g \in Pages : g = at[p].vpage
  BY Known DEF PageOut, On, Locals
<1>2. /\ at[p].pc = "out" /\ at' = [at EXCEPT ![p].pc = "unload"]
      /\ UNCHANGED <<kind, pte, ft, pool, mem, lock, want, torn>>
  BY DEF PageOut, On, Fine, history
<1>3. \/ ~ Outgoing(g) /\ UNCHANGED <<spt, file, swap, slots>>
      \/ /\ Outgoing(g) /\ spt[g].type = "MMAP" /\ Free("fs")
         /\ file' = [file EXCEPT ![g] = mem[f]]
         /\ UNCHANGED <<spt, swap, slots>>
      \/ /\ Outgoing(g) /\ spt[g].type # "MMAP"
         /\ \E s \in Slots \ slots :
               /\ slots' = slots \cup {s}
               /\ swap' = [swap EXCEPT ![s] = mem[f]]
               /\ spt' = [spt EXCEPT ![g].type = "SWAP", ![g].slot = s]
         /\ UNCHANGED file
  BY <1>1 DEF PageOut
<1>4. ASSUME spt[g].type # "SWAP", file' \in [Pages -> Values], UNCHANGED <<spt, swap, slots>>
      PROVE  PInv'
  <2>1. at[p] \in Point /\ Evicting(p) /\ LockedBy(p) /\ Locals(p)
    BY Known
  <2> DEFINE x == [at[p] EXCEPT !.pc = "unload"]
  <2>2. at' = [at EXCEPT ![p] = x]
    BY <1>2
  <2>3. /\ x \in Point /\ x.pc = "unload" /\ x.page = at[p].page /\ x.then = at[p].then
        /\ x.op = at[p].op /\ x.esp = at[p].esp /\ x.buf = at[p].buf
        /\ x.victim = f /\ x.vpage = g
    BY <1>1, <2>1 DEF Point, Pcs, LoadPcs, EvictPcs
  <2> HIDE DEF x
  <2>4. TypeOK' /\ TablesStay /\ LockMove(p)
    BY <1>2, <1>4 DEF PInv, TypeOK, TablesStay, LockMove
  <2>5. Evicting(p)'
    BY <1>1, <1>2, <1>4, <2>1, <2>2, <2>3 DEF Evicting, PInv, AtType
  <2>6. (x.pc \in EvictPcs <=> lock'["ft"] = p) /\ f \in Frames
    BY <1>2, <2>1, <2>3 DEF LockedBy, EvictPcs, Locals
  <2> QED
    BY <1>2, <1>4, <2>2, <2>3, <2>4, <2>5, <2>6, LoaderStep
<1>5. CASE ~ Outgoing(g) /\ UNCHANGED <<spt, file, swap, slots>>
  BY <1>4, <1>5 DEF Outgoing, PInv, TypeOK
<1>6. CASE /\ spt[g].type = "MMAP" /\ file' = [file EXCEPT ![g] = mem[f]]
           /\ UNCHANGED <<spt, swap, slots>>
  <2>1. f \in Frames
    BY <1>2, Known DEF Locals
  <2> QED
    BY <1>4, <1>6, <2>1 DEF PInv, TypeOK
<1>7. CASE /\ spt[g].type # "MMAP" /\ UNCHANGED file
           /\ \E s \in Slots \ slots :
                /\ slots' = slots \cup {s}
                /\ swap' = [swap EXCEPT ![s] = mem[f]]
                /\ spt' = [spt EXCEPT ![g].type = "SWAP", ![g].slot = s]
  BY <1>1, <1>2, <1>7, SwapOutKeeps
<1> QED
  BY <1>3, <1>5, <1>6, <1>7

\* What load_page and grow_stack find when they fill the frame.
LEMMA Filled ==
  ASSUME PInv, NEW p \in Procs, at[p].pc = "fill", NEW g \in Pages, g = at[p].page
  PROVE  /\ Owner[g] = p /\ at[p].frame \in Frames
         /\ spt[g].present => ~ spt[g].loaded
         /\ ~ spt[g].present => spt[g].type = "SWAP" /\ kind[g] = "stack"
         /\ ft[at[p].frame] = g /\ pte[g].frame = None
         /\ spt[g].slot # None <=> spt[g].present /\ spt[g].type = "SWAP"
<1>1. Locals(p) /\ Loading(p)
  BY Known
<1>2. /\ Owner[g] = p /\ at[p].frame \in Frames
      /\ spt[g].present => ~ spt[g].loaded
      /\ ~ spt[g].present => spt[g].type = "SWAP" /\ kind[g] = "stack"
      /\ ft[at[p].frame] = g /\ pte[g].frame = None
  BY <1>1 DEF Locals, Loading, LoadPcs
<1>3. spt[g].slot # None <=> spt[g].present /\ spt[g].type = "SWAP"
  BY <1>2 DEF PInv, SlotInv, SlotOwned, SlotKept
<1> QED
  BY <1>2, <1>3

\* The code goes on in user mode or in the system call that loads the page.
LEMMA Resumes ==
  ASSUME PInv, NEW p \in Procs, at[p].pc = "fill", NEW x, x = Resume(at[p])
  PROVE  /\ x \in Point /\ x.pc \in {"user", "args", "copy"}
         /\ x.pc # "user" => /\ at[p].then \in {"args", "buf"} /\ x.op = at[p].op
                             /\ x.esp = at[p].esp /\ x.buf = at[p].buf
<1>1. at[p] \in Point /\ at[p].then \in {"fault", "boot", "args", "buf"}
  BY Known DEF Locals, LoadPcs
<1>2. CASE at[p].then \in {"fault", "boot"}
  BY <1>2, AtPoint DEF Resume, At
<1>3. CASE at[p].then = "args"
  <2>1. x = [at[p] EXCEPT !.pc = "args", !.page = None, !.then = None, !.frame = None]
    BY <1>3 DEF Resume
  <2> QED
    BY <1>1, <1>3, <2>1 DEF Point, Pcs, CallPcs
<1>4. CASE at[p].then = "buf"
  <2>1. x = [at[p] EXCEPT !.pc = "copy", !.page = None, !.then = None, !.frame = None]
    BY <1>4 DEF Resume
  <2> QED
    BY <1>1, <1>4, <2>1 DEF Point, Pcs, CallPcs
<1> QED
  BY <1>1, <1>2, <1>3, <1>4

\* The types after the frame has been filled.
LEMMA FillTypes ==
  ASSUME PInv, NEW p \in Procs, Fill(p)
  PROVE  TypeOK'
<1> USE PagingConstants
<1> DEFINE g == at[p].page
           f == at[p].frame
           sl == spt[g].slot
           swapped == spt[g].present /\ spt[g].type = "SWAP"
<1>1. at[p].pc = "fill" /\ g \in Pages
  BY Known DEF Fill, On, Locals, LoadPcs
<1>2. f \in Frames /\ (swapped => sl \in Slots)
  <2>1. f \in Frames /\ (sl # None <=> spt[g].present /\ spt[g].type = "SWAP")
    BY <1>1, Filled
  <2>2. sl \in Slots \cup {None}
    BY <1>1 DEF PInv, TypeOK, PageState
  <2> QED
    BY <2>1, <2>2
<1>3. mem' \in [Frames -> Values]
  <2>1. CASE Growing(g)
    BY <1>2, <2>1 DEF Fill, PInv, TypeOK
  <2>2. CASE ~ Growing(g) /\ swapped
    <3>1. mem' = [mem EXCEPT ![f] = swap[sl]]
      BY <2>2 DEF Fill
    <3>2. swap[sl] \in Values
      BY <1>2, <2>2 DEF PInv, TypeOK
    <3> QED
      BY <1>2, <3>1, <3>2 DEF PInv, TypeOK
  <2>3. CASE ~ Growing(g) /\ ~ swapped
    <3>1. mem' = [mem EXCEPT ![f] = file[g]]
      BY <2>3 DEF Fill
    <3> QED
      BY <1>1, <1>2, <3>1 DEF PInv, TypeOK
  <2> QED
    BY <2>1, <2>2, <2>3
<1>4. want' \in [Pages -> Values]
  <2>1. want' = [want EXCEPT ![g] = IF Growing(g) THEN mem[f] ELSE @]
    BY DEF Fill
  <2> QED
    BY <1>1, <1>2, <2>1 DEF PInv, TypeOK
<1>5. slots' \subseteq Slots /\ swap' \in [Slots -> Values]
  <2>1. /\ slots' = IF swapped THEN slots \ {sl} ELSE slots
        /\ swap' = IF swapped THEN [swap EXCEPT ![sl] = Zero] ELSE swap
    BY DEF Fill, SwappedIn
  <2> QED
    BY <1>2, <2>1 DEF PInv, TypeOK
<1>6. pte' \in [Pages -> [frame : Frames \cup {None}, acc : BOOLEAN, dirty : BOOLEAN]]
  <2>1. pte' = [pte EXCEPT ![g] = [frame |-> f, acc |-> swapped, dirty |-> swapped]]
    BY DEF Fill
  <2>2. swapped \in BOOLEAN
    BY <1>1 DEF PInv, TypeOK, PageState
  <2> HIDE DEF swapped
  <2> QED
    BY <1>1, <1>2, <2>1, <2>2 DEF PInv, TypeOK
<1>7. spt' \in [Pages -> PageState]
  <2>1. spt' = [spt EXCEPT ![g].loaded = TRUE, ![g].present = TRUE, ![g].slot = None,
                           ![g].locked = Growing(g) \/ at[p].then # "fault"]
    BY DEF Fill
  <2>2. PICK b \in BOOLEAN : b = (Growing(g) \/ at[p].then # "fault")
    OBVIOUS
  <2>3. spt' = [spt EXCEPT ![g].loaded = TRUE, ![g].present = TRUE, ![g].slot = None,
                           ![g].locked = b]
    BY <2>1, <2>2
  <2>4. spt \in [Pages -> PageState] /\ spt[g] \in PageState
    BY <1>1 DEF PInv, TypeOK
  <2> DEFINE e == [spt[g] EXCEPT !.loaded = TRUE, !.present = TRUE, !.slot = None,
                                 !.locked = b]
  <2>5. spt' = [spt EXCEPT ![g] = e]
    BY <1>1, <2>3, <2>4
  <2>6. e \in PageState
    BY <2>4 DEF PageState
  <2> HIDE DEF e
  <2> QED
    BY <1>1, <2>4, <2>5, <2>6
<1>8. UNCHANGED <<ft, pool, file, lock, torn>>
  BY DEF Fill
<1> QED
  BY <1>3, <1>4, <1>5, <1>6, <1>7, <1>8 DEF PInv, TypeOK

\* load_page and grow_stack fill the frame and install the page.
LEMMA FillKeeps ==
  ASSUME PInv, NEW p \in Procs, Fill(p)
  PROVE  PInv'
<1> USE PagingConstants
<1> DEFINE f == at[p].frame
<1>1. PICK g \in Pages : g = at[p].page /\ at[p].pc = "fill"
  BY Known DEF Fill, On, Locals, LoadPcs
<1>2. /\ Owner[g] = p /\ f \in Frames
      /\ spt[g].present => ~ spt[g].loaded
      /\ ~ spt[g].present => spt[g].type = "SWAP" /\ kind[g] = "stack"
      /\ ft[f] = g /\ pte[g].frame = None
  BY <1>1, Filled
<1>3. spt[g].slot # None <=> spt[g].present /\ spt[g].type = "SWAP"
  BY <1>1, Filled
<1>4. UNCHANGED <<kind, ft, pool, file, lock, torn>>
  BY DEF Fill, Fine
<1>5. slots' = slots \ {spt[g].slot}
  <2>1. None \notin slots
    BY DEF PInv, TypeOK
  <2>2. slots' = IF spt[g].present /\ spt[g].type = "SWAP" THEN slots \ {spt[g].slot}
                 ELSE slots
    BY <1>1 DEF Fill, SwappedIn
  <2> QED
    BY <1>3, <2>1, <2>2
<1>6. pte'[g].frame = f /\ \A h \in Pages \ {g} : pte'[h] = pte[h]
  BY <1>1 DEF Fill, PInv, TypeOK
<1>7. \A h \in Pages \ {g} : spt'[h] = spt[h]
  BY <1>1 DEF Fill, PInv, TypeOK
<1>8. /\ spt'[g].present /\ spt'[g].loaded /\ spt'[g].slot = None
      /\ spt'[g].type = spt[g].type
  <2>1. spt' = [spt EXCEPT ![g].loaded = TRUE, ![g].present = TRUE, ![g].slot = None,
                           ![g].locked = Growing(g) \/ at[p].then # "fault"]
    BY <1>1 DEF Fill
  <2> QED
    BY <2>1 DEF PInv, TypeOK, PageState
<1>9. PICK x : x = Resume(at[p])
  OBVIOUS
<1>10. /\ x \in Point /\ x.pc \in {"user", "args", "copy"}
       /\ x.pc # "user" => /\ at[p].then \in {"args", "buf"} /\ x.op = at[p].op
                           /\ x.esp = at[p].esp /\ x.buf = at[p].buf
  BY <1>1, <1>9, Resumes
<1>11. at' = [at EXCEPT ![p] = x]
  BY <1>9 DEF Fill
<1>12. at'[p] = x /\ \A q \in Procs \ {p} : at'[q] = at[q]
  BY <1>11 DEF PInv, AtType
<1>13. TypeOK' /\ AtType' /\ KindOK'
  <2>1. AtType'
    BY <1>10, <1>11 DEF PInv, AtType
  <2>2. KindOK'
    BY <1>4 DEF PInv, KindOK
  <2> QED
    BY <2>1, <2>2, FillTypes
<1>14. PointsOK'
  <2>1. ASSUME NEW q \in Procs \ {p} PROVE PointOK(q)'
    <3>1. Locals(q) /\ Evicting(q)
      BY Known
    <3>2. at[q].pc \in LoadPcs \cup DropPcs => at[q].page \in Pages \ {g}
      BY <1>2, <3>1 DEF Locals
    <3>3. at[q].pc \in {"out", "unload", "clear"} => at[q].vpage \in Pages \ {g}
      BY <1>2, <3>1 DEF Locals, Evicting
    <3>4. Spares(q)
      BY <1>4, <1>6, <1>7, <1>12, <3>2, <3>3 DEF Spares
    <3> QED
      BY <3>4, PointStays
  <2>2. PointOK(p)'
    <3>1. Locals(p) /\ LockedBy(p)
      BY Known
    <3>2. Locals(p)'
      BY <1>1, <1>4, <1>10, <1>12, <3>1
         DEF Locals, InCall, CallPcs, LoadPcs, EvictPcs, DropPcs
    <3>3. LockedBy(p)'
      BY <1>1, <1>4, <1>10, <1>12, <3>1 DEF LockedBy, EvictPcs
    <3>4. Loading(p)' /\ Evicting(p)' /\ Dropping(p)'
      BY <1>10, <1>12 DEF Loading, Evicting, Dropping, LoadPcs, EvictPcs, DropPcs
    <3> QED
      BY <3>2, <3>3, <3>4 DEF PointOK
  <2> QED
    BY <2>1, <2>2 DEF PointsOK
<1>15. \A q \in Procs : /\ \A h \in Frames : Holds(q, h)' <=> Holds(q, h)
                        /\ \A h \in Frames, k \in Pages : Clears(q, h, k)' <=> Clears(q, h, k)
                        /\ \A k \in Pages : Unloads(q, k)' <=> Unloads(q, k)
  BY <1>1, <1>10, <1>12 DEF Holds, Clears, Unloads
<1>16. \A q \in Procs : Ends(q)' <=> Ends(q)
  BY <1>1, <1>10, <1>12 DEF Ends, DropPcs
<1>17. \A h \in Frames : Fills(p, h, g) => h = f
  BY DEF Fills
<1>18. \A q \in Procs, h \in Frames, k \in Pages \ {g} : Fills(q, h, k) => Fills(q, h, k)'
  BY <1>1, <1>12 DEF Fills
<1>19. FrameInv'
  <2>1. HeldApart' /\ HeldByOne' /\ PoolApart' /\ Somewhere'
    BY <1>4, <1>15 DEF PInv, FrameInv, HeldApart, HeldByOne, PoolApart, Somewhere, TypeOK
  <2>2. TableOK'
    <3> SUFFICES ASSUME NEW h \in Frames, NEW k \in Pages, ft[h] = k
                 PROVE  \/ spt'[k].present /\ spt'[k].loaded /\ pte'[k].frame = h
                        \/ Fills(Owner[k], h, k)'
      BY <1>4 DEF TableOK
    <3>1. \/ spt[k].present /\ spt[k].loaded /\ pte[k].frame = h
          \/ Fills(Owner[k], h, k)
      BY DEF PInv, FrameInv, TableOK
    <3>2. CASE k = g
      BY <1>2, <1>6, <1>8, <1>17, <3>1, <3>2
    <3>3. CASE k # g
      BY <1>6, <1>7, <1>18, <3>1, <3>3
    <3> QED
      BY <3>2, <3>3
  <2>3. MapOK'
    BY <1>2, <1>4, <1>6, <1>15 DEF PInv, FrameInv, MapOK, TypeOK
  <2> QED
    BY <2>1, <2>2, <2>3 DEF FrameInv
<1>20. UnbornOK'
  BY <1>2, <1>6, <1>7, <1>10, <1>12 DEF PInv, UnbornOK
<1>21. TypesOK'
  BY <1>2, <1>4, <1>7, <1>8 DEF PInv, TypesOK
<1>22. SlotInv'
  <2>1. SlotOwned'
    <3> SUFFICES ASSUME NEW k \in Pages, spt'[k].slot # None
                 PROVE  /\ spt'[k].slot \in slots' /\ spt'[k].present /\ spt'[k].type = "SWAP"
                        /\ spt'[k].loaded => \E q \in Procs : Unloads(q, k)'
      BY DEF SlotOwned
    <3>1. k # g /\ spt'[k] = spt[k]
      BY <1>7, <1>8
    <3>2. spt[k].slot # spt[g].slot
      BY <3>1 DEF PInv, SlotInv, SlotOnce
    <3> QED
      BY <1>5, <1>15, <3>1, <3>2 DEF PInv, SlotInv, SlotOwned
  <2>2. SlotOnce'
    BY <1>7, <1>8 DEF PInv, SlotInv, SlotOnce
  <2>3. SlotKept'
    BY <1>7, <1>8 DEF PInv, SlotInv, SlotKept
  <2>4. SlotUsed'
    BY <1>5, <1>7, <1>16 DEF PInv, SlotInv, SlotUsed
  <2> QED
    BY <2>1, <2>2, <2>3, <2>4 DEF SlotInv
<1> QED
  BY <1>13, <1>14, <1>19, <1>20, <1>21, <1>22 DEF PInv

\* process_execute: p waits for its child c, which has the entries of its
\* segments and begins to set up its stack.
LEMMA StartsKeeps ==
  ASSUME PInv, NEW p \in Procs, NEW c \in Procs, at[p].pc = "call", at[p].op = "exec",
         at[c].pc = "unborn",
         at' = [at EXCEPT ![p].pc = "load_done", ![p].buf = c,
                          ![c].pc = "get", ![c].page = Start[c], ![c].then = "boot"],
         spt' = [g \in Pages |->
              IF g = Start[c] THEN [Absent EXCEPT !.type = "SWAP", !.loaded = TRUE,
                                                  !.locked = TRUE]
              ELSE IF Owner[g] = c /\ kind[g] \in {"data", "bss"} THEN NewEntry(g)
              ELSE spt[g]],
         lock' = [lock EXCEPT !["fs"] = p],
         UNCHANGED <<kind, pte, ft, pool, mem, file, swap, slots, want, torn>>
  PROVE  PInv'
<1> USE PagingConstants
<1>1. p # c /\ Owner[Start[c]] = c /\ Start[c] \in Pages /\ kind[Start[c]] = "stack"
  BY DEF PInv, KindOK
<1> DEFINE x == [at[p] EXCEPT !.pc = "load_done", !.buf = c]
           y == [at[c] EXCEPT !.pc = "get", !.page = Start[c], !.then = "boot"]
<1>2. at[p] \in Point /\ at[c] \in Point /\ Locals(p) /\ LockedBy(p) /\ LockedBy(c)
  BY Known
<1>3. at' = [at EXCEPT ![p] = x, ![c] = y]
  BY <1>1, <1>2 DEF PInv, AtType
<1>4. x \in Point /\ x.pc = "load_done" /\ x.buf = c /\ x.op = at[p].op /\ x.esp = at[p].esp
  BY ONLY <1>2, c \in Procs DEF Point, Pcs, CallPcs
<1>5. y \in Point /\ y.pc = "get" /\ y.page = Start[c] /\ y.then = "boot"
  <2>1. PICK k \in Pages : k = Start[c]
    BY <1>1
  <2>2. y = [at[c] EXCEPT !.pc = "get", !.page = k, !.then = "boot"]
    BY <2>1
  <2> HIDE DEF y
  <2>3. y \in Point /\ y.pc = "get" /\ y.page = k /\ y.then = "boot"
    BY <1>2, <2>2 DEF Point, Pcs, LoadPcs
  <2> QED
    BY <2>1, <2>3
<1> HIDE DEF x, y
<1>6. at'[p] = x /\ at'[c] = y /\ \A q \in Procs \ {p, c} : at'[q] = at[q]
  BY <1>1, <1>3 DEF PInv, AtType
<1>7. \A h \in Pages : Owner[h] # c => spt'[h] = spt[h]
  BY <1>1
<1>8. \A h \in Pages : Owner[h] = c =>
        ~ spt[h].present /\ pte[h].frame = None /\ spt[h].slot = None
  <2>1. \A h \in Pages : Owner[h] = c => ~ spt[h].present /\ pte[h].frame = None
    BY DEF PInv, UnbornOK
  <2> QED
    BY <2>1 DEF PInv, SlotInv, SlotOwned
<1>9. \A h \in Pages : Owner[h] = c => \A f \in Frames : ft[f] # h
  BY <1>8, NotInTable
<1>10. \A h \in Pages : NewEntry(h) \in PageState /\ NewEntry(h).slot = None
  BY DEF NewEntry, Absent, PageState
<1> DEFINE s == [Absent EXCEPT !.type = "SWAP", !.loaded = TRUE, !.locked = TRUE]
<1>11. s \in PageState /\ ~ s.present /\ s.type = "SWAP" /\ s.locked /\ s.slot = None
  BY DEF Absent, PageState
<1>12. spt'[Start[c]] = s
  BY <1>1
<1>13. spt' = [h \in Pages |-> IF h = Start[c] THEN s
                               ELSE IF Owner[h] = c /\ kind[h] \in {"data", "bss"}
                               THEN NewEntry(h) ELSE spt[h]]
  OBVIOUS
<1> HIDE DEF s
<1>14. spt' \in [Pages -> PageState]
  BY <1>10, <1>11, <1>13 DEF PInv, TypeOK
<1>15. \A h \in Pages : Owner[h] = c =>
         /\ spt'[h].slot = None
         /\ spt'[h].present => spt'[h].type = "FILE" /\ kind[h] # "mmap"
  <2>1. \A h \in Pages : kind[h] \in {"data", "bss"} => NewEntry(h).type = "FILE"
    BY DEF NewEntry, Absent
  <2> SUFFICES ASSUME NEW h \in Pages, Owner[h] = c
               PROVE  /\ spt'[h].slot = None
                      /\ spt'[h].present => spt'[h].type = "FILE" /\ kind[h] # "mmap"
    OBVIOUS
  <2>2. CASE h = Start[c]
    BY <1>11, <1>12, <2>2
  <2>3. CASE h # Start[c] /\ kind[h] \in {"data", "bss"}
    <3>1. spt'[h] = NewEntry(h)
      BY <1>13, <2>3
    <3> QED
      BY <1>10, <2>1, <2>3, <3>1
  <2>4. CASE h # Start[c] /\ kind[h] \notin {"data", "bss"}
    <3>1. spt'[h] = spt[h]
      BY <1>13, <2>4
    <3> QED
      BY <1>8, <3>1
  <2> QED
    BY <2>2, <2>3, <2>4
<1>16. TypeOK' /\ AtType' /\ KindOK'
  <2>1. lock' \in [{"ft", "fs"} -> Procs \cup {None}]
    BY DEF PInv, TypeOK
  <2>2. TypeOK'
    BY <1>14, <2>1 DEF PInv, TypeOK
  <2>3. AtType'
    <3>1. at \in [Procs -> Point] /\ x \in Point /\ y \in Point
      BY <1>4, <1>5 DEF PInv, AtType
    <3> QED
      BY ONLY <1>3, <3>1 DEF AtType
  <2>4. KindOK'
    BY DEF PInv, KindOK
  <2> QED
    BY <2>2, <2>3, <2>4
<1>17. lock'["ft"] = lock["ft"]
  BY DEF PInv, TypeOK
<1>18. PointsOK'
  <2>1. ASSUME NEW q \in Procs \ {p, c} PROVE PointOK(q)'
    <3>1. Locals(q) /\ Evicting(q)
      BY Known
    <3>2. at[q].pc \in LoadPcs \cup DropPcs =>
            at[q].page \in Pages /\ spt'[at[q].page] = spt[at[q].page]
      BY <1>7, <3>1 DEF Locals
    <3>3. at[q].pc \in {"out", "unload"} => spt'[at[q].vpage] = spt[at[q].vpage]
      BY <1>7, <1>8, <3>1 DEF Locals, Evicting
    <3>4. Spares(q)
      BY <1>6, <1>17, <3>2, <3>3 DEF Spares
    <3> QED
      BY <3>4, PointStays
  <2>2. PointOK(p)'
    <3>1. Locals(p)'
      <4>1. /\ at'[p].pc = "load_done" /\ at'[p].buf = c /\ c \in Procs /\ kind' = kind
            /\ at'[p].op = "exec" /\ at'[p].esp = at[p].esp
        BY <1>4, <1>6
      <4>2. at[p].esp \in Pages /\ Owner[at[p].esp] = p /\ kind[at[p].esp] = "stack"
        BY <1>2 DEF Locals, InCall, CallPcs
      <4> QED
        BY ONLY <4>1, <4>2 DEF Locals, InCall, CallPcs, LoadPcs, EvictPcs, DropPcs
    <3>2. LockedBy(p)'
      BY <1>2, <1>4, <1>6, <1>17 DEF LockedBy, EvictPcs
    <3>3. Loading(p)' /\ Evicting(p)' /\ Dropping(p)'
      BY <1>4, <1>6 DEF Loading, Evicting, Dropping, LoadPcs, EvictPcs, DropPcs
    <3> QED
      BY <3>1, <3>2, <3>3 DEF PointOK
  <2>3. PointOK(c)'
    <3>1. Locals(c)'
      BY <1>1, <1>5, <1>6 DEF Locals, InCall, CallPcs, LoadPcs, EvictPcs, DropPcs
    <3>2. LockedBy(c)'
      BY <1>2, <1>5, <1>6, <1>17 DEF LockedBy, EvictPcs
    <3>3. Loading(c)'
      <4>1. at'[c].pc = "get" /\ at'[c].page = Start[c]
        BY <1>5, <1>6
      <4>2. \A f \in Frames : ft[f] # Start[c]
        BY <1>1, <1>9
      <4> QED
        BY ONLY <1>1, <1>11, <1>12, <4>1, <4>2, UNCHANGED <<ft, kind>> DEF Loading
    <3>4. Evicting(c)' /\ Dropping(c)'
      BY <1>5, <1>6 DEF Evicting, Dropping, DropPcs
    <3> QED
      BY <3>1, <3>2, <3>3, <3>4 DEF PointOK
  <2> QED
    BY <2>1, <2>2, <2>3 DEF PointsOK
<1>19. \A q \in Procs : /\ \A h \in Frames : Holds(q, h)' <=> Holds(q, h)
                        /\ \A h \in Frames, k \in Pages : Clears(q, h, k)' <=> Clears(q, h, k)
                        /\ \A h \in Frames, k \in Pages : Fills(q, h, k)' <=> Fills(q, h, k)
                        /\ \A k \in Pages : Unloads(q, k)' <=> Unloads(q, k)
                        /\ Ends(q)' <=> Ends(q)
  <2> TAKE q \in Procs
  <2>1. CASE q \in Procs \ {p, c}
    BY <1>6, <2>1, SamePoints
  <2>2. CASE q = p
    BY <1>4, <1>6, <2>2 DEF Holds, Clears, Fills, Unloads, Ends, DropPcs
  <2>3. CASE q = c
    BY <1>5, <1>6, <2>3 DEF Holds, Clears, Fills, Unloads, Ends, DropPcs
  <2> QED
    BY <2>1, <2>2, <2>3
<1>20. FrameInv'
  <2>1. HeldApart' /\ HeldByOne' /\ PoolApart' /\ Somewhere'
    BY <1>19 DEF PInv, FrameInv, HeldApart, HeldByOne, PoolApart, Somewhere, TypeOK
  <2>2. TableOK'
    BY <1>7, <1>9, <1>19 DEF PInv, FrameInv, TableOK
  <2>3. MapOK'
    BY <1>19 DEF PInv, FrameInv, MapOK, TypeOK
  <2> QED
    BY <2>1, <2>2, <2>3 DEF FrameInv
<1>21. UnbornOK'
  <2> SUFFICES ASSUME NEW h \in Pages, at'[Owner[h]].pc = "unborn"
               PROVE  ~ spt'[h].present /\ pte'[h].frame = None
    BY DEF UnbornOK
  <2>1. Owner[h] \in Procs \ {p, c}
    BY <1>4, <1>5, <1>6
  <2>2. at[Owner[h]].pc = "unborn" /\ spt'[h] = spt[h]
    BY <1>6, <1>7, <2>1
  <2> QED
    BY <2>2 DEF PInv, UnbornOK
<1>22. TypesOK'
  BY <1>7, <1>15 DEF PInv, TypesOK
<1>23. SlotInv'
  <2>1. SlotOwned'
    BY <1>7, <1>15, <1>19 DEF PInv, SlotInv, SlotOwned
  <2>2. SlotOnce'
    BY <1>7, <1>15 DEF PInv, SlotInv, SlotOnce
  <2>3. SlotKept'
    BY <1>7, <1>15 DEF PInv, SlotInv, SlotKept
  <2>4. SlotUsed'
    <3> SUFFICES ASSUME NEW k \in slots
                 PROVE  (\E h \in Pages : spt'[h].slot = k) \/ \E q \in Procs : Ends(q)'
      BY DEF SlotUsed
    <3>1. (\E h \in Pages : spt[h].slot = k) \/ \E q \in Procs : Ends(q)
      BY DEF PInv, SlotInv, SlotUsed
    <3>2. k # None
      BY DEF PInv, TypeOK
    <3> QED
      BY <1>7, <1>8, <1>19, <3>1, <3>2
  <2> QED
    BY <2>1, <2>2, <2>3, <2>4 DEF SlotInv
<1> QED
  BY <1>16, <1>18, <1>20, <1>21, <1>22, <1>23 DEF PInv

\* sys_exec starts a child, or the process exits.
LEMMA ExecKeeps ==
  ASSUME PInv, NEW p \in Procs, Exec(p)
  PROVE  PInv'
<1>1. /\ at[p].pc = "call" /\ at[p].op = "exec"
      /\ UNCHANGED <<kind, pte, ft, pool, mem, file, swap, slots, want, torn>>
  BY DEF Exec, On, Fine, stores, history
<1>2. CASE pte[at[p].buf].frame = None
  <2>1. /\ at' = [at EXCEPT ![p] = [At("exit") EXCEPT !.op = "exit"]]
        /\ UNCHANGED <<spt, lock>>
    BY <1>2 DEF Exec
  <2>2. Relocked(p) /\ Touched
    BY <1>1, <2>1, NoneRelocked, NoneTouched
  <2> QED
    BY <1>1, <2>1, <2>2, EndStep DEF CallPcs, PInv, TypeOK
<1>3. CASE pte[at[p].buf].frame # None
  <2>1. lock' = [lock EXCEPT !["fs"] = p]
    BY <1>3 DEF Exec, Take
  <2>2. PICK c \in Procs :
          /\ at[c].pc = "unborn"
          /\ at' = [at EXCEPT ![p].pc = "load_done", ![p].buf = c,
                              ![c].pc = "get", ![c].page = Start[c], ![c].then = "boot"]
          /\ spt' = [g \in Pages |->
               IF g = Start[c] THEN [Absent EXCEPT !.type = "SWAP", !.loaded = TRUE,
                                                   !.locked = TRUE]
               ELSE IF Owner[g] = c /\ kind[g] \in {"data", "bss"} THEN NewEntry(g)
               ELSE spt[g]]
    BY <1>3 DEF Exec
  <2> QED
    BY <1>1, <2>1, <2>2, StartsKeeps
<1> QED
  BY <1>2, <1>3

----------------------------------------------------------------------------
\* The invariant, and what follows from it.

\* One process, one page in memory, and free frames but for its one.
LEMMA InitHolds == Init => PInv
<1> SUFFICES ASSUME Init PROVE PInv
  OBVIOUS
<1> USE PagingConstants
<1> DEFINE b == Start[First]
           e == [Absent EXCEPT !.present = TRUE, !.type = "SWAP", !.loaded = TRUE,
                               !.locked = TRUE]
<1>1. PICK f \in Frames :
        /\ kind \in [Pages -> {"data", "bss", "stack", "mmap"}]
        /\ \A g \in Pages : kind[g] \in Kinds[g]
        /\ spt = [g \in Pages |-> IF g = b THEN e
                                  ELSE IF Owner[g] = First /\ kind[g] \in {"data", "bss"}
                                  THEN NewEntry(g) ELSE Absent]
        /\ pte = [g \in Pages |-> IF g = b THEN [NoPte EXCEPT !.frame = f] ELSE NoPte]
        /\ ft = [x \in Frames |-> IF x = f THEN b ELSE None]
        /\ pool = Frames \ {f} /\ slots = {}
        /\ lock = [l \in {"ft", "fs"} |-> None]
        /\ at = [p \in Procs |-> IF p = First THEN At("user") ELSE At("unborn")]
  BY DEF Init
<1>2. b \in Pages /\ Owner[b] = First
  OBVIOUS
<1>3. KindOK /\ kind[b] = "stack"
  BY <1>1, PagingAssumption DEF KindOK
<1>4. /\ e \in PageState /\ e.present /\ e.type = "SWAP" /\ e.loaded /\ e.slot = None
      /\ Absent \in PageState /\ ~ Absent.present /\ Absent.slot = None
  BY DEF Absent, PageState
<1>5. \A g \in Pages : kind[g] \in {"data", "bss"} =>
        /\ NewEntry(g) \in PageState /\ NewEntry(g).slot = None /\ NewEntry(g).type = "FILE"
  BY DEF NewEntry, Absent, PageState
<1>6. spt \in [Pages -> PageState] /\ spt[b] = e
  BY <1>1, <1>2, <1>4, <1>5
<1>7. \A g \in Pages \ {b} : /\ spt[g].slot = None
                             /\ spt[g].present => /\ Owner[g] = First /\ kind[g] # "mmap"
                                                  /\ spt[g].type = "FILE"
  BY <1>1, <1>4, <1>5
<1>8. /\ pte \in [Pages -> [frame : Frames \cup {None}, acc : BOOLEAN, dirty : BOOLEAN]]
      /\ pte[b].frame = f /\ \A g \in Pages \ {b} : pte[g].frame = None
  BY <1>1, <1>2 DEF NoPte
<1>9. ft \in [Frames -> Pages \cup {None}] /\ ft[f] = b /\ \A x \in Frames \ {f} : ft[x] = None
  BY <1>1, <1>2
<1>10. TypeOK
  <2>1. /\ mem \in [Frames -> Values] /\ file \in [Pages -> Values]
        /\ swap \in [Slots -> Values] /\ want \in [Pages -> Values] /\ torn \subseteq Pages
    BY DEF Init
  <2>2. pool \subseteq Frames /\ slots \subseteq Slots /\ lock \in [{"ft", "fs"} -> Procs \cup {None}]
    BY <1>1
  <2> QED
    BY <1>6, <1>8, <1>9, <2>1, <2>2 DEF TypeOK
<1>11. AtType /\ \A p \in Procs : /\ at[p].pc \in {"user", "unborn"}
                                  /\ at[p].pc = "unborn" <=> p # First
  BY <1>1 DEF AtType, At, Point, Pcs
<1>12. PointsOK
  <2> SUFFICES ASSUME NEW p \in Procs PROVE PointOK(p)
    BY DEF PointsOK
  <2>1. lock["ft"] = None
    BY <1>1
  <2>2. Locals(p) /\ LockedBy(p)
    BY <1>11, <2>1 DEF Locals, InCall, LockedBy, CallPcs, LoadPcs, EvictPcs, DropPcs
  <2>3. Loading(p) /\ Evicting(p) /\ Dropping(p)
    BY <1>11 DEF Loading, Evicting, Dropping, LoadPcs, EvictPcs, DropPcs
  <2> QED
    BY <2>2, <2>3 DEF PointOK
<1>13. \A p \in Procs, x \in Frames : ~ Holds(p, x)
  BY <1>11 DEF Holds
<1>14. FrameInv
  <2>1. HeldApart /\ HeldByOne /\ PoolApart /\ Somewhere
    BY <1>1, <1>9, <1>13 DEF HeldApart, HeldByOne, PoolApart, Somewhere
  <2>2. TableOK
    <3> SUFFICES ASSUME NEW x \in Frames, NEW g \in Pages, ft[x] = g
                 PROVE  spt[g].present /\ spt[g].loaded /\ pte[g].frame = x
      BY DEF TableOK
    <3>1. x = f /\ g = b
      BY <1>9
    <3> HIDE DEF e, b
    <3> QED
      BY <1>4, <1>6, <1>8, <3>1
  <2>3. MapOK
    <3> HIDE DEF b
    <3> QED
      BY <1>8, <1>9 DEF MapOK
  <2> QED
    BY <2>1, <2>2, <2>3 DEF FrameInv
<1>15. UnbornOK
  BY <1>2, <1>7, <1>8, <1>11 DEF UnbornOK
<1>16. TypesOK
  BY <1>3, <1>4, <1>6, <1>7 DEF TypesOK
<1>17. SlotInv
  <2>1. \A g \in Pages : /\ spt[g].slot = None
                         /\ spt[g].present /\ spt[g].type = "SWAP" => spt[g].loaded
    <3> HIDE DEF e, b
    <3> QED
      BY <1>4, <1>6, <1>7
  <2>2. SlotOwned /\ SlotOnce /\ SlotKept
    BY <2>1 DEF SlotOwned, SlotOnce, SlotKept
  <2>3. SlotUsed
    BY <1>1 DEF SlotUsed
  <2> QED
    BY <2>2, <2>3 DEF SlotInv
<1> QED
  BY <1>3, <1>10, <1>11, <1>12, <1>14, <1>15, <1>16, <1>17 DEF PInv

\* Where the behaviour ends nothing moves any more.
LEMMA UndefinedKeeps ==
  ASSUME PInv, NEW p \in Procs, Undefined(p)
  PROVE  PInv'
<1>1. UNCHANGED <<kind, tables, stores, lock, at, history>>
  BY DEF Undefined, Reacquires, SwapFull, KernelFault, UsesFreed, FreesOther, Break
<1> QED
  BY <1>1, NothingMoves

\* Every step keeps the invariant.
LEMMA NextKeeps == PInv /\ [Next]_vars => PInv'
<1> SUFFICES ASSUME PInv, [Next]_vars PROVE PInv'
  OBVIOUS
<1>1. CASE UNCHANGED vars
  BY <1>1, NothingMoves DEF vars, tables, stores, history
<1>2. ASSUME NEW p \in Procs, User(p) PROVE PInv'
  BY <1>2, AccessKeeps, PageFaultKeeps, SyscallKeeps, ExitKeeps DEF User
<1>3. ASSUME NEW p \in Procs, Alloc(p) PROVE PInv'
  BY <1>3, GetFrameKeeps, AddsToTable, FillKeeps DEF Alloc
<1>4. ASSUME NEW p \in Procs, Eviction(p) PROVE PInv'
  BY <1>4, EvictKeeps, ScanKeeps, NothingToEvictKeeps, PageOutKeeps, UnloadKeeps, ClearKeeps,
     RegetKeeps DEF Eviction
<1>5. ASSUME NEW p \in Procs, Call(p) PROVE PInv'
  BY <1>5, CopyInKeeps, VerifyKeeps, CopyKeeps, RefuseKeeps, ExecKeeps, ExecReturnsKeeps,
     MmapKeeps, MunmapKeeps DEF Call
<1>6. ASSUME NEW p \in Procs, Ending(p) PROVE PInv'
  BY <1>6, DropKeeps, SaveKeeps, LookupKeeps, FreeFrameKeeps, DroppedKeeps DEF Ending
<1>7. CASE Next
  BY <1>2, <1>3, <1>4, <1>5, <1>6, <1>7, UndefinedKeeps DEF Next
<1> QED
  BY <1>1, <1>7

\* The inductive invariant of paging: what each process relies on at its
\* program point, and the one place of every frame and of every slot.
THEOREM PagingInvariant == Spec => []PInv
<1>1. Init => PInv
  BY InitHolds
<1>2. PInv /\ [Next]_vars => PInv'
  BY NextKeeps
<1> QED
  BY <1>1, <1>2, PTL DEF Spec

\* A frame is held by one process or by none.
LEMMA HoldersCount ==
  ASSUME PInv, NEW f \in Frames
  PROVE  /\ (\A p \in Procs : ~ Holds(p, f)) => Cardinality(Holders(f)) = 0
         /\ (\E p \in Procs : Holds(p, f)) => Cardinality(Holders(f)) = 1
<1>1. Holders(f) = {p \in Procs : Holds(p, f)}
  BY DEF Holders, Holds
<1>2. ASSUME \A p \in Procs : ~ Holds(p, f)
      PROVE  Cardinality(Holders(f)) = 0
  <2>1. Holders(f) = {}
    BY <1>1, <1>2
  <2> QED
    BY <2>1, FS_EmptySet
<1>3. ASSUME NEW p \in Procs, Holds(p, f)
      PROVE  Cardinality(Holders(f)) = 1
  <2>1. Holders(f) = {p}
    BY <1>1, <1>3 DEF PInv, FrameInv, HeldByOne
  <2> QED
    BY <2>1, FS_Singleton
<1> QED
  BY <1>2, <1>3

\* The one place of every frame follows.
LEMMA OnePlace == PInv => FramesExclusive
<1> SUFFICES ASSUME PInv PROVE FramesExclusive
  OBVIOUS
<1> USE PagingConstants
<1>1. ASSUME NEW f \in Frames
      PROVE  Cardinality(Holders(f)) + (IF f \in pool THEN 1 ELSE 0)
                + (IF ft[f] # None THEN 1 ELSE 0) = 1
  <2>1. CASE \E p \in Procs : Holds(p, f)
    <3>1. f \notin pool /\ ft[f] = None
      BY <2>1 DEF PInv, FrameInv, HeldApart
    <3>2. Cardinality(Holders(f)) = 1
      BY <2>1, HoldersCount
    <3> QED
      BY <3>1, <3>2
  <2>2. CASE \A p \in Procs : ~ Holds(p, f)
    <3>1. Cardinality(Holders(f)) = 0
      BY <2>2, HoldersCount
    <3>2. f \in pool <=> ft[f] = None
      BY <2>2 DEF PInv, FrameInv, PoolApart, Somewhere
    <3> QED
      BY <3>1, <3>2
  <2> QED
    BY <2>1, <2>2
<1>2. ASSUME NEW g \in Pages, pte[g].frame # None
      PROVE  /\ pte[g].frame \notin pool
             /\ ft[pte[g].frame] \in {None, g}
             /\ \A h \in Pages \ {g} : pte[h].frame # pte[g].frame
  <2> DEFINE f == pte[g].frame
  <2>1. f \in Frames
    BY <1>2 DEF PInv, TypeOK
  <2>2. ASSUME NEW h \in Pages, pte[h].frame = f
        PROVE  ft[f] = h \/ \E p \in Procs : Clears(p, f, h) /\ Holds(p, f)
    BY <1>2, <2>2 DEF PInv, FrameInv, MapOK, Clears, Holds
  <2>3. f \notin pool /\ ft[f] \in {None, g}
    BY <2>1, <2>2 DEF PInv, FrameInv, HeldApart, PoolApart
  <2>4. ASSUME NEW h \in Pages \ {g}, pte[h].frame = f
        PROVE  FALSE
    <3>1. ~ (ft[f] = g /\ ft[f] = h)
      OBVIOUS
    <3>2. \A p \in Procs : Holds(p, f) => ft[f] \notin Pages
      BY <2>1 DEF PInv, FrameInv, HeldApart
    <3>3. \E p, q \in Procs : Clears(p, f, g) /\ Holds(p, f) /\ Clears(q, f, h) /\ Holds(q, f)
      BY <2>2, <2>4, <3>1, <3>2
    <3> QED
      BY <2>1, <3>3 DEF PInv, FrameInv, HeldByOne, Clears
  <2> QED
    BY <2>3, <2>4
<1> QED
  BY <1>1, <1>2 DEF FramesExclusive

\* So does the one page of every slot.
LEMMA OneSlot == PInv => SlotsExact
BY DEF PInv, SlotInv, SlotOwned, SlotOnce, SlotKept, SlotUsed, Ends, SlotsExact

\* And the victim that stays until it is declared gone.
LEMMA VictimStays == PInv => VictimLives
BY DEF PInv, PointsOK, PointOK, Evicting, VictimLives

\* Frames, swap slots and page table entries, for every set of processes and
\* pages: a frame is in one place and holds one page, a slot is one page's, a
\* page that is out has one, and the page table entry the evictor works on
\* exists until it has declared the page gone.
THEOREM FramesHold == Spec => []FramesRight
<1>1. PInv => FramesRight
  BY OnePlace, OneSlot, VictimStays DEF FramesRight, PInv
<1> QED
  BY <1>1, PagingInvariant, PTL

----------------------------------------------------------------------------
\* Who waits for whom.

\* p brings in its stack before it runs.
Boots(p) == at[p].pc \in LoadPcs /\ kind[at[p].page] = "stack"

WaitInv == \A p \in Procs : at[p].then = "boot" => Boots(p)

\* Process p moves and no other, and starts no load of a new process.
Waits(p) ==
  /\ kind' = kind
  /\ \A q \in Procs \ {p} : at'[q] = at[q]
  /\ at'[p].then = "boot" => Boots(p)'

\* No step but that of the parent starts the load of a new process.
LEMMA StepWaits ==
  ASSUME PInv, WaitInv, NEW p \in Procs, ~ Exec(p),
         User(p) \/ Alloc(p) \/ Eviction(p) \/ Call(p) \/ Ending(p)
  PROVE  Waits(p)
<1>1. /\ at \in [Procs -> Point] /\ None # "boot"
      /\ at[p].then = "boot" => Boots(p)
  BY PagingAssumption DEF PInv, AtType, WaitInv
<1> USE DEF Waits, Fine, On, Point, Boots, LoadPcs, EvictPcs
<1>2. CASE Access(p)
  BY <1>1, <1>2 DEF Access, Touch
<1>3. CASE PageFault(p)
  BY <1>1, <1>3 DEF PageFault, Bring, BeginLoad, BeginGrow
<1>4. CASE GetFrame(p)
  BY <1>1, <1>4 DEF GetFrame
<1>5. CASE AddToTable(p)
  BY <1>1, <1>5 DEF AddToTable
<1>6. CASE Evict(p)
  BY <1>1, <1>6 DEF Evict
<1>7. CASE Scan(p)
  BY <1>1, <1>7 DEF Scan
<1>8. CASE NothingToEvict(p)
  BY <1>1, <1>8 DEF NothingToEvict
<1>9. CASE PageOut(p)
  BY <1>1, <1>9 DEF PageOut
<1>10. CASE Unload(p)
  BY <1>1, <1>10 DEF Unload
<1>11. CASE Clear(p)
  BY <1>1, <1>11 DEF Clear
<1>12. CASE Verify(p)
  BY <1>1, <1>12 DEF Verify, Bring, BeginLoad, BeginGrow
<1>13. CASE Munmap(p)
  BY <1>1, <1>13 DEF Munmap
<1>14. CASE Drop(p)
  BY <1>1, <1>14 DEF Drop
<1>15. CASE Save(p)
  BY <1>1, <1>15 DEF Save
<1>16. CASE Lookup(p)
  BY <1>1, <1>16 DEF Lookup
<1>17. CASE FreeFrame(p)
  BY <1>1, <1>17 DEF FreeFrame
<1>18. CASE Syscall(p)
  <2>1. kind' = kind /\ at[p].pc = "user"
    BY <1>18 DEF Syscall
  <2>2. PICK g \in Pages, c \in Calls :
          LET s == [at[p] EXCEPT !.op = c[2], !.esp = g, !.buf = c[3]] IN
          \/ at' = [at EXCEPT ![p] = [s EXCEPT !.pc = "args"]]
          \/ at' = [at EXCEPT ![p] = [s EXCEPT !.pc = "get", !.page = g, !.then = "args"]]
    BY <1>18 DEF Syscall
  <2> DEFINE s == [at[p] EXCEPT !.op = c[2], !.esp = g, !.buf = c[3]]
             x == [s EXCEPT !.pc = "args"]
             y == [s EXCEPT !.pc = "get", !.page = g, !.then = "args"]
  <2>3. DOMAIN s = DOMAIN at[p] /\ s.then = at[p].then
    BY <1>1
  <2>4. x.then = at[p].then /\ y.then = "args"
    <3> HIDE DEF s
    <3> QED BY <1>1, <2>3
  <2> HIDE DEF x, y
  <2>5. \E z \in {x, y} : at' = [at EXCEPT ![p] = z]
    BY <2>2 DEF x, y
  <2> QED BY <1>1, <2>1, <2>4, <2>5
<1>19. CASE Reget(p)
  <2>1. /\ at'[p].pc \in {"evict", "add"} /\ at'[p].page = at[p].page /\ at'[p].then = at[p].then
        /\ \A q \in Procs \ {p} : at'[q] = at[q]
    <3>1. CASE at' = [at EXCEPT ![p].pc = "evict", ![p].todo = {}]
      BY <1>1, <3>1
    <3>2. CASE \E f \in pool : at' = [at EXCEPT ![p].pc = "add", ![p].frame = f, ![p].todo = {}]
      BY <1>1, <3>2
    <3> QED BY <1>19, <3>1, <3>2 DEF Reget
  <2>2. kind' = kind /\ at[p].pc = "reget"
    BY <1>1, <1>19 DEF Reget
  <2> QED BY <1>1, <2>1, <2>2
<1>20. CASE CopyIn(p)
  <2>1. kind' = kind /\ at[p].pc = "args"
    BY <1>20 DEF CopyIn
  <2>2. /\ at'[p].then \in {None, at[p].then}
        /\ \A q \in Procs \ {p} : at'[q] = at[q]
    BY <1>1, <1>20 DEF CopyIn, At
  <2> QED BY <1>1, <2>1, <2>2
<1>21. CASE Fill(p)
  <2>1. kind' = kind /\ at[p].pc = "fill" /\ at' = [at EXCEPT ![p] = Resume(at[p])]
    BY <1>21 DEF Fill
  <2>2. at[p].then \in {"fault", "boot", "args", "buf"}
    BY <2>1, Known DEF Locals
  <2>3. Resume(at[p]).then = None
    BY <1>1, <2>2 DEF Resume, At
  <2> QED BY <1>1, <2>1, <2>3
<1>22. CASE Exit(p)
  <2>1. at' = [at EXCEPT ![p] = [At("exit") EXCEPT !.op = "exit"]] /\ kind' = kind
    BY <1>22 DEF Exit
  <2> QED BY <1>1, <2>1 DEF At
<1>23. CASE Copy(p)
  <2>1. at' = [at EXCEPT ![p] = At("user")] /\ kind' = kind
    BY <1>23 DEF Copy
  <2> QED BY <1>1, <2>1 DEF At
<1>24. CASE Refuse(p)
  <2>1. at' = [at EXCEPT ![p] = [At("exit") EXCEPT !.op = "exit"]] /\ kind' = kind
    BY <1>24 DEF Refuse
  <2> QED BY <1>1, <2>1 DEF At
<1>25. CASE ExecReturns(p)
  <2>1. at' = [at EXCEPT ![p] = At("user")] /\ kind' = kind
    BY <1>25 DEF ExecReturns
  <2> QED BY <1>1, <2>1 DEF At
<1>26. CASE Mmap(p)
  <2>1. at' = [at EXCEPT ![p] = At("user")] /\ kind' = kind
    BY <1>26 DEF Mmap
  <2> QED BY <1>1, <2>1 DEF At
<1>27. CASE Dropped(p)
  <2>1. /\ at' = [at EXCEPT ![p] = at'[p]] /\ at'[p].then = None
        /\ kind' = kind /\ at[p].pc = "exit"
    BY <1>1, <1>27 DEF Dropped, At
  <2> QED BY <1>1, <2>1
<1> QED
  BY <1>2, <1>3, <1>4, <1>5, <1>6, <1>7, <1>8, <1>9, <1>10, <1>11, <1>12, <1>13, <1>14, <1>15,
     <1>16, <1>17, <1>18, <1>19, <1>20, <1>21, <1>22, <1>23, <1>24, <1>25, <1>26, <1>27
     DEF User, Alloc, Eviction, Call, Ending

\* sys_exec starts the load of the child with the child's stack.
LEMMA ExecWaits ==
  ASSUME PInv, WaitInv, NEW p \in Procs, Exec(p)
  PROVE  WaitInv'
<1>1. /\ at \in [Procs -> Point] /\ None # "boot" /\ Start \in [Procs -> Pages]
      /\ \A q \in Procs : kind[Start[q]] = "stack"
  BY PagingConstants, PagingAssumption DEF PInv, AtType, KindOK
<1>2. \A q \in Procs : at[q].then = "boot" => Boots(q)
  BY DEF WaitInv
<1>3. kind' = kind /\ at[p].pc = "call" /\ at[p].then # "boot"
  BY <1>2 DEF Exec, On, Fine, Boots, LoadPcs, EvictPcs
<1>4. CASE pte[at[p].buf].frame = None
  <2>1. at' = [at EXCEPT ![p] = [At("exit") EXCEPT !.op = "exit"]]
    BY <1>4 DEF Exec
  <2>2. at'[p].then # "boot" /\ \A q \in Procs \ {p} : at'[q] = at[q]
    BY <1>1, <2>1 DEF At
  <2> QED BY <1>2, <1>3, <2>2 DEF WaitInv, Boots
<1>5. CASE pte[at[p].buf].frame # None
  <2>1. PICK c \in Procs :
          /\ at[c].pc = "unborn"
          /\ at' = [at EXCEPT ![p].pc = "load_done", ![p].buf = c, ![c].pc = "get",
                              ![c].page = Start[c], ![c].then = "boot"]
    BY <1>5 DEF Exec
  <2>2. c # p
    BY <1>3, <2>1
  <2>3. /\ at'[p].then = at[p].then
        /\ at'[c].pc = "get" /\ at'[c].page = Start[c]
        /\ \A q \in Procs \ {p, c} : at'[q] = at[q]
    BY ONLY <1>1, <2>1, <2>2 DEF Point
  <2> QED BY ONLY <1>1, <1>2, <1>3, <2>3 DEF WaitInv, Boots, LoadPcs
<1> QED BY <1>4, <1>5

\* A process that has not run yet brings in its stack: the invariant that the
\* waiting needs beside that of the tables.
THEOREM WaitInvariant == Spec => []WaitInv
<1>1. Init => WaitInv
  <2>1. SUFFICES ASSUME Init PROVE WaitInv
    OBVIOUS
  <2>2. at = [p \in Procs |-> IF p = First THEN At("user") ELSE At("unborn")]
    BY <2>1 DEF Init
  <2> QED BY <2>2, PagingAssumption DEF At, WaitInv
<1>2. ASSUME PInv, WaitInv, [Next]_vars PROVE WaitInv'
  <2>1. CASE UNCHANGED <<kind, at>>
    BY <1>2, <2>1 DEF WaitInv, Boots
  <2>2. ASSUME NEW p \in Procs, Waits(p) PROVE WaitInv'
    BY <1>2, <2>2 DEF WaitInv, Boots, Waits
  <2>3. ASSUME NEW p \in Procs, Undefined(p) PROVE UNCHANGED <<kind, at>>
    BY <2>3 DEF Undefined, Reacquires, SwapFull, KernelFault, UsesFreed, FreesOther, Break
  <2>4. CASE \E p \in Procs : Exec(p)
    BY <1>2, <2>4, ExecWaits
  <2>5. CASE ~ \E p \in Procs : Exec(p)
    BY <1>2, <2>1, <2>2, <2>3, <2>5, StepWaits DEF Next, vars
  <2> QED BY <2>4, <2>5
<1> QED BY <1>1, <1>2, PagingInvariant, PTL DEF Spec

\* In a circle in which nobody evicts a dirty page of a mapped file, the
\* evictor and the processes that are being loaded wait for nobody, so that
\* everybody waits for fs_lock: its holder, too.
LEMMA NoCircle ==
  ASSUME PInv, WaitInv
  PROVE  OnlyMmapDeadlocks
<1>1. SUFFICES ASSUME NEW S \in SUBSET Waiting, \A p \in S : WaitsFor(p) \cap S # {},
                      \A p \in S : ~ (at[p].pc = "out" /\ spt[at[p].vpage].type = "MMAP")
               PROVE  S = {}
  BY DEF OnlyMmapDeadlocks
<1>2. \A p \in S : p \in Procs
  BY DEF Waiting
<1>3. ASSUME NEW p \in S
      PROVE  \/ /\ at[p].pc \in {"add", "evict", "free"}
                /\ WaitsFor(p) = {lock["ft"]} \ {None, p}
             \/ /\ (at[p].pc = "fill" /\ ReadsFile(at[p].page)) \/ at[p].pc \in {"save", "call"}
                /\ WaitsFor(p) = {lock["fs"]} \ {None, p}
             \/ /\ at[p].pc = "load_done" /\ at[at[p].buf].then = "boot"
                /\ WaitsFor(p) = {at[p].buf} \ {None, p}
  <2>1. WaitsFor(p) # {}
    BY <1>1
  <2> QED BY <1>1, <2>1 DEF WaitsFor
<1>4. ASSUME NEW p \in S PROVE at[p].pc \notin {"add", "evict", "free"}
  <2>1. \A q \in S : lock["ft"] # q
    BY <1>2, <1>3, Known DEF LockedBy, EvictPcs
  <2> QED BY <1>1, <1>3, <2>1
<1>5. ASSUME NEW q \in S PROVE at[q].then # "boot"
  <2>1. SUFFICES ASSUME at[q].then = "boot" PROVE FALSE
    OBVIOUS
  <2>2. at[q].pc \in LoadPcs /\ kind[at[q].page] = "stack"
    BY <1>2, <2>1 DEF WaitInv, Boots
  <2> QED BY <1>3, <1>4, <2>2 DEF ReadsFile, LoadPcs, EvictPcs
<1>6. ASSUME NEW p \in S PROVE at[p].pc # "load_done"
  BY <1>1, <1>3, <1>5
<1>7. ASSUME NEW p \in S PROVE lock["fs"] \in S \ {p}
  BY <1>1, <1>3, <1>4, <1>6
<1>8. ASSUME NEW p \in S PROVE FALSE
  <2> DEFINE q == lock["fs"]
  <2>1. q \in S
    BY <1>7, <1>8
  <2>2. lock["fs"] \in S \ {q}
    BY <1>7, <2>1
  <2> QED BY <2>2
<1> QED BY <1>8

\* Processes wait for one another for ever only where a dirty page of a mapped
\* file is evicted, and install_page never finds the page mapped: the evictor
\* clears the mapping before the owner of the page, which may load it from the
\* moment it is declared gone, gets a frame.
THEOREM StuckHolds == Spec => []NeverStuck
<1>1. PInv => InstallSucceeds
  BY DEF PInv, PointsOK, PointOK, Loading, LoadPcs, InstallSucceeds
<1> QED BY <1>1, NoCircle, PagingInvariant, WaitInvariant, PTL DEF NeverStuck

----------------------------------------------------------------------------
(***************************************************************************)
(* The contents of pages: wherever a page is, it has the value last stored *)
(* to it.  The invariant is over that of the tables.                       *)
(***************************************************************************)

\* The contents of page g matter: its entry exists, or a mapped file keeps them.
Counts(g) == spt[g].present \/ kind[g] = "mmap"

\* What a load of page g would bring in is the value last stored to it.
Kept(g) == IF spt[g].slot # None THEN swap[spt[g].slot] = want[g] ELSE file[g] = want[g]

\* The value last stored to g is in its frame, in its slot, or in its file.
PageKept(g) ==
  g \notin torn =>
    /\ pte[g].frame # None /\ Counts(g) => mem[pte[g].frame] = want[g]
    /\ spt[g].present /\ pte[g].frame = None => Kept(g)
    /\ ~ spt[g].present /\ kind[g] = "mmap" => file[g] = want[g]

\* A mapped page that is not dirty and did not come from swap is as its file.
CleanKept(g) ==
  pte[g].frame # None /\ ~ pte[g].dirty
     /\ (kind[g] = "mmap" \/ (spt[g].present /\ spt[g].type # "SWAP"))
  => file[g] = mem[pte[g].frame]

\* Nobody has stored to a page of a process that does not exist yet.
UnbornKept(g) == at[Owner[g]].pc = "unborn" => file[g] = want[g] /\ g \notin torn

\* Once the evictor has made its copy of the victim, the copy is up to date
\* unless somebody stored to the page in between.
OutKept(p) ==
  at[p].pc \in {"unload", "clear"} /\ at[p].vpage \notin torn /\ Counts(at[p].vpage)
  => Kept(at[p].vpage)

\* So is the file of a mapped page that munmap or process_exit has saved.
SavedKept(p) ==
  at[p].pc \in {"lookup", "free"} /\ kind[at[p].page] = "mmap" /\ at[p].page \notin torn
  => file[at[p].page] = want[at[p].page]

StoreInv ==
  /\ \A g \in Pages : PageKept(g) /\ CleanKept(g) /\ UnbornKept(g)
  /\ \A p \in Procs : OutKept(p) /\ SavedKept(p)

----------------------------------------------------------------------------
\* The steps that leave the contents alone.

\* No entry appears or disappears, or changes its slot.
EntriesStay ==
  \A g \in Pages : /\ spt'[g].present = spt[g].present /\ spt'[g].slot = spt[g].slot
                   /\ spt[g].present => spt'[g].type = spt[g].type

\* No page is mapped, unmapped or stored to.
MapsStay == \A g \in Pages : pte'[g].frame = pte[g].frame /\ pte'[g].dirty = pte[g].dirty

\* Nothing is copied, and q owes no copy that it did not owe before.
OwesNoMore(q) ==
  /\ at'[q].pc \in {"unload", "clear"} => /\ at[q].pc \in {"unload", "clear"}
                                          /\ at'[q].vpage = at[q].vpage
  /\ at'[q].pc \in {"lookup", "free"} /\ kind[at'[q].page] = "mmap"
       => at[q].pc \in {"lookup", "free"} /\ at'[q].page = at[q].page
  /\ at'[q].pc = "unborn" => at[q].pc = "unborn"

\* The victim and the page to free are pages.
LEMMA PointPages ==
  ASSUME PInv, NEW q \in Procs
  PROVE  /\ at[q].pc \in {"unload", "clear"} => at[q].vpage \in Pages
         /\ at[q].pc \in {"lookup", "free"} => at[q].page \in Pages /\ Owner[at[q].page] = q
BY Known DEF Locals, DropPcs

\* A step that copies and stores nothing.
LEMMA ContentsStay ==
  ASSUME PInv, StoreInv, EntriesStay, MapsStay, \A q \in Procs : OwesNoMore(q),
         UNCHANGED <<kind, mem, file, swap, want, torn>>
  PROVE  StoreInv'
<1> USE PagingConstants
<1>1. \A g \in Pages : (Counts(g)' <=> Counts(g)) /\ (Kept(g)' <=> Kept(g))
  BY DEF EntriesStay, Counts, Kept
<1>2. ASSUME NEW g \in Pages PROVE PageKept(g)' /\ CleanKept(g)' /\ UnbornKept(g)'
  <2>1. PageKept(g) /\ CleanKept(g) /\ UnbornKept(g)
    BY DEF StoreInv
  <2>2. PageKept(g)'
    BY <1>1, <2>1 DEF EntriesStay, MapsStay, PageKept
  <2>3. CleanKept(g)'
    <3> SUFFICES ASSUME pte'[g].frame # None, ~ pte'[g].dirty,
                        kind[g] = "mmap" \/ (spt'[g].present /\ spt'[g].type # "SWAP")
                 PROVE  file[g] = mem[pte'[g].frame]
      BY DEF CleanKept
    <3>1. pte[g].frame = pte'[g].frame /\ ~ pte[g].dirty
      BY DEF MapsStay
    <3>2. kind[g] = "mmap" \/ (spt[g].present /\ spt[g].type # "SWAP")
      BY DEF EntriesStay
    <3> QED
      BY <2>1, <3>1, <3>2 DEF CleanKept
  <2>4. UnbornKept(g)'
    BY <2>1 DEF OwesNoMore, UnbornKept
  <2> QED
    BY <2>2, <2>3, <2>4
<1>3. ASSUME NEW q \in Procs PROVE OutKept(q)' /\ SavedKept(q)'
  <2>1. OutKept(q) /\ SavedKept(q) /\ OwesNoMore(q)
    BY DEF StoreInv
  <2>2. OutKept(q)'
    <3> SUFFICES ASSUME at'[q].pc \in {"unload", "clear"}, at'[q].vpage \notin torn,
                        Counts(at[q].vpage)'
                 PROVE  Kept(at[q].vpage)'
      BY DEF OutKept
    <3>1. at[q].pc \in {"unload", "clear"} /\ at'[q].vpage = at[q].vpage
      BY <2>1 DEF OwesNoMore
    <3>2. PICK g \in Pages : g = at[q].vpage
      BY <3>1, PointPages
    <3>3. Kept(g)'
      BY <1>1, <2>1, <3>1, <3>2 DEF OutKept, Counts
    <3> QED
      BY <3>1, <3>2, <3>3 DEF Kept
  <2>3. SavedKept(q)'
    BY <2>1 DEF OwesNoMore, SavedKept
  <2> QED
    BY <2>2, <2>3
<1> QED
  BY <1>2, <1>3 DEF StoreInv

\* p moves to a program point at which it owes no copy.
LEMMA PlainStep ==
  ASSUME PInv, StoreInv, NEW p \in Procs, EntriesStay, MapsStay,
         \A q \in Procs \ {p} : at'[q] = at[q],
         at'[p].pc \notin {"unload", "clear", "lookup", "free", "unborn"},
         UNCHANGED <<kind, mem, file, swap, want, torn>>
  PROVE  StoreInv'
<1>1. \A q \in Procs : OwesNoMore(q)
  BY DEF OwesNoMore
<1> QED
  BY <1>1, ContentsStay

\* Locking and unlocking pages, and what load_page does before it has a
\* frame, are such steps.
LEMMA EntriesRelocked ==
  /\ \A p \in Procs : Relocked(p) => EntriesStay
  /\ \A g \in Pages : Brought(g) => EntriesStay
  /\ spt' = spt => EntriesStay
BY DEF Relocked, Brought, EntriesStay

\* So is reading a page.
LEMMA ReadsOnly ==
  ASSUME PInv, NEW g \in Pages, Touch(g, None)
  PROVE  MapsStay /\ UNCHANGED <<mem, want, torn>>
<1>1. pte' = [pte EXCEPT ![g].acc = TRUE] /\ UNCHANGED <<mem, want, torn>>
  BY DEF Touch
<1>2. \A h \in Pages : pte'[h].frame = pte[h].frame /\ pte'[h].dirty = pte[h].dirty
  BY <1>1 DEF PInv, TypeOK
<1> QED
  BY <1>1, <1>2 DEF MapsStay

\* frame_alloc takes a free frame, or goes to evict.
LEMMA GetFrameContents ==
  ASSUME PInv, StoreInv, NEW p \in Procs, GetFrame(p)
  PROVE  StoreInv'
<1>1. /\ spt' = spt /\ pte' = pte /\ UNCHANGED <<kind, mem, file, swap, want, torn>>
      /\ \/ \E f \in Frames : at' = [at EXCEPT ![p].pc = "add", ![p].frame = f]
         \/ at' = [at EXCEPT ![p].pc = "evict"]
  BY DEF GetFrame, Fine, stores, history, PInv, TypeOK
<1>2. at'[p].pc \in {"add", "evict"} /\ \A q \in Procs \ {p} : at'[q] = at[q]
  BY <1>1 DEF PInv, AtType, Point
<1>3. EntriesStay /\ MapsStay
  BY <1>1 DEF EntriesStay, MapsStay
<1> QED
  BY <1>1, <1>2, <1>3, PlainStep

\* frame_add_to_ft.
LEMMA AddContents ==
  ASSUME PInv, StoreInv, NEW p \in Procs, AddToTable(p)
  PROVE  StoreInv'
<1>1. /\ spt' = spt /\ pte' = pte /\ UNCHANGED <<kind, mem, file, swap, want, torn>>
      /\ at' = [at EXCEPT ![p].pc = "fill"]
  BY DEF AddToTable, Fine, stores, history
<1>2. at'[p].pc = "fill" /\ \A q \in Procs \ {p} : at'[q] = at[q]
  BY <1>1 DEF PInv, AtType, Point
<1>3. EntriesStay /\ MapsStay
  BY <1>1 DEF EntriesStay, MapsStay
<1> QED
  BY <1>1, <1>2, <1>3, PlainStep

\* frame_evict starts, or finds nothing to evict.
LEMMA EvictContents ==
  ASSUME PInv, StoreInv, NEW p \in Procs, Evict(p) \/ NothingToEvict(p)
  PROVE  StoreInv'
<1>1. /\ spt' = spt /\ pte' = pte /\ UNCHANGED <<kind, mem, file, swap, want, torn>>
      /\ \/ \E S \in SUBSET Frames : at' = [at EXCEPT ![p].pc = "scan", ![p].todo = S]
         \/ at' = [at EXCEPT ![p].pc = "evict"]
  BY DEF Evict, NothingToEvict, Fine, tables, stores, history
<1>2. at'[p].pc \in {"scan", "evict"} /\ \A q \in Procs \ {p} : at'[q] = at[q]
  BY <1>1 DEF PInv, AtType, Point
<1>3. EntriesStay /\ MapsStay
  BY <1>1 DEF EntriesStay, MapsStay
<1> QED
  BY <1>1, <1>2, <1>3, PlainStep

\* The second chance clears accessed bits; the victim is only chosen.
LEMMA ScanContents ==
  ASSUME PInv, StoreInv, NEW p \in Procs, Scan(p)
  PROVE  StoreInv'
<1>1. at[p] \in Point /\ at[p].pc = "scan" /\ spt' = spt
      /\ UNCHANGED <<kind, mem, file, swap, want, torn>>
  BY Known DEF Scan, On, Fine, stores, history
<1>2. PICK f \in at[p].todo :
          IF spt[ft[f]].locked \/ pte[ft[f]].acc
          THEN /\ pte' = IF spt[ft[f]].locked THEN pte ELSE [pte EXCEPT ![ft[f]].acc = FALSE]
               /\ at' = [at EXCEPT ![p].todo = @ \ {f}]
          ELSE /\ at' = [at EXCEPT ![p].pc = "out", ![p].todo = {},
                                   ![p].victim = f, ![p].vpage = ft[f]]
               /\ UNCHANGED pte
  BY DEF Scan
<1>3. at'[p].pc \in {"scan", "out"} /\ \A q \in Procs \ {p} : at'[q] = at[q]
  <2>1. CASE spt[ft[f]].locked \/ pte[ft[f]].acc
    BY <1>1, <1>2, <2>1 DEF PInv, AtType, Point
  <2>2. CASE ~ (spt[ft[f]].locked \/ pte[ft[f]].acc)
    BY <1>1, <1>2, <2>2 DEF PInv, AtType, Point
  <2> QED
    BY <2>1, <2>2
<1>4. MapsStay
  <2>1. pte' = pte \/ \E g : pte' = [pte EXCEPT ![g].acc = FALSE]
    BY <1>2
  <2> QED
    BY <2>1 DEF MapsStay, PInv, TypeOK
<1> QED
  BY <1>1, <1>3, <1>4, EntriesRelocked, PlainStep

\* The frame is taken from the pool again.
LEMMA RegetContents ==
  ASSUME PInv, StoreInv, NEW p \in Procs, Reget(p)
  PROVE  StoreInv'
<1>1. /\ spt' = spt /\ pte' = pte /\ UNCHANGED <<kind, mem, file, swap, want, torn>>
      /\ \/ \E f \in Frames : at' = [at EXCEPT ![p].pc = "add", ![p].frame = f, ![p].todo = {}]
         \/ at' = [at EXCEPT ![p].pc = "evict", ![p].todo = {}]
  BY DEF Reget, Fine, stores, history, PInv, TypeOK
<1>2. at'[p].pc \in {"add", "evict"} /\ \A q \in Procs \ {p} : at'[q] = at[q]
  <2>1. at \in [Procs -> Point] /\ at[p] \in Point
    BY DEF PInv, AtType
  <2>2. ASSUME NEW f \in Frames,
               at' = [at EXCEPT ![p].pc = "add", ![p].frame = f, ![p].todo = {}]
        PROVE  at'[p].pc = "add" /\ \A q \in Procs \ {p} : at'[q] = at[q]
    BY ONLY <2>1, <2>2, p \in Procs DEF Point
  <2>3. ASSUME at' = [at EXCEPT ![p].pc = "evict", ![p].todo = {}]
        PROVE  at'[p].pc = "evict" /\ \A q \in Procs \ {p} : at'[q] = at[q]
    BY ONLY <2>1, <2>3, p \in Procs DEF Point
  <2> QED
    BY <1>1, <2>2, <2>3
<1>3. EntriesStay /\ MapsStay
  BY <1>1 DEF EntriesStay, MapsStay
<1> QED
  BY <1>1, <1>2, <1>3, PlainStep

\* The victim is declared gone: its copy was made in swap_out before.
LEMMA UnloadContents ==
  ASSUME PInv, StoreInv, NEW p \in Procs, Unload(p)
  PROVE  StoreInv'
<1>1. /\ at[p].pc = "unload" /\ spt' = [spt EXCEPT ![at[p].vpage].loaded = FALSE]
      /\ at' = [at EXCEPT ![p].pc = "clear"] /\ pte' = pte
      /\ UNCHANGED <<kind, mem, file, swap, want, torn>>
  BY DEF Unload, On, Fine, stores, history
<1>2. /\ at'[p].pc = "clear" /\ at'[p].vpage = at[p].vpage
      /\ \A q \in Procs \ {p} : at'[q] = at[q]
  BY <1>1 DEF PInv, AtType, Point
<1>3. \A q \in Procs : OwesNoMore(q)
  BY <1>1, <1>2 DEF OwesNoMore
<1>4. EntriesStay
  BY <1>1 DEF EntriesStay, PInv, TypeOK, PageState
<1>5. MapsStay
  BY <1>1 DEF MapsStay
<1> QED
  BY <1>1, <1>3, <1>4, <1>5, ContentsStay

\* The frame of the page given up is looked up.
LEMMA LookupContents ==
  ASSUME PInv, StoreInv, NEW p \in Procs, Lookup(p)
  PROVE  StoreInv'
<1>1. /\ at[p].pc = "lookup" /\ spt' = spt /\ pte' = pte
      /\ at' = [at EXCEPT ![p].pc = "free", ![p].frame = pte[at[p].page].frame]
      /\ UNCHANGED <<kind, mem, file, swap, want, torn>>
  BY DEF Lookup, On, Fine, tables, stores, history
<1>2. /\ at'[p].pc = "free" /\ at'[p].page = at[p].page
      /\ \A q \in Procs \ {p} : at'[q] = at[q]
  BY <1>1 DEF PInv, AtType, Point
<1>3. \A q \in Procs : OwesNoMore(q)
  BY <1>1, <1>2 DEF OwesNoMore
<1>4. EntriesStay /\ MapsStay
  BY <1>1 DEF EntriesStay, MapsStay
<1> QED
  BY <1>1, <1>3, <1>4, ContentsStay

\* A mapped file's page is saved before its frame is looked up.
LEMMA DropLoadedContents ==
  ASSUME PInv, StoreInv, NEW p \in Procs, NEW g \in Left(p), at[p].pc = "exit", HasFrame(g),
         spt' = [spt EXCEPT ![g].locked = @ \/ spt[g].type = "MMAP"],
         at' = [at EXCEPT ![p].pc = IF spt[g].type = "MMAP" THEN "save" ELSE "lookup",
                          ![p].page = g],
         UNCHANGED <<pte, kind, mem, file, swap, want, torn>>
  PROVE  StoreInv'
<1>1. g \in Pages /\ spt[g].present
  BY LeftPage
<1>2. spt[g].type = "MMAP" <=> kind[g] = "mmap"
  BY <1>1 DEF PInv, TypesOK
<1>3. /\ at'[p].pc = IF spt[g].type = "MMAP" THEN "save" ELSE "lookup"
      /\ at'[p].page = g /\ \A q \in Procs \ {p} : at'[q] = at[q]
  BY DEF PInv, AtType, Point
<1>4. \A q \in Procs : OwesNoMore(q)
  <2>1. at'[p].pc \in {"save", "lookup"} /\ (at'[p].pc = "lookup" => kind[at'[p].page] # "mmap")
    BY <1>2, <1>3
  <2> QED
    BY <1>3, <2>1 DEF OwesNoMore
<1>5. EntriesStay
  BY <1>1 DEF EntriesStay, PInv, TypeOK, PageState
<1>6. MapsStay
  BY DEF MapsStay
<1> QED
  BY <1>4, <1>5, <1>6, ContentsStay

\* A page fault up to frame_alloc, and sys_exit.
LEMMA UserContents ==
  ASSUME PInv, StoreInv, NEW p \in Procs, PageFault(p) \/ Exit(p)
  PROVE  StoreInv'
<1>1. CASE PageFault(p)
  <2>1. PICK g \in Pages : Bring(p, g, "fault")
    BY <1>1 DEF PageFault
  <2>2. pte' = pte /\ UNCHANGED <<kind, mem, file, swap, want, torn>>
    BY <1>1 DEF PageFault, Fine, stores, history
  <2>3. /\ Brought(g)
        /\ at' = [at EXCEPT ![p].pc = "get", ![p].page = g, ![p].then = "fault"]
    BY <2>1, Brings
  <2>4. at'[p].pc = "get" /\ \A q \in Procs \ {p} : at'[q] = at[q]
    BY <2>3 DEF PInv, AtType, Point
  <2>5. MapsStay
    BY <2>2 DEF MapsStay
  <2> QED
    BY <2>2, <2>3, <2>4, <2>5, EntriesRelocked, PlainStep
<1>2. CASE Exit(p)
  <2>1. /\ spt' = spt /\ pte' = pte /\ UNCHANGED <<kind, mem, file, swap, want, torn>>
        /\ at' = [at EXCEPT ![p] = [At("exit") EXCEPT !.op = "exit"]]
    BY <1>2 DEF Exit, Fine, tables, stores, history
  <2>2. at'[p].pc = "exit" /\ \A q \in Procs \ {p} : at'[q] = at[q]
    BY <2>1 DEF PInv, AtType, At
  <2>3. MapsStay
    BY <2>1 DEF MapsStay
  <2> QED
    BY <2>1, <2>2, <2>3, EntriesRelocked, PlainStep
<1> QED
  BY <1>1, <1>2

----------------------------------------------------------------------------
\* System calls, up to the copy.

\* A step of a system call to a point x at which nothing is owed.
LEMMA CallContents ==
  ASSUME PInv, StoreInv, NEW p \in Procs, NEW x, at' = [at EXCEPT ![p] = x],
         x.pc \notin {"unload", "clear", "lookup", "free", "unborn"},
         EntriesStay, MapsStay, UNCHANGED <<kind, mem, file, swap, want, torn>>
  PROVE  StoreInv'
<1>1. at'[p] = x /\ \A q \in Procs \ {p} : at'[q] = at[q]
  BY DEF PInv, AtType
<1> QED
  BY <1>1, PlainStep

\* syscall_handler and copy_in up to the arguments.
LEMMA SyscallContents ==
  ASSUME PInv, StoreInv, NEW p \in Procs, Syscall(p)
  PROVE  StoreInv'
<1> USE PagingConstants
<1>1. PICK g \in Pages, c \in Calls :
          /\ kind[g] = "stack"
          /\ LET s == [at[p] EXCEPT !.op = c[2], !.esp = g, !.buf = c[3]] IN
             IF spt[g].present /\ spt[g].loaded
             THEN /\ spt' = [spt EXCEPT ![g].locked = TRUE]
                  /\ at' = [at EXCEPT ![p] = [s EXCEPT !.pc = "args"]]
             ELSE LET t == [s EXCEPT !.pc = "get", !.page = g, !.then = "args"] IN
                  /\ at' = [at EXCEPT ![p] = t]
                  /\ spt' = [spt EXCEPT ![g] =
                               IF spt[g].present THEN [@ EXCEPT !.locked = TRUE]
                               ELSE [Absent EXCEPT !.type = "SWAP", !.loaded = TRUE,
                                                   !.locked = TRUE]]
  BY DEF Syscall
<1>2. pte' = pte /\ UNCHANGED <<kind, mem, file, swap, want, torn>>
  BY DEF Syscall, Fine, stores, history
<1>3. MapsStay
  BY <1>2 DEF MapsStay
<1>4. at[p] \in Point
  BY Known
<1> DEFINE s == [at[p] EXCEPT !.op = c[2], !.esp = g, !.buf = c[3]]
           t == [s EXCEPT !.pc = "get", !.page = g, !.then = "args"]
<1>5. EntriesStay
  <2>1. CASE spt[g].present /\ spt[g].loaded
    <3>1. spt' = [spt EXCEPT ![g].locked = TRUE]
      BY <1>1, <2>1
    <3> QED
      BY <3>1, Relocks, EntriesRelocked
  <2>2. CASE spt[g].present /\ ~ spt[g].loaded
    <3>1. spt' = [spt EXCEPT ![g].locked = TRUE]
      BY <1>1, <2>2
    <3> QED
      BY <2>2, <3>1, LocksEntry, EntriesRelocked
  <2>3. CASE ~ spt[g].present
    <3>1. spt' = [spt EXCEPT ![g] = [Absent EXCEPT !.type = "SWAP", !.loaded = TRUE,
                                                   !.locked = TRUE]]
      BY <1>1, <2>3
    <3> QED
      BY <1>1, <2>3, <3>1, MakesEntry, EntriesRelocked
  <2> QED
    BY <2>1, <2>2, <2>3
<1> DEFINE u == [s EXCEPT !.pc = "args"]
<1>6. u.pc = "args" /\ t.pc = "get"
  BY <1>4 DEF Point
<1>7. at' = [at EXCEPT ![p] = u] \/ at' = [at EXCEPT ![p] = t]
  BY <1>1
<1> HIDE DEF t, u
<1> QED
  BY <1>2, <1>3, <1>5, <1>6, <1>7, CallContents

\* The arguments are read through the mapped page of esp.
LEMMA CopyInContents ==
  ASSUME PInv, StoreInv, NEW p \in Procs, CopyIn(p)
  PROVE  StoreInv'
<1>1. at[p].pc = "args" /\ spt' = spt /\ UNCHANGED <<kind, file, swap>>
  BY DEF CopyIn, On, Fine
<1>2. at[p].esp \in Pages
  BY <1>1, Known DEF Locals, InCall, CallPcs
<1>3. MapsStay /\ UNCHANGED <<mem, want, torn>>
  <2>1. CASE pte[at[p].esp].frame # None
    BY <1>2, <2>1, ReadsOnly DEF CopyIn
  <2>2. CASE pte[at[p].esp].frame = None
    BY <2>2 DEF CopyIn, MapsStay
  <2> QED
    BY <2>1, <2>2
<1>4. at'[p].pc \in {"call", "exit"} /\ \A q \in Procs \ {p} : at'[q] = at[q]
  <2>1. CASE pte[at[p].esp].frame # None
    BY <2>1 DEF CopyIn, PInv, AtType, Point
  <2>2. CASE pte[at[p].esp].frame = None
    BY <2>2 DEF CopyIn, PInv, AtType, At
  <2> QED
    BY <2>1, <2>2
<1> QED
  BY <1>1, <1>3, <1>4, EntriesRelocked, PlainStep

\* verify_user, up to frame_alloc if the buffer is not in memory.
LEMMA VerifyContents ==
  ASSUME PInv, StoreInv, NEW p \in Procs, Verify(p)
  PROVE  StoreInv'
<1> DEFINE b == at[p].buf
<1>1. /\ at[p].pc = "call" /\ at[p].op \in {"read", "write"} /\ pte' = pte
      /\ UNCHANGED <<kind, mem, file, swap, want, torn>>
  BY DEF Verify, On, Fine, stores, history
<1>2. b \in Pages
  BY <1>1, Known DEF Locals, InCall, CallPcs
<1>3. \/ \E to \in {"copy", "refuse"} : at' = [at EXCEPT ![p].pc = to] /\ spt' = spt
      \/ Bring(p, b, "buf")
  BY DEF Verify
<1>4. EntriesStay /\ at'[p].pc \in {"copy", "refuse", "get"}
      /\ \A q \in Procs \ {p} : at'[q] = at[q]
  <2>1. CASE \E to \in {"copy", "refuse"} : at' = [at EXCEPT ![p].pc = to] /\ spt' = spt
    BY <2>1, EntriesRelocked DEF PInv, AtType, Point
  <2>2. CASE Bring(p, b, "buf")
    <3>1. Brought(b) /\ at' = [at EXCEPT ![p].pc = "get", ![p].page = b, ![p].then = "buf"]
      BY <1>2, <2>2, Brings
    <3>2. at'[p].pc = "get" /\ \A q \in Procs \ {p} : at'[q] = at[q]
      BY <3>1 DEF PInv, AtType, Point
    <3> QED
      BY <1>2, <3>1, <3>2, EntriesRelocked
  <2> QED
    BY <1>3, <2>1, <2>2
<1>5. MapsStay
  BY <1>1 DEF MapsStay
<1> QED
  BY <1>1, <1>4, <1>5, PlainStep

\* The ends of system calls that copy nothing.
LEMMA ReturnContents ==
  ASSUME PInv, StoreInv, NEW p \in Procs, Refuse(p) \/ ExecReturns(p) \/ Munmap(p) \/ Dropped(p)
  PROVE  StoreInv'
<1>1. pte' = pte /\ UNCHANGED <<kind, mem, file, swap, want, torn>>
  BY DEF Refuse, ExecReturns, Munmap, Dropped, Fine, tables, stores, history
<1>2. spt' = spt \/ (InCall(p) /\ Unpin(p))
  BY DEF Refuse, ExecReturns, Munmap, Dropped, On, tables, InCall, CallPcs
<1>3. EntriesStay
  <2>1. CASE InCall(p) /\ Unpin(p)
    BY <2>1, Unpins, EntriesRelocked
  <2> QED
    BY <1>2, <2>1, EntriesRelocked
<1>4. MapsStay
  BY <1>1 DEF MapsStay
<1>5. \/ \E x \in {At("user"), At("dead"), [At("exit") EXCEPT !.op = "exit"]} :
              at' = [at EXCEPT ![p] = x]
      \/ at' = [at EXCEPT ![p].pc = "exit"]
  BY DEF Refuse, ExecReturns, Munmap, Dropped
<1>6. at'[p].pc \in {"user", "dead", "exit"} /\ \A q \in Procs \ {p} : at'[q] = at[q]
  <2>1. CASE at' = [at EXCEPT ![p].pc = "exit"]
    BY <2>1 DEF PInv, AtType, Point
  <2>2. CASE \E x \in {At("user"), At("dead"), [At("exit") EXCEPT !.op = "exit"]} :
                at' = [at EXCEPT ![p] = x]
    BY <2>2 DEF PInv, AtType, At
  <2> QED
    BY <1>5, <2>1, <2>2
<1> QED
  BY <1>1, <1>3, <1>4, <1>6, PlainStep

----------------------------------------------------------------------------
\* The steps that store and copy.

\* No other page maps the frame of a page.
LEMMA OwnFrame ==
  ASSUME PInv, NEW g \in Pages, NEW h \in Pages \ {g}, pte[g].frame # None
  PROVE  pte[h].frame # pte[g].frame
BY OnePlace DEF FramesExclusive

\* A mapped page that no evictor has declared gone is in memory.
LEMMA MappedLoaded ==
  ASSUME PInv, NEW g \in Pages, pte[g].frame # None,
         \A q \in Procs : at[q].pc = "clear" => at[q].vpage # g
  PROVE  spt[g].present /\ spt[g].loaded /\ ft[pte[g].frame] = g
<1>1. pte[g].frame \in Frames
  BY DEF PInv, TypeOK
<1>2. ft[pte[g].frame] = g
  BY DEF PInv, FrameInv, MapOK, Clears
<1>3. ~ Fills(Owner[g], pte[g].frame, g)
  BY PagingConstants, Known DEF Fills, Loading, LoadPcs
<1> QED
  BY <1>1, <1>2, <1>3 DEF PInv, FrameInv, TableOK

\* A store goes to the frame; an evictor that has made its copy has lost it.
LEMMA StoreContents ==
  ASSUME PInv, StoreInv, NEW p \in Procs, NEW g \in Pages, NEW v \in Values, v # None,
         Owner[g] = p, pte[g].frame # None, Touch(g, v),
         at[p].pc \in {"user", "copy"}, at'[p].pc = "user",
         \A q \in Procs \ {p} : at'[q] = at[q], EntriesStay,
         UNCHANGED <<kind, file, swap>>
  PROVE  StoreInv'
<1> USE PagingConstants
<1> DEFINE f == pte[g].frame
<1>1. /\ pte' = [pte EXCEPT ![g].acc = TRUE, ![g].dirty = TRUE]
      /\ mem' = [mem EXCEPT ![f] = v] /\ want' = [want EXCEPT ![g] = v]
      /\ torn' = IF Leaving(g) THEN torn \cup {g} ELSE torn \ {g}
  BY DEF Touch
<1>2. f \in Frames
  BY DEF PInv, TypeOK
<1>3. /\ mem'[f] = v /\ \A x \in Frames \ {f} : mem'[x] = mem[x]
      /\ want'[g] = v /\ \A h \in Pages \ {g} : want'[h] = want[h]
  BY <1>1, <1>2 DEF PInv, TypeOK
<1>4. /\ pte'[g].frame = f /\ pte'[g].dirty
      /\ \A h \in Pages \ {g} : pte'[h] = pte[h]
  BY <1>1 DEF PInv, TypeOK
<1>5. \A h \in Pages \ {g} : pte[h].frame # None => pte[h].frame \in Frames \ {f}
  BY OwnFrame DEF PInv, TypeOK
<1>6. \A h \in Pages \ {g} : h \in torn' <=> h \in torn
  BY <1>1
<1>7. \A q \in Procs : at[q].pc \in {"unload", "clear"} /\ at[q].vpage = g => g \in torn'
  BY <1>1 DEF Leaving
<1>8. \A h \in Pages : Counts(h)' <=> Counts(h)
  BY DEF EntriesStay, Counts
<1>9. \A h \in Pages \ {g} : Kept(h)' <=> Kept(h)
  BY <1>3 DEF EntriesStay, Kept
<1>10. PageKept(g)'
  <2>1. g \notin torn' => spt[g].present
    BY <1>7, MappedLoaded
  <2> QED
    BY <1>3, <1>4, <2>1 DEF PageKept, EntriesStay
<1>11. CleanKept(g)' /\ UnbornKept(g)'
  BY <1>4 DEF CleanKept, UnbornKept
<1>12. ASSUME NEW h \in Pages \ {g} PROVE PageKept(h)' /\ CleanKept(h)' /\ UnbornKept(h)'
  <2>1. PageKept(h) /\ CleanKept(h) /\ UnbornKept(h)
    BY DEF StoreInv
  <2>2. pte'[h] = pte[h] /\ want'[h] = want[h] /\ (pte[h].frame # None =>
           mem'[pte[h].frame] = mem[pte[h].frame])
    BY <1>3, <1>4, <1>5
  <2>3. PageKept(h)'
    BY <1>6, <1>8, <1>9, <2>1, <2>2 DEF EntriesStay, PageKept
  <2>4. CleanKept(h)'
    <3>1. spt'[h].present = spt[h].present /\ (spt[h].present => spt'[h].type = spt[h].type)
      BY DEF EntriesStay
    <3> QED
      BY <2>1, <2>2, <3>1 DEF CleanKept
  <2>5. UnbornKept(h)'
    BY <1>6, <2>1, <2>2 DEF UnbornKept
  <2> QED
    BY <2>3, <2>4, <2>5
<1>13. ASSUME NEW q \in Procs PROVE OutKept(q)' /\ SavedKept(q)'
  <2>1. OutKept(q) /\ SavedKept(q)
    BY DEF StoreInv
  <2>2. CASE q = p
    BY <2>2 DEF OutKept, SavedKept
  <2>3. CASE q # p
    <3>1. at'[q] = at[q]
      BY <2>3
    <3>2. OutKept(q)'
      <4> SUFFICES ASSUME at[q].pc \in {"unload", "clear"}, at[q].vpage \notin torn',
                          Counts(at[q].vpage)'
                   PROVE  Kept(at[q].vpage)'
        BY <3>1 DEF OutKept, Counts, Kept
      <4>1. PICK h \in Pages \ {g} : h = at[q].vpage
        BY <1>7, PointPages
      <4>2. h \notin torn /\ Counts(h) /\ Counts(at[q].vpage)
        BY <1>6, <1>8, <4>1 DEF Counts
      <4>3. Kept(h)
        BY <2>1, <4>1, <4>2 DEF OutKept
      <4> QED
        BY <1>9, <4>1, <4>3 DEF Kept
    <3>3. SavedKept(q)'
      <4> SUFFICES ASSUME at[q].pc \in {"lookup", "free"}, kind[at[q].page] = "mmap",
                          at[q].page \notin torn'
                   PROVE  file[at[q].page] = want'[at[q].page]
        BY <3>1 DEF SavedKept
      <4>1. at[q].page \in Pages \ {g}
        BY <2>3, PointPages
      <4> QED
        BY <1>3, <1>6, <2>1, <4>1 DEF SavedKept
    <3> QED
      BY <3>2, <3>3
  <2> QED
    BY <2>2, <2>3
<1> QED
  BY <1>10, <1>11, <1>12, <1>13 DEF StoreInv

\* User code and file_read store to a mapped page.
LEMMA TouchContents ==
  ASSUME PInv, StoreInv, NEW p \in Procs, Access(p) \/ Copy(p)
  PROVE  StoreInv'
<1> USE PagingConstants
<1>1. PICK g \in Pages, v \in Inputs \cup {None} :
        Owner[g] = p /\ pte[g].frame # None /\ Touch(g, v)
  <2>1. CASE Access(p)
    BY <2>1 DEF Access
  <2>2. CASE Copy(p)
    <3>1. at[p].buf \in Pages /\ Owner[at[p].buf] = p
      BY <2>2, Known DEF Copy, On, Locals, InCall, CallPcs
    <3>2. pte[at[p].buf].frame # None /\ \E v \in Inputs \cup {None} : Touch(at[p].buf, v)
      BY <2>2 DEF Copy
    <3> QED
      BY <3>1, <3>2
  <2> QED
    BY <2>1, <2>2
<1>2. UNCHANGED <<kind, file, swap>>
  BY DEF Access, Copy, Fine
<1>3. at[p].pc \in {"user", "copy"} /\ at'[p].pc = "user" /\ \A q \in Procs \ {p} : at'[q] = at[q]
  BY DEF Access, Copy, On, PInv, AtType, At
<1>4. EntriesStay
  <2>1. CASE Access(p)
    BY <2>1, EntriesRelocked DEF Access
  <2>2. CASE Copy(p)
    <3>1. InCall(p) /\ Unpin(p)
      BY <2>2 DEF Copy, On, InCall, CallPcs
    <3> QED
      BY <3>1, Unpins, EntriesRelocked
  <2> QED
    BY <2>1, <2>2
<1>5. CASE v = None
  <2>1. MapsStay /\ UNCHANGED <<mem, want, torn>>
    BY <1>1, <1>5, ReadsOnly
  <2> QED
    BY <1>2, <1>3, <1>4, <2>1, PlainStep
<1>6. CASE v # None
  BY <1>1, <1>2, <1>3, <1>4, <1>6, StoreContents
<1> QED
  BY <1>5, <1>6

\* The contents of page h, and what is said of them, stay.
Spared(h) ==
  /\ spt'[h].present = spt[h].present /\ spt'[h].slot = spt[h].slot
  /\ spt[h].present => spt'[h].type = spt[h].type
  /\ pte'[h].frame = pte[h].frame /\ pte'[h].dirty = pte[h].dirty
  /\ want'[h] = want[h] /\ file'[h] = file[h] /\ (h \in torn' <=> h \in torn)
  /\ pte[h].frame # None => mem'[pte[h].frame] = mem[pte[h].frame]
  /\ spt[h].slot # None => swap'[spt[h].slot] = swap[spt[h].slot]

\* What q owes more than before is a copy of page g.
OwesOnly(q, g) ==
  /\ at'[q].pc \in {"unload", "clear"} => \/ at'[q].vpage = g
                                          \/ /\ at[q].pc \in {"unload", "clear"}
                                             /\ at'[q].vpage = at[q].vpage
  /\ at'[q].pc \in {"lookup", "free"} => \/ at'[q].page = g
                                         \/ /\ at[q].pc \in {"lookup", "free"}
                                            /\ at'[q].page = at[q].page
  /\ at'[q].pc = "unborn" => at[q].pc = "unborn"

\* A step that copies the contents of one page g, or makes or frees its entry.
LEMMA OnePage ==
  ASSUME PInv, StoreInv, NEW g \in Pages, kind' = kind,
         \A h \in Pages \ {g} : Spared(h), \A q \in Procs : OwesOnly(q, g),
         PageKept(g)', CleanKept(g)', UnbornKept(g)',
         \A q \in Procs : at'[q].pc \in {"unload", "clear"} /\ at'[q].vpage = g => OutKept(q)',
         \A q \in Procs : at'[q].pc \in {"lookup", "free"} /\ at'[q].page = g => SavedKept(q)'
  PROVE  StoreInv'
<1> USE PagingConstants
<1>1. ASSUME NEW h \in Pages \ {g} PROVE PageKept(h)' /\ CleanKept(h)' /\ UnbornKept(h)'
  <2>1. Spared(h) /\ PageKept(h) /\ CleanKept(h) /\ UnbornKept(h)
    BY DEF StoreInv
  <2>2. PageKept(h)'
    BY <2>1 DEF Spared, PageKept, Counts, Kept
  <2>3. CleanKept(h)'
    BY <2>1 DEF Spared, CleanKept
  <2>4. UnbornKept(h)'
    BY <2>1 DEF Spared, UnbornKept, OwesOnly
  <2> QED
    BY <2>2, <2>3, <2>4
<1>2. ASSUME NEW q \in Procs PROVE OutKept(q)'
  <2> SUFFICES ASSUME at'[q].pc \in {"unload", "clear"}, at'[q].vpage # g PROVE OutKept(q)'
    BY DEF OutKept
  <2>1. at[q].pc \in {"unload", "clear"} /\ at'[q].vpage = at[q].vpage
    BY DEF OwesOnly
  <2>2. PICK h \in Pages \ {g} : h = at[q].vpage
    BY <2>1, PointPages
  <2>3. h \notin torn /\ Counts(h) => Kept(h)
    BY <2>1, <2>2 DEF StoreInv, OutKept
  <2>4. h \notin torn' /\ Counts(h)' => Kept(h)'
    BY <2>2, <2>3 DEF Spared, Counts, Kept
  <2> QED
    BY <2>1, <2>2, <2>4 DEF OutKept, Counts, Kept
<1>3. ASSUME NEW q \in Procs PROVE SavedKept(q)'
  <2> SUFFICES ASSUME at'[q].pc \in {"lookup", "free"}, at'[q].page # g PROVE SavedKept(q)'
    BY DEF SavedKept
  <2>1. at[q].pc \in {"lookup", "free"} /\ at'[q].page = at[q].page
    BY DEF OwesOnly
  <2>2. at[q].page \in Pages \ {g}
    BY <2>1, PointPages
  <2>3. SavedKept(q)
    BY DEF StoreInv
  <2> QED
    BY <2>1, <2>2, <2>3 DEF Spared, SavedKept
<1> QED
  BY <1>1, <1>2, <1>3 DEF StoreInv

\* A page that is being filled is not being evicted and not being given up.
LEMMA FilledAlone ==
  ASSUME PInv, NEW p \in Procs, at[p].pc = "fill", NEW g \in Pages, g = at[p].page
  PROVE  /\ \A q \in Procs : at[q].pc \in {"unload", "clear"} => at[q].vpage # g
         /\ \A q \in Procs : at[q].pc \in {"lookup", "free"} => at[q].page # g
         /\ \A h \in Pages \ {g} : pte[h].frame # at[p].frame
<1> USE PagingConstants
<1>1. /\ Owner[g] = p /\ at[p].frame \in Frames
      /\ spt[g].present => ~ spt[g].loaded
      /\ ft[at[p].frame] = g /\ pte[g].frame = None
  BY Filled
<1>2. ASSUME NEW q \in Procs, at[q].pc \in {"unload", "clear"} PROVE at[q].vpage # g
  BY <1>1, <1>2, Known DEF Locals, Evicting
<1>3. ASSUME NEW q \in Procs, at[q].pc \in {"lookup", "free"} PROVE at[q].page # g
  BY <1>1, <1>3, PointPages
<1>4. ASSUME NEW h \in Pages \ {g}, pte[h].frame = at[p].frame PROVE FALSE
  <2>1. ft[at[p].frame] \in {None, h}
    BY <1>1, <1>4, OnePlace DEF FramesExclusive
  <2> QED
    BY <1>1, <2>1
<1> QED
  BY <1>2, <1>3, <1>4

\* load_page and grow_stack fill the frame with what was kept of the page.
LEMMA FillContents ==
  ASSUME PInv, StoreInv, NEW p \in Procs, Fill(p)
  PROVE  StoreInv'
<1> USE PagingConstants
<1> DEFINE f == at[p].frame
<1>1. PICK g \in Pages : g = at[p].page /\ at[p].pc = "fill"
  BY Known DEF Fill, On, Locals, LoadPcs
<1> DEFINE sl == spt[g].slot
           swapped == spt[g].present /\ spt[g].type = "SWAP"
<1>2. /\ Owner[g] = p /\ f \in Frames
      /\ ~ spt[g].present => spt[g].type = "SWAP" /\ kind[g] = "stack"
      /\ pte[g].frame = None
  BY <1>1, Filled
<1>3. sl # None <=> swapped
  BY <1>1, Filled
<1>4. /\ mem' = [mem EXCEPT ![f] = IF ~ spt[g].present THEN @
                                   ELSE IF swapped THEN swap[sl] ELSE file[g]]
      /\ want' = [want EXCEPT ![g] = IF ~ spt[g].present THEN mem[f] ELSE @]
      /\ swap' = IF swapped THEN [swap EXCEPT ![sl] = Zero] ELSE swap
      /\ pte' = [pte EXCEPT ![g] = [frame |-> f, acc |-> swapped, dirty |-> swapped]]
      /\ UNCHANGED <<kind, file, torn>>
  BY <1>1 DEF Fill, Fine, Growing
<1>5. pte'[g].frame = f /\ (pte'[g].dirty <=> swapped) /\ \A h \in Pages \ {g} : pte'[h] = pte[h]
  BY <1>4 DEF PInv, TypeOK
<1>6. /\ spt'[g].present /\ spt'[g].slot = None /\ spt'[g].type = spt[g].type
      /\ \A h \in Pages \ {g} : spt'[h] = spt[h]
  <2>1. spt' = [spt EXCEPT ![g].loaded = TRUE, ![g].present = TRUE, ![g].slot = None,
                           ![g].locked = Growing(g) \/ at[p].then # "fault"]
    BY <1>1 DEF Fill
  <2> QED
    BY <2>1 DEF PInv, TypeOK, PageState
<1>7. /\ mem'[f] = IF ~ spt[g].present THEN mem[f] ELSE IF swapped THEN swap[sl] ELSE file[g]
      /\ \A x \in Frames \ {f} : mem'[x] = mem[x]
      /\ want'[g] = IF ~ spt[g].present THEN mem[f] ELSE want[g]
      /\ \A h \in Pages \ {g} : want'[h] = want[h]
  BY <1>2, <1>4 DEF PInv, TypeOK
<1>8. at'[p].pc \in {"user", "args", "copy"} /\ \A q \in Procs \ {p} : at'[q] = at[q]
  <2>1. PICK x : x = Resume(at[p])
    OBVIOUS
  <2>2. x.pc \in {"user", "args", "copy"}
    BY <1>1, <2>1, Resumes
  <2>3. at' = [at EXCEPT ![p] = x]
    BY <2>1 DEF Fill
  <2> QED
    BY <2>2, <2>3 DEF PInv, AtType
<1>9. ASSUME NEW h \in Pages \ {g} PROVE Spared(h)
  <2>1. pte[h].frame # None => pte[h].frame \in Frames \ {f}
    BY <1>1, FilledAlone DEF PInv, TypeOK
  <2>2. spt[h].slot # None => spt[h].slot \in Slots /\ swap'[spt[h].slot] = swap[spt[h].slot]
    <3>1. spt[h].slot # None => spt[h].slot \in Slots /\ spt[h].slot # sl
      BY DEF PInv, SlotInv, SlotOnce, TypeOK, PageState
    <3> QED
      BY <1>4, <3>1 DEF PInv, TypeOK
  <2> QED
    BY <1>4, <1>5, <1>6, <1>7, <2>1, <2>2 DEF Spared
<1>10. PageKept(g)'
  <2> SUFFICES ASSUME g \notin torn PROVE mem'[f] = want'[g]
    BY <1>2, <1>4, <1>5, <1>6 DEF PageKept
  <2>1. spt[g].present => Kept(g)
    BY <1>2 DEF StoreInv, PageKept
  <2> QED
    BY <1>3, <1>7, <2>1 DEF Kept
<1>11. CleanKept(g)' /\ UnbornKept(g)'
  <2>1. CleanKept(g)'
    <3> SUFFICES ASSUME ~ swapped, kind[g] = "mmap" \/ spt[g].type # "SWAP"
                 PROVE  file[g] = mem'[f]
      BY <1>4, <1>5, <1>6 DEF CleanKept
    <3> QED
      BY <1>2, <1>7
  <2>2. UnbornKept(g)'
    BY <1>2, <1>8 DEF UnbornKept
  <2> QED
    BY <2>1, <2>2
<1>12. ASSUME NEW q \in Procs
       PROVE  /\ OwesOnly(q, g)
              /\ at'[q].pc \in {"unload", "clear"} => at'[q].vpage # g
              /\ at'[q].pc \in {"lookup", "free"} => at'[q].page # g
  BY <1>1, <1>8, FilledAlone DEF OwesOnly
<1> QED
  BY <1>4, <1>9, <1>10, <1>11, <1>12, OnePage

\* Nobody else evicts, and what the evictor works on is in memory.
LEMMA VictimKnown ==
  ASSUME PInv, NEW p \in Procs, at[p].pc \in {"out", "unload", "clear"}
  PROVE  /\ at[p].vpage \in Pages /\ at[p].victim \in Frames
         /\ pte[at[p].vpage].frame = at[p].victim
         /\ at[p].pc = "out" => spt[at[p].vpage].present /\ spt[at[p].vpage].loaded
         /\ at[p].pc = "out" => spt[at[p].vpage].slot = None
         /\ \A q \in Procs \ {p} : at[q].pc \notin EvictPcs
<1>1. \A q \in Procs \ {p} : at[q].pc \notin EvictPcs
  BY OneEvictor DEF EvictPcs
<1>2. /\ at[p].vpage \in Pages /\ at[p].victim \in Frames
      /\ pte[at[p].vpage].frame = at[p].victim
      /\ at[p].pc = "out" => spt[at[p].vpage].present /\ spt[at[p].vpage].loaded
  BY Known DEF Locals, Evicting
<1>3. ASSUME at[p].pc = "out" PROVE spt[at[p].vpage].slot = None
  <2>1. \A q \in Procs : ~ Unloads(q, at[p].vpage)
    BY <1>1, <1>3 DEF Unloads, EvictPcs
  <2> QED
    BY <1>2, <1>3, <2>1 DEF PInv, SlotInv, SlotOwned
<1> QED
  BY <1>1, <1>2, <1>3

\* What the evictor copies is what the frame has: a page it does not copy is
\* clean, and is as its file.
LEMMA PageOutContents ==
  ASSUME PInv, StoreInv, NEW p \in Procs, PageOut(p)
  PROVE  StoreInv'
<1> USE PagingConstants
<1> DEFINE f == at[p].victim
<1>1. PICK g \in Pages : g = at[p].vpage /\ at[p].pc = "out"
  BY Known DEF PageOut, On, Locals
<1>2. /\ f \in Frames /\ pte[g].frame = f /\ spt[g].present /\ spt[g].loaded
      /\ spt[g].slot = None /\ \A q \in Procs \ {p} : at[q].pc \notin EvictPcs
  BY <1>1, VictimKnown
<1>3. at' = [at EXCEPT ![p].pc = "unload"] /\ UNCHANGED <<kind, pte, mem, want, torn>>
  BY DEF PageOut, Fine, history
<1>4. /\ at'[p].pc = "unload" /\ at'[p].vpage = g
      /\ \A q \in Procs \ {p} : at'[q] = at[q]
  BY <1>1, <1>3 DEF PInv, AtType, Point
<1>5. /\ CleanKept(g)
      /\ g \notin torn => mem[f] = want[g]
  BY <1>2 DEF StoreInv, PageKept, Counts
<1>6. at[Owner[g]].pc # "unborn"
  BY <1>2 DEF PInv, UnbornOK
<1>7. \A q \in Procs : OwesOnly(q, g)
  BY <1>4 DEF OwesOnly
<1>8. ASSUME \A h \in Pages \ {g} : Spared(h), spt'[g].present,
             spt'[g].slot = None => spt'[g].type = spt[g].type /\ file'[g] = mem[f],
             spt'[g].slot # None => /\ spt'[g].type = "SWAP" /\ kind[g] # "mmap"
                                    /\ swap'[spt'[g].slot] = mem[f],
             file'[g] = file[g] \/ file'[g] = mem[f]
      PROVE  StoreInv'
  <2>1. PageKept(g)'
    BY <1>2, <1>3, <1>5, <1>8 DEF PageKept, Counts
  <2>2. CleanKept(g)'
    BY <1>2, <1>3, <1>5, <1>8 DEF CleanKept
  <2>3. UnbornKept(g)'
    BY <1>4, <1>6 DEF UnbornKept
  <2>4. Kept(g)' \/ g \in torn
    BY <1>3, <1>5, <1>8 DEF Kept
  <2>5. OutKept(p)'
    BY <1>3, <1>4, <2>4 DEF OutKept, Kept
  <2>6. ASSUME NEW q \in Procs, at'[q].pc \in {"unload", "clear"} PROVE q = p
    BY <1>2, <1>4, <2>6 DEF EvictPcs
  <2>7. ASSUME NEW q \in Procs, at'[q].pc \in {"lookup", "free"}, at'[q].page = g
        PROVE  SavedKept(q)'
    <3>1. at'[q] = at[q]
      BY <1>4, <2>7
    <3>2. SavedKept(q)
      BY DEF StoreInv
    <3> SUFFICES ASSUME kind[g] = "mmap", g \notin torn PROVE file'[g] = want[g]
      BY <1>3, <2>7 DEF SavedKept
    <3>3. file[g] = want[g]
      BY <2>7, <3>1, <3>2 DEF SavedKept
    <3> QED
      BY <1>5, <1>8, <3>3
  <2> QED
    BY <1>3, <1>7, <1>8, <2>1, <2>2, <2>3, <2>5, <2>6, <2>7, OnePage
<1>9. CASE ~ Outgoing(g) /\ UNCHANGED <<spt, file, swap, slots>>
  <2>1. ~ pte[g].dirty /\ spt[g].type # "SWAP"
    BY <1>9 DEF Outgoing
  <2>2. file[g] = mem[f]
    BY <1>2, <1>5, <2>1 DEF CleanKept
  <2>3. \A h \in Pages \ {g} : Spared(h)
    BY <1>3, <1>9 DEF Spared
  <2> QED
    BY <1>2, <1>8, <1>9, <2>2, <2>3
<1>10. CASE file' = [file EXCEPT ![g] = mem[f]] /\ UNCHANGED <<spt, swap, slots>>
  <2>1. file'[g] = mem[f] /\ \A h \in Pages \ {g} : file'[h] = file[h]
    BY <1>10 DEF PInv, TypeOK
  <2>2. \A h \in Pages \ {g} : Spared(h)
    BY <1>3, <1>10, <2>1 DEF Spared
  <2> QED
    BY <1>2, <1>8, <1>10, <2>1, <2>2
<1>11. CASE /\ spt[g].type # "MMAP" /\ UNCHANGED file
            /\ \E s \in Slots \ slots :
                  /\ slots' = slots \cup {s}
                  /\ swap' = [swap EXCEPT ![s] = mem[f]]
                  /\ spt' = [spt EXCEPT ![g].type = "SWAP", ![g].slot = s]
  <2>1. PICK s \in Slots \ slots : /\ swap' = [swap EXCEPT ![s] = mem[f]]
                                   /\ spt' = [spt EXCEPT ![g].type = "SWAP", ![g].slot = s]
    BY <1>11
  <2>2. /\ spt'[g].present /\ spt'[g].slot = s /\ spt'[g].type = "SWAP"
        /\ \A h \in Pages \ {g} : spt'[h] = spt[h]
    BY <1>2, <2>1 DEF PInv, TypeOK, PageState
  <2>3. swap'[s] = mem[f] /\ \A r \in Slots \ {s} : swap'[r] = swap[r]
    BY <2>1 DEF PInv, TypeOK
  <2>4. kind[g] # "mmap"
    BY <1>2, <1>11 DEF PInv, TypesOK
  <2>5. \A h \in Pages \ {g} : Spared(h)
    <3>1. \A h \in Pages : spt[h].slot # None => spt[h].slot \in slots /\ spt[h].slot \in Slots
      BY DEF PInv, TypeOK, SlotInv, SlotOwned
    <3> QED
      BY <1>3, <1>11, <2>2, <2>3, <3>1 DEF Spared
  <2> QED
    BY <1>8, <1>11, <2>2, <2>3, <2>4, <2>5
<1> QED
  BY <1>1, <1>9, <1>10, <1>11 DEF PageOut

\* The victim's frame is freed: its page loses it with a copy made.
LEMMA ClearContents ==
  ASSUME PInv, StoreInv, NEW p \in Procs, Clear(p)
  PROVE  StoreInv'
<1> USE PagingConstants
<1> DEFINE f == at[p].victim
<1>1. PICK g \in Pages : g = at[p].vpage /\ at[p].pc = "clear"
  BY Known DEF Clear, On, Locals
<1>2. /\ f \in Frames /\ pte[g].frame = f
      /\ \A q \in Procs \ {p} : at[q].pc \notin EvictPcs
  BY <1>1, VictimKnown
<1>3. /\ spt[g].present /\ mem' = [mem EXCEPT ![f] = Zero]
      /\ pte' = [pte EXCEPT ![g] = IF spt[g].type = "MMAP" THEN [@ EXCEPT !.frame = None]
                                   ELSE NoPte]
      /\ at' = [at EXCEPT ![p].pc = "reget", ![p].victim = None, ![p].vpage = None]
      /\ UNCHANGED <<kind, spt, file, swap, want, torn>>
  BY <1>1 DEF Clear, Fine, PallocFree, history
<1>4. pte'[g].frame = None /\ \A h \in Pages \ {g} : pte'[h] = pte[h]
  BY <1>3 DEF PInv, TypeOK, NoPte
<1>5. at'[p].pc = "reget" /\ \A q \in Procs \ {p} : at'[q] = at[q]
  BY <1>3 DEF PInv, AtType, Point
<1>6. \A h \in Pages \ {g} : Spared(h)
  <2>1. \A h \in Pages \ {g} : pte[h].frame # None => pte[h].frame \in Frames \ {f}
    BY <1>2, OwnFrame DEF PInv, TypeOK
  <2>2. \A x \in Frames \ {f} : mem'[x] = mem[x]
    BY <1>3 DEF PInv, TypeOK
  <2> QED
    BY <1>3, <1>4, <2>1, <2>2 DEF Spared
<1>7. g \in torn \/ Kept(g)
  BY <1>1, <1>3 DEF StoreInv, OutKept, Counts, Kept
<1>8. PageKept(g)' /\ CleanKept(g)'
  BY <1>3, <1>4, <1>7 DEF PageKept, CleanKept, Kept
<1>9. UnbornKept(g)'
  BY <1>3, <1>5 DEF StoreInv, UnbornKept
<1>10. ASSUME NEW q \in Procs
       PROVE  /\ OwesOnly(q, g)
              /\ at'[q].pc \in {"unload", "clear"} => OutKept(q)'
              /\ at'[q].pc \in {"lookup", "free"} => SavedKept(q)'
  <2>1. OwesOnly(q, g) /\ at'[q].pc \notin {"unload", "clear"}
    BY <1>2, <1>5 DEF OwesOnly, EvictPcs
  <2>2. ASSUME at'[q].pc \in {"lookup", "free"} PROVE SavedKept(q)'
    <3>1. at'[q] = at[q]
      BY <1>5, <2>2
    <3>2. SavedKept(q)
      BY DEF StoreInv
    <3> QED
      BY <1>3, <3>1, <3>2 DEF SavedKept
  <2> QED
    BY <2>1, <2>2
<1> QED
  BY <1>3, <1>6, <1>8, <1>9, <1>10, OnePage


----------------------------------------------------------------------------
\* Pages that are given up, mapped and started with.

\* A page of a mapped file is never in a swap slot.
LEMMA MmapSlot ==
  ASSUME PInv, NEW g \in Pages, kind[g] = "mmap"
  PROVE  spt[g].slot = None
BY DEF PInv, SlotInv, SlotOwned, TypesOK

\* The page given up, if it is of a mapped file, was saved before.
LEMMA FreeFrameContents ==
  ASSUME PInv, StoreInv, NEW p \in Procs, FreeFrame(p)
  PROVE  StoreInv'
<1> USE PagingConstants
<1> DEFINE f == at[p].frame
           found == f # None /\ ft[f] # None
<1>1. PICK g \in Pages : g = at[p].page /\ at[p].pc = "free" /\ Owner[g] = p
  BY PointPages DEF FreeFrame, On
<1>2. /\ lock["ft"] = None /\ (found => ft[f] = g)
      /\ IF found THEN PallocFree(f) ELSE UNCHANGED <<pool, mem>>
      /\ pte' = [pte EXCEPT ![g] = NoPte] /\ spt' = [spt EXCEPT ![g] = Absent] /\ Forget(g)
      /\ at' = [at EXCEPT ![p].pc = "exit", ![p].page = None, ![p].frame = None]
      /\ UNCHANGED <<kind, file, swap>>
  BY <1>1 DEF FreeFrame, On, Fine, Free
<1>3. /\ ~ spt'[g].present /\ pte'[g].frame = None
      /\ \A h \in Pages \ {g} : spt'[h] = spt[h] /\ pte'[h] = pte[h]
  BY <1>2 DEF PInv, TypeOK, Absent, NoPte
<1>4. at'[p].pc = "exit" /\ \A q \in Procs \ {p} : at'[q] = at[q]
  BY <1>2 DEF PInv, AtType, Point
<1>5. \A q \in Procs : at[q].pc \notin {"unload", "clear"}
  BY <1>2, NobodyClears DEF EvictPcs
<1>6. \A h \in Pages \ {g} : want'[h] = want[h] /\ (h \in torn' <=> h \in torn)
  BY <1>2 DEF Forget, history, PInv, TypeOK
<1>7. \A h \in Pages \ {g} : pte[h].frame # None => mem'[pte[h].frame] = mem[pte[h].frame]
  <2> SUFFICES ASSUME NEW h \in Pages \ {g}, pte[h].frame # None, found
               PROVE  mem'[pte[h].frame] = mem[pte[h].frame]
    BY <1>2
  <2>1. pte[h].frame \in Frames
    BY DEF PInv, TypeOK
  <2>2. ft[pte[h].frame] \in {None, h}
    BY OnePlace DEF FramesExclusive
  <2>3. pte[h].frame # f
    BY <1>2, <2>2
  <2>4. mem' = [mem EXCEPT ![f] = Zero]
    BY <1>2 DEF PallocFree
  <2> QED
    BY <2>1, <2>3, <2>4 DEF PInv, TypeOK
<1>8. \A h \in Pages \ {g} : Spared(h)
  BY <1>2, <1>3, <1>6, <1>7 DEF Spared
<1>9. PageKept(g)'
  <2> SUFFICES ASSUME kind[g] = "mmap", g \notin torn' PROVE file'[g] = want'[g]
    BY <1>2, <1>3 DEF PageKept
  <2>1. UNCHANGED <<file, want, torn>>
    BY <1>2 DEF Forget, history
  <2>2. SavedKept(p)
    BY DEF StoreInv
  <2> QED
    BY <1>1, <2>1, <2>2 DEF SavedKept
<1>10. CleanKept(g)' /\ UnbornKept(g)'
  BY <1>1, <1>3, <1>4 DEF CleanKept, UnbornKept
<1>11. ASSUME NEW q \in Procs
       PROVE  /\ OwesOnly(q, g) /\ at'[q].pc \notin {"unload", "clear"}
              /\ at'[q].pc \in {"lookup", "free"} => at'[q].page # g
  <2>1. CASE q = p
    BY <1>4, <2>1 DEF OwesOnly
  <2>2. CASE q # p
    <3>1. at'[q] = at[q]
      BY <1>4, <2>2
    <3>2. at[q].pc \in {"lookup", "free"} => Owner[at[q].page] = q
      BY PointPages
    <3> QED
      BY <1>1, <1>5, <2>2, <3>1, <3>2 DEF OwesOnly
  <2> QED
    BY <2>1, <2>2
<1> QED
  BY <1>2, <1>8, <1>9, <1>10, <1>11, OnePage

\* A page that is not in memory, and so has its contents in the file, is given
\* up; if an evictor is about to clear its mapping the copy is made already.
LEMMA DropUnloadedContents ==
  ASSUME PInv, StoreInv, NEW p \in Procs, NEW g \in Left(p), at[p].pc = "exit", ~ HasFrame(g),
         spt' = [spt EXCEPT ![g] = Absent], Forget(g),
         UNCHANGED <<at, kind, pte, ft, pool, mem, file, swap, slots, lock>>
  PROVE  StoreInv'
<1> USE PagingConstants
<1>1. g \in Pages /\ Owner[g] = p /\ spt[g].present /\ ~ spt[g].loaded
  BY LeftPage DEF HasFrame
<1>2. /\ ~ spt'[g].present /\ spt'[g].slot = None
      /\ \A h \in Pages \ {g} : spt'[h] = spt[h]
  BY <1>1 DEF PInv, TypeOK, Absent
<1>3. \A h \in Pages \ {g} : Spared(h)
  <2>1. \A h \in Pages \ {g} : want'[h] = want[h] /\ (h \in torn' <=> h \in torn)
    BY DEF Forget, history, PInv, TypeOK
  <2> QED
    BY <1>2, <2>1 DEF Spared
<1>4. ASSUME kind[g] = "mmap" PROVE want' = want /\ torn' = torn /\ spt[g].slot = None
  BY <1>1, <1>4, MmapSlot DEF Forget, history
<1>5. ASSUME kind[g] = "mmap", g \notin torn PROVE file[g] = want[g]
  <2>1. CASE pte[g].frame = None
    BY <1>1, <1>4, <1>5, <2>1 DEF StoreInv, PageKept, Kept
  <2>2. CASE pte[g].frame # None
    <3>1. PICK q \in Procs : at[q].pc = "clear" /\ at[q].vpage = g
      BY <1>1, <2>2, MappedLoaded
    <3>2. OutKept(q)
      BY DEF StoreInv
    <3>3. Kept(g)
      BY <1>5, <3>1, <3>2 DEF OutKept, Counts
    <3> QED
      BY <1>4, <1>5, <3>3 DEF Kept
  <2> QED
    BY <2>1, <2>2
<1>6. PageKept(g)'
  <2>1. PageKept(g)
    BY <1>1 DEF StoreInv
  <2> SUFFICES ASSUME kind[g] = "mmap", g \notin torn'
               PROVE  /\ pte[g].frame # None => mem[pte[g].frame] = want'[g]
                      /\ file[g] = want'[g]
    BY <1>2 DEF PageKept, Counts
  <2>2. g \notin torn /\ want'[g] = want[g]
    BY <1>4
  <2> QED
    BY <1>5, <2>1, <2>2 DEF PageKept, Counts
<1>7. CleanKept(g)'
  <2>1. CleanKept(g)
    BY <1>1 DEF StoreInv
  <2> QED
    BY <1>2, <2>1 DEF CleanKept
<1>8. UnbornKept(g)'
  BY <1>1 DEF UnbornKept
<1>9. ASSUME NEW q \in Procs, at[q].pc \in {"unload", "clear"}, at[q].vpage = g
      PROVE  OutKept(q)'
  <2> SUFFICES ASSUME kind[g] = "mmap", g \notin torn' PROVE Kept(g)'
    BY <1>2, <1>9 DEF OutKept, Counts, Kept
  <2>1. g \notin torn /\ want' = want
    BY <1>4
  <2> QED
    BY <1>2, <1>5, <2>1 DEF Kept
<1>10. ASSUME NEW q \in Procs, at[q].pc \in {"lookup", "free"} PROVE at[q].page # g
  BY <1>1, <1>10, PointPages
<1>11. \A q \in Procs : OwesOnly(q, g)
  BY DEF OwesOnly
<1> QED
  BY <1>1, <1>3, <1>6, <1>7, <1>8, <1>9, <1>10, <1>11, OnePage

\* Either kind of page is given up.
LEMMA DropContents ==
  ASSUME PInv, StoreInv, NEW p \in Procs, Drop(p)
  PROVE  StoreInv'
<1>1. /\ at[p].pc = "exit"
      /\ UNCHANGED <<kind, pte, ft, pool, mem, file, swap, slots, lock>>
  BY DEF Drop, On, Fine, stores
<1>2. PICK g \in Left(p) :
          \/ /\ ~ HasFrame(g)
             /\ spt' = [spt EXCEPT ![g] = Absent]
             /\ Forget(g)
             /\ UNCHANGED at
          \/ /\ HasFrame(g)
             /\ spt' = [spt EXCEPT ![g].locked = @ \/ spt[g].type = "MMAP"]
             /\ at' = [at EXCEPT ![p].pc = IF spt[g].type = "MMAP" THEN "save" ELSE "lookup",
                                 ![p].page = g]
             /\ UNCHANGED history
  BY DEF Drop
<1>3. CASE ~ HasFrame(g)
  BY <1>1, <1>2, <1>3, DropUnloadedContents
<1>4. CASE HasFrame(g)
  BY <1>1, <1>2, <1>4, DropLoadedContents DEF history
<1> QED
  BY <1>3, <1>4

\* A mapped page that is dirty is written, and one that is not is as its file.
LEMMA SaveContents ==
  ASSUME PInv, StoreInv, NEW p \in Procs, Save(p)
  PROVE  StoreInv'
<1> USE PagingConstants
<1>1. PICK g \in Pages : /\ g = at[p].page /\ at[p].pc = "save" /\ Owner[g] = p
                         /\ kind[g] = "mmap"
  BY Known DEF Save, On, Locals, Dropping, DropPcs
<1>2. /\ pte[g].dirty => pte[g].frame # None
      /\ file' = IF pte[g].dirty THEN [file EXCEPT ![g] = mem[pte[g].frame]] ELSE file
      /\ at' = [at EXCEPT ![p].pc = "lookup"]
      /\ UNCHANGED <<kind, spt, pte, mem, swap, want, torn>>
  BY <1>1 DEF Save, Fine, tables, history
<1>3. /\ file'[g] = IF pte[g].dirty THEN mem[pte[g].frame] ELSE file[g]
      /\ \A h \in Pages \ {g} : file'[h] = file[h]
  BY <1>2 DEF PInv, TypeOK
<1>4. /\ at'[p].pc = "lookup" /\ at'[p].page = g
      /\ \A q \in Procs \ {p} : at'[q] = at[q]
  BY <1>1, <1>2 DEF PInv, AtType, Point
<1>5. PageKept(g) /\ CleanKept(g) /\ spt[g].slot = None
  BY <1>1, MmapSlot DEF StoreInv
<1>6. \A h \in Pages \ {g} : Spared(h)
  BY <1>2, <1>3 DEF Spared
<1>7. ASSUME g \notin torn PROVE file'[g] = want[g]
  <2>1. CASE pte[g].dirty
    BY <1>1, <1>2, <1>3, <1>5, <1>7, <2>1 DEF PageKept, Counts
  <2>2. CASE ~ pte[g].dirty /\ pte[g].frame # None
    BY <1>1, <1>3, <1>5, <1>7, <2>2 DEF PageKept, CleanKept, Counts
  <2>3. CASE ~ pte[g].dirty /\ pte[g].frame = None
    BY <1>1, <1>3, <1>5, <1>7, <2>3 DEF PageKept, Kept
  <2> QED
    BY <2>1, <2>2, <2>3
<1>8. PageKept(g)'
  BY <1>2, <1>5, <1>7 DEF PageKept, Counts, Kept
<1>9. CleanKept(g)'
  <2> SUFFICES ASSUME pte[g].frame # None, ~ pte[g].dirty PROVE file'[g] = mem[pte[g].frame]
    BY <1>2 DEF CleanKept
  <2> QED
    BY <1>1, <1>3, <1>5 DEF CleanKept
<1>10. UnbornKept(g)'
  BY <1>1, <1>4 DEF UnbornKept
<1>11. ASSUME NEW q \in Procs, at'[q].pc \in {"unload", "clear"}, at'[q].vpage = g
       PROVE  OutKept(q)'
  BY <1>2, <1>5, <1>7, <1>11 DEF OutKept, Kept
<1>12. ASSUME NEW q \in Procs, at'[q].pc \in {"lookup", "free"}, at'[q].page = g
       PROVE  SavedKept(q)'
  BY <1>2, <1>7, <1>12 DEF SavedKept
<1>13. \A q \in Procs : OwesOnly(q, g)
  BY <1>4 DEF OwesOnly
<1> QED
  BY <1>2, <1>6, <1>8, <1>9, <1>10, <1>11, <1>12, <1>13, OnePage

\* A file is mapped anew, with the contents it has.
LEMMA MmapContents ==
  ASSUME PInv, StoreInv, NEW p \in Procs, Mmap(p)
  PROVE  StoreInv'
<1> USE PagingConstants
<1> DEFINE e == at[p].esp
<1>1. /\ at[p].pc = "call" /\ at[p].op = "mmap" /\ at' = [at EXCEPT ![p] = At("user")]
      /\ UNCHANGED <<kind, pte, mem, file, swap, want, torn>>
  BY DEF Mmap, On, Fine, stores, history
<1>2. PICK b \in Pages : b = at[p].buf /\ Owner[b] = p /\ kind[b] = "mmap"
  BY <1>1, Known DEF Locals, InCall, CallPcs
<1>3. e \in Pages /\ kind[e] = "stack"
  BY <1>1, Known DEF Locals, InCall, CallPcs
<1>4. spt' = [spt EXCEPT ![b] = IF spt[b].present THEN @ ELSE NewEntry(b), ![e].locked = FALSE]
  BY <1>2 DEF Mmap
<1>5. /\ spt'[b] = IF spt[b].present THEN spt[b] ELSE NewEntry(b)
      /\ \A h \in Pages \ {b} : /\ spt'[h].present = spt[h].present
                                /\ spt'[h].slot = spt[h].slot /\ spt'[h].type = spt[h].type
  <2>1. spt \in [Pages -> PageState] /\ b # e
    BY <1>2, <1>3 DEF PInv, TypeOK
  <2>2. spt'[b] = IF spt[b].present THEN spt[b] ELSE NewEntry(b)
    BY <1>3, <1>4, <2>1
  <2>3. spt' = [spt EXCEPT ![b] = IF spt[b].present THEN @ ELSE NewEntry(b),
                           ![e] = [spt[e] EXCEPT !.locked = FALSE]]
    BY <1>3, <1>4, <2>1
  <2>4. \A h \in Pages \ {b, e} : spt'[h] = spt[h]
    BY <2>1, <2>3
  <2>5. spt'[e] = [spt[e] EXCEPT !.locked = FALSE]
    BY <1>3, <2>1, <2>3
  <2>6. /\ spt'[e].present = spt[e].present /\ spt'[e].slot = spt[e].slot
        /\ spt'[e].type = spt[e].type
    BY <1>3, <2>1, <2>5 DEF PageState
  <2> QED
    BY <2>2, <2>4, <2>6
<1>6. at'[p].pc = "user" /\ \A q \in Procs \ {p} : at'[q] = at[q]
  BY <1>1 DEF PInv, AtType, At
<1>7. MapsStay
  BY <1>1 DEF MapsStay
<1>8. CASE spt[b].present
  <2>1. EntriesStay
    BY <1>5, <1>8 DEF EntriesStay
  <2> QED
    BY <1>1, <1>6, <1>7, <2>1, PlainStep
<1>9. CASE ~ spt[b].present
  <2>1. spt'[b].present /\ spt'[b].slot = None
    BY <1>5, <1>9 DEF NewEntry, Absent
  <2>2. PageKept(b) /\ CleanKept(b) /\ spt[b].slot = None
    BY <1>2, MmapSlot DEF StoreInv
  <2>3. \A h \in Pages \ {b} : Spared(h)
    BY <1>1, <1>5 DEF Spared
  <2>4. PageKept(b)'
    BY <1>1, <1>2, <1>9, <2>1, <2>2 DEF PageKept, Counts, Kept
  <2>5. CleanKept(b)'
    BY <1>1, <1>2, <2>2 DEF CleanKept
  <2>6. UnbornKept(b)'
    BY <1>2, <1>6 DEF UnbornKept
  <2>7. ASSUME NEW q \in Procs, at'[q].pc \in {"unload", "clear"}, at'[q].vpage = b
        PROVE  OutKept(q)'
    <3> SUFFICES ASSUME b \notin torn PROVE Kept(b)'
      BY <1>1, <2>7 DEF OutKept, Kept
    <3>1. file[b] = want[b]
      BY <1>2, <1>9, <2>2 DEF PageKept
    <3> QED
      BY <1>1, <2>1, <3>1 DEF Kept
  <2>8. ASSUME NEW q \in Procs, at'[q].pc \in {"lookup", "free"} PROVE at'[q].page # b
    <3>1. q # p /\ at'[q] = at[q]
      BY <1>6, <2>8
    <3> QED
      BY <1>2, <2>8, <3>1, PointPages
  <2>9. \A q \in Procs : OwesOnly(q, b)
    BY <1>6 DEF OwesOnly
  <2> QED
    BY <1>1, <2>3, <2>4, <2>5, <2>6, <2>7, <2>8, <2>9, OnePage
<1> QED
  BY <1>8, <1>9

\* A process is started: the pages of its executable are as the file.
LEMMA StartsContents ==
  ASSUME PInv, StoreInv, NEW p \in Procs, NEW c \in Procs, at[p].pc = "call",
         at[c].pc = "unborn",
         at' = [at EXCEPT ![p].pc = "load_done", ![p].buf = c,
                          ![c].pc = "get", ![c].page = Start[c], ![c].then = "boot"],
         spt' = [g \in Pages |->
              IF g = Start[c] THEN [Absent EXCEPT !.type = "SWAP", !.loaded = TRUE,
                                                  !.locked = TRUE]
              ELSE IF Owner[g] = c /\ kind[g] \in {"data", "bss"} THEN NewEntry(g)
              ELSE spt[g]],
         UNCHANGED <<kind, pte, mem, file, swap, want, torn>>
  PROVE  StoreInv'
<1> USE PagingConstants
<1>1. p # c /\ Owner[Start[c]] = c /\ kind[Start[c]] = "stack"
  BY DEF PInv, KindOK
<1>2. /\ at'[p].pc = "load_done" /\ at'[c].pc = "get"
      /\ \A q \in Procs \ {p, c} : at'[q] = at[q]
  <2>1. PICK k : k = Start[c]
    OBVIOUS
  <2>2. at' = [at EXCEPT ![p].pc = "load_done", ![p].buf = c,
                         ![c].pc = "get", ![c].page = k, ![c].then = "boot"]
    BY <2>1
  <2> QED
    BY <1>1, <2>2 DEF PInv, AtType, Point
<1>3. \A g \in Pages : Owner[g] = c =>
        /\ ~ spt[g].present /\ pte[g].frame = None /\ spt[g].slot = None
        /\ file[g] = want[g]
  <2>1. \A g \in Pages : Owner[g] = c => ~ spt[g].present /\ pte[g].frame = None
    BY DEF PInv, UnbornOK
  <2>2. \A g \in Pages : Owner[g] = c => spt[g].slot = None
    BY <2>1 DEF PInv, SlotInv, SlotOwned
  <2>3. \A g \in Pages : Owner[g] = c => file[g] = want[g]
    BY DEF StoreInv, UnbornKept
  <2> QED
    BY <2>1, <2>2, <2>3
<1>4. \A g \in Pages : Owner[g] # c => spt'[g] = spt[g]
  BY <1>1
<1>5. ASSUME NEW g \in Pages, Owner[g] = c PROVE spt'[g].slot = None
  <2>1. spt'[g] = [Absent EXCEPT !.type = "SWAP", !.loaded = TRUE, !.locked = TRUE]
        \/ spt'[g] = NewEntry(g) \/ spt'[g] = spt[g]
    OBVIOUS
  <2>2. [Absent EXCEPT !.type = "SWAP", !.loaded = TRUE, !.locked = TRUE].slot = None
        /\ NewEntry(g).slot = None
    BY DEF Absent, NewEntry
  <2> QED
    BY <1>3, <1>5, <2>1, <2>2
<1>6. ASSUME NEW g \in Pages PROVE PageKept(g)' /\ CleanKept(g)' /\ UnbornKept(g)'
  <2>1. PageKept(g) /\ CleanKept(g) /\ UnbornKept(g)
    BY DEF StoreInv
  <2>2. UnbornKept(g)'
    <3>1. at'[Owner[g]].pc = "unborn" => at[Owner[g]].pc = "unborn"
      BY <1>2
    <3> QED
      BY <2>1, <3>1 DEF UnbornKept
  <2>3. CASE Owner[g] = c
    <3>1. PageKept(g)' /\ CleanKept(g)'
      BY <1>3, <1>5, <2>3 DEF PageKept, CleanKept, Kept
    <3> QED
      BY <2>2, <3>1
  <2>4. CASE Owner[g] # c
    <3>1. spt'[g] = spt[g]
      BY <1>4, <2>4
    <3>2. PageKept(g)' /\ CleanKept(g)'
      BY <2>1, <3>1 DEF PageKept, CleanKept, Counts, Kept
    <3> QED
      BY <2>2, <3>2
  <2> QED
    BY <2>3, <2>4
<1>7. ASSUME NEW q \in Procs PROVE OutKept(q)'
  <2> SUFFICES ASSUME at'[q].pc \in {"unload", "clear"} PROVE OutKept(q)'
    BY DEF OutKept
  <2>1. at'[q] = at[q]
    BY <1>2
  <2>2. PICK g \in Pages : g = at[q].vpage
    BY <2>1, PointPages
  <2>3. OutKept(q)
    BY DEF StoreInv
  <2>4. CASE Owner[g] = c
    <3>1. Kept(g)'
      BY <1>3, <1>5, <2>4 DEF Kept
    <3> QED
      BY <2>1, <2>2, <3>1 DEF OutKept, Kept
  <2>5. CASE Owner[g] # c
    <3>1. spt'[g] = spt[g]
      BY <1>4, <2>5
    <3>2. g \notin torn /\ Counts(g) => Kept(g)
      BY <2>1, <2>2, <2>3 DEF OutKept
    <3>3. g \notin torn' /\ Counts(g)' => Kept(g)'
      BY <3>1, <3>2 DEF Counts, Kept
    <3> QED
      BY <2>1, <2>2, <3>3 DEF OutKept, Counts, Kept
  <2> QED
    BY <2>4, <2>5
<1>8. ASSUME NEW q \in Procs PROVE SavedKept(q)'
  <2> SUFFICES ASSUME at'[q].pc \in {"lookup", "free"} PROVE SavedKept(q)'
    BY DEF SavedKept
  <2>1. at'[q] = at[q]
    BY <1>2
  <2>2. SavedKept(q)
    BY DEF StoreInv
  <2> QED
    BY <2>1, <2>2 DEF SavedKept
<1> QED
  BY <1>6, <1>7, <1>8 DEF StoreInv

\* sys_exec fails, or starts a process.
LEMMA ExecContents ==
  ASSUME PInv, StoreInv, NEW p \in Procs, Exec(p)
  PROVE  StoreInv'
<1>1. at[p].pc = "call" /\ UNCHANGED <<kind, pte, mem, file, swap, want, torn>>
  BY DEF Exec, On, Fine, stores, history
<1>2. CASE pte[at[p].buf].frame = None
  <2>1. /\ at' = [at EXCEPT ![p] = [At("exit") EXCEPT !.op = "exit"]]
        /\ spt' = spt
    BY <1>2 DEF Exec
  <2>2. at'[p].pc = "exit" /\ \A q \in Procs \ {p} : at'[q] = at[q]
    BY <2>1 DEF PInv, AtType, At
  <2>3. MapsStay
    BY <1>1 DEF MapsStay
  <2> QED
    BY <1>1, <2>1, <2>2, <2>3, EntriesRelocked, PlainStep
<1>3. CASE pte[at[p].buf].frame # None
  <2>1. PICK c \in Procs :
          /\ at[c].pc = "unborn"
          /\ at' = [at EXCEPT ![p].pc = "load_done", ![p].buf = c,
                              ![c].pc = "get", ![c].page = Start[c], ![c].then = "boot"]
          /\ spt' = [g \in Pages |->
               IF g = Start[c] THEN [Absent EXCEPT !.type = "SWAP", !.loaded = TRUE,
                                                   !.locked = TRUE]
               ELSE IF Owner[g] = c /\ kind[g] \in {"data", "bss"} THEN NewEntry(g)
               ELSE spt[g]]
    BY <1>3 DEF Exec
  <2> QED
    BY <1>1, <2>1, StartsContents
<1> QED
  BY <1>2, <1>3

----------------------------------------------------------------------------
\* The invariant, and what follows from it.

\* Everything holds zeros, as it ought to.
LEMMA InitContents == Init => StoreInv
<1> SUFFICES ASSUME Init PROVE StoreInv
  OBVIOUS
<1> USE PagingConstants
<1>1. /\ mem = [x \in Frames |-> Zero] /\ file = [g \in Pages |-> Zero]
      /\ want = [g \in Pages |-> Zero] /\ torn = {}
      /\ at = [p \in Procs |-> IF p = First THEN At("user") ELSE At("unborn")]
  BY DEF Init
<1>2. PInv
  BY InitHolds
<1>3. \A p \in Procs : at[p].pc \in {"user", "unborn"}
  BY <1>1 DEF At
<1>4. \A g \in Pages : spt[g].slot = None
  <2>1. slots = {}
    BY DEF Init
  <2> QED
    BY <1>2, <2>1 DEF PInv, SlotInv, SlotOwned
<1>5. ASSUME NEW g \in Pages PROVE PageKept(g) /\ CleanKept(g) /\ UnbornKept(g)
  <2>1. pte[g].frame # None => pte[g].frame \in Frames
    BY <1>2 DEF PInv, TypeOK
  <2> QED
    BY <1>1, <1>4, <2>1 DEF PageKept, CleanKept, UnbornKept, Kept
<1>6. ASSUME NEW p \in Procs PROVE OutKept(p) /\ SavedKept(p)
  BY <1>3, <1>6 DEF OutKept, SavedKept
<1> QED
  BY <1>5, <1>6 DEF StoreInv

\* A step that changes none of the variables.
LEMMA ContentsUnmoved ==
  ASSUME StoreInv, UNCHANGED <<kind, tables, stores, lock, at, history>>
  PROVE  StoreInv'
<1> USE DEF tables, stores, history
<1>1. \A g \in Pages : PageKept(g)' /\ CleanKept(g)' /\ UnbornKept(g)'
  BY DEF StoreInv, PageKept, CleanKept, UnbornKept, Counts, Kept
<1>2. \A p \in Procs : OutKept(p)' /\ SavedKept(p)'
  BY DEF StoreInv, OutKept, SavedKept, Counts, Kept
<1> QED
  BY <1>1, <1>2 DEF StoreInv

\* Every step keeps the contents.
LEMMA NextContents == PInv /\ StoreInv /\ [Next]_vars => StoreInv'
<1> SUFFICES ASSUME PInv, StoreInv, [Next]_vars PROVE StoreInv'
  OBVIOUS
<1>1. CASE UNCHANGED vars
  BY <1>1, ContentsUnmoved DEF vars, tables, stores, history
<1>2. ASSUME NEW p \in Procs, User(p) PROVE StoreInv'
  BY <1>2, TouchContents, UserContents, SyscallContents DEF User
<1>3. ASSUME NEW p \in Procs, Alloc(p) PROVE StoreInv'
  BY <1>3, GetFrameContents, AddContents, FillContents DEF Alloc
<1>4. ASSUME NEW p \in Procs, Eviction(p) PROVE StoreInv'
  BY <1>4, EvictContents, ScanContents, PageOutContents, UnloadContents, ClearContents,
     RegetContents DEF Eviction
<1>5. ASSUME NEW p \in Procs, Call(p) PROVE StoreInv'
  BY <1>5, CopyInContents, VerifyContents, TouchContents, ReturnContents, ExecContents,
     MmapContents DEF Call
<1>6. ASSUME NEW p \in Procs, Ending(p) PROVE StoreInv'
  BY <1>6, DropContents, SaveContents, LookupContents, FreeFrameContents, ReturnContents
     DEF Ending
<1>7. ASSUME NEW p \in Procs, Undefined(p) PROVE StoreInv'
  <2>1. UNCHANGED <<kind, tables, stores, lock, at, history>>
    BY <1>7 DEF Undefined, Reacquires, SwapFull, KernelFault, UsesFreed, FreesOther, Break
  <2> QED
    BY <2>1, ContentsUnmoved
<1>8. CASE Next
  BY <1>2, <1>3, <1>4, <1>5, <1>6, <1>7, <1>8 DEF Next
<1> QED
  BY <1>1, <1>8

\* The inductive invariant of the contents: the copy in use is the last value
\* stored, and so is the copy an evictor or munmap is about to leave behind.
THEOREM StoreInvariant == Spec => []StoreInv
<1>1. Init => StoreInv
  BY InitContents
<1>2. PInv /\ StoreInv /\ [Next]_vars => StoreInv'
  BY NextContents
<1> QED
  BY <1>1, <1>2, PagingInvariant, PTL DEF Spec

\* A page that is not torn has the value last stored to it, in its frame, in
\* its swap slot or in its file, however often it was evicted, loaded, mapped
\* and unmapped (swap_out, swap_in, load_page, sys_munmap).
THEOREM StoresHold == Spec => []StoresKept
<1>1. StoreInv => StoresKept
  BY DEF StoreInv, PageKept, Counts, Kept, StoresKept
<1> QED
  BY <1>1, StoreInvariant, PTL
=============================================================================
