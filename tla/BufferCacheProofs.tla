------------------------- MODULE BufferCacheProofs -------------------------
(***************************************************************************)
(* Proofs about BufferCache for every set of users, sectors and blocks and *)
(* every size of the cache.                                                *)
(***************************************************************************)
EXTENDS BufferCache, SequenceTheorems, TLAPS

-----------------------------------------------------------------------------
(* What adding and removing elements does to cache_list.                      *)

\* The length and the elements of a sequence without its i-th element.
LEMMA RemoveAtProperties ==
  ASSUME NEW S, NEW s \in Seq(S), NEW i \in DOMAIN s
  PROVE  /\ RemoveAt(s, i) \in Seq(S)
         /\ Len(RemoveAt(s, i)) = Len(s) - 1
         /\ \A j \in 1 .. Len(s) - 1 :
              RemoveAt(s, i)[j] = IF j < i THEN s[j] ELSE s[j + 1]
<1>1. i \in 1 .. Len(s) /\ Len(s) \in Nat
  OBVIOUS
<1> DEFINE a == SubSeq(s, 1, i - 1)
           z == SubSeq(s, i + 1, Len(s))
<1>2. /\ a \in Seq(S) /\ Len(a) = i - 1
      /\ \A j \in 1 .. i - 1 : a[j] = s[j]
  BY <1>1, SubSeqProperties
<1>3. /\ z \in Seq(S) /\ Len(z) = Len(s) - i
      /\ \A j \in 1 .. Len(s) - i : z[j] = s[j + i]
  <2>1. \A j \in i + 1 .. Len(s) : s[j] \in S
    BY <1>1
  <2>2. /\ z \in Seq(S)
        /\ Len(z) = IF i + 1 <= Len(s) THEN Len(s) - (i + 1) + 1 ELSE 0
        /\ \A j \in 1 .. Len(s) - (i + 1) + 1 : z[j] = s[i + 1 + j - 1]
    BY <1>1, <2>1, SubSeqProperties
  <2> QED
    BY <1>1, <2>2
<1> HIDE DEF a, z
<1>4. /\ a \o z \in Seq(S)
      /\ Len(a \o z) = Len(s) - 1
      /\ \A j \in 1 .. Len(s) - 1 :
           (a \o z)[j] = IF j < i THEN a[j] ELSE z[j - (i - 1)]
  <2>1. /\ a \o z \in Seq(S) /\ Len(a \o z) = Len(a) + Len(z)
        /\ \A j \in 1 .. Len(a) + Len(z) : (a \o z)[j] = IF j <= Len(a) THEN a[j] ELSE z[j - Len(a)]
    BY ONLY <1>2, <1>3, ConcatProperties
  <2>2. Len(a) = i - 1 /\ Len(a) + Len(z) = Len(s) - 1
    BY <1>1, <1>2, <1>3
  <2> QED
    BY <1>1, <2>1, <2>2
<1>5. \A j \in 1 .. Len(s) - 1 :
        (a \o z)[j] = IF j < i THEN s[j] ELSE s[j + 1]
  <2>1. TAKE j \in 1 .. Len(s) - 1
  <2>2. CASE j < i
    BY <2>2, <1>1, <1>2, <1>4
  <2>3. CASE ~(j < i)
    <3>1. j - (i - 1) \in 1 .. Len(s) - i /\ (j - (i - 1)) + i = j + 1
      BY <2>3, <1>1
    <3> QED
      BY <2>3, <3>1, <1>3, <1>4
  <2> QED
    BY <2>2, <2>3
<1> QED
  BY <1>4, <1>5 DEF RemoveAt, a, z

\* One more element at the end.
LEMMA ToSetAppend ==
  ASSUME NEW S, NEW s \in Seq(S), NEW x \in S
  PROVE  ToSet(Append(s, x)) = ToSet(s) \cup {x}
  BY AppendProperties DEF ToSet

\* A sequence without duplicates stays so when the new element is not in it.
LEMMA InjectiveAppend ==
  ASSUME NEW S, NEW s \in Seq(S), NEW x \in S, IsInjective(s), x \notin ToSet(s)
  PROVE  IsInjective(Append(s, x))
  BY AppendProperties DEF ToSet, IsInjective

\* Removing an element, from any sequence and from one without duplicates.
LEMMA ToSetRemoveAt ==
  ASSUME NEW S, NEW s \in Seq(S), NEW i \in DOMAIN s
  PROVE  /\ ToSet(RemoveAt(s, i)) \subseteq ToSet(s)
         /\ ToSet(s) \subseteq ToSet(RemoveAt(s, i)) \cup {s[i]}
<1> DEFINE r == RemoveAt(s, i)
<1>1. /\ i \in 1 .. Len(s) /\ Len(s) \in Nat /\ DOMAIN s = 1 .. Len(s)
      /\ DOMAIN r = 1 .. Len(s) - 1
  BY RemoveAtProperties
<1>2. \A j \in DOMAIN r : r[j] = IF j < i THEN s[j] ELSE s[j + 1]
  BY <1>1, RemoveAtProperties
<1> HIDE DEF r
<1>3. \A j \in DOMAIN r : \E k \in DOMAIN s : r[j] = s[k]
  BY <1>1, <1>2
<1>4. ASSUME NEW k \in DOMAIN s, k # i
      PROVE  \E j \in DOMAIN r : r[j] = s[k]
  <2>1. CASE k < i
    BY <2>1, <1>1, <1>2
  <2>2. CASE k > i
    <3>1. k - 1 \in DOMAIN r /\ r[k - 1] = s[k]
      BY <2>2, <1>1, <1>2
    <3> QED
      BY <3>1
  <2> QED
    BY <2>1, <2>2, <1>1, <1>4
<1> QED
  BY <1>3, <1>4 DEF ToSet, r

\* A sequence without duplicates stays so when an element is taken out.
LEMMA InjectiveRemoveAt ==
  ASSUME NEW S, NEW s \in Seq(S), NEW i \in DOMAIN s, IsInjective(s)
  PROVE  /\ IsInjective(RemoveAt(s, i))
         /\ ToSet(RemoveAt(s, i)) = ToSet(s) \ {s[i]}
<1> DEFINE r == RemoveAt(s, i)
           from(j) == IF j < i THEN j ELSE j + 1
<1>1. /\ i \in 1 .. Len(s) /\ Len(s) \in Nat /\ DOMAIN s = 1 .. Len(s)
      /\ DOMAIN r = 1 .. Len(s) - 1
  BY RemoveAtProperties
<1>2. \A j \in DOMAIN r : r[j] = s[from(j)] /\ from(j) \in DOMAIN s /\ from(j) # i
  <2>1. \A j \in 1 .. Len(s) - 1 : r[j] = IF j < i THEN s[j] ELSE s[j + 1]
    BY RemoveAtProperties
  <2> HIDE DEF r
  <2> QED
    BY <1>1, <2>1
<1>3. \A j, k \in DOMAIN r : from(j) = from(k) => j = k
  BY <1>1
<1> HIDE DEF r, from
<1>4. IsInjective(r)
  BY <1>2, <1>3 DEF IsInjective
<1>5. s[i] \notin ToSet(r)
  BY <1>2 DEF IsInjective, ToSet
<1> QED
  BY <1>4, <1>5, ToSetRemoveAt DEF r

-----------------------------------------------------------------------------
(* The calls of the cache.                                                    *)

\* The blocks of the cache.
Cached == ToSet(cache_list)

\* Where a user has a block of the cache in its local variable, where
\* in_cache has not found its sector, and where a flush has a block.
FillPcs == {"rename", "flags", "fill"}
HoldPcs == {"hit", "scan", "evict_write", "evict_done", "copy"} \cup FillPcs
MissPcs == {"new", "push", "evict", "scan", "evict_write", "evict_done"} \cup FillPcs
LoopPcs == {"flush_write", "flush_clear", "flush_next"}

\* One call at a time: the user inside one has fs_lock, and none is inside
\* one while filesys_done works.
OneCall ==
  /\ \A t \in Users : pc[t] \in {"idle"} \cup GetPcs /\ (pc[t] # "idle" <=> fs_lock = t)
  /\ \A f \in {Daemon, Halter} : pc[f] \in {"idle", "off"} \cup FlushPcs
  /\ pc[Halter] \in FlushPcs => \A t \in Users : pc[t] = "idle"

\* What the local variables are worth where they are used.
Locals ==
  /\ \A t \in Users :
       /\ pc[t] # "idle" => want[t] \in Sectors
       /\ pc[t] \in HoldPcs => cb[t] \in Cached
       /\ pc[t] = "push" => Room
       /\ pc[t] = "evict" => cache_list # <<>>
       /\ pc[t] \in {"hit", "flags", "fill", "copy"} => sector_no[cb[t]] = want[t]
  /\ \A f \in {Daemon, Halter} : pc[f] \in LoopPcs => cb[f] \in Blocks

\* No two blocks of the cache are of one sector, and none is of the sector
\* that a user is about to give to a block.
Unique ==
  /\ IsInjective(cache_list)
  /\ \A b, c \in Cached :
       ~Filling(b) /\ ~Filling(c) /\ sector_no[b] = sector_no[c] => b = c
  /\ \A t \in Users, b \in Cached :
       pc[t] \in MissPcs /\ ~Filling(b) => sector_no[b] # want[t]

Serial == TypeOK /\ OneCall /\ Locals /\ Unique

----------------------------------------------------------------------------

\* The block behind one in the list is in the list too.
LEMMA AfterCached ==
  ASSUME cache_list \in Seq(Blocks), NEW b \in Cached
  PROVE  After(b) \in Cached \cup {None}
<1>1. PICK k \in DOMAIN cache_list : cache_list[k] = b
  BY DEF Cached, ToSet
<1>2. CASE b = cache_list[Len(cache_list)]
  BY <1>2 DEF After, Last
<1>3. CASE b # cache_list[Len(cache_list)]
  <2>1. k + 1 \in DOMAIN cache_list /\ k + 1 > 1 /\ cache_list[(k + 1) - 1] = b
    BY <1>1, <1>3
  <2>2. (CHOOSE i \in DOMAIN cache_list : i > 1 /\ cache_list[i - 1] = b)
          \in DOMAIN cache_list
    BY <2>1
  <2> QED
    BY <1>3, <2>2 DEF After, Last, Cached, ToSet
<1> QED
  BY <1>2, <1>3

\* The block at the head of the list is in the cache.
LEMMA HeadCached ==
  ASSUME cache_list \in Seq(Blocks), cache_list # <<>>
  PROVE  Head(cache_list) \in Cached
  BY DEF Cached, ToSet

\* What the list holds is blocks.
LEMMA CachedBlocks == TypeOK => Cached \subseteq Blocks
  BY DEF TypeOK, Cached, ToSet

\* Nobody else is inside a call.
LEMMA Alone ==
  ASSUME TypeOK, OneCall, NEW t \in Users, pc[t] # "idle"
  PROVE  /\ \A u \in Users \ {t} : pc[u] = "idle"
         /\ pc[Halter] \notin FlushPcs
         /\ fs_lock = t
         /\ \A b : Filling(b) <=> cb[t] = b /\ pc[t] \in FillPcs
  BY DEF TypeOK, OneCall, Filling, FillPcs

\* Nobody is in a call at the start.
LEMMA InitSerial == Unlocked = {} /\ Init => Serial
<1> SUFFICES ASSUME Unlocked = {}, Init PROVE Serial
  OBVIOUS
<1> USE DEF Init
<1>1. Zeros \in Data
  BY BufferCacheConstants DEF Zeros, Data
<1>2. TypeOK
  BY <1>1, BufferCacheConstants DEF TypeOK, Threads
<1>3. OneCall
  BY BufferCacheConstants DEF OneCall, Threads, GetPcs, FlushPcs
<1>4. Locals
  BY BufferCacheConstants DEF Locals, Threads, HoldPcs, FillPcs, LoopPcs
<1>5. Unique
  BY BufferCacheConstants DEF Unique, Cached, ToSet, IsInjective, Threads, MissPcs, FillPcs
<1> QED
  BY <1>2, <1>3, <1>4, <1>5 DEF Serial

\* A step of a user's call that neither begins nor ends it.
LEMMA CallStep ==
  ASSUME TypeOK, OneCall, NEW t \in Users, pc[t] \in GetPcs, UNCHANGED fs_lock,
         NEW at \in GetPcs, Goto(t, at)
  PROVE  /\ pc' \in [Threads -> {"idle", "off"} \cup GetPcs \cup FlushPcs]
         /\ OneCall'
         /\ pc'[t] = at /\ pc'[Halter] = pc[Halter] /\ pc'[Daemon] = pc[Daemon]
         /\ \A u \in Users \ {t} : pc'[u] = "idle"
<1>1. pc[t] # "idle" /\ at # "idle"
  BY DEF GetPcs
<1> QED
  BY <1>1, Alone, BufferCacheConstants DEF TypeOK, OneCall, Goto, Threads

\* The file system's own writes to the disk.
LEMMA DiskSerial ==
  ASSUME Serial, NEW t \in Users, DiskStep(t)
  PROVE  Serial'
<1> USE DEF Serial
<1>0. UNCHANGED <<pc, call_vars, cb, next, block_vars, evict_lock, fs_lock>>
  BY DEF DiskStep, Extend, WriteInode, Release, Direct
<1>1. /\ disk' \in [Sectors -> Data] /\ written' \in [Sectors -> Data]
      /\ used' \subseteq Sectors /\ meta' \subseteq Sectors
  <2>1. PICK s \in Sectors : Extend(t, s) \/ WriteInode(t, s) \/ Release(t, s)
    BY DEF DiskStep
  <2>2. Zeros \in Data
    BY BufferCacheConstants DEF Zeros, Data
  <2>3. CASE Extend(t, s)
    BY <2>2, <2>3 DEF Extend, TypeOK
  <2>4. CASE WriteInode(t, s)
    BY <2>4 DEF WriteInode, TypeOK
  <2>5. CASE Release(t, s)
    BY <2>5 DEF Release, TypeOK
  <2> QED
    BY <2>1, <2>3, <2>4, <2>5
<1>2. TypeOK'
  BY <1>0, <1>1 DEF TypeOK, call_vars, block_vars
<1>3. OneCall' /\ Locals' /\ Unique'
  BY <1>0 DEF OneCall, Locals, Unique, Filling, Cached, Room, call_vars, block_vars
<1> QED
  BY <1>2, <1>3

----------------------------------------------------------------------------
(***************************************************************************)
(* cache_get, one lemma per step.                                          *)
(***************************************************************************)

\* A call begins: the caller takes the lock, and nobody else has it.
LEMMA BeginSerial ==
  ASSUME Unlocked = {}, Serial, NEW t \in Users, NEW s \in Sectors, NEW w \in BOOLEAN,
         Begin(t, s, w)
  PROVE  Serial'
<1> USE DEF Serial
<1>0. /\ fs_lock = None /\ fs_lock' = t /\ pc[t] = "idle" /\ pc[Halter] = "idle"
      /\ pc' = [pc EXCEPT ![t] = "lookup"]
      /\ want' = [want EXCEPT ![t] = s] /\ writes' = [writes EXCEPT ![t] = w]
      /\ UNCHANGED <<cb, next, block_vars, evict_lock, disk_vars, written>>
  BY DEF Begin, Goto, Running
<1>1. \A u \in Users : pc[u] = "idle"
  BY <1>0, BufferCacheConstants DEF OneCall
<1>2. TypeOK'
  BY <1>0 DEF TypeOK, block_vars, disk_vars, Threads, GetPcs
<1>3. OneCall'
  BY <1>0, <1>1, BufferCacheConstants DEF TypeOK, OneCall, Threads, GetPcs, FlushPcs
<1>4. Locals'
  BY <1>0, <1>1, BufferCacheConstants
     DEF TypeOK, Locals, Threads, HoldPcs, FillPcs, LoopPcs, block_vars
<1>5. /\ \A b : ~Filling(b) /\ ~Filling(b)'
      /\ \A u \in Users : pc'[u] \notin MissPcs
  BY <1>0, <1>1 DEF TypeOK, Filling, Threads, MissPcs, FillPcs
<1>6. Unique'
  BY <1>0, <1>5 DEF Unique, Cached, block_vars
<1> QED
  BY <1>2, <1>3, <1>4, <1>6

\* The lookup finds a cached block of the sector, or none has it.
LEMMA LookupSerial ==
  ASSUME Serial, NEW t \in Users, Lookup(t)
  PROVE  Serial'
<1> USE DEF Serial
<1>0. /\ pc[t] = "lookup" /\ want[t] \in Sectors
      /\ UNCHANGED <<call_vars, next, block_vars, evict_lock, fs_lock, disk_vars, written>>
  BY DEF Lookup, Locals
<1>1. CASE \E i \in DOMAIN Listed :
             Matches(t, i) /\ cb' = [cb EXCEPT ![t] = Listed[i]] /\ Goto(t, "hit")
  <2>1. PICK i \in DOMAIN cache_list :
               /\ sector_no[cache_list[i]] = want[t]
               /\ cb' = [cb EXCEPT ![t] = cache_list[i]] /\ Goto(t, "hit")
    BY <1>1 DEF Matches, Listed
  <2>2. cache_list[i] \in Cached /\ cache_list[i] \in Blocks
    BY DEF Cached, ToSet, TypeOK
  <2>3. /\ pc' \in [Threads -> {"idle", "off"} \cup GetPcs \cup FlushPcs] /\ OneCall'
        /\ pc'[t] = "hit" /\ \A u \in Users \ {t} : pc'[u] = "idle"
        /\ pc'[Halter] = pc[Halter] /\ pc'[Daemon] = pc[Daemon]
    BY <1>0, <2>1, CallStep DEF GetPcs
  <2>4. TypeOK'
    BY <1>0, <2>1, <2>2, <2>3 DEF TypeOK, call_vars, block_vars, disk_vars
  <2>5. Locals'
    BY <1>0, <2>1, <2>2, <2>3, BufferCacheConstants
       DEF TypeOK, Locals, Threads, HoldPcs, FillPcs, call_vars, block_vars, Cached
  <2>6. (\A b : ~Filling(b) /\ ~Filling(b)') /\ \A u \in Users : pc'[u] \notin MissPcs
    BY <1>0, <2>3, Alone DEF Filling, FillPcs, MissPcs
  <2>7. Unique'
    BY <1>0, <2>6 DEF Unique, Cached, block_vars
  <2> QED
    BY <2>3, <2>4, <2>5, <2>7
<1>2. CASE (\A i \in DOMAIN Listed : ~Matches(t, i)) /\ Goto(t, "new") /\ UNCHANGED cb
  <2>3. /\ pc' \in [Threads -> {"idle", "off"} \cup GetPcs \cup FlushPcs] /\ OneCall'
        /\ pc'[t] = "new" /\ \A u \in Users \ {t} : pc'[u] = "idle"
        /\ pc'[Halter] = pc[Halter] /\ pc'[Daemon] = pc[Daemon]
    BY <1>0, <1>2, CallStep DEF GetPcs
  <2>4. TypeOK'
    BY <1>0, <1>2, <2>3 DEF TypeOK, call_vars, block_vars, disk_vars
  <2>5. Locals'
    BY <1>0, <1>2, <2>3, BufferCacheConstants
       DEF TypeOK, Locals, Threads, HoldPcs, FillPcs, call_vars, block_vars, Cached
  <2>6. \A b : ~Filling(b) /\ ~Filling(b)'
    BY <1>0, <2>3, Alone DEF Filling, FillPcs
  <2>7. \A b \in Cached : sector_no[b] # want[t]
    BY <1>2 DEF Matches, Listed, Cached, ToSet
  <2>8. Unique'
    BY <1>0, <2>3, <2>6, <2>7 DEF Unique, Cached, block_vars, call_vars, MissPcs, FillPcs
  <2> QED
    BY <2>3, <2>4, <2>5, <2>8
<1> QED
  BY <1>1, <1>2 DEF Lookup

\* A cached block of the sector is found: its access and dirty bits are set.
LEMMA HitSerial ==
  ASSUME Serial, NEW t \in Users, Hit(t)
  PROVE  Serial'
<1> USE DEF Serial
<1>0. /\ pc[t] = "hit" /\ Goto(t, "copy")
      /\ access' = [access EXCEPT ![cb[t]] = TRUE]
      /\ dirty' = [dirty EXCEPT ![cb[t]] = HitDirty(t)]
      /\ UNCHANGED <<call_vars, cb, next, cache_list, sector_no, data, evict_lock, fs_lock,
                     disk_vars, written>>
  BY DEF Hit
<1>1. cb[t] \in Cached /\ cb[t] \in Blocks /\ sector_no[cb[t]] = want[t]
  BY <1>0, CachedBlocks DEF Locals, HoldPcs
<1>2. HitDirty(t) \in BOOLEAN
  BY <1>1 DEF HitDirty, TypeOK
<1>3. /\ pc' \in [Threads -> {"idle", "off"} \cup GetPcs \cup FlushPcs] /\ OneCall'
      /\ pc'[t] = "copy" /\ \A u \in Users \ {t} : pc'[u] = "idle"
      /\ pc'[Halter] = pc[Halter] /\ pc'[Daemon] = pc[Daemon]
  BY <1>0, CallStep DEF GetPcs
<1>4. TypeOK'
  BY <1>0, <1>2, <1>3 DEF TypeOK, call_vars, disk_vars
<1>5. Locals'
  BY <1>0, <1>1, <1>3, BufferCacheConstants
     DEF TypeOK, Locals, Threads, HoldPcs, FillPcs, call_vars, Cached
<1>6. (\A b : ~Filling(b) /\ ~Filling(b)') /\ \A u \in Users : pc'[u] \notin MissPcs
  BY <1>0, <1>3, Alone DEF Filling, FillPcs, MissPcs
<1>7. Unique'
  BY <1>0, <1>6 DEF Unique, Cached
<1> QED
  BY <1>3, <1>4, <1>5, <1>7

\* The cache has room for a block, or one is evicted.
LEMMA NewSerial ==
  ASSUME Serial, NEW t \in Users, New(t)
  PROVE  Serial'
<1> USE DEF Serial
<1>0. /\ pc[t] = "new"
      /\ UNCHANGED <<call_vars, cb, next, block_vars, evict_lock, fs_lock, disk_vars, written>>
  BY DEF New
<1>1. PICK at \in {"push", "evict"} :
             Goto(t, at) /\ (at = "push" <=> Room)
  BY DEF New
<1>2. at = "evict" => cache_list # <<>>
  BY <1>1, BufferCacheConstants DEF Room
<1>3. /\ pc' \in [Threads -> {"idle", "off"} \cup GetPcs \cup FlushPcs] /\ OneCall'
      /\ pc'[t] = at /\ \A u \in Users \ {t} : pc'[u] = "idle"
      /\ pc'[Halter] = pc[Halter] /\ pc'[Daemon] = pc[Daemon]
  BY <1>0, <1>1, CallStep DEF GetPcs
<1>4. TypeOK'
  BY <1>0, <1>3 DEF TypeOK, call_vars, block_vars, disk_vars
<1>5. Locals'
  BY <1>0, <1>1, <1>2, <1>3, BufferCacheConstants
     DEF TypeOK, Locals, Threads, HoldPcs, FillPcs, call_vars, block_vars, Cached, Room
<1>6. \A b : ~Filling(b) /\ ~Filling(b)'
  BY <1>0, <1>3, Alone DEF Filling, FillPcs
<1>7. Unique'
  BY <1>0, <1>3, <1>6 DEF Unique, Cached, block_vars, call_vars, MissPcs, FillPcs
<1> QED
  BY <1>3, <1>4, <1>5, <1>7

\* Fresh memory joins the list, with a sector number of any value.
LEMMA PushSerial ==
  ASSUME Serial, NEW t \in Users, Push(t)
  PROVE  Serial'
<1> USE DEF Serial
<1>0. /\ pc[t] = "push" /\ Goto(t, "rename") /\ Room
      /\ UNCHANGED <<call_vars, next, evict_lock, fs_lock, disk_vars, written>>
  BY DEF Push, Locals
<1>1. PICK b \in Blocks \ Cached :
        /\ \A u \in Threads : cb[u] # b
        /\ cache_list' = Append(cache_list, b)
        /\ cb' = [cb EXCEPT ![t] = b]
        /\ \E s \in Sectors, a \in BOOLEAN, d \in BOOLEAN, c \in Data :
             /\ sector_no' = [sector_no EXCEPT ![b] = s]
             /\ access' = [access EXCEPT ![b] = a]
             /\ dirty' = [dirty EXCEPT ![b] = d]
             /\ data' = [data EXCEPT ![b] = c]
  BY DEF Push, Cached
<1>2. /\ cache_list' \in Seq(Blocks) /\ Len(cache_list') = Len(cache_list) + 1
      /\ Cached' = Cached \cup {b} /\ IsInjective(cache_list')
  BY <1>1, AppendProperties, ToSetAppend, InjectiveAppend DEF Cached, Unique, TypeOK
<1>3. /\ pc' \in [Threads -> {"idle", "off"} \cup GetPcs \cup FlushPcs] /\ OneCall'
      /\ pc'[t] = "rename" /\ \A u \in Users \ {t} : pc'[u] = "idle"
      /\ pc'[Halter] = pc[Halter] /\ pc'[Daemon] = pc[Daemon]
  BY <1>0, CallStep DEF GetPcs
<1>4. TypeOK'
  <2>1. Len(cache_list') =< CacheSize
    BY <1>0, <1>2, BufferCacheConstants DEF Room, TypeOK
  <2> QED
    BY <1>0, <1>1, <1>2, <1>3, <2>1 DEF TypeOK, call_vars, disk_vars, Threads
<1>5. cb'[t] = b /\ \A f \in {Daemon, Halter} : cb'[f] = cb[f]
  BY <1>1, BufferCacheConstants DEF TypeOK, Threads
<1>6. Locals'
  BY <1>0, <1>2, <1>3, <1>5 DEF TypeOK, Locals, HoldPcs, FillPcs, LoopPcs, call_vars
<1>7. /\ \A c : ~Filling(c)
      /\ \A c : Filling(c)' <=> c = b
  BY <1>0, <1>3, <1>5, Alone DEF Filling, FillPcs
<1>8. \A c \in Cached : c # b /\ sector_no'[c] = sector_no[c]
  BY <1>1, CachedBlocks DEF TypeOK
<1>9. Unique'
  BY <1>0, <1>2, <1>3, <1>7, <1>8 DEF Unique, call_vars, MissPcs, FillPcs
<1> QED
  BY <1>3, <1>4, <1>6, <1>9

\* cache_evict takes its lock and starts at the head of the list.
LEMMA EvictSerial ==
  ASSUME Serial, NEW t \in Users, Evict(t)
  PROVE  Serial'
<1> USE DEF Serial
<1>0. /\ pc[t] = "evict" /\ Goto(t, "scan") /\ cache_list # <<>>
      /\ evict_lock' = t /\ cb' = [cb EXCEPT ![t] = Head(cache_list)]
      /\ UNCHANGED <<call_vars, next, block_vars, fs_lock, disk_vars, written>>
  BY DEF Evict, Locals
<1>1. Head(cache_list) \in Cached /\ Head(cache_list) \in Blocks
  BY <1>0, HeadCached, CachedBlocks DEF TypeOK
<1>3. /\ pc' \in [Threads -> {"idle", "off"} \cup GetPcs \cup FlushPcs] /\ OneCall'
      /\ pc'[t] = "scan" /\ \A u \in Users \ {t} : pc'[u] = "idle"
      /\ pc'[Halter] = pc[Halter] /\ pc'[Daemon] = pc[Daemon]
  BY <1>0, CallStep DEF GetPcs
<1>4. TypeOK'
  BY <1>0, <1>1, <1>3 DEF TypeOK, call_vars, block_vars, disk_vars
<1>5. Locals'
  BY <1>0, <1>1, <1>3, BufferCacheConstants
     DEF TypeOK, Locals, Threads, HoldPcs, FillPcs, call_vars, block_vars, Cached
<1>6. \A b : ~Filling(b) /\ ~Filling(b)'
  BY <1>0, <1>3, Alone DEF Filling, FillPcs
<1>7. Unique'
  BY <1>0, <1>3, <1>6 DEF Unique, Cached, block_vars, call_vars, MissPcs, FillPcs
<1> QED
  BY <1>3, <1>4, <1>5, <1>7

\* An accessed block gets its second chance, another one is the victim, which
\* is written first when it is dirty.
LEMMA ScanSerial ==
  ASSUME Serial, NEW t \in Users, Scan(t)
  PROVE  Serial'
<1> USE DEF Serial
<1>0. /\ pc[t] = "scan" /\ cb[t] \in Cached /\ cb[t] \in Blocks
      /\ UNCHANGED <<call_vars, next, cache_list, sector_no, dirty, data, evict_lock, fs_lock,
                     disk_vars, written>>
  BY CachedBlocks DEF Scan, Locals, HoldPcs
<1>1. PICK at \in {"scan", "evict_write", "evict_done"} : pc' = [pc EXCEPT ![t] = at]
  BY <1>0 DEF Scan, Goto, TypeOK
<1>2. /\ access' \in [Blocks -> BOOLEAN]
      /\ cb'[t] \in Cached /\ cb' \in [Threads -> Blocks \cup {None}]
      /\ \A u \in Threads \ {t} : cb'[u] = cb[u]
  <2>1. CASE access[cb[t]]
    <3>1. cache_list # <<>> /\ cache_list \in Seq(Blocks)
      BY <1>0 DEF Cached, ToSet, TypeOK
    <3>2. PICK b \in Cached : cb' = [cb EXCEPT ![t] = b]
      BY <1>0, <2>1, <3>1, HeadCached, AfterCached DEF Scan, TypeOK
    <3>3. access' \in [Blocks -> BOOLEAN]
      BY <1>0, <2>1 DEF Scan, Passed, TypeOK
    <3> QED
      BY <3>2, <3>3, CachedBlocks DEF TypeOK, Threads
  <2>2. CASE ~access[cb[t]]
    BY <1>0, <2>2 DEF Scan, TypeOK
  <2> QED
    BY <2>1, <2>2
<1>3. /\ pc' \in [Threads -> {"idle", "off"} \cup GetPcs \cup FlushPcs] /\ OneCall'
      /\ pc'[t] = at /\ \A u \in Users \ {t} : pc'[u] = "idle"
      /\ pc'[Halter] = pc[Halter] /\ pc'[Daemon] = pc[Daemon]
  BY <1>0, <1>1, CallStep DEF GetPcs, Goto
<1>4. TypeOK'
  BY <1>0, <1>2, <1>3 DEF TypeOK, call_vars, disk_vars
<1>5. Locals'
  BY <1>0, <1>1, <1>2, <1>3, BufferCacheConstants
     DEF TypeOK, Locals, Threads, HoldPcs, FillPcs, call_vars, Cached
<1>6. \A b : ~Filling(b) /\ ~Filling(b)'
  BY <1>0, <1>1, <1>3, Alone DEF Filling, FillPcs
<1>7. Unique'
  BY <1>0, <1>3, <1>6 DEF Unique, Cached, call_vars, MissPcs, FillPcs
<1> QED
  BY <1>3, <1>4, <1>5, <1>7

\* The victim that is dirty is written.
LEMMA EvictWriteSerial ==
  ASSUME Serial, NEW t \in Users, EvictWrite(t)
  PROVE  Serial'
<1> USE DEF Serial
<1>0. /\ pc[t] = "evict_write" /\ Goto(t, "evict_done")
      /\ disk' = [disk EXCEPT ![EvictedTo(t)] = data[cb[t]]]
      /\ UNCHANGED <<call_vars, cb, next, block_vars, evict_lock, fs_lock, used, meta, written>>
  BY DEF EvictWrite
<1>1. cb[t] \in Cached /\ cb[t] \in Blocks
  BY <1>0, CachedBlocks DEF Locals, HoldPcs
<1>3. /\ pc' \in [Threads -> {"idle", "off"} \cup GetPcs \cup FlushPcs] /\ OneCall'
      /\ pc'[t] = "evict_done" /\ \A u \in Users \ {t} : pc'[u] = "idle"
      /\ pc'[Halter] = pc[Halter] /\ pc'[Daemon] = pc[Daemon]
  BY <1>0, CallStep DEF GetPcs
<1>4. TypeOK'
  BY <1>0, <1>1, <1>3 DEF TypeOK, call_vars, block_vars
<1>5. Locals'
  BY <1>0, <1>1, <1>3, BufferCacheConstants
     DEF TypeOK, Locals, Threads, HoldPcs, FillPcs, call_vars, block_vars, Cached
<1>6. \A b : ~Filling(b) /\ ~Filling(b)'
  BY <1>0, <1>3, Alone DEF Filling, FillPcs
<1>7. Unique'
  BY <1>0, <1>3, <1>6 DEF Unique, Cached, block_vars, call_vars, MissPcs, FillPcs
<1> QED
  BY <1>3, <1>4, <1>5, <1>7

\* The evictor lets go of its lock and has the victim, which stays in the list,
\* to rename.
LEMMA EvictDoneSerial ==
  ASSUME Serial, NEW t \in Users, EvictDone(t)
  PROVE  Serial'
<1> USE DEF Serial
<1>0. /\ pc[t] = "evict_done" /\ Goto(t, "rename") /\ evict_lock' = None
      /\ UNCHANGED <<call_vars, cb, next, block_vars, fs_lock, disk_vars, written>>
  BY DEF EvictDone
<1>1. cb[t] \in Cached /\ cb[t] \in Blocks
  BY <1>0, CachedBlocks DEF Locals, HoldPcs
<1>3. /\ pc' \in [Threads -> {"idle", "off"} \cup GetPcs \cup FlushPcs] /\ OneCall'
      /\ pc'[t] = "rename" /\ \A u \in Users \ {t} : pc'[u] = "idle"
      /\ pc'[Halter] = pc[Halter] /\ pc'[Daemon] = pc[Daemon]
  BY <1>0, CallStep DEF GetPcs
<1>4. TypeOK'
  BY <1>0, <1>1, <1>3 DEF TypeOK, call_vars, block_vars, disk_vars
<1>5. Locals'
  BY <1>0, <1>1, <1>3, BufferCacheConstants
     DEF TypeOK, Locals, Threads, HoldPcs, FillPcs, call_vars, block_vars, Cached
<1>6. \A b : ~Filling(b) /\ (Filling(b)' <=> b = cb[t])
  BY <1>0, <1>3, Alone DEF Filling, FillPcs
<1>7. Unique'
  BY <1>0, <1>3, <1>6 DEF Unique, Cached, block_vars, call_vars, MissPcs, FillPcs
<1> QED
  BY <1>3, <1>4, <1>5, <1>7

\* The block gets its sector, which no cached block has: the lookup said so
\* under the lock.
LEMMA RenameSerial ==
  ASSUME Serial, NEW t \in Users, Rename(t)
  PROVE  Serial'
<1> USE DEF Serial
<1>0. /\ pc[t] = "rename" /\ Goto(t, "flags")
      /\ sector_no' = [sector_no EXCEPT ![cb[t]] = want[t]]
      /\ UNCHANGED <<call_vars, cb, next, cache_list, access, dirty, data, evict_lock, fs_lock,
                     disk_vars, written>>
  BY DEF Rename
<1>1. cb[t] \in Cached /\ cb[t] \in Blocks /\ want[t] \in Sectors
  BY <1>0, CachedBlocks DEF Locals, HoldPcs, FillPcs
<1>3. /\ pc' \in [Threads -> {"idle", "off"} \cup GetPcs \cup FlushPcs] /\ OneCall'
      /\ pc'[t] = "flags" /\ \A u \in Users \ {t} : pc'[u] = "idle"
      /\ pc'[Halter] = pc[Halter] /\ pc'[Daemon] = pc[Daemon]
  BY <1>0, CallStep DEF GetPcs
<1>4. TypeOK'
  BY <1>0, <1>1, <1>3 DEF TypeOK, call_vars, disk_vars
<1>5. Locals'
  BY <1>0, <1>1, <1>3, BufferCacheConstants
     DEF TypeOK, Locals, Threads, HoldPcs, FillPcs, call_vars, Cached
<1>6. \A b : (Filling(b) <=> b = cb[t]) /\ (Filling(b)' <=> b = cb[t])
  BY <1>0, <1>3, Alone DEF Filling, FillPcs
<1>7. \A b \in Cached : b # cb[t] => sector_no'[b] = sector_no[b]
  BY <1>0, CachedBlocks DEF TypeOK
<1>8. Unique'
  BY <1>0, <1>3, <1>6, <1>7 DEF Unique, Cached, call_vars, MissPcs, FillPcs
<1> QED
  BY <1>3, <1>4, <1>5, <1>8

\* The flags of the renamed block are reset.
LEMMA FlagsSerial ==
  ASSUME Serial, NEW t \in Users, Flags(t)
  PROVE  Serial'
<1> USE DEF Serial
<1>0. /\ pc[t] = "flags" /\ Goto(t, "fill")
      /\ access' = [access EXCEPT ![cb[t]] = TRUE]
      /\ dirty' = [dirty EXCEPT ![cb[t]] = writes[t]]
      /\ UNCHANGED <<call_vars, cb, next, cache_list, sector_no, data, evict_lock, fs_lock,
                     disk_vars, written>>
  BY DEF Flags
<1>1. cb[t] \in Cached /\ cb[t] \in Blocks
  BY <1>0, CachedBlocks DEF Locals, HoldPcs, FillPcs
<1>3. /\ pc' \in [Threads -> {"idle", "off"} \cup GetPcs \cup FlushPcs] /\ OneCall'
      /\ pc'[t] = "fill" /\ \A u \in Users \ {t} : pc'[u] = "idle"
      /\ pc'[Halter] = pc[Halter] /\ pc'[Daemon] = pc[Daemon]
  BY <1>0, CallStep DEF GetPcs
<1>4. TypeOK'
  BY <1>0, <1>1, <1>3 DEF TypeOK, call_vars, disk_vars
<1>5. Locals'
  BY <1>0, <1>1, <1>3, BufferCacheConstants
     DEF TypeOK, Locals, Threads, HoldPcs, FillPcs, call_vars, Cached
<1>6. \A b : (Filling(b) <=> b = cb[t]) /\ (Filling(b)' <=> b = cb[t])
  BY <1>0, <1>3, Alone DEF Filling, FillPcs
<1>8. Unique'
  BY <1>0, <1>3, <1>6 DEF Unique, Cached, call_vars, MissPcs, FillPcs
<1> QED
  BY <1>3, <1>4, <1>5, <1>8

\* The block is read from its sector.
LEMMA FillSerial ==
  ASSUME Serial, NEW t \in Users, Fill(t)
  PROVE  Serial'
<1> USE DEF Serial
<1>0. /\ pc[t] = "fill" /\ Goto(t, "copy")
      /\ data' = [data EXCEPT ![cb[t]] = disk[sector_no[cb[t]]]]
      /\ UNCHANGED <<call_vars, cb, next, cache_list, sector_no, access, dirty, evict_lock,
                     fs_lock, disk_vars, written>>
  BY DEF Fill
<1>1. /\ cb[t] \in Cached /\ cb[t] \in Blocks
      /\ sector_no[cb[t]] = want[t] /\ want[t] \in Sectors
  BY <1>0, CachedBlocks DEF Locals, HoldPcs, FillPcs
<1>3. /\ pc' \in [Threads -> {"idle", "off"} \cup GetPcs \cup FlushPcs] /\ OneCall'
      /\ pc'[t] = "copy" /\ \A u \in Users \ {t} : pc'[u] = "idle"
      /\ pc'[Halter] = pc[Halter] /\ pc'[Daemon] = pc[Daemon]
  BY <1>0, CallStep DEF GetPcs
<1>4. TypeOK'
  BY <1>0, <1>1, <1>3 DEF TypeOK, call_vars, disk_vars
<1>5. Locals'
  BY <1>0, <1>1, <1>3, BufferCacheConstants
     DEF TypeOK, Locals, Threads, HoldPcs, FillPcs, call_vars, Cached
<1>6. \A b : (Filling(b) <=> b = cb[t]) /\ ~Filling(b)'
  BY <1>0, <1>3, Alone DEF Filling, FillPcs
<1>7. \A b \in Cached : b # cb[t] => sector_no[b] # sector_no[cb[t]]
  BY <1>0, <1>1, <1>6 DEF Unique, MissPcs, FillPcs
<1>8. Unique'
  BY <1>0, <1>3, <1>6, <1>7 DEF Unique, Cached, call_vars, MissPcs, FillPcs
<1> QED
  BY <1>3, <1>4, <1>5, <1>8

\* The caller copies and lets go of the lock.
LEMMA CopySerial ==
  ASSUME Unlocked = {}, Serial, NEW t \in Users, Copy(t)
  PROVE  Serial'
<1> USE DEF Serial
<1>0. /\ pc[t] = "copy" /\ pc' = [pc EXCEPT ![t] = "idle"] /\ fs_lock' = None
      /\ want' = [want EXCEPT ![t] = None] /\ cb' = [cb EXCEPT ![t] = None]
      /\ UNCHANGED <<writes, next, cache_list, sector_no, access, dirty, evict_lock, disk_vars>>
  BY DEF Copy, Goto
<1>1. /\ cb[t] \in Blocks /\ want[t] \in Sectors /\ fs_lock = t
      /\ \A u \in Users \ {t} : pc[u] = "idle"
      /\ pc[Halter] \notin FlushPcs
  BY <1>0, CachedBlocks, Alone DEF Locals, HoldPcs
<1>2. data' \in [Blocks -> Data] /\ written' \in [Sectors -> Data]
  <2>1. CASE writes[t]
    <3>1. PICK o \in Offsets, v \in Values :
            /\ data' = [data EXCEPT ![cb[t]][o] = v]
            /\ written' = [written EXCEPT ![want[t]][o] = v]
      BY <2>1 DEF Copy
    <3>2. data[cb[t]] \in Data /\ written[want[t]] \in Data
      BY <1>1 DEF TypeOK
    <3>3. /\ [data[cb[t]] EXCEPT ![o] = v] \in Data
          /\ [written[want[t]] EXCEPT ![o] = v] \in Data
      BY <3>2 DEF Data
    <3> QED
      BY <3>1, <3>3 DEF TypeOK
  <2>2. CASE ~writes[t]
    BY <2>2 DEF Copy, TypeOK
  <2> QED
    BY <2>1, <2>2
<1>3. TypeOK'
  BY <1>0, <1>2 DEF TypeOK, disk_vars, Threads
<1>4. OneCall'
  BY <1>0, <1>1, BufferCacheConstants DEF TypeOK, OneCall, Threads, GetPcs
<1>5. \A u \in Users : pc'[u] = "idle"
  BY <1>0, <1>1 DEF TypeOK, Threads
<1>6. Locals'
  BY <1>0, <1>5, BufferCacheConstants DEF TypeOK, Locals, Threads, HoldPcs, FillPcs, LoopPcs
<1>7. \A b : ~Filling(b) /\ ~Filling(b)'
  BY <1>0, <1>1, <1>5 DEF Filling
<1>8. Unique'
  BY <1>0, <1>5, <1>7 DEF Unique, Cached, MissPcs, FillPcs
<1> QED
  BY <1>3, <1>4, <1>6, <1>8

\* The steps of cache_get_block, and the copy.
LEMMA GetSerial ==
  ASSUME Unlocked = {}, Serial, NEW t \in Users, GetStep(t)
  PROVE  Serial'
  BY LookupSerial, HitSerial, NewSerial, PushSerial, EvictSerial, ScanSerial,
     EvictWriteSerial, EvictDoneSerial, RenameSerial, FlagsSerial, FillSerial, CopySerial
  DEF GetStep

----------------------------------------------------------------------------
(***************************************************************************)
(* cache_write_to_disk.                                                    *)
(***************************************************************************)

\* What a step of a flush may do: it changes no user's variables and no
\* block's sector, and takes blocks out of the cache only in filesys_done.
LEMMA FlushFrame ==
  ASSUME Serial, NEW f \in {Daemon, Halter}, FlushStep(f)
  PROVE  /\ UNCHANGED <<want, writes, sector_no, evict_lock, fs_lock, access, data, used, meta,
                        written>>
         /\ \A t \in Users : pc'[t] = pc[t] /\ cb'[t] = cb[t]
         /\ cache_list' # cache_list => pc[Halter] = "flush_next"
  BY BufferCacheConstants
  DEF FlushStep, FlushStart, Flush, FlushWrite, FlushClear, FlushNext, FlushFreed, FlushEnd,
      Goto, Serial, TypeOK, Threads, call_vars, block_vars, disk_vars

\* The types of what a flush changes, and where it goes.
LEMMA FlushType ==
  ASSUME Serial, NEW f \in {Daemon, Halter}, FlushStep(f)
  PROVE  /\ TypeOK'
         /\ IsInjective(cache_list') /\ Cached' \subseteq Cached
         /\ \A g \in {Daemon, Halter} :
              /\ pc'[g] \in {"idle", "off"} \cup FlushPcs
              /\ pc'[g] \in LoopPcs => cb'[g] \in Blocks
         /\ pc'[Halter] \in FlushPcs => \A t \in Users : pc[t] = "idle"
<1> USE DEF Serial
<1>0. /\ pc[f] \in {"idle", "off"} \cup FlushPcs
      /\ pc[f] \in LoopPcs => cb[f] \in Blocks
      /\ IsInjective(cache_list) /\ cache_list \in Seq(Blocks)
      /\ f \in Threads /\ f \notin Users
  BY BufferCacheConstants DEF OneCall, Locals, Unique, TypeOK, Threads
<1>1. CASE FlushStart(f)
  <2>1. /\ pc' = [pc EXCEPT ![f] = "flush"]
        /\ \E b \in Blocks \cup {None} : cb' = [cb EXCEPT ![f] = b]
        /\ f = Halter => \A t \in Users : pc[t] = "idle"
        /\ UNCHANGED <<call_vars, next, block_vars, evict_lock, fs_lock, disk_vars, written>>
    BY <1>0, <1>1, HeadCached, CachedBlocks, BufferCacheConstants DEF FlushStart, Goto
  <2> QED
    BY <1>0, <2>1, BufferCacheConstants
       DEF TypeOK, Threads, OneCall, Locals, FlushPcs, LoopPcs, call_vars, block_vars, disk_vars,
           Cached
<1>2. CASE Flush(f)
  <2>1. /\ cb[f] \in Blocks /\ After(cb[f]) \in Blocks \cup {None}
        /\ pc[f] \in FlushPcs
        /\ \E at \in {"flush_write", "flush_next"} : pc' = [pc EXCEPT ![f] = at]
        /\ next' = [next EXCEPT ![f] = After(cb[f])]
        /\ UNCHANGED <<call_vars, cb, block_vars, evict_lock, fs_lock, disk_vars, written>>
    BY <1>0, <1>2, AfterCached, CachedBlocks DEF Flush, Goto, Cached, FlushPcs
  <2> QED
    BY <1>0, <2>1, BufferCacheConstants
       DEF TypeOK, Threads, OneCall, Locals, FlushPcs, LoopPcs, call_vars, block_vars, disk_vars,
           Cached
<1>3. CASE FlushWrite(f)
  <2>1. /\ cb[f] \in Blocks /\ pc[f] \in FlushPcs
        /\ pc' = [pc EXCEPT ![f] = "flush_clear"]
        /\ disk' = [disk EXCEPT ![sector_no[cb[f]]] = data[cb[f]]]
        /\ UNCHANGED <<call_vars, cb, next, block_vars, evict_lock, fs_lock, used, meta, written>>
    BY <1>0, <1>3 DEF FlushWrite, Goto, LoopPcs, FlushPcs
  <2> QED
    BY <1>0, <2>1, BufferCacheConstants
       DEF TypeOK, Threads, OneCall, Locals, FlushPcs, LoopPcs, call_vars, block_vars, Cached
<1>4. CASE FlushClear(f)
  <2>1. /\ cb[f] \in Blocks /\ pc[f] \in FlushPcs
        /\ pc' = [pc EXCEPT ![f] = "flush_next"]
        /\ dirty' = [dirty EXCEPT ![cb[f]] = FALSE]
        /\ UNCHANGED <<call_vars, cb, next, cache_list, sector_no, access, data, evict_lock,
                       fs_lock, disk_vars, written>>
    BY <1>0, <1>4 DEF FlushClear, Goto, LoopPcs, FlushPcs
  <2> QED
    BY <1>0, <2>1, BufferCacheConstants
       DEF TypeOK, Threads, OneCall, Locals, FlushPcs, LoopPcs, call_vars, disk_vars, Cached
<1>5. CASE FlushNext(f)
  <2>1. /\ pc[f] \in FlushPcs /\ pc' = [pc EXCEPT ![f] = "flush"]
        /\ cb' = [cb EXCEPT ![f] = next[f]]
        /\ UNCHANGED <<call_vars, next, sector_no, access, dirty, data, evict_lock, fs_lock,
                       disk_vars, written>>
    BY <1>5 DEF FlushNext, NextBlock, Goto, FlushPcs
  <2>2. /\ cache_list' \in Seq(Blocks) /\ Len(cache_list') =< CacheSize
        /\ IsInjective(cache_list') /\ Cached' \subseteq Cached
    <3>1. CASE f = Halter
      <4>1. PICK i \in DOMAIN cache_list : cache_list' = RemoveAt(cache_list, i)
        BY <1>5, <3>1 DEF FlushNext
      <4> QED
        BY <1>0, <4>1, RemoveAtProperties, InjectiveRemoveAt, BufferCacheConstants
           DEF TypeOK, Cached
    <3>2. CASE f # Halter
      BY <1>0, <1>5, <3>2 DEF FlushNext, TypeOK, Cached
    <3> QED
      BY <3>1, <3>2
  <2> QED
    BY <1>0, <2>1, <2>2, BufferCacheConstants
       DEF TypeOK, Threads, OneCall, Locals, FlushPcs, LoopPcs, call_vars, disk_vars
<1>6. CASE FlushFreed(f)
  BY <1>0, <1>6, BufferCacheConstants
     DEF FlushFreed, TypeOK, Threads, OneCall, Locals, FlushPcs, LoopPcs, call_vars, block_vars,
         disk_vars, Cached
<1>7. CASE FlushEnd(f)
  BY <1>0, <1>7, BufferCacheConstants
     DEF FlushEnd, Goto, TypeOK, Threads, OneCall, Locals, FlushPcs, LoopPcs, call_vars, block_vars,
         disk_vars, Cached
<1> QED
  BY <1>1, <1>2, <1>3, <1>4, <1>5, <1>6, <1>7 DEF FlushStep

\* The flush writes blocks back and changes no block's sector.
LEMMA FlushSerial ==
  ASSUME Serial, NEW f \in {Daemon, Halter}, FlushStep(f)
  PROVE  Serial'
<1> USE DEF Serial
<1>1. /\ UNCHANGED <<want, sector_no, fs_lock>>
      /\ \A t \in Users : pc'[t] = pc[t] /\ cb'[t] = cb[t]
  BY FlushFrame
<1>2. /\ TypeOK' /\ IsInjective(cache_list') /\ Cached' \subseteq Cached
      /\ \A g \in {Daemon, Halter} :
           /\ pc'[g] \in {"idle", "off"} \cup FlushPcs
           /\ pc'[g] \in LoopPcs => cb'[g] \in Blocks
      /\ pc'[Halter] \in FlushPcs => \A t \in Users : pc[t] = "idle"
  BY FlushType
<1>3. cache_list' = cache_list \/ \A t \in Users : pc[t] = "idle"
  BY FlushFrame DEF OneCall, FlushPcs
<1>4. OneCall'
  BY <1>1, <1>2 DEF OneCall
<1>5. Locals'
  BY <1>1, <1>2, <1>3 DEF Locals, Cached, Room, HoldPcs, FillPcs
<1>6. \A b : Filling(b)' <=> Filling(b)
  BY <1>1 DEF Filling
<1>7. Unique'
  BY <1>1, <1>2, <1>6 DEF Unique
<1> QED
  BY <1>2, <1>4, <1>5, <1>7

\* Every step keeps Serial, when every call takes fs_lock.
LEMMA NextSerial ==
  ASSUME Unlocked = {}, Serial, [Next]_vars
  PROVE  Serial'
<1>1. CASE UNCHANGED vars
  BY <1>1 DEF vars, call_vars, block_vars, disk_vars, Serial, TypeOK, OneCall, Locals, Unique,
              Filling, Cached, Room
<1>2. CASE \E t \in Users :
             DiskStep(t) \/ GetStep(t) \/ \E s \in Sectors, w \in BOOLEAN : Begin(t, s, w)
  BY <1>2, DiskSerial, GetSerial, BeginSerial
<1>3. CASE \E f \in {Daemon, Halter} : FlushStep(f)
  BY <1>3, FlushSerial
<1> QED
  BY <1>1, <1>2, <1>3 DEF Next, Off

\* Under the lock one call runs at a time, and what it has found out stays
\* true until it ends.
THEOREM SerialHolds == Unlocked = {} /\ Spec => []Serial
<1> SUFFICES ASSUME Unlocked = {} PROVE Spec => []Serial
  OBVIOUS
<1>1. Init => Serial
  BY InitSerial
<1>2. Serial /\ [Next]_vars => Serial'
  BY NextSerial
<1> QED
  BY <1>1, <1>2, PTL DEF Spec

\* When every system call that reads or writes a file takes fs_lock, no two
\* blocks of the cache are of the same sector, whatever the write-back daemon
\* and filesys_done do meanwhile.
THEOREM SectorCachedOnce == Unlocked = {} /\ Spec => []OneBlockPerSector
<1>1. Serial => OneBlockPerSector
  BY DEF Serial, Unique, OneBlockPerSector, Cached, ToSet, IsInjective
<1> QED
  BY <1>1, SerialHolds, PTL

----------------------------------------------------------------------------
(***************************************************************************)
(* What the blocks contain.                                                *)
(***************************************************************************)

\* A block that has been filled has what was last written to its sector, and
\* the disk has it too, unless the block is dirty.
Filled(b) == b \in Cached /\ ~Filling(b)

Coherent ==
  /\ used \cap meta = {}
  /\ \A b : Filled(b) => sector_no[b] \in used /\ data[b] = written[sector_no[b]]
  /\ \A s \in used \cup meta :
       \/ disk[s] = written[s]
       \/ \E b : Filled(b) /\ dirty[b] /\ sector_no[b] = s

\* The part of a call that leads from one such state to the next.
CallProgress ==
  \A t \in Users :
    /\ pc[t] # "idle" => want[t] \in used
    /\ pc[t] = "evict_done" => disk[sector_no[cb[t]]] = written[sector_no[cb[t]]]
    /\ pc[t] \in {"fill", "copy"} => (writes[t] => dirty[cb[t]])

\* The daemon sleeps, and filesys_done works at the front of the list.
HaltProgress ==
  /\ pc[Daemon] = "idle" /\ cb[Daemon] = None
  /\ pc[Halter] = "idle" => cb[Halter] = None
  /\ pc[Halter] = "off" => cache_list = <<>>
  /\ pc[Halter] \in FlushPcs =>
       cb[Halter] = IF cache_list = <<>> THEN None ELSE Head(cache_list)
  /\ pc[Halter] \in LoopPcs => cache_list # <<>> /\ next[Halter] = After(cb[Halter])
  /\ pc[Halter] = "flush_clear" => disk[sector_no[cb[Halter]]] = written[sector_no[cb[Halter]]]
  /\ pc[Halter] = "flush_next" => ~dirty[cb[Halter]]

Kept == Coherent /\ CallProgress /\ HaltProgress

\* At the start no block is cached and the disk holds what was written.
LEMMA InitKept == Unlocked = {} /\ Init => Kept
<1> SUFFICES ASSUME Init PROVE Kept
  OBVIOUS
<1> USE DEF Init
<1>1. Coherent
  BY DEF Coherent, Filled, Cached, ToSet
<1>2. CallProgress
  BY BufferCacheConstants DEF CallProgress, Threads
<1>3. HaltProgress
  BY BufferCacheConstants DEF HaltProgress, Threads, FlushPcs, LoopPcs
<1> QED
  BY <1>1, <1>2, <1>3 DEF Kept

\* While a user is inside a call, filesys_done has not begun.
LEMMA HaltIdle ==
  ASSUME Serial, HaltProgress, NEW t \in Users, GetStep(t)
  PROVE  /\ HaltProgress'
         /\ pc[t] # "idle" /\ \A u \in Users \ {t} : pc[u] = "idle" /\ pc'[u] = "idle"
<1>1. /\ pc[t] \in GetPcs /\ pc[Halter] # "off"
      /\ pc'[Halter] = pc[Halter] /\ pc'[Daemon] = pc[Daemon]
      /\ cb'[Halter] = cb[Halter] /\ cb'[Daemon] = cb[Daemon]
      /\ \A u \in Users \ {t} : pc'[u] = pc[u]
  BY BufferCacheConstants
  DEF GetStep, Lookup, Hit, New, Push, Evict, Scan, EvictWrite, EvictDone, Rename, Flags, Fill,
      Copy, On, Goto, GetPcs, Serial, TypeOK, Threads
<1>2. pc[t] # "idle"
  BY <1>1 DEF GetPcs
<1>3. pc[Halter] = "idle" /\ \A u \in Users \ {t} : pc[u] = "idle"
  BY <1>1, <1>2, Alone DEF Serial, OneCall
<1> QED
  BY <1>1, <1>2, <1>3 DEF HaltProgress, FlushPcs, LoopPcs

\* The steps of cache_get that change no contents.
LEMMA QuietKept ==
  ASSUME Serial, Kept, NEW t \in Users,
         Lookup(t) \/ Hit(t) \/ New(t) \/ Evict(t) \/ Scan(t)
  PROVE  Kept'
<1> USE DEF Serial, Kept
<1>0. /\ pc[t] \in {"lookup", "hit", "new", "evict", "scan"}
      /\ UNCHANGED <<call_vars, cache_list, sector_no, data, disk_vars, written>>
  BY DEF Lookup, Hit, New, Evict, Scan, block_vars
<1>1. HaltProgress' /\ pc[t] # "idle" /\ \A u \in Users \ {t} : pc[u] = "idle" /\ pc'[u] = "idle"
  BY HaltIdle DEF GetStep
<1>2. /\ pc'[t] \in {"hit", "copy", "new", "push", "evict", "scan", "evict_write", "evict_done"}
      /\ pc'[t] = "copy" => pc[t] = "hit"
  BY CachedBlocks DEF Lookup, Hit, New, Evict, Scan, Goto, TypeOK, Threads
<1>3. \A b : Filled(b)' <=> Filled(b)
  BY <1>0, <1>1, <1>2, Alone DEF Filled, Filling, FillPcs, Cached
<1>4. /\ dirty' \in [Blocks -> BOOLEAN]
      /\ \A b \in Blocks : dirty[b] => dirty'[b]
      /\ pc[t] = "hit" => (writes[t] => dirty'[cb[t]]) /\ cb'[t] = cb[t] /\ pc'[t] = "copy"
      /\ pc[t] # "hit" => dirty' = dirty
  <2>1. pc[t] = "hit" => cb[t] \in Blocks
    BY CachedBlocks DEF Locals, HoldPcs
  <2> QED
    BY <2>1 DEF Lookup, Hit, HitDirty, New, Evict, Scan, Goto, TypeOK, Threads, block_vars
<1>5. Coherent'
  <2>1. \A b : Filled(b) => b \in Blocks
    BY CachedBlocks DEF Filled
  <2> QED
    BY <1>0, <1>3, <1>4, <2>1 DEF Coherent, disk_vars
<1>6. ASSUME pc'[t] = "evict_done"
      PROVE  disk'[sector_no'[cb'[t]]] = written'[sector_no'[cb'[t]]]
  <2>1. pc[t] = "scan" /\ cb'[t] = cb[t] /\ ~dirty[cb[t]] /\ cb[t] \in Cached
    BY <1>6 DEF Lookup, Hit, New, Evict, Scan, Goto, TypeOK, Threads, Locals, HoldPcs
  <2>2. \A b : Filling(b) <=> FALSE
    BY <2>1, Alone DEF FillPcs
  <2>3. sector_no[cb[t]] \in used
    BY <2>1, <2>2 DEF Coherent, Filled
  <2>4. \A b \in Cached : sector_no[b] = sector_no[cb[t]] => b = cb[t]
    BY <2>1, <2>2 DEF Unique
  <2>5. disk[sector_no[cb[t]]] = written[sector_no[cb[t]]]
    BY <2>1, <2>3, <2>4 DEF Coherent, Filled
  <2> QED
    BY <1>0, <2>1, <2>5 DEF disk_vars
<1>7. CallProgress'
  BY <1>0, <1>1, <1>2, <1>4, <1>6 DEF CallProgress, call_vars, disk_vars
<1> QED
  BY <1>1, <1>5, <1>7

\* Fresh memory joins the list, and counts for no sector until it is filled.
LEMMA PushKept ==
  ASSUME Serial, Kept, NEW t \in Users, Push(t)
  PROVE  Kept'
<1> USE DEF Serial, Kept
<1>0. pc[t] = "push" /\ Goto(t, "rename") /\ UNCHANGED <<call_vars, disk_vars, written>>
  BY DEF Push
<1>1. HaltProgress' /\ \A u \in Users \ {t} : pc[u] = "idle" /\ pc'[u] = "idle"
  BY HaltIdle DEF GetStep
<1>2. PICK b \in Blocks \ Cached :
        /\ \A u \in Threads : cb[u] # b
        /\ cache_list' = Append(cache_list, b)
        /\ cb' = [cb EXCEPT ![t] = b]
        /\ \E s \in Sectors, a \in BOOLEAN, d \in BOOLEAN, c \in Data :
             /\ sector_no' = [sector_no EXCEPT ![b] = s]
             /\ access' = [access EXCEPT ![b] = a]
             /\ dirty' = [dirty EXCEPT ![b] = d]
             /\ data' = [data EXCEPT ![b] = c]
  BY DEF Push, Cached
<1>3. Cached' = Cached \cup {b}
  BY <1>2, ToSetAppend DEF Cached, TypeOK
<1>4. pc'[t] = "rename" /\ cb'[t] = b
  BY <1>0, <1>2 DEF Goto, TypeOK, Threads
<1>5. \A c : Filled(c)' <=> Filled(c)
  BY <1>0, <1>1, <1>2, <1>3, <1>4, Alone DEF Filled, Filling, FillPcs
<1>6. \A c : Filled(c) =>
        sector_no'[c] = sector_no[c] /\ data'[c] = data[c] /\ dirty'[c] = dirty[c]
  BY <1>2, CachedBlocks DEF TypeOK, Filled
<1>7. Coherent'
  BY <1>0, <1>5, <1>6 DEF Coherent, disk_vars
<1>8. CallProgress'
  BY <1>0, <1>1, <1>4 DEF CallProgress, call_vars, disk_vars
<1> QED
  BY <1>1, <1>7, <1>8

\* The victim's contents reach its sector.
LEMMA EvictWriteKept ==
  ASSUME Serial, Kept, NEW t \in Users, EvictWrite(t)
  PROVE  Kept'
<1> USE DEF Serial, Kept
<1>0. /\ pc[t] = "evict_write" /\ Goto(t, "evict_done")
      /\ disk' = [disk EXCEPT ![sector_no[cb[t]]] = data[cb[t]]]
      /\ UNCHANGED <<call_vars, cb, next, block_vars, evict_lock, fs_lock, used, meta, written>>
  BY DEF EvictWrite, EvictedTo
<1>1. HaltProgress' /\ \A u \in Users \ {t} : pc[u] = "idle" /\ pc'[u] = "idle"
  BY HaltIdle DEF GetStep
<1>2. pc'[t] = "evict_done"
  BY <1>0 DEF Goto, TypeOK, Threads
<1>3. \A b : Filled(b)' <=> Filled(b)
  BY <1>0, <1>1, <1>2, Alone DEF Filled, Filling, FillPcs, Cached, block_vars
<1>4. Filled(cb[t])
  BY <1>0, Alone DEF Filled, FillPcs, Locals, HoldPcs
<1>5. sector_no[cb[t]] \in Sectors /\ data[cb[t]] = written[sector_no[cb[t]]]
  BY <1>4 DEF Coherent, TypeOK
<1>6. \A s \in Sectors : disk'[s] = IF s = sector_no[cb[t]] THEN written[s] ELSE disk[s]
  BY <1>0, <1>5 DEF TypeOK
<1>7. Coherent'
  BY <1>0, <1>3, <1>6 DEF Coherent, block_vars, TypeOK
<1>8. CallProgress'
  BY <1>0, <1>1, <1>2, <1>5, <1>6 DEF CallProgress, call_vars, block_vars
<1> QED
  BY <1>1, <1>7, <1>8

\* The victim was clean or has been written: the disk holds its contents.
LEMMA EvictDoneKept ==
  ASSUME Serial, Kept, NEW t \in Users, EvictDone(t)
  PROVE  Kept'
<1> USE DEF Serial, Kept
<1>0. /\ pc[t] = "evict_done" /\ Goto(t, "rename")
      /\ UNCHANGED <<call_vars, cb, next, block_vars, fs_lock, disk_vars, written>>
  BY DEF EvictDone
<1>1. HaltProgress' /\ \A u \in Users \ {t} : pc[u] = "idle" /\ pc'[u] = "idle"
  BY HaltIdle DEF GetStep
<1>2. pc'[t] = "rename"
  BY <1>0 DEF Goto, TypeOK, Threads
<1>3. \A b : Filled(b)' <=> Filled(b) /\ b # cb[t]
  BY <1>0, <1>1, <1>2, Alone DEF Filled, Filling, FillPcs, Cached, block_vars
<1>4. disk[sector_no[cb[t]]] = written[sector_no[cb[t]]]
  BY <1>0 DEF CallProgress
<1>7. Coherent'
  BY <1>0, <1>3, <1>4 DEF Coherent, block_vars, disk_vars
<1>8. CallProgress'
  BY <1>0, <1>1, <1>2 DEF CallProgress, call_vars, block_vars, disk_vars
<1> QED
  BY <1>1, <1>7, <1>8

\* While a block is being filled, only that block changes.
LEMMA RenameKept ==
  ASSUME Serial, Kept, NEW t \in Users, Rename(t) \/ Flags(t)
  PROVE  Kept'
<1> USE DEF Serial, Kept
<1>0. /\ pc[t] \in {"rename", "flags"}
      /\ UNCHANGED <<call_vars, cb, cache_list, data, disk_vars, written>>
  BY DEF Rename, Flags
<1>1. HaltProgress' /\ \A u \in Users \ {t} : pc[u] = "idle" /\ pc'[u] = "idle"
  BY HaltIdle DEF GetStep
<1>2. pc'[t] \in {"flags", "fill"} /\ (pc'[t] = "fill" => (writes[t] => dirty'[cb[t]]))
  <2>1. cb[t] \in Blocks
    BY <1>0, CachedBlocks DEF Locals, HoldPcs, FillPcs
  <2> QED
    BY <2>1 DEF Rename, Flags, Goto, TypeOK, Threads
<1>3. \A b : (Filled(b)' <=> Filled(b)) /\ (Filled(b) => b # cb[t] /\ b \in Blocks)
  BY <1>0, <1>1, <1>2, Alone, CachedBlocks DEF Filled, Filling, FillPcs, Cached
<1>4. \A b \in Blocks : b # cb[t] => sector_no'[b] = sector_no[b] /\ dirty'[b] = dirty[b]
  BY DEF Rename, Flags, TypeOK
<1>7. Coherent'
  BY <1>0, <1>3, <1>4 DEF Coherent, disk_vars
<1>8. CallProgress'
  BY <1>0, <1>1, <1>2 DEF CallProgress, call_vars, disk_vars
<1> QED
  BY <1>1, <1>7, <1>8

\* The block gets what the disk has, which no other block holds newer.
LEMMA FillKept ==
  ASSUME Serial, Kept, NEW t \in Users, Fill(t)
  PROVE  Kept'
<1> USE DEF Serial, Kept
<1>0. /\ pc[t] = "fill" /\ Goto(t, "copy")
      /\ data' = [data EXCEPT ![cb[t]] = disk[sector_no[cb[t]]]]
      /\ UNCHANGED <<call_vars, cb, next, cache_list, sector_no, access, dirty, evict_lock,
                     fs_lock, disk_vars, written>>
  BY DEF Fill
<1>1. HaltProgress' /\ \A u \in Users \ {t} : pc[u] = "idle" /\ pc'[u] = "idle"
  BY HaltIdle DEF GetStep
<1>2. pc'[t] = "copy"
  BY <1>0 DEF Goto, TypeOK, Threads
<1>3. /\ cb[t] \in Cached /\ cb[t] \in Blocks
      /\ sector_no[cb[t]] = want[t] /\ want[t] \in used
  BY <1>0, CachedBlocks DEF Locals, HoldPcs, FillPcs, CallProgress
<1>4. \A b : (Filled(b)' <=> Filled(b) \/ b = cb[t]) /\ (Filled(b) => b # cb[t])
  BY <1>0, <1>1, <1>2, <1>3, Alone DEF Filled, Filling, FillPcs, Cached
<1>5. \A b : Filled(b) => sector_no[b] # want[t]
  BY <1>0 DEF Unique, Filled, MissPcs, FillPcs
<1>6. disk[want[t]] = written[want[t]]
  BY <1>3, <1>5 DEF Coherent
<1>7. \A b \in Blocks : data'[b] = IF b = cb[t] THEN written[want[t]] ELSE data[b]
  BY <1>0, <1>3, <1>6 DEF TypeOK
<1>8. Coherent'
  <2>1. \A b : Filled(b) => b \in Blocks
    BY CachedBlocks DEF Filled
  <2> QED
    BY <1>0, <1>3, <1>4, <1>7, <2>1 DEF Coherent, disk_vars
<1>9. CallProgress'
  BY <1>0, <1>1, <1>2 DEF CallProgress, call_vars, disk_vars
<1> QED
  BY <1>1, <1>8, <1>9

\* A read returns, and a write stores, the latest contents of the sector.
LEMMA CopyKept ==
  ASSUME Serial, Kept, NEW t \in Users, Copy(t)
  PROVE  Kept'
<1> USE DEF Serial, Kept
<1>0. /\ pc[t] = "copy" /\ pc' = [pc EXCEPT ![t] = "idle"]
      /\ want' = [want EXCEPT ![t] = None] /\ cb' = [cb EXCEPT ![t] = None]
      /\ UNCHANGED <<writes, next, cache_list, sector_no, access, dirty, evict_lock, disk_vars>>
  BY DEF Copy, Goto
<1>1. HaltProgress' /\ \A u \in Users \ {t} : pc[u] = "idle" /\ pc'[u] = "idle"
  BY HaltIdle DEF GetStep
<1>2. pc'[t] = "idle"
  BY <1>0 DEF TypeOK, Threads
<1>3. /\ cb[t] \in Cached /\ cb[t] \in Blocks
      /\ sector_no[cb[t]] = want[t] /\ want[t] \in Sectors
  BY <1>0, CachedBlocks DEF Locals, HoldPcs
<1>4. \A b : (Filled(b)' <=> Filled(b)) /\ (Filled(b) <=> b \in Cached)
  BY <1>0, <1>1, <1>2, Alone DEF Filled, Filling, FillPcs, Cached
<1>5. \A b \in Cached : b # cb[t] => sector_no[b] # want[t]
  BY <1>3, <1>4 DEF Unique, Filled
<1>6. CASE writes[t]
  <2>1. PICK o \in Offsets, v \in Values :
          /\ data' = [data EXCEPT ![cb[t]][o] = v]
          /\ written' = [written EXCEPT ![want[t]][o] = v]
    BY <1>6 DEF Copy
  <2>2. data[cb[t]] = written[want[t]]
    BY <1>3, <1>4 DEF Coherent
  <2>3. /\ data'[cb[t]] = written'[want[t]]
        /\ \A b \in Blocks : b # cb[t] => data'[b] = data[b]
        /\ \A s \in Sectors : s # want[t] => written'[s] = written[s]
    BY <1>3, <2>1, <2>2 DEF TypeOK
  <2>4. dirty[cb[t]]
    BY <1>0, <1>6 DEF CallProgress
  <2>5. \A b \in Cached : b \in Blocks /\ sector_no[b] \in Sectors /\ sector_no[b] \in used
    BY <1>4, CachedBlocks DEF Coherent, TypeOK
  <2>6. \A b : Filled(b)' => sector_no'[b] \in used' /\ data'[b] = written'[sector_no'[b]]
    BY <1>0, <1>3, <1>4, <1>5, <2>3, <2>5 DEF Coherent, disk_vars
  <2>7. ASSUME NEW s \in used' \cup meta'
        PROVE  \/ disk'[s] = written'[s]
               \/ \E b : Filled(b)' /\ dirty'[b] /\ sector_no'[b] = s
    <3>1. CASE s = want[t]
      BY <1>0, <1>3, <1>4, <2>4, <3>1
    <3>2. CASE s # want[t]
      BY <1>0, <1>4, <2>3, <3>2 DEF Coherent, disk_vars, TypeOK
    <3> QED
      BY <3>1, <3>2
  <2> QED
    BY <1>0, <1>1, <1>2, <2>6, <2>7 DEF Coherent, CallProgress, disk_vars
<1>7. CASE ~writes[t]
  <2>1. UNCHANGED <<data, written>>
    BY <1>7 DEF Copy
  <2> QED
    BY <1>0, <1>1, <1>2, <1>4, <2>1 DEF Coherent, CallProgress, disk_vars
<1> QED
  BY <1>6, <1>7

\* cache_get_block stores nothing.
LEMMA GetKept ==
  ASSUME Serial, Kept, NEW t \in Users, GetStep(t)
  PROVE  Kept'
  BY QuietKept, PushKept, EvictWriteKept, EvictDoneKept, RenameKept, FillKept, CopyKept
  DEF GetStep

\* A call begins, with nothing stored yet.
LEMMA BeginKept ==
  ASSUME Unlocked = {}, Serial, Kept, NEW t \in Users, NEW s \in Sectors, NEW w \in BOOLEAN,
         Begin(t, s, w)
  PROVE  Kept'
<1> USE DEF Serial, Kept
<1>0. /\ fs_lock = None /\ pc[Halter] = "idle" /\ s \in used
      /\ pc' = [pc EXCEPT ![t] = "lookup"]
      /\ want' = [want EXCEPT ![t] = s]
      /\ UNCHANGED <<cb, next, block_vars, disk_vars, written>>
  BY DEF Begin, Goto, Running
<1>1. \A u \in Users : pc[u] = "idle"
  BY <1>0, BufferCacheConstants DEF OneCall
<1>2. /\ pc'[t] = "lookup" /\ \A u \in Users \ {t} : pc'[u] = "idle"
      /\ pc'[Halter] = "idle" /\ pc'[Daemon] = "idle" /\ want'[t] = s
  BY <1>0, <1>1, BufferCacheConstants DEF HaltProgress, TypeOK, Threads
<1>3. \A b : Filled(b)' <=> Filled(b)
  BY <1>0, <1>1, <1>2 DEF Filled, Filling, Cached, block_vars
<1>4. Coherent'
  BY <1>0, <1>3 DEF Coherent, block_vars, disk_vars
<1>5. CallProgress'
  BY <1>0, <1>2 DEF CallProgress, disk_vars
<1>6. HaltProgress'
  BY <1>0, <1>2 DEF HaltProgress, FlushPcs, LoopPcs, block_vars
<1> QED
  BY <1>4, <1>5, <1>6

\* Direct writes go to sectors that no block of the cache is of.
LEMMA DiskKept ==
  ASSUME Unlocked = {}, ~Removal, Serial, Kept, NEW t \in Users, DiskStep(t)
  PROVE  Kept'
<1> USE DEF Serial, Kept
<1>0. /\ fs_lock = None /\ pc[Halter] = "idle"
      /\ UNCHANGED <<pc, call_vars, cb, next, block_vars, evict_lock, fs_lock>>
  BY DEF DiskStep, Extend, WriteInode, Release, Direct, Running
<1>1. \A u \in Users : pc[u] = "idle"
  BY <1>0, BufferCacheConstants DEF OneCall
<1>2. PICK s \in Sectors \ used :
        /\ \A r \in Sectors \ {s} : disk'[r] = disk[r] /\ written'[r] = written[r]
        /\ disk'[s] = written'[s]
        /\ used \subseteq used' /\ used' \cap meta' = {}
        /\ used' \cup meta' = used \cup meta \cup {s}
  <2>1. PICK s \in Sectors : Extend(t, s) \/ WriteInode(t, s)
    BY DEF DiskStep, Release
  <2>2. CASE Extend(t, s)
    BY <2>2 DEF Extend, FreeSectors, TypeOK, Coherent
  <2>3. CASE WriteInode(t, s)
    BY <2>3 DEF WriteInode, FreeSectors, TypeOK, Coherent
  <2> QED
    BY <2>1, <2>2, <2>3
<1>3. \A b : Filled(b)' <=> Filled(b)
  BY <1>0 DEF Filled, Filling, Cached, block_vars
<1>4. \A b : Filled(b) => sector_no[b] \in Sectors \ {s}
  BY <1>2 DEF Coherent, TypeOK
<1>5. Coherent'
  <2>1. \A b : Filled(b)' => sector_no'[b] \in used' /\ data'[b] = written'[sector_no'[b]]
    BY <1>0, <1>2, <1>3, <1>4 DEF Coherent, block_vars
  <2>2. ASSUME NEW r \in used' \cup meta'
        PROVE  \/ disk'[r] = written'[r]
               \/ \E b : Filled(b)' /\ dirty'[b] /\ sector_no'[b] = r
    <3>1. CASE r = s
      BY <1>2, <3>1
    <3>2. CASE r # s
      <4>1. r \in used \cup meta /\ r \in Sectors \ {s}
        BY <1>2, <3>2 DEF TypeOK
      <4> QED
        BY <1>0, <1>2, <1>3, <4>1 DEF Coherent, block_vars
    <3> QED
      BY <3>1, <3>2
  <2> QED
    BY <1>2, <2>1, <2>2 DEF Coherent
<1>6. CallProgress' /\ HaltProgress'
  BY <1>0, <1>1 DEF CallProgress, HaltProgress, FlushPcs, LoopPcs, block_vars, call_vars
<1> QED
  BY <1>5, <1>6

\* In a list without duplicates, what is behind the front is the front of the rest.
LEMMA AfterHead ==
  ASSUME cache_list \in Seq(Blocks), IsInjective(cache_list), NEW i \in DOMAIN cache_list,
         cache_list[i] = Head(cache_list)
  PROVE  After(Head(cache_list)) =
           IF RemoveAt(cache_list, i) = <<>> THEN None ELSE Head(RemoveAt(cache_list, i))
<1>1. /\ i = 1 /\ Len(cache_list) \in Nat \ {0} /\ DOMAIN cache_list = 1 .. Len(cache_list)
      /\ Head(cache_list) = cache_list[1]
  BY DEF IsInjective
<1>2. /\ RemoveAt(cache_list, i) \in Seq(Blocks)
      /\ Len(RemoveAt(cache_list, i)) = Len(cache_list) - 1
      /\ \A j \in 1 .. Len(cache_list) - 1 :
           RemoveAt(cache_list, i)[j] = IF j < i THEN cache_list[j] ELSE cache_list[j + 1]
  BY RemoveAtProperties
<1>3. CASE Len(cache_list) = 1
  BY <1>1, <1>2, <1>3 DEF After, Last
<1>4. CASE Len(cache_list) > 1
  <2>1. cache_list[1] # cache_list[Len(cache_list)]
    BY <1>1, <1>4 DEF IsInjective
  <2>2. 2 \in DOMAIN cache_list /\ 2 > 1 /\ cache_list[2 - 1] = cache_list[1]
    BY <1>1, <1>4
  <2>3. \A k \in DOMAIN cache_list : k > 1 /\ cache_list[k - 1] = cache_list[1] => k = 2
    BY <1>1 DEF IsInjective
  <2>4. (CHOOSE k \in DOMAIN cache_list : k > 1 /\ cache_list[k - 1] = cache_list[1]) = 2
    BY <2>2, <2>3
  <2>5. After(Head(cache_list)) = cache_list[2]
    BY <1>1, <2>1, <2>4 DEF After, Last
  <2>6. RemoveAt(cache_list, i) # <<>> /\ Head(RemoveAt(cache_list, i)) = cache_list[2]
    BY <1>1, <1>2, <1>4
  <2> QED
    BY <2>5, <2>6
<1> QED
  BY <1>1, <1>3, <1>4

\* filesys_done writes the dirty blocks back, and takes out only clean ones.
LEMMA FlushKept ==
  ASSUME ~WriteBack, Serial, Kept, NEW f \in {Daemon, Halter}, FlushStep(f)
  PROVE  Kept'
<1> USE DEF Serial, Kept
<1>0. f = Halter /\ Halter # Daemon /\ pc[Halter] # "off"
  BY BufferCacheConstants
  DEF FlushStep, FlushStart, Flush, FlushWrite, FlushClear, FlushNext, FlushFreed, FlushEnd,
      HaltProgress, FlushPcs, LoopPcs, On
<1>1. ~FlushFreed(Halter)
  <2>1. CASE pc[Halter] = "idle"
    BY <2>1 DEF FlushFreed, HaltProgress
  <2>2. CASE pc[Halter] \in FlushPcs
    BY <2>2, HeadCached DEF FlushFreed, HaltProgress, TypeOK, Cached
  <2> QED
    BY <1>0, <2>1, <2>2 DEF OneCall
<1>2. /\ UNCHANGED <<want, writes, sector_no, data, used, meta, written>>
      /\ \A t \in Users : pc'[t] = pc[t] /\ cb'[t] = cb[t]
  BY FlushFrame
<1>3. \A t \in Users : pc[t] = "idle"
  BY <1>0, BufferCacheConstants
  DEF FlushStep, FlushStart, Flush, FlushWrite, FlushClear, FlushNext, FlushFreed, FlushEnd,
      OneCall, FlushPcs, HaltProgress, On
<1>4. \A b : ~Filling(b) /\ ~Filling(b)'
  BY <1>2, <1>3 DEF Filling
<1>5. CallProgress'
  BY <1>2, <1>3 DEF CallProgress
<1>6. /\ pc'[Daemon] = pc[Daemon] /\ cb'[Daemon] = cb[Daemon]
  BY <1>0, <1>1 DEF FlushStep, FlushStart, Flush, FlushWrite, FlushClear, FlushNext, FlushEnd,
      Goto, TypeOK, Threads
<1>7. CASE FlushStart(Halter)
  <2>1. UNCHANGED <<disk, dirty, cache_list>>
    BY <1>7 DEF FlushStart, block_vars, disk_vars
  <2>2. Coherent'
    BY <1>2, <1>4, <2>1 DEF Coherent, Filled, Cached
  <2>3. HaltProgress'
    BY <1>6, <1>7, <2>1 DEF FlushStart, Goto, TypeOK, Threads, HaltProgress, FlushPcs, LoopPcs
  <2> QED
    BY <1>5, <2>2, <2>3
<1>8. CASE Flush(Halter)
  <2>1. /\ UNCHANGED <<disk, dirty, cache_list, cb>> /\ cache_list # <<>>
        /\ pc[Halter] = "flush" /\ next'[Halter] = After(cb[Halter])
        /\ pc'[Halter] \in {"flush_write", "flush_next"}
        /\ pc'[Halter] = "flush_next" => ~dirty[cb[Halter]]
    BY <1>8 DEF Flush, Goto, TypeOK, Threads, block_vars, disk_vars, ToSet
  <2>2. Coherent'
    BY <1>2, <1>4, <2>1 DEF Coherent, Filled, Cached
  <2>3. After(cb[Halter])' = After(cb[Halter])
    BY <2>1 DEF After
  <2>4. HaltProgress'
    BY <1>6, <2>1, <2>3 DEF HaltProgress, FlushPcs, LoopPcs
  <2> QED
    BY <1>5, <2>2, <2>4
<1>9. CASE FlushWrite(Halter)
  <2>1. /\ UNCHANGED <<dirty, cache_list, cb, next>>
        /\ pc[Halter] = "flush_write" /\ pc'[Halter] = "flush_clear"
        /\ disk' = [disk EXCEPT ![sector_no[cb[Halter]]] = data[cb[Halter]]]
    BY <1>9 DEF FlushWrite, Goto, TypeOK, Threads, block_vars
  <2>2. cb[Halter] \in Cached
    BY <2>1, HeadCached DEF HaltProgress, TypeOK, FlushPcs, LoopPcs
  <2>3. /\ sector_no[cb[Halter]] \in Sectors
        /\ data[cb[Halter]] = written[sector_no[cb[Halter]]]
    BY <1>4, <2>2 DEF Coherent, Filled, TypeOK
  <2>4. \A s \in Sectors : disk'[s] = IF s = sector_no[cb[Halter]] THEN written[s] ELSE disk[s]
    BY <2>1, <2>3 DEF TypeOK
  <2>5. Coherent'
    BY <1>2, <1>4, <2>1, <2>4 DEF Coherent, Filled, Cached, TypeOK
  <2>6. After(cb[Halter])' = After(cb[Halter])
    BY <2>1 DEF After
  <2>7. HaltProgress'
    BY <1>2, <1>6, <2>1, <2>3, <2>4, <2>6 DEF HaltProgress, FlushPcs, LoopPcs
  <2> QED
    BY <1>5, <2>5, <2>7
<1>10. CASE FlushClear(Halter)
  <2>1. /\ UNCHANGED <<disk, cache_list, cb, next>>
        /\ pc[Halter] = "flush_clear" /\ pc'[Halter] = "flush_next"
        /\ dirty' = [dirty EXCEPT ![cb[Halter]] = FALSE]
    BY <1>10 DEF FlushClear, Goto, TypeOK, Threads, disk_vars
  <2>2. cb[Halter] \in Cached /\ cb[Halter] \in Blocks
    BY <2>1, HeadCached, CachedBlocks DEF HaltProgress, TypeOK, FlushPcs, LoopPcs
  <2>3. disk[sector_no[cb[Halter]]] = written[sector_no[cb[Halter]]]
    BY <2>1 DEF HaltProgress
  <2>4. \A b \in Cached : dirty'[b] = (dirty[b] /\ b # cb[Halter])
    BY <2>1, CachedBlocks DEF TypeOK
  <2>5. Coherent'
    BY <1>2, <1>4, <2>1, <2>3, <2>4 DEF Coherent, Filled, Cached
  <2>6. After(cb[Halter])' = After(cb[Halter])
    BY <2>1 DEF After
  <2>7. HaltProgress'
    BY <1>6, <2>1, <2>2, <2>4, <2>6 DEF HaltProgress, FlushPcs, LoopPcs
  <2> QED
    BY <1>5, <2>5, <2>7
<1>11. CASE FlushNext(Halter)
  <2>1. PICK i \in DOMAIN cache_list :
          cache_list[i] = cb[Halter] /\ cache_list' = RemoveAt(cache_list, i)
    BY <1>11 DEF FlushNext
  <2>2. /\ UNCHANGED <<disk, dirty>>
        /\ pc[Halter] = "flush_next" /\ pc'[Halter] = "flush"
        /\ cb'[Halter] = next[Halter] /\ next[Halter] = After(cb[Halter])
        /\ cb[Halter] = Head(cache_list) /\ ~dirty[cb[Halter]]
    BY <1>11 DEF FlushNext, NextBlock, Goto, TypeOK, Threads, disk_vars, HaltProgress, FlushPcs,
                 LoopPcs
  <2>3. Cached' = Cached \ {cb[Halter]}
    BY <2>1, InjectiveRemoveAt DEF Cached, Unique, TypeOK
  <2>4. Coherent'
    BY <1>2, <1>4, <2>2, <2>3 DEF Coherent, Filled
  <2>5. cb'[Halter] = IF cache_list' = <<>> THEN None ELSE Head(cache_list')
    BY <2>1, <2>2, AfterHead DEF Unique, TypeOK
  <2>6. HaltProgress'
    BY <1>6, <2>2, <2>5 DEF HaltProgress, FlushPcs, LoopPcs
  <2> QED
    BY <1>5, <2>4, <2>6
<1>12. CASE FlushEnd(Halter)
  <2>1. /\ UNCHANGED <<disk, dirty, cache_list, cb>> /\ pc[Halter] = "flush"
        /\ cb[Halter] = None /\ pc'[Halter] = "off"
    BY <1>0, <1>12 DEF FlushEnd, Goto, TypeOK, Threads, block_vars, disk_vars
  <2>2. cache_list = <<>>
    <3>1. Cached \subseteq Blocks /\ (cache_list # <<>> => Head(cache_list) \in Cached)
      BY CachedBlocks, HeadCached DEF TypeOK
    <3> QED
      BY <2>1, <3>1, BufferCacheConstants DEF HaltProgress, FlushPcs
  <2>3. Coherent'
    BY <1>2, <1>4, <2>1 DEF Coherent, Filled, Cached
  <2>4. HaltProgress'
    BY <1>6, <2>1, <2>2 DEF HaltProgress, FlushPcs, LoopPcs
  <2> QED
    BY <1>5, <2>3, <2>4
<1> QED
  BY <1>0, <1>1, <1>7, <1>8, <1>9, <1>10, <1>11, <1>12 DEF FlushStep

\* Every step keeps the contents, given one call at a time.
LEMMA NextKept ==
  ASSUME Unlocked = {}, ~WriteBack, ~Removal, Serial, Kept, [Next]_vars
  PROVE  Kept'
<1>1. CASE UNCHANGED vars
  BY <1>1 DEF vars, call_vars, block_vars, disk_vars, Kept, Coherent, CallProgress, HaltProgress,
              Filled, Filling, Cached, After
<1>2. CASE \E t \in Users :
             DiskStep(t) \/ GetStep(t) \/ \E s \in Sectors, w \in BOOLEAN : Begin(t, s, w)
  BY <1>2, DiskKept, GetKept, BeginKept
<1>3. CASE \E f \in {Daemon, Halter} : FlushStep(f)
  BY <1>3, FlushKept
<1> QED
  BY <1>1, <1>2, <1>3 DEF Next, Off

\* Every sector's latest contents are in its block, or on disk when it has
\* none: without the daemon's flush and without removals.
THEOREM KeptHolds ==
  Unlocked = {} /\ ~WriteBack /\ ~Removal /\ Spec => [](Serial /\ Kept)
<1> SUFFICES ASSUME Unlocked = {}, ~WriteBack, ~Removal PROVE Spec => [](Serial /\ Kept)
  OBVIOUS
<1>1. Init => Serial /\ Kept
  BY InitSerial, InitKept
<1>2. (Serial /\ Kept) /\ [Next]_vars => (Serial /\ Kept)'
  BY NextSerial, NextKept
<1> QED
  BY <1>1, <1>2, PTL DEF Spec

\* When every call takes fs_lock, no file is removed and the write-back daemon
\* sleeps: whoever reads a sector, or changes a part of it, finds in the block
\* what was last written there.
THEOREM ReadsSeeWritesHolds ==
  Unlocked = {} /\ ~WriteBack /\ ~Removal /\ Spec => []ReadsSeeWrites
<1>1. Serial /\ Kept => ReadsSeeWrites
  <2> SUFFICES ASSUME Serial, Kept, NEW t \in Users, pc[t] = "copy"
               PROVE  data[cb[t]] = written[want[t]]
    BY DEF ReadsSeeWrites
  <2>1. Filled(cb[t]) /\ sector_no[cb[t]] = want[t]
    BY Alone DEF Serial, Locals, HoldPcs, Filled, FillPcs
  <2> QED
    BY <2>1 DEF Kept, Coherent
<1> QED
  BY <1>1, KeptHolds, PTL

\* Under the same conditions no block is ever written over an inode, and what
\* was written is on the disk when the machine is off.
THEOREM CacheIntactHolds ==
  Unlocked = {} /\ ~WriteBack /\ ~Removal /\ Spec => []CacheIntact
<1>1. Serial /\ Kept => CacheIntact
  <2> SUFFICES ASSUME Serial, Kept PROVE CacheIntact
    OBVIOUS
  <2>1. MetaIntact
    BY DEF Kept, Coherent, MetaIntact
  <2>2. FlushedAtHalt
    BY DEF Kept, Coherent, HaltProgress, FlushedAtHalt, On, Filled, Cached, ToSet
  <2> QED
    BY <2>1, <2>2 DEF CacheIntact, Serial
<1> QED
  BY <1>1, KeptHolds, PTL
=============================================================================
