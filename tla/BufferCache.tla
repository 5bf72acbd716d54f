---------------------------- MODULE BufferCache ----------------------------
(***************************************************************************)
(* The buffer cache of prj4's filesys/cache.c, the threads that read and   *)
(* write file sectors through it (filesys/inode.c), the write-back daemon, *)
(* filesys_done, and the writes to the disk that go around the cache.      *)
(*                                                                         *)
(* Interrupts are on everywhere in this code, and block_read and           *)
(* block_write sleep: an action is what one thread does between two points *)
(* where another can see or change the cache.  The only locks are          *)
(* evict_lock and, for the system calls that take it, fs_lock.             *)
(***************************************************************************)
EXTENDS Naturals, SequencesExt

CONSTANTS
  Users,      \* threads that read and write files
  Unlocked,   \* those whose system calls (chdir, mkdir, readdir) do not take fs_lock
  Daemon,     \* the thread of periodical_write_back
  Halter,     \* the initial thread, which calls filesys_done
  WriteBack,  \* bound: the write-back interval can elapse during a behaviour
  Removal,    \* bound: files can be removed
  Sectors,    \* disk sectors
  Offsets,    \* positions within a sector
  Values,     \* what can be written at a position
  Zero,       \* the value of a zeroed position
  Blocks,     \* memory for cache blocks
  CacheSize,  \* CACHE_SIZE
  None

ASSUME BufferCacheConstants ==
  /\ Unlocked \subseteq Users /\ Daemon # Halter /\ {Daemon, Halter} \cap Users = {}
  /\ WriteBack \in BOOLEAN /\ Removal \in BOOLEAN
  /\ Zero \in Values
  /\ CacheSize \in Nat \ {0}
  /\ None \notin Users \cup Sectors \cup Blocks

VARIABLES
  pc,         \* where a thread is
  want,       \* the sector a user asks cache_get for
  writes,     \* cache_get's parameter dirty
  cb,         \* a user's local variable cb; the loop variable of a flush
  next,       \* cache_write_to_disk's local variable next
  cache_list, \* the blocks of the cache
  sector_no, access, dirty, data,  \* their fields
  evict_lock, \* its holder
  fs_lock,    \* its holder
  disk,       \* the sectors as they are on the disk
  used,       \* sectors allocated to the contents of files and directories
  meta,       \* sectors allocated to inodes
  written     \* history: what was last written to a sector, through the cache or not

block_vars == <<cache_list, sector_no, access, dirty, data>>
call_vars == <<want, writes>>
disk_vars == <<disk, used, meta>>
vars == <<pc, call_vars, cb, next, block_vars, evict_lock, fs_lock, disk_vars, written>>

Threads == Users \cup {Daemon, Halter}
Data == [Offsets -> Values]
Zeros == [o \in Offsets |-> Zero]

GetPcs == {"lookup", "hit", "new", "push", "evict", "scan", "evict_write", "evict_done",
           "rename", "flags", "fill", "copy"}
FlushPcs == {"flush", "flush_write", "flush_clear", "flush_next"}

\* filesys_init on a disk where some sectors are in use and some belong to inodes.
Init ==
  /\ pc = [t \in Threads |-> "idle"]
  /\ want = [t \in Users |-> None]
  /\ writes = [t \in Users |-> FALSE]
  /\ cb = [t \in Threads |-> None]
  /\ next = [t \in {Daemon, Halter} |-> None]
  /\ cache_list = <<>>
  /\ sector_no = [b \in Blocks |-> None]
  /\ access = [b \in Blocks |-> FALSE]
  /\ dirty = [b \in Blocks |-> FALSE]
  /\ data = [b \in Blocks |-> Zeros]
  /\ evict_lock = None
  /\ fs_lock = None
  /\ disk = [s \in Sectors |-> Zeros]
  /\ used = {} /\ meta = {}
  /\ written = disk

On == pc[Halter] # "off"
Goto(t, at) == pc' = [pc EXCEPT ![t] = at]

\* The end of main comes when the processes have ended.
Running == pc[Halter] = "idle"

----------------------------------------------------------------------------
(***************************************************************************)
(* What the file system does to the disk without the cache: one system     *)
(* call each.                                                              *)
(***************************************************************************)

Direct(t) ==
  /\ Running /\ t \in Users /\ pc[t] = "idle"
  /\ t \in Unlocked \/ fs_lock = None
  /\ UNCHANGED <<pc, call_vars, cb, next, block_vars, evict_lock, fs_lock>>

\* What free_map_allocate may return.
FreeSectors == Sectors \ (used \cup meta)

\* inode_expand gives a file or a directory one more sector, with zeros in it.
Extend(t, s) ==
  /\ s \in FreeSectors
  /\ used' = used \cup {s}
  /\ disk' = [disk EXCEPT ![s] = Zeros]
  /\ written' = [written EXCEPT ![s] = Zeros]
  /\ UNCHANGED meta
  /\ Direct(t)

\* inode_create, on a sector allocated for it, and inode_close write an inode.
WriteInode(t, s) ==
  /\ s \in FreeSectors \cup meta
  /\ meta' = meta \cup {s}
  /\ \E d \in Data :
       /\ disk' = [disk EXCEPT ![s] = d]
       /\ written' = [written EXCEPT ![s] = d]
  /\ UNCHANGED used
  /\ Direct(t)

\* The last inode_close of a removed file releases its sectors, which nobody uses.
Release(t, s) ==
  /\ Removal
  /\ s \in used \cup meta /\ \A u \in Users : want[u] # s
  /\ used' = used \ {s}
  /\ meta' = meta \ {s}
  /\ UNCHANGED <<disk, written>>
  /\ Direct(t)

----------------------------------------------------------------------------
(***************************************************************************)
(* cache_get and the copy in or out of the block it returns: one sector of *)
(* inode_read_at or inode_write_at.                                        *)
(***************************************************************************)

Begin(t, s, w) ==
  /\ Running /\ pc[t] = "idle" /\ s \in used
  /\ IF t \in Unlocked THEN UNCHANGED fs_lock ELSE fs_lock = None /\ fs_lock' = t
  /\ want' = [want EXCEPT ![t] = s]
  /\ writes' = [writes EXCEPT ![t] = w]
  /\ Goto(t, "lookup")
  /\ UNCHANGED <<cb, next, block_vars, evict_lock, disk_vars, written>>

\* Mutant of Listed: the loop stops before the last block.
ListedButLast == Front(cache_list)

\* The blocks in_cache looks at.
Listed == cache_list

Matches(t, i) == sector_no[Listed[i]] = want[t]

\* in_cache: the first block of the sector.
Lookup(t) ==
  /\ On /\ pc[t] = "lookup"
  /\ \/ \E i \in DOMAIN Listed :
          /\ Matches(t, i) /\ \A j \in 1..(i - 1) : ~Matches(t, j)
          /\ cb' = [cb EXCEPT ![t] = Listed[i]]
          /\ Goto(t, "hit")
     \/ /\ \A i \in DOMAIN Listed : ~Matches(t, i)
        /\ Goto(t, "new") /\ UNCHANGED cb
  /\ UNCHANGED <<call_vars, next, block_vars, evict_lock, fs_lock, disk_vars, written>>

\* Mutant of HitDirty: a read makes a dirty block clean.
HitDirtyIfWritten(t) == writes[t]

\* What becomes of the bit dirty in a hit.
HitDirty(t) == dirty[cb[t]] \/ writes[t]

Hit(t) ==
  /\ On /\ pc[t] = "hit"
  /\ access' = [access EXCEPT ![cb[t]] = TRUE]
  /\ dirty' = [dirty EXCEPT ![cb[t]] = HitDirty(t)]
  /\ Goto(t, "copy")
  /\ UNCHANGED <<call_vars, cb, next, cache_list, sector_no, data, evict_lock, fs_lock,
                 disk_vars, written>>

\* cache_new allocates a block and does not evict one.
Room == Len(cache_list) < CacheSize

New(t) ==
  /\ On /\ pc[t] = "new"
  /\ Goto(t, IF Room THEN "push" ELSE "evict")
  /\ UNCHANGED <<call_vars, cb, next, block_vars, evict_lock, fs_lock, disk_vars, written>>

\* cache_new puts fresh memory into the list, whatever it contains (a sector
\* number that is none would panic as soon as the block is written back).
Push(t) ==
  /\ On /\ pc[t] = "push"
  /\ \E b \in Blocks \ ToSet(cache_list) :
       /\ \A u \in Threads : cb[u] # b
       /\ cache_list' = Append(cache_list, b)
       /\ cb' = [cb EXCEPT ![t] = b]
       /\ \E s \in Sectors, a \in BOOLEAN, d \in BOOLEAN, c \in Data :
            /\ sector_no' = [sector_no EXCEPT ![b] = s]
            /\ access' = [access EXCEPT ![b] = a]
            /\ dirty' = [dirty EXCEPT ![b] = d]
            /\ data' = [data EXCEPT ![b] = c]
  /\ Goto(t, "rename")
  /\ UNCHANGED <<call_vars, next, evict_lock, fs_lock, disk_vars, written>>

\* cache_evict starts at the front of the list.
Evict(t) ==
  /\ On /\ pc[t] = "evict" /\ evict_lock = None
  /\ evict_lock' = t
  /\ cb' = [cb EXCEPT ![t] = Head(cache_list)]
  /\ Goto(t, "scan")
  /\ UNCHANGED <<call_vars, next, block_vars, fs_lock, disk_vars, written>>

\* The block behind b in the list, or None.
After(b) ==
  IF b = Last(cache_list) THEN None
  ELSE cache_list[CHOOSE i \in DOMAIN cache_list : i > 1 /\ cache_list[i - 1] = b]

\* Mutant of Passed: no second chance is taken away.
PassedFor(b) == access

\* The access bits when the loop of cache_evict passes b, which has its bit set.
Passed(b) == [access EXCEPT ![b] = FALSE]

\* A second chance for a block that was accessed, or the end of the loop.
Scan(t) ==
  /\ On /\ pc[t] = "scan"
  /\ IF access[cb[t]]
     THEN /\ access' = Passed(cb[t])
          /\ cb' = [cb EXCEPT ![t] = IF After(@) = None THEN Head(cache_list) ELSE After(@)]
          /\ UNCHANGED pc
     ELSE /\ Goto(t, IF dirty[cb[t]] THEN "evict_write" ELSE "evict_done")
          /\ UNCHANGED <<access, cb>>
  /\ UNCHANGED <<call_vars, next, cache_list, sector_no, dirty, data, evict_lock, fs_lock,
                 disk_vars, written>>

\* The sector to which an evicted dirty block is written.
EvictedTo(t) == sector_no[cb[t]]

EvictWrite(t) ==
  /\ On /\ pc[t] = "evict_write"
  /\ disk' = [disk EXCEPT ![EvictedTo(t)] = data[cb[t]]]
  /\ Goto(t, "evict_done")
  /\ UNCHANGED <<call_vars, cb, next, block_vars, evict_lock, fs_lock, used, meta, written>>

\* The block stays in the list, under its old number and as dirty as it was.
EvictDone(t) ==
  /\ On /\ pc[t] = "evict_done"
  /\ evict_lock' = None
  /\ Goto(t, "rename")
  /\ UNCHANGED <<call_vars, cb, next, block_vars, fs_lock, disk_vars, written>>

\* cache_get makes it the block of another sector ...
Rename(t) ==
  /\ On /\ pc[t] = "rename"
  /\ sector_no' = [sector_no EXCEPT ![cb[t]] = want[t]]
  /\ Goto(t, "flags")
  /\ UNCHANGED <<call_vars, cb, next, cache_list, access, dirty, data, evict_lock, fs_lock,
                 disk_vars, written>>

Flags(t) ==
  /\ On /\ pc[t] = "flags"
  /\ access' = [access EXCEPT ![cb[t]] = TRUE]
  /\ dirty' = [dirty EXCEPT ![cb[t]] = writes[t]]
  /\ Goto(t, "fill")
  /\ UNCHANGED <<call_vars, cb, next, cache_list, sector_no, data, evict_lock, fs_lock,
                 disk_vars, written>>

\* ... and reads the sector.
Fill(t) ==
  /\ On /\ pc[t] = "fill"
  /\ data' = [data EXCEPT ![cb[t]] = disk[sector_no[cb[t]]]]
  /\ Goto(t, "copy")
  /\ UNCHANGED <<call_vars, cb, next, cache_list, sector_no, access, dirty, evict_lock,
                 fs_lock, disk_vars, written>>

\* inode_read_at and inode_write_at copy; the system call is over.
Copy(t) ==
  /\ On /\ pc[t] = "copy"
  /\ IF writes[t]
     THEN \E o \in Offsets, v \in Values :
            /\ data' = [data EXCEPT ![cb[t]][o] = v]
            /\ written' = [written EXCEPT ![want[t]][o] = v]
     ELSE UNCHANGED <<data, written>>
  /\ want' = [want EXCEPT ![t] = None]
  /\ cb' = [cb EXCEPT ![t] = None]
  /\ fs_lock' = IF t \in Unlocked THEN fs_lock ELSE None
  /\ Goto(t, "idle")
  /\ UNCHANGED <<writes, next, cache_list, sector_no, access, dirty, evict_lock, disk_vars>>

----------------------------------------------------------------------------
(***************************************************************************)
(* cache_write_to_disk, called by the daemon, and by filesys_done, which   *)
(* also removes the blocks.                                                *)
(***************************************************************************)

FlushStart(f) ==
  /\ On /\ pc[f] = "idle"
  /\ IF f = Daemon THEN WriteBack ELSE \A t \in Users : pc[t] = "idle"
  /\ cb' = [cb EXCEPT ![f] = IF cache_list = <<>> THEN None ELSE Head(cache_list)]
  /\ Goto(f, "flush")
  /\ UNCHANGED <<call_vars, next, block_vars, evict_lock, fs_lock, disk_vars, written>>

\* The head of the loop.
Flush(f) ==
  /\ On /\ pc[f] = "flush" /\ cb[f] \in ToSet(cache_list)
  /\ next' = [next EXCEPT ![f] = After(cb[f])]
  /\ Goto(f, IF dirty[cb[f]] THEN "flush_write" ELSE "flush_next")
  /\ UNCHANGED <<call_vars, cb, block_vars, evict_lock, fs_lock, disk_vars, written>>

FlushWrite(f) ==
  /\ On /\ pc[f] = "flush_write"
  /\ disk' = [disk EXCEPT ![sector_no[cb[f]]] = data[cb[f]]]
  /\ Goto(f, "flush_clear")
  /\ UNCHANGED <<call_vars, cb, next, block_vars, evict_lock, fs_lock, used, meta, written>>

FlushClear(f) ==
  /\ On /\ pc[f] = "flush_clear"
  /\ dirty' = [dirty EXCEPT ![cb[f]] = FALSE]
  /\ Goto(f, "flush_next")
  /\ UNCHANGED <<call_vars, cb, next, cache_list, sector_no, access, data, evict_lock, fs_lock,
                 disk_vars, written>>

\* Mutant of NextBlock: the loop ends before the last block.
NextBlockEnd(f) == IF next[f] # None /\ After(next[f]) = None THEN None ELSE next[f]

\* The block with which the loop goes on.
NextBlock(f) == next[f]

FlushNext(f) ==
  /\ On /\ pc[f] = "flush_next"
  /\ IF f = Halter
     THEN \E i \in DOMAIN cache_list :
            cache_list[i] = cb[f] /\ cache_list' = RemoveAt(cache_list, i)
     ELSE UNCHANGED cache_list
  /\ cb' = [cb EXCEPT ![f] = NextBlock(f)]
  /\ Goto(f, "flush")
  /\ UNCHANGED <<call_vars, next, sector_no, access, dirty, data, evict_lock, fs_lock,
                 disk_vars, written>>

\* The block has been freed by filesys_done while the daemon was on its way to
\* it, or slept in block_write: what the daemon finds there stops the kernel.
FlushFreed(f) ==
  /\ On /\ cb[f] # None /\ cb[f] \notin ToSet(cache_list)
  /\ pc' = [pc EXCEPT ![Halter] = "off"]
  /\ UNCHANGED <<call_vars, cb, next, block_vars, evict_lock, fs_lock, disk_vars, written>>

\* The daemon sleeps again; after filesys_done the machine is off.
FlushEnd(f) ==
  /\ On /\ pc[f] = "flush" /\ cb[f] = None
  /\ Goto(f, IF f = Daemon THEN "idle" ELSE "off")
  /\ UNCHANGED <<call_vars, cb, next, block_vars, evict_lock, fs_lock, disk_vars, written>>

----------------------------------------------------------------------------

DiskStep(t) == \E s \in Sectors : Extend(t, s) \/ WriteInode(t, s) \/ Release(t, s)

GetStep(t) ==
  \/ Lookup(t) \/ Hit(t) \/ New(t) \/ Push(t) \/ Evict(t) \/ Scan(t) \/ EvictWrite(t)
  \/ EvictDone(t) \/ Rename(t) \/ Flags(t) \/ Fill(t) \/ Copy(t)

FlushStep(f) ==
  \/ FlushStart(f) \/ Flush(f) \/ FlushWrite(f) \/ FlushClear(f) \/ FlushNext(f)
  \/ FlushFreed(f) \/ FlushEnd(f)

Off == ~On /\ UNCHANGED vars

Next ==
  \/ \E t \in Users : DiskStep(t) \/ GetStep(t) \/ \E s \in Sectors, w \in BOOLEAN : Begin(t, s, w)
  \/ \E f \in {Daemon, Halter} : FlushStep(f)
  \/ Off

Spec == Init /\ [][Next]_vars

\* The scheduler runs every ready thread again and again, the disk answers,
\* and the timer wakes the daemon.  Nothing makes a process read or write, or
\* the machine halt.
Fairness ==
  /\ \A t \in Users : WF_vars(GetStep(t))
  /\ WF_vars(FlushStep(Daemon))

LiveSpec == Spec /\ Fairness

----------------------------------------------------------------------------
(***************************************************************************)
(* Properties.                                                             *)
(***************************************************************************)

\* Type correctness; the cache is no larger than CACHE_SIZE.
TypeOK ==
  /\ pc \in [Threads -> {"idle", "off"} \cup GetPcs \cup FlushPcs]
  /\ want \in [Users -> Sectors \cup {None}]
  /\ writes \in [Users -> BOOLEAN]
  /\ cb \in [Threads -> Blocks \cup {None}]
  /\ next \in [{Daemon, Halter} -> Blocks \cup {None}]
  /\ cache_list \in Seq(Blocks) /\ Len(cache_list) =< CacheSize
  /\ sector_no \in [Blocks -> Sectors \cup {None}]
  /\ access \in [Blocks -> BOOLEAN]
  /\ dirty \in [Blocks -> BOOLEAN]
  /\ data \in [Blocks -> Data]
  /\ evict_lock \in Users \cup {None}
  /\ fs_lock \in Users \cup {None}
  /\ disk \in [Sectors -> Data]
  /\ used \subseteq Sectors /\ meta \subseteq Sectors
  /\ written \in [Sectors -> Data]

\* Whoever reads a sector, or changes a part of it, finds in the block what
\* was last written to that sector, however often the block has been evicted,
\* written back and read again since.
ReadsSeeWrites == \A t \in Users : pc[t] = "copy" => data[cb[t]] = written[want[t]]

\* An inode on the disk is never overwritten by a block of the cache.
MetaIntact == \A s \in meta : disk[s] = written[s]

\* When the machine is off, everything that was written is on the disk.
FlushedAtHalt == ~On => \A s \in used \cup meta : disk[s] = written[s]

\* cache_get, cache_evict and cache_write_to_disk: inodes are not mixed up
\* with data, and nothing is left in memory when the machine is turned off.
CacheIntact == TypeOK /\ MetaIntact /\ FlushedAtHalt

\* The block has been given to a sector and not yet been filled.
Filling(b) == \E t \in Users : cb[t] = b /\ pc[t] \in {"rename", "flags", "fill"}

\* A sector is in the cache once.
OneBlockPerSector ==
  \A i, j \in DOMAIN cache_list :
    /\ ~Filling(cache_list[i]) /\ ~Filling(cache_list[j])
    /\ sector_no[cache_list[i]] = sector_no[cache_list[j]]
    => i = j

\* The search for a block to evict ends.
EvictionEnds == \A t \in Users : pc[t] = "scan" ~> pc[t] = "copy"

\* The daemon cleans every dirty block in the end.
WriteBehind == \A b \in Blocks : On /\ dirty[b] ~> ~On \/ ~dirty[b]
=============================================================================
