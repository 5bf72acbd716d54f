------------------------------- MODULE Inode -------------------------------
(***************************************************************************)
(* Inodes of prj4's filesys/inode.c with the free map, struct file's       *)
(* denial of writes, and one directory of names: which sectors a file has, *)
(* who has it open, and what of it is on the disk.                         *)
(*                                                                         *)
(* Contents of files are left out (BufferCache has them).  A system call   *)
(* with fs_lock is one action, but for the last inode_close of a file,     *)
(* which takes the inode off the list of open inodes before it sleeps in   *)
(* block_write.  process_exit closes the executable without fs_lock.       *)
(***************************************************************************)
EXTENDS Integers, FiniteSetsExt

CONSTANTS
  Names,      \* names in the root directory
  Handles,    \* struct files
  Execs,      \* those that are the executables of processes
  Unlocked,   \* those that are closed without fs_lock
  SectorCnt,  \* sectors of the disk
  SectorSize, \* BLOCK_SECTOR_SIZE
  Direct,     \* DIRECT_BLOCKS
  Indirect,   \* INDIRECT_BLOCKS
  Ptrs,       \* INDIRECT_BLOCK_PTRS
  MaxLength,  \* bound: no write ends beyond it
  MaxCreates, \* bound: so many calls of filesys_create
  InitLengths,\* the initial sizes given to filesys_create for a new file
  MaxHalts,   \* bound: so many calls of sys_halt while files are open
  None

Sectors == 0..SectorCnt - 1

\* struct file: its inode, on a sector, and deny_write.
OpenFiles == [sector : Sectors, deny_write : BOOLEAN]

InodeAssumption ==
  /\ Unlocked \subseteq Execs /\ Execs \subseteq Handles /\ IsFiniteSet(Handles)
  /\ {SectorCnt, SectorSize, Direct, Indirect, Ptrs} \subseteq Nat \ {0} /\ SectorCnt > 4
  /\ {MaxLength, MaxCreates, MaxHalts} \subseteq Nat /\ InitLengths \subseteq Nat
  /\ None \notin Nat \cup OpenFiles

ASSUME InodeConstants == InodeAssumption

\* FREE_MAP_SECTOR, ROOT_DIR_SECTOR, and one data sector of each.
Reserved == 0..3

DoubleIndex == Direct + Indirect    \* DOUBLE_INDIRECT_INDEX
MaxFileSize == SectorSize * (Direct + Indirect * Ptrs + Ptrs * Ptrs)

VARIABLES
  free_map,   \* the sectors marked in the bitmap
  entry,      \* the inode sector of each name, or None
  disk_inode, \* the inode on a sector of the disk, or None
  pointers,   \* the block pointers on a sector of the disk
  inodes,     \* the open inode of a sector, or NotOpen
  files,      \* the open files: inode sector and deny_write, or None
  closing,    \* the inode that a file's inode_close is about to write or to free
  fs_lock,    \* the file that is being closed with fs_lock, or None
  len,        \* history: the length of the file on an inode sector
  creates,    \* counts the calls of filesys_create
  halts       \* counts the calls of sys_halt

disk_vars == <<free_map, entry, disk_inode, pointers>>

vars == <<disk_vars, inodes, files, closing, fs_lock, len, creates, halts>>

\* What struct inode_disk and struct inode have in common, for an empty file.
Empty == [length |-> 0, ptr |-> [i \in 0..DoubleIndex |-> 0],
          direct_index |-> 0, indirect_index |-> 0, double_indirect_index |-> 0]

\* No inode of a sector is on open_inodes.
NotOpen == [d |-> None, open_cnt |-> 0, deny_write_cnt |-> 0, removed |-> FALSE]

NoPointers == [i \in 0..Ptrs - 1 |-> 0]

Init ==
  /\ free_map = Reserved
  /\ entry = [n \in Names |-> None]
  /\ disk_inode = [s \in Sectors |-> None]
  /\ pointers = [s \in Sectors |-> NoPointers]
  /\ inodes = [s \in Sectors |-> NotOpen]
  /\ files = [h \in Handles |-> None]
  /\ closing = [h \in Handles |-> None]
  /\ fs_lock = None
  /\ len = [s \in Sectors |-> 0]
  /\ creates = 0 /\ halts = 0

----------------------------------------------------------------------------
(***************************************************************************)
(* Lengths and sectors.                                                    *)
(***************************************************************************)

\* DIV_ROUND_UP.
CeilDiv(a, b) == (a + b - 1) \div b

\* bytes_to_data_sectors.
DataSectors(size) == CeilDiv(size, SectorSize)

\* bytes_to_indirect_sectors.
IndirectSectors(size) ==
  IF size =< SectorSize * Direct THEN 0
  ELSE CeilDiv(size - SectorSize * Direct, SectorSize * Ptrs)

\* bytes_to_double_indirect_sector.
HasDouble(size) == size > SectorSize * (Direct + Indirect * Ptrs)

\* byte_to_sector for the k-th block of the inode d: the blocks of pointers it
\* reads on the way, and the sector it returns.
Path(d, k) ==
  LET i == k - Direct
      j == i - Indirect * Ptrs
      indirect == d.ptr[IF j < 0 THEN Direct + i \div Ptrs ELSE DoubleIndex]
  IN IF i < 0 THEN {d.ptr[k]}
     ELSE IF j < 0 THEN {indirect, pointers[indirect][i % Ptrs]}
     ELSE {indirect, pointers[indirect][j \div Ptrs],
           pointers[pointers[indirect][j \div Ptrs]][j % Ptrs]}

(***************************************************************************)
(* inode_expand works on g: the free map, the inode d, the blocks of       *)
(* pointers and the inodes on the disk, and left, its new_data_sectors.    *)
(***************************************************************************)

\* Mutant of Allocated: the sector found is not marked before the next search.
AllocatedUnmarked(g, s) == IF Sectors \subseteq free_map THEN s ELSE Min(Sectors \ free_map)

\* free_map_allocate (1, &s) in g: the first free sector; on a full disk s is
\* still what it was.
Allocated(g, s) == IF Sectors \subseteq g.map THEN s ELSE Min(Sectors \ g.map)

\* g when zeros have been written to sector s.  A new block of pointers is
\* not zeroed, but what is not set in it is never read.
Zeroed(g, s) ==
  [g EXCEPT !.map = @ \cup {s}, !.pointers[s] = NoPointers, !.disk_inode[s] = None]

\* inode_expand's first loop, for one sector.
AddDirect(g) ==
  LET i == g.d.direct_index
      s == Allocated(g, g.d.ptr[i])
  IN [Zeroed(g, s) EXCEPT !.d.ptr[i] = s, !.d.direct_index = i + 1, !.left = @ - 1]

\* A block of pointers is full when i are set.
Full(i) == i = Ptrs

\* inode_expand_indirect_block, for one sector.  On a full disk the pointer to
\* the sector is the junk that the local variable block contains.
AddIndirect(g, junk) ==
  LET n == g.d.direct_index
      i == g.d.indirect_index
      new == i = 0
      block == IF new THEN Allocated(g, g.d.ptr[n]) ELSE g.d.ptr[n]
      g1 == IF new THEN Zeroed(g, block) ELSE g
      s == Allocated(g1, junk)
  IN [Zeroed(g1, s) EXCEPT
        !.pointers[block][i] = s,
        !.d.ptr[n] = block,
        !.d.indirect_index = IF Full(i + 1) THEN 0 ELSE i + 1,
        !.d.direct_index = IF Full(i + 1) THEN n + 1 ELSE n,
        !.left = @ - 1]

\* inode_expand_double_indirect_block_lvl_two, for one sector, with the block
\* outer of pointers.
AddLevelTwo(g, outer, junk) ==
  LET i == g.d.indirect_index
      j == g.d.double_indirect_index
      inner == IF j = 0 THEN Allocated(g, junk) ELSE g.pointers[outer][i]
      g1 == IF j = 0 THEN Zeroed(g, inner) ELSE g
      s == Allocated(g1, junk)
  IN [Zeroed(g1, s) EXCEPT
        !.pointers[inner][j] = s,
        !.pointers[outer][i] = inner,
        !.d.ptr[DoubleIndex] = outer,
        !.d.double_indirect_index = IF Full(j + 1) THEN 0 ELSE j + 1,
        !.d.indirect_index = IF Full(j + 1) THEN i + 1 ELSE i,
        !.left = @ - 1]

\* inode_expand_double_indirect_block, for one sector.
AddDouble(g, junk) ==
  IF g.d.indirect_index = 0 /\ g.d.double_indirect_index = 0
  THEN LET outer == Allocated(g, g.d.ptr[DoubleIndex]) IN AddLevelTwo(Zeroed(g, outer), outer, junk)
  ELSE AddLevelTwo(g, g.d.ptr[DoubleIndex], junk)

\* One data sector more; none when the double indirect block is full.
AddSector(g, junk) ==
  IF g.d.direct_index < Direct THEN AddDirect(g)
  ELSE IF g.d.direct_index < DoubleIndex THEN AddIndirect(g, junk)
  ELSE IF ~Full(g.d.indirect_index) THEN AddDouble(g, junk)
  ELSE g

\* inode_expand (d, new_length), where the sectors of map are in use; d gets
\* the length that inode_expand returns.
Expanded(d, new_length, map, junk) ==
  LET n == DataSectors(new_length) - DataSectors(d.length)
      g == [map |-> map, d |-> d, pointers |-> pointers, disk_inode |-> disk_inode, left |-> n]
      grown[k \in 0..n] == IF k = 0 THEN g ELSE AddSector(grown[k - 1], junk)
  IN [grown[n] EXCEPT !.d.length = new_length - grown[n].left * SectorSize]

\* The values of junk that have to be considered.
Junk == IF Cardinality(Sectors \ free_map) > DataSectors(MaxFileSize) THEN {0} ELSE Sectors

\* inode_dealloc_indirect_block (block, n).
IndirectReleased(block, n) == {block} \cup {pointers[block][i] : i \in 0..n - 1}

\* How many of the n data sectors left are in the next block of pointers.
DataPtrs(n) == Min({n, Ptrs})

\* The sectors that inode_dealloc releases.
Released(d) ==
  LET n == DataSectors(d.length)
      indirect == IndirectSectors(d.length)
      left(k) == n - Direct - k * Ptrs
      outer == d.ptr[DoubleIndex]
  IN {d.ptr[i] : i \in 0..Min({n, Direct}) - 1}
     \cup UNION {IndirectReleased(d.ptr[Direct + k], DataPtrs(left(k))) :
                   k \in 0..Min({indirect, Indirect}) - 1}
     \cup (IF HasDouble(d.length)
           THEN {outer} \cup
                UNION {IndirectReleased(pointers[outer][k], DataPtrs(left(Indirect + k))) :
                         k \in 0..indirect - Indirect - 1}
           ELSE {})

----------------------------------------------------------------------------
(***************************************************************************)
(* System calls.                                                           *)
(***************************************************************************)

\* inode_create on sector s.
Created(s, length, junk) ==
  LET size == Min({length, MaxFileSize})
      g == Expanded(Empty, size, free_map \cup {s}, junk)
  IN [g EXCEPT !.disk_inode[s] = [g.d EXCEPT !.length = size]]

\* filesys_create.  If the name exists, dir_add fails, and only the sector of
\* the inode is released; a file of size 0 has no other.
Create(n, length) ==
  /\ fs_lock = None
  /\ Sectors \ free_map # {}
  /\ creates < MaxCreates /\ creates' = creates + 1
  /\ length \in IF entry[n] = None THEN InitLengths ELSE {0}
  /\ \E junk \in Junk :
       LET s == Min(Sectors \ free_map)
           g == Created(s, length, junk)
       IN /\ free_map' = IF entry[n] = None THEN g.map ELSE g.map \ {s}
          /\ pointers' = g.pointers
          /\ disk_inode' = g.disk_inode
          /\ entry' = [entry EXCEPT ![n] = IF @ = None THEN s ELSE @]
          /\ len' = [len EXCEPT ![s] = g.disk_inode[s].length]
  /\ UNCHANGED <<inodes, files, closing, fs_lock, halts>>

\* Mutant of Opened: open_inodes is not searched.
OpenedAnew(s) == [d |-> disk_inode[s], open_cnt |-> 1, deny_write_cnt |-> 0, removed |-> FALSE]

\* inode_open: an inode that is open already, or the one on the disk.
Opened(s) ==
  IF inodes[s].open_cnt > 0 THEN [inodes[s] EXCEPT !.open_cnt = @ + 1]
  ELSE [d |-> disk_inode[s], open_cnt |-> 1, deny_write_cnt |-> 0, removed |-> FALSE]

\* filesys_open, by sys_open, or by load, whose parent has fs_lock in sys_exec
\* and which denies writes to the file.
Open(h, n) ==
  /\ fs_lock = None
  /\ files[h] = None /\ closing[h] = None
  /\ entry[n] # None
  /\ LET s == entry[n] IN
       /\ inodes' = [inodes EXCEPT ![s] =
                       [Opened(s) EXCEPT !.deny_write_cnt = IF h \in Execs THEN @ + 1 ELSE @]]
       /\ files' = [files EXCEPT ![h] = [sector |-> s, deny_write |-> h \in Execs]]
  /\ UNCHANGED <<disk_vars, closing, fs_lock, len, creates, halts>>

\* Mutant of MayWrite: writes are not denied.
MayAlwaysWrite(x) == TRUE

\* Writes to an open inode are not denied.
MayWrite(x) == x.deny_write_cnt = 0

\* inode_write_at with offset + size = new_length, beyond the end of the file;
\* other writes change none of the variables.
Write(h, new_length) ==
  /\ fs_lock = None
  /\ h \notin Execs /\ files[h] # None
  /\ LET s == files[h].sector
         x == inodes[s]
     IN /\ MayWrite(x) /\ new_length > x.d.length
        /\ \E junk \in Junk :
             LET g == Expanded(x.d, new_length, free_map, junk) IN
             /\ free_map' = g.map
             /\ pointers' = g.pointers
             /\ disk_inode' = g.disk_inode
             /\ inodes' = [inodes EXCEPT ![s].d = g.d]
        /\ len' = [len EXCEPT ![s] = Max({@, Min({new_length, MaxFileSize})})]
  /\ UNCHANGED <<entry, files, closing, fs_lock, creates, halts>>

\* dir_remove's inode_close is the last.
Unused(s) == inodes[s].open_cnt = 0

\* dir_remove opens the inode, marks it as removed and closes it, which
\* frees it if no one else has it open.
Remove(n) ==
  /\ fs_lock = None
  /\ entry[n] # None
  /\ entry' = [entry EXCEPT ![n] = None]
  /\ LET s == entry[n] IN
       IF Unused(s)
       THEN free_map' = free_map \ ({s} \cup Released(disk_inode[s])) /\ UNCHANGED inodes
       ELSE inodes' = [inodes EXCEPT ![s].removed = TRUE] /\ UNCHANGED free_map
  /\ UNCHANGED <<disk_inode, pointers, files, closing, fs_lock, len, creates, halts>>

\* deny_write_cnt after file_allow_write.
DenyCnt(f, x) == x.deny_write_cnt - IF f.deny_write THEN 1 ELSE 0

\* file_close, to the point where inode_close has taken the inode off
\* open_inodes: by sys_close, sys_exit, or process_exit for the executable.
Close(h) ==
  /\ files[h] # None /\ (h \in Unlocked \/ fs_lock = None)
  /\ files' = [files EXCEPT ![h] = None]
  /\ LET s == files[h].sector
         x == [inodes[s] EXCEPT !.open_cnt = @ - 1, !.deny_write_cnt = DenyCnt(files[h], inodes[s])]
         last == inodes[s].open_cnt = 1
     IN /\ inodes' = [inodes EXCEPT ![s] = IF last THEN NotOpen ELSE x]
        /\ closing' = [closing EXCEPT ![h] = IF last THEN [sector |-> s, x |-> x] ELSE None]
        /\ fs_lock' = IF last /\ h \notin Unlocked THEN h ELSE fs_lock
  /\ UNCHANGED <<disk_vars, len, creates, halts>>

\* The rest of inode_close.
CloseLast(h) ==
  /\ closing[h] # None
  /\ LET s == closing[h].sector
         x == closing[h].x
     IN IF x.removed
        THEN free_map' = free_map \ ({s} \cup Released(x.d)) /\ UNCHANGED disk_inode
        ELSE disk_inode' = [disk_inode EXCEPT ![s] = x.d] /\ UNCHANGED free_map
  /\ closing' = [closing EXCEPT ![h] = None]
  /\ fs_lock' = IF fs_lock = h THEN None ELSE fs_lock
  /\ UNCHANGED <<entry, pointers, inodes, files, len, creates, halts>>

\* sys_halt, filesys_done, and the next boot from the same disk.
Halt ==
  /\ halts < MaxHalts /\ halts' = halts + 1
  /\ inodes' = [s \in Sectors |-> NotOpen]
  /\ files' = [h \in Handles |-> None]
  /\ closing' = [h \in Handles |-> None]
  /\ fs_lock' = None
  /\ UNCHANGED <<disk_vars, len, creates>>

Next ==
  \/ \E n \in Names : Remove(n) \/ \E length \in InitLengths \cup {0} : Create(n, length)
  \/ \E h \in Handles :
       \/ \E n \in Names : Open(h, n)
       \/ \E new_length \in 1..MaxLength : Write(h, new_length)
       \/ Close(h)
       \/ CloseLast(h)
  \/ Halt

Spec == Init /\ [][Next]_vars

----------------------------------------------------------------------------
(***************************************************************************)
(* Properties.                                                             *)
(***************************************************************************)

DiskInodes ==
  [length : Nat, ptr : [0..DoubleIndex -> Sectors], direct_index : 0..DoubleIndex,
   indirect_index : 0..Ptrs, double_indirect_index : 0..Ptrs]

InodesOpen(counts) == [d : DiskInodes, open_cnt : counts, deny_write_cnt : Nat, removed : BOOLEAN]

\* Type correctness; the indexes of an inode stay in their blocks, and no
\* count becomes negative.
TypeOK ==
  /\ free_map \subseteq Sectors
  /\ entry \in [Names -> Sectors \cup {None}]
  /\ disk_inode \in [Sectors -> DiskInodes \cup {None}]
  /\ pointers \in [Sectors -> [0..Ptrs - 1 -> Sectors]]
  /\ inodes \in [Sectors -> InodesOpen(Nat \ {0}) \cup {NotOpen}]
  /\ files \in [Handles -> OpenFiles \cup {None}]
  /\ closing \in [Handles -> [sector : Sectors, x : InodesOpen({0})] \cup {None}]
  /\ fs_lock \in Handles \cup {None}
  /\ len \in [Sectors -> Nat]
  /\ creates \in 0..MaxCreates /\ halts \in 0..MaxHalts

Closing(s) == {h \in Handles : closing[h] # None /\ closing[h].sector = s}

\* The sectors of the inodes that have a name or are still in use.
Live ==
  {s \in Sectors : (\E n \in Names : entry[n] = s) \/ inodes[s].open_cnt > 0 \/ Closing(s) # {}}

\* The inode on sector s, in memory or on the disk.
Current(s) ==
  IF inodes[s].open_cnt > 0 THEN inodes[s].d
  ELSE IF Closing(s) # {} THEN closing[CHOOSE h \in Closing(s) : TRUE].x.d
  ELSE disk_inode[s]

\* What a file occupies: its inode, its data and the pointers that lead there.
Occupied(s) ==
  {s} \cup UNION {Path(Current(s), k) : k \in 0..DataSectors(Current(s).length) - 1}

\* As many sectors as the inode's length calls for.
SectorsOf(s) ==
  LET length == Current(s).length IN
  1 + DataSectors(length) + IndirectSectors(length) + (IF HasDouble(length) THEN 1 ELSE 0)

AllOccupied == Reserved \cup UNION {Occupied(s) : s \in Live}

\* However files have grown, no sector is used twice, within a file or by two
\* of them, with and without a name.
NothingShared ==
  Cardinality(AllOccupied) = Cardinality(Reserved) + MapThenSumSet(SectorsOf, Live)

\* The free map has exactly the sectors that are in use: none is lost and none
\* is given to another file as long as byte_to_sector can reach it, also when a
\* removed file grows before its last opener closes it.
FreeMapExact == free_map = AllOccupied

\* Also after a restart that lost what open files had not written to the disk,
\* and the removal of files that were open, no sector that can be reached is free.
InUseMarked == AllOccupied \subseteq free_map

\* Whoever opens a file, and whatever was closed in between, the file has the
\* length that the writes gave it: nothing that was appended is lost, as long as
\* the machine is not halted while files are open.
LengthKept == halts = 0 => \A s \in Live : Current(s).length = len[s]

\* open_cnt and deny_write_cnt are the numbers of files that stand for them:
\* a file is freed when the last opener has gone, and can be written when the
\* last process that runs it has exited.
CountsExact ==
  \A s \in Sectors :
    LET openers == {h \in Handles : files[h] # None /\ files[h].sector = s} IN
    /\ inodes[s].open_cnt = Cardinality(openers)
    /\ inodes[s].deny_write_cnt = Cardinality(openers \cap Execs)

\* A step in which no file that a process runs grows.
FileFixed ==
  \A h \in Execs : files[h] # None /\ files'[h] = files[h] =>
    inodes'[files[h].sector].d = inodes[files[h].sector].d
=============================================================================
