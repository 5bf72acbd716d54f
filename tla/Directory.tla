----------------------------- MODULE Directory -----------------------------
(***************************************************************************)
(* The tree of directories of prj4: filesys/filesys.c, directory.c, and    *)
(* the system calls mkdir and chdir, which do not take fs_lock, beside     *)
(* create, open, remove and close, which do.                               *)
(*                                                                         *)
(* A path is followed one component at a time, with the directory's        *)
(* inode lock for each look-up only.  dir_add and dir_remove keep the lock *)
(* from the look-up to the change.  inode_open and inode_close are atomic  *)
(* here (Inode looks into them), so are the contents of one entry.         *)
(*                                                                         *)
(* broken names what ends a behaviour: a panic, a regular file that is     *)
(* read as if it were a directory, or a sector that is taken twice, when   *)
(* bitmap_scan_and_flip is interrupted between its scan and its flip.      *)
(***************************************************************************)
EXTENDS Naturals, FiniteSets, Sequences, Functions

CONSTANTS
    Procs, First,   \* processes; the one that runs at the start
    Names,          \* file names other than "." and ".."
    SectorCnt,      \* inode sectors
    Handles,        \* file descriptors of a process
    Calls,          \* the values of calls that are looked at
    Walks,          \* bound: the components of a path before the last, sequences
    MaxLeaks,       \* bound: lost references to inodes
    None

DirectoryAssumption ==
    /\ First \in Procs
    /\ Walks \subseteq Seq(Names \cup {".", ".."})
    /\ Calls \subseteq SUBSET (Procs \X {"create", "mkdir", "open", "remove", "chdir"})
    /\ Names \cap {".", "..", ""} = {}
    /\ IsFiniteSet(Procs) /\ IsFiniteSet(Handles)
    /\ SectorCnt \in Nat \ {0} /\ MaxLeaks \in Nat
    /\ None \notin Nat \cup Procs
    /\ None \notin {"create", "mkdir", "open", "remove", "chdir"}
    /\ None \notin {"file as directory", "sector twice", "kernel fault"}

Sectors == 0..SectorCnt - 1
Root == 0                       \* ROOT_DIR_SECTOR

Tokens == Names \cup {".", ".."}

\* walk: the components before the last one.  last is "" for "/" and "".
Paths ==
    [abs : BOOLEAN, walk : Walks, last : Tokens]
        \cup [abs : BOOLEAN, walk : {<<>>}, last : {""}]

VARIABLES
    calls,          \* who makes which calls in a behaviour
    free_map,       \* the sectors in use
    isdir, parent,  \* of the inode of a sector
    entry,          \* the inode sector of a name in a directory, or None
    open_cnt, removed, lock,    \* of the open inode of a sector
    cwd,            \* of a process: a sector, or None
    fds,            \* of a process: what its handles have open
    pc, call, path, \* where a process is in which system call
    dir,            \* its struct dir
    sector,         \* its inode_sector
    fs_lock,
    leaked,         \* history: references to an inode that nobody has
    broken

disk == <<free_map, isdir, parent, entry>>
inodes == <<open_cnt, removed, lock>>
proc == <<cwd, fds, pc, call, path, dir, sector>>
vars == <<calls, disk, inodes, proc, fs_lock, leaked, broken>>

NoEntries == [n \in Names |-> None]

Init ==
    /\ calls \in Calls
    /\ free_map = {Root}
    /\ isdir = [s \in Sectors |-> s = Root]
    /\ parent = [s \in Sectors |-> Root]
    /\ entry = [s \in Sectors |-> NoEntries]
    /\ open_cnt = [s \in Sectors |-> 0]
    /\ removed = [s \in Sectors |-> FALSE]
    /\ lock = [s \in Sectors |-> None]
    /\ cwd = [p \in Procs |-> None]
    /\ fds = [p \in Procs |-> [h \in Handles |-> None]]
    /\ pc = [p \in Procs |-> IF p = First THEN "user" ELSE "new"]
    /\ call = [p \in Procs |-> None]
    /\ path = [p \in Procs |-> None]
    /\ dir = [p \in Procs |-> None]
    /\ sector = [p \in Procs |-> None]
    /\ fs_lock = None
    /\ leaked = [s \in Sectors |-> 0]
    /\ broken = None

-----------------------------------------------------------------------------
At(p, at) == broken = None /\ pc[p] = at
Goto(p, at) == pc' = [pc EXCEPT ![p] = at] /\ UNCHANGED <<call, path>>

\* The system call is over but for the dir_close of the containing directory.
Ends(p) ==
    /\ pc' = [pc EXCEPT ![p] = "close"]
    /\ call' = [call EXCEPT ![p] = None]
    /\ path' = [path EXCEPT ![p] = None]

Keep == UNCHANGED <<calls, broken>>

\* inode_open and inode_close as far as they count.
Opened(cnt, s) == IF s = None THEN cnt ELSE [cnt EXCEPT ![s] = @ + 1]
Closed(cnt, s) == IF s = None THEN cnt ELSE [cnt EXCEPT ![s] = @ - 1]

\* The open inodes after a step: the last inode_close of a removed inode gives
\* its sector back.
Inodes(cnt, rem) ==
    /\ open_cnt' = cnt
    /\ removed' = [s \in Sectors |-> rem[s] /\ cnt[s] > 0]
    /\ free_map' = free_map \ {s \in Sectors : rem[s] /\ cnt[s] = 0}

\* A reference to s is dropped without inode_close.
Leak(s) ==
    IF s = None THEN UNCHANGED leaked
    ELSE /\ FoldFunction(+, 0, leaked) < MaxLeaks
         /\ leaked' = [leaked EXCEPT ![s] = @ + 1]

\* The calls that hold fs_lock.
Serial(c) == c \in {"create", "open", "remove"}

\* A system call with a path: get_containing_dir up to its loop.
Call(p, c, pa) ==
    LET from == IF pa.abs \/ cwd[p] = None THEN Root ELSE cwd[p] IN
    /\ At(p, "user")
    /\ Serial(c) => fs_lock = None
    /\ c = "open" => pa.abs \/ pa.last # ""     \* filesys_open returns NULL for ""
    /\ fs_lock' = IF Serial(c) THEN p ELSE fs_lock
    /\ call' = [call EXCEPT ![p] = c]
    /\ path' = [path EXCEPT ![p] = [walk |-> pa.walk, last |-> pa.last]]
    /\ dir' = [dir EXCEPT ![p] = from]
    /\ Inodes(Opened(open_cnt, from), removed)
    /\ pc' = [pc EXCEPT ![p] = "walk"]
    /\ broken' = IF isdir[from] THEN None ELSE "file as directory"
    /\ UNCHANGED <<calls, isdir, parent, entry, lock, cwd, fds, sector, leaked>>

\* The sector that dir_lookup finds.  No entry has the name "", ".", or "..".
Found(p, token) == IF token \in Names THEN entry[dir[p]][token] ELSE None

\* Mutant of DirFree: the lock of the directory is not taken.
DirFreeAlways(p) == TRUE

\* The lock of the directory can be taken.
DirFree(p) == lock[dir[p]] = None

Onward(p) == path' = [path EXCEPT ![p].walk = Tail(@)] /\ UNCHANGED <<pc, call>>

\* One round of the loop of get_containing_dir.
Walk(p) ==
    LET token == Head(path[p].walk)
        next == IF token = ".." THEN parent[dir[p]] ELSE Found(p, token)
    IN  /\ At(p, "walk") /\ path[p].walk # <<>>
        /\ IF token = "." THEN Onward(p) /\ UNCHANGED <<dir, inodes, free_map, fs_lock, leaked>>
           ELSE /\ token = ".." \/ DirFree(p)
                /\ IF next = None       \* the struct dir is forgotten
                   THEN /\ Leak(dir[p])
                        /\ dir' = [dir EXCEPT ![p] = None]
                        /\ Ends(p)
                        /\ UNCHANGED <<inodes, free_map, fs_lock>>
                   ELSE /\ Onward(p)
                        /\ IF isdir[next]
                           THEN /\ dir' = [dir EXCEPT ![p] = next]
                                /\ Inodes(Closed(Opened(open_cnt, next), dir[p]), removed)
                           ELSE UNCHANGED <<dir, open_cnt, removed, free_map>>
                        /\ UNCHANGED <<lock, fs_lock, leaked>>
        /\ Keep /\ UNCHANGED <<isdir, parent, entry, cwd, fds, sector>>

\* The last component: what filesys_open and filesys_chdir do.
AtLast(p, c) == At(p, "walk") /\ path[p].walk = <<>> /\ call[p] = c

\* The directory itself, or None if the last component is something else.
Itself(p) == path[p].last = "." \/ (path[p].last = "" /\ dir[p] = Root)

\* What filesys_open and filesys_chdir get for another last component.
Target(p) == IF path[p].last = ".." THEN parent[dir[p]] ELSE Found(p, path[p].last)

\* sys_open: a new descriptor, of an inode opened by filesys_open or of dir.
Open(p, h) ==
    /\ AtLast(p, "open") /\ fds[p][h] = None
    /\ IF Itself(p)
       THEN /\ fds' = [fds EXCEPT ![p][h] = dir[p]]
            /\ dir' = [dir EXCEPT ![p] = None]
            /\ UNCHANGED <<inodes, free_map>>
       ELSE /\ path[p].last = ".." \/ DirFree(p)
            /\ fds' = [fds EXCEPT ![p][h] = Target(p)]
            /\ Inodes(Opened(open_cnt, Target(p)), removed)
            /\ UNCHANGED <<dir, lock>>
    /\ Ends(p)
    /\ Keep /\ UNCHANGED <<isdir, parent, entry, cwd, sector, fs_lock, leaked>>

\* filesys_chdir: to a file as well as to a directory.
Chdir(p) ==
    /\ AtLast(p, "chdir")
    /\ IF Itself(p)                     \* the old cwd is not closed
       THEN /\ Leak(cwd[p])
            /\ cwd' = [cwd EXCEPT ![p] = dir[p]]
            /\ dir' = [dir EXCEPT ![p] = None]
            /\ UNCHANGED <<inodes, free_map>>
       ELSE /\ path[p].last = ".." \/ DirFree(p)
            /\ IF Target(p) = None THEN UNCHANGED <<cwd, inodes, free_map>>
               ELSE /\ cwd' = [cwd EXCEPT ![p] = Target(p)]
                    /\ Inodes(Closed(Opened(open_cnt, Target(p)), cwd[p]), removed)
                    /\ UNCHANGED lock
            /\ UNCHANGED <<dir, leaked>>
    /\ Ends(p)
    /\ Keep /\ UNCHANGED <<isdir, parent, entry, fds, sector, fs_lock>>

\* bitmap_scan for create and mkdir.
Scan(p) ==
    /\ AtLast(p, "create") \/ AtLast(p, "mkdir")
    /\ IF path[p].last \in {".", ".."} \/ Sectors \subseteq free_map
       THEN Ends(p) /\ UNCHANGED sector
       ELSE /\ \E s \in Sectors \ free_map :
                  /\ \A t \in Sectors \ free_map : s <= t
                  /\ sector' = [sector EXCEPT ![p] = s]
            /\ Goto(p, "flip")
    /\ Keep /\ UNCHANGED <<disk, inodes, cwd, fds, dir, fs_lock, leaked>>

\* The flip, and inode_create.
Flip(p) ==
    LET s == sector[p] IN
    /\ At(p, "flip")
    /\ IF s \in free_map THEN broken' = "sector twice" /\ UNCHANGED <<disk, pc, call, path>>
       ELSE /\ free_map' = free_map \cup {s}
            /\ isdir' = [isdir EXCEPT ![s] = call[p] = "mkdir"]
            /\ parent' = [parent EXCEPT ![s] = Root]
            /\ entry' = [entry EXCEPT ![s] = NoEntries]
            /\ Goto(p, "add")
            /\ UNCHANGED broken
    /\ UNCHANGED <<calls, inodes, cwd, fds, dir, sector, fs_lock, leaked>>

\* The tests of dir_add.
NameFree(p) == path[p].last \in Names /\ entry[dir[p]][path[p].last] = None

\* Mutant of Recorded: inode_add_parent is left out.
RecordedNot(p) == parent

\* The parents after inode_add_parent.
Recorded(p) == [parent EXCEPT ![sector[p]] = dir[p]]

\* dir_add up to the search for a free slot, under the lock of the directory.
AddCheck(p) ==
    /\ At(p, "add") /\ DirFree(p)
    /\ IF NameFree(p)
       THEN /\ lock' = [lock EXCEPT ![dir[p]] = p]
            /\ parent' = Recorded(p)
            /\ Goto(p, "write")
       ELSE /\ Goto(p, "undo")
            /\ UNCHANGED <<lock, parent>>
    /\ Keep /\ UNCHANGED <<free_map, isdir, entry, open_cnt, removed, cwd, fds, dir, sector, fs_lock, leaked>>

\* The slot is written, and the lock released.
AddWrite(p) ==
    /\ At(p, "write")
    /\ entry' = [entry EXCEPT ![dir[p]][path[p].last] = sector[p]]
    /\ lock' = [lock EXCEPT ![dir[p]] = None]
    /\ sector' = [sector EXCEPT ![p] = None]
    /\ Ends(p)
    /\ Keep /\ UNCHANGED <<free_map, isdir, parent, open_cnt, removed, cwd, fds, dir, fs_lock, leaked>>

\* filesys_create has failed, and gives the sector of the inode back.
Undo(p) ==
    /\ At(p, "undo")
    /\ free_map' = free_map \ {sector[p]}
    /\ sector' = [sector EXCEPT ![p] = None]
    /\ Ends(p)
    /\ Keep /\ UNCHANGED <<isdir, parent, entry, inodes, cwd, fds, dir, fs_lock, leaked>>

\* The tests of dir_remove; the inode has just been opened.
Removable(c) == isdir[c] => open_cnt[c] + 1 <= 1 /\ entry[c] = NoEntries

\* dir_remove up to its tests, under the lock of the directory.
RemoveCheck(p) ==
    LET c == Found(p, path[p].last) IN
    /\ AtLast(p, "remove") /\ DirFree(p)
    /\ IF c # None /\ Removable(c)
       THEN /\ lock' = [lock EXCEPT ![dir[p]] = p]
            /\ sector' = [sector EXCEPT ![p] = c]
            /\ Inodes(Opened(open_cnt, c), removed)
            /\ Goto(p, "erase")
       ELSE /\ Ends(p)
            /\ UNCHANGED <<inodes, free_map, sector>>
    /\ Keep /\ UNCHANGED <<isdir, parent, entry, cwd, fds, dir, fs_lock, leaked>>

\* The entry is erased, the inode removed and closed, the lock released.
Erase(p) ==
    /\ At(p, "erase")
    /\ entry' = [entry EXCEPT ![dir[p]][path[p].last] = None]
    /\ Inodes(Closed(open_cnt, sector[p]), [removed EXCEPT ![sector[p]] = TRUE])
    /\ lock' = [lock EXCEPT ![dir[p]] = None]
    /\ sector' = [sector EXCEPT ![p] = None]
    /\ Ends(p)
    /\ Keep /\ UNCHANGED <<isdir, parent, cwd, fds, dir, fs_lock, leaked>>

\* dir_close of the containing directory, and the end of the system call.
Return(p) ==
    /\ At(p, "close")
    /\ Inodes(Closed(open_cnt, dir[p]), removed)
    /\ dir' = [dir EXCEPT ![p] = None]
    /\ fs_lock' = IF fs_lock = p THEN None ELSE fs_lock
    /\ Goto(p, "user")
    /\ Keep /\ UNCHANGED <<isdir, parent, entry, lock, cwd, fds, sector, leaked>>

\* sys_close and syscall_exit close fd->file, which sys_open leaves as malloc
\* returns it when it opens a directory: zero, so that the directory is never
\* closed, or what free has left there.
Close(p, h) ==
    LET s == fds[p][h] IN
    /\ At(p, "user") /\ fs_lock = None /\ s # None
    /\ IF isdir[s]
       THEN /\ \/ /\ Leak(s)
                  /\ fds' = [fds EXCEPT ![p][h] = None]
                  /\ broken' = None
               \/ broken' = "kernel fault" /\ UNCHANGED <<fds, leaked>>
            /\ UNCHANGED <<inodes, free_map>>
       ELSE /\ fds' = [fds EXCEPT ![p][h] = None]
            /\ Inodes(Closed(open_cnt, s), removed)
            /\ UNCHANGED <<lock, leaked, broken>>
    /\ UNCHANGED <<calls, isdir, parent, entry, cwd, pc, call, path, dir, sector, fs_lock>>

\* thread_create: the new process has the directory of its parent.
Exec(p, q) ==
    /\ At(p, "user") /\ pc[q] = "new" /\ fs_lock = None
    /\ cwd' = [cwd EXCEPT ![q] = cwd[p]]
    /\ Inodes(Opened(open_cnt, cwd[p]), removed)
    /\ Goto(q, "user")
    /\ Keep /\ UNCHANGED <<isdir, parent, entry, lock, fds, dir, sector, fs_lock, leaked>>

\* process_exit, its files closed: the directory of the process is not closed.
Exit(p) ==
    /\ At(p, "user") /\ \A h \in Handles : fds[p][h] = None
    /\ Leak(cwd[p])
    /\ cwd' = [cwd EXCEPT ![p] = None]
    /\ Goto(p, "dead")
    /\ Keep /\ UNCHANGED <<disk, inodes, fds, dir, sector, fs_lock>>

Next == \E p \in Procs :
    \/ \E c \in {"create", "mkdir", "open", "remove", "chdir"}, pa \in Paths :
          <<p, c>> \in calls /\ Call(p, c, pa)
    \/ Walk(p) \/ Chdir(p) \/ Scan(p) \/ Flip(p) \/ AddCheck(p) \/ AddWrite(p) \/ Undo(p)
    \/ RemoveCheck(p) \/ Erase(p) \/ Return(p) \/ Exit(p)
    \/ \E h \in Handles : Open(p, h) \/ Close(p, h)
    \/ \E q \in Procs : Exec(p, q)

Spec == Init /\ [][Next]_vars

-----------------------------------------------------------------------------
SectorOrNone == Sectors \cup {None}

TypeOK ==
    /\ free_map \subseteq Sectors /\ Root \in free_map
    /\ isdir \in [Sectors -> BOOLEAN] /\ isdir[Root]
    /\ parent \in [Sectors -> Sectors]
    /\ entry \in [Sectors -> [Names -> SectorOrNone]]
    /\ open_cnt \in [Sectors -> Nat]
    /\ lock \in [Sectors -> Procs \cup {None}]
    /\ cwd \in [Procs -> SectorOrNone] /\ dir \in [Procs -> SectorOrNone]
    /\ fds \in [Procs -> [Handles -> SectorOrNone]]

\* The names of the tree: pairs of a directory in use and a name in it.
Tree == {e \in Sectors \X Names :
            /\ e[1] \in free_map /\ isdir[e[1]]
            /\ entry[e[1]][e[2]] # None}

\* A sector that filesys_create has taken and not yet given a name.
Created(s) == \E p \in Procs : sector[p] = s /\ pc[p] # "erase"

\* The names form a tree: a name leads to a sector in use whose parent is the
\* directory it is in, and no two names lead to one sector.
TreeShape ==
    /\ \A e \in Tree : LET s == entry[e[1]][e[2]] IN
          s \in free_map \ {Root} /\ parent[s] = e[1]
    /\ \A e, f \in Tree : entry[e[1]][e[2]] = entry[f[1]][f[2]] => e = f

\* The root, and all that the names in these directories lead to, is in S.
ClosedUnderNames(S) == Root \in S /\ \A e \in Tree : e[1] \in S => entry[e[1]][e[2]] \in S

\* The sectors that names lead to from the root: the least such set.
Below == {s \in Sectors : \A S \in SUBSET Sectors : ClosedUnderNames(S) => s \in S}

\* No directory in use is cut off from the root, whatever is added and removed
\* along the paths that lead to it.
Reachable == \A s \in free_map : isdir[s] /\ ~Created(s) => s \in Below

\* A directory that a process works in, has open or is going through is never
\* removed under it, by whatever path another process names it.
UsedStays ==
    \A p \in Procs :
        \A s \in ({cwd[p], dir[p]} \cup {fds[p][h] : h \in Handles}) \ {None} :
            s \in free_map /\ (isdir[s] => ~removed[s])

\* The references to an inode that are in use.
References(s) ==
    Cardinality({p \in Procs : cwd[p] = s}) + Cardinality({p \in Procs : dir[p] = s})
        + Cardinality({x \in Procs \X Handles : fds[x[1]][x[2]] = s})
        + Cardinality({p \in Procs : pc[p] = "erase" /\ sector[p] = s})

\* The open count of an inode is the number of references to it, those that
\* the code has lost included: it is not freed under its users.
CountsRight == \A s \in Sectors : open_cnt[s] = References(s) + leaked[s]

\* Two calls take one sector only if one of them is mkdir, which does not hold
\* fs_lock.
FilesGuarded ==
    broken = "sector twice" =>
        \E p \in Procs :
            pc[p] = "flip" /\ sector[p] \in free_map /\ (call[p] = "mkdir" \/ isdir[sector[p]])

\* A sector in use has a name, is open, or is being created: none is lost.
NoneLost ==
    \A s \in free_map \ {Root} :
        \/ \E e \in Tree : entry[e[1]][e[2]] = s
        \/ open_cnt[s] > 0 \/ Created(s)
=============================================================================
