------------------------------- MODULE MCInode -------------------------------
(* Small instances of Inode and Directory for TLC.  A behaviour is one of     *)
(*   - Inode with one file that grows to the maximal size: the CONSTANTS of   *)
(*     Inode, as the configuration gives them;                                *)
(*   - Inode with more names and openers, small files and halts: Few;         *)
(*   - Directory, with variables of its own.                                  *)
EXTENDS Inode, TLC

CONSTANTS
  FewNames, FewHandles, FewExecs, FewSectors,               \* Few
  FewSectorSize, FewMaxLength, FewInitLengths, FewMaxHalts, \* Few
  Procs, First, DirNames, DirSectors, DirHandles, DirCalls, DirWalks, MaxLeaks, \* Directory
  a, p1, p2                                                 \* a name and processes, for DirCalls

VARIABLES
  part,
  calls, dir_map, isdir, parent, dir_entry, open_cnt, removed, lock, cwd, fds, pc, call, path, dir,
  sector, dir_lock, leaked, broken

Few == INSTANCE Inode
         WITH Names <- FewNames, Handles <- FewHandles, Execs <- FewExecs, SectorCnt <- FewSectors,
              SectorSize <- FewSectorSize, MaxLength <- FewMaxLength,
              InitLengths <- FewInitLengths, MaxHalts <- FewMaxHalts

\* One process removes what the other makes, enters or opens; and two make
\* files and directories of the same name.
MCCalls == {({p1} \X {"remove"}) \cup ({p2} \X {"mkdir", "chdir"}),
            ({p1} \X {"mkdir", "remove"}) \cup ({p2} \X {"create", "open"}),
            ({p1} \X {"create", "remove"}) \cup ({p2} \X {"create", "mkdir"})}
MCWalks == {<<>>, <<a>>, <<".", "..">>}

Paths == INSTANCE Directory
           WITH Names <- DirNames, SectorCnt <- DirSectors, Handles <- DirHandles, Calls <- DirCalls,
                Walks <- DirWalks, free_map <- dir_map, entry <- dir_entry, fs_lock <- dir_lock

ASSUME PartsAssumption == Few!InodeAssumption /\ Paths!DirectoryAssumption

dirVars == <<calls, dir_map, isdir, parent, dir_entry, open_cnt, removed, lock, cwd, fds, pc, call,
             path, dir, sector, dir_lock, leaked, broken>>

\* Without an Inode, in a behaviour of Directory.
NoInode ==
  /\ free_map = {} /\ entry = {} /\ disk_inode = {} /\ pointers = {} /\ inodes = {} /\ files = {}
  /\ closing = {} /\ fs_lock = None /\ len = {} /\ creates = 0 /\ halts = 0

InitOne ==
  /\ \/ part = "growth" /\ Init
     \/ part = "files" /\ Few!Init
     \/ part = "paths" /\ NoInode
  /\ Paths!Init /\ (part # "paths" => calls = CHOOSE c \in DirCalls : TRUE)

NextOne ==
  \/ part = "growth" /\ Next /\ UNCHANGED <<part, dirVars>>
  \/ part = "files" /\ Few!Next /\ UNCHANGED <<part, dirVars>>
  \/ part = "paths" /\ Paths!Next /\ UNCHANGED <<part, vars>>

SpecOne == InitOne /\ [][NextOne]_<<part, vars, dirVars>>

\* Names are interchangeable, and so are the openers that run no program.
MCSymmetry == Permutations(FewNames) \cup Permutations(FewHandles \ FewExecs)
-----------------------------------------------------------------------------
\* A file that grows by any amounts through direct, indirect and double
\* indirect blocks, and is removed while open and while closed: its sectors are
\* its own, and all of them are given back.  Files that several openers open,
\* grow, remove and close, with the machine halted once, keep what was appended,
\* and no sector of theirs that can be reached is given back.
SectorsRight ==
  /\ part = "growth" => TypeOK /\ NothingShared /\ FreeMapExact
  /\ part = "files" => Few!LengthKept /\ Few!InUseMarked

\* Files that several openers open, grow, remove and close, and that processes
\* run, with the machine halted once: the inode that filesys_open and
\* inode_close share has exactly as many openers, and as many who deny writes, as
\* it counts.
InodesRight == part = "files" => Few!CountsExact

\* As long as a process runs a file, the file does not grow, whoever else had
\* it open before: file_deny_write and inode_write_at.
ExecutableFixed == [][part = "files" => Few!FileFixed]_<<part, vars>>

\* Whatever create, mkdir, remove, chdir and open do along each other's paths,
\* the names are a tree below the root, and what a process uses stays.
TreeRight == part = "paths" => Paths!TypeOK /\ Paths!TreeShape /\ Paths!Reachable /\ Paths!UsedStays

\* The counts of open inodes are right, no sector is lost, and two calls take
\* one sector only if one is mkdir, which takes no fs_lock.
NoneLost == part = "paths" => Paths!CountsRight /\ Paths!NoneLost /\ Paths!FilesGuarded
=============================================================================
