------------------------------- MODULE Paging -------------------------------
(***************************************************************************)
(* Virtual memory of prj3: supplemental page tables (vm/page.c), the frame *)
(* table and second-chance eviction (vm/frame.c), swap slots (vm/swap.c),  *)
(* the page fault handler (userprog/exception.c) and the system calls that *)
(* touch user memory, map files, start and end processes                   *)
(* (userprog/syscall.c, userprog/process.c).                               *)
(*                                                                         *)
(* A page is one cell that holds a value; a page belongs to one process    *)
(* and has a kind: "data" (a segment with bytes in the executable), "bss"  *)
(* (zeros), "stack" and "mmap".  An action is a piece of code between two  *)
(* points where another thread's step makes a difference.  The code of     *)
(* swap_out and swap_in, and file reads and writes under fs_lock, are      *)
(* single steps: they take no other lock inside.                           *)
(*                                                                         *)
(* broken names the first event after which the program's behaviour is no  *)
(* longer defined by this code; nothing happens in the model afterwards.   *)
(***************************************************************************)
EXTENDS Naturals, FiniteSets

CONSTANTS
    Procs,      \* processes
    First,      \* the process that runs at the start; the others are executed
    Pages,      \* user pages of all processes
    Owner,      \* Owner[g]: the process g belongs to
    Kinds,      \* Kinds[g]: what g may be: "data", "bss", "stack" or "mmap"
    Start,      \* Start[p]: the stack page set up when p is loaded
    Frames,     \* frames of the user pool
    Slots,      \* slots of the swap partition
    Values,     \* contents of a page
    Calls,      \* <<process, system call, page it is about>> the programs make
    Inputs,     \* values programs store and files read into a buffer hold
    Zero,
    None

ASSUME PagingAssumption ==
    /\ First \in Procs /\ Zero \in Values /\ Inputs \subseteq Values
    /\ Owner \in [Pages -> Procs]
    /\ Kinds \in [Pages -> SUBSET {"data", "bss", "stack", "mmap"}]
    /\ Start \in [Procs -> Pages]
    /\ \A p \in Procs : Kinds[Start[p]] = {"stack"} /\ Owner[Start[p]] = p
    /\ Calls \subseteq Procs \X {"read", "write", "exec", "mmap", "munmap"} \X Pages
    /\ \A c \in Calls : Owner[c[3]] = c[1]
    /\ Cardinality(Frames) > 0
    /\ None \notin Procs \cup Pages \cup Frames \cup Slots \cup Values
    /\ None \notin {"fault", "boot", "args", "buf"}

VARIABLES
    kind,       \* what each page is in this run of the system: never changes
    spt,        \* struct spt_entry of each page
    pte,        \* page directory entry of each page
    ft,         \* frame_table: the page of the entry of each frame
    pool,       \* free frames of the user pool
    mem,        \* contents of the frames
    file,       \* the file's bytes behind a data, bss or mmap page
    swap,       \* contents of the swap slots
    slots,      \* swap_bitmap: slots in use
    lock,       \* holders of frame_table_lock and fs_lock
    at,         \* where each process is in the code, with its local variables
    want,       \* history: the value each page ought to have
    torn,       \* history: pages stored to while they were being evicted
    broken

vars == <<kind, spt, pte, ft, pool, mem, file, swap, slots, lock, at, want, torn, broken>>
tables == <<spt, pte, ft, pool>>
stores == <<mem, file, swap, slots>>
history == <<want, torn>>

Absent == [present |-> FALSE, type |-> "FILE", loaded |-> FALSE,
           locked |-> FALSE, slot |-> None]
NoPte == [frame |-> None, acc |-> FALSE, dirty |-> FALSE]

\* The entry add_file_to_pt or add_mmap_to_pt makes for page g.
NewEntry(g) ==
    [Absent EXCEPT !.present = TRUE, !.type = IF kind[g] = "mmap" THEN "MMAP" ELSE "FILE"]

\* In user mode, before the first system call, or dead.
At(pc) == [pc |-> pc, page |-> None, then |-> None, frame |-> None, todo |-> {},
           victim |-> None, vpage |-> None, op |-> None, esp |-> None, buf |-> None]

Init ==
    \E f \in Frames :
        /\ kind \in [Pages -> {"data", "bss", "stack", "mmap"}]
        /\ \A g \in Pages : kind[g] \in Kinds[g]
        /\ spt = [g \in Pages |->
                    IF g = Start[First]
                    THEN [Absent EXCEPT !.present = TRUE, !.type = "SWAP",
                                        !.loaded = TRUE, !.locked = TRUE]
                    ELSE IF Owner[g] = First /\ kind[g] \in {"data", "bss"}
                    THEN NewEntry(g) ELSE Absent]
        /\ pte = [g \in Pages |->
                    IF g = Start[First] THEN [NoPte EXCEPT !.frame = f] ELSE NoPte]
        /\ ft = [x \in Frames |-> IF x = f THEN Start[First] ELSE None]
        /\ pool = Frames \ {f}
        /\ mem = [x \in Frames |-> Zero]
        /\ file = [g \in Pages |-> Zero]
        /\ swap = [s \in Slots |-> Zero]
        /\ slots = {}
        /\ lock = [l \in {"ft", "fs"} |-> None]
        /\ at = [p \in Procs |-> IF p = First THEN At("user") ELSE At("unborn")]
        /\ want = [g \in Pages |-> Zero]
        /\ torn = {}
        /\ broken = None

-----------------------------------------------------------------------------
Free(l) == lock[l] = None
Take(l, p) == lock' = [lock EXCEPT ![l] = p]
Release(l) == lock' = [lock EXCEPT ![l] = None]

Break(why) == broken' = why /\ UNCHANGED <<kind, tables, stores, lock, at, history>>

\* Process p is at pc; every step but Break keeps broken.
On(p, pc) == broken = None /\ at[p].pc = pc
Fine == UNCHANGED <<broken, kind>>

\* Some process has decided to drop the contents of frame of g, as they are.
Leaving(g) == \E q \in Procs : at[q].vpage = g /\ at[q].pc \in {"unload", "clear"}

\* The mapped page g is read, or value v is stored, through its user address.
Touch(g, v) ==
    IF v = None
    THEN /\ pte' = [pte EXCEPT ![g].acc = TRUE]
         /\ UNCHANGED <<mem, want, torn>>
    ELSE /\ pte' = [pte EXCEPT ![g].acc = TRUE, ![g].dirty = TRUE]
         /\ mem' = [mem EXCEPT ![pte[g].frame] = v]
         /\ want' = [want EXCEPT ![g] = v]
         /\ torn' = IF Leaving(g) THEN torn \cup {g} ELSE torn \ {g}

\* load_page of a page that is not in memory, and grow_stack, up to
\* frame_alloc.  then says what is done afterwards.
BeginLoad(p, g, then) ==
    /\ spt' = [spt EXCEPT ![g].locked = TRUE]
    /\ at' = [at EXCEPT ![p].pc = "get", ![p].page = g, ![p].then = then]

BeginGrow(p, g, then) ==
    /\ spt' = [spt EXCEPT ![g] = [Absent EXCEPT !.type = "SWAP", !.loaded = TRUE,
                                                !.locked = TRUE]]
    /\ at' = [at EXCEPT ![p].pc = "get", ![p].page = g, ![p].then = then]

Growing(g) == ~ spt[g].present

\* Either of the two, for a page that is not in memory.
Bring(p, g, then) ==
    \/ spt[g].present /\ ~ spt[g].loaded /\ BeginLoad(p, g, then)
    \/ ~ spt[g].present /\ kind[g] = "stack" /\ BeginGrow(p, g, then)

\* palloc_free_page overwrites the frame it frees.
PallocFree(f) == pool' = pool \cup {f} /\ mem' = [mem EXCEPT ![f] = Zero]

\* The contents of a page that is given up matter only for a mapped file.
Forget(g) ==
    IF kind[g] = "mmap" THEN UNCHANGED history
    ELSE want' = [want EXCEPT ![g] = Zero] /\ torn' = torn \ {g}

-----------------------------------------------------------------------------
\* User code reads or stores to a mapped page of its own.
Access(p) ==
    /\ On(p, "user")
    /\ \E g \in Pages, v \in Inputs \cup {None} :
          Owner[g] = p /\ pte[g].frame # None /\ Touch(g, v)
    /\ Fine /\ UNCHANGED <<spt, ft, pool, file, swap, slots, lock, at>>

\* page_fault: not-present faults of user code.
PageFault(p) ==
    /\ On(p, "user")
    /\ \E g \in Pages : Owner[g] = p /\ pte[g].frame = None /\ Bring(p, g, "fault")
    /\ Fine /\ UNCHANGED <<pte, ft, pool, stores, lock, history>>

\* frame_alloc: palloc_get_page, or else frame_evict.
GetFrame(p) ==
    /\ On(p, "get")
    /\ IF pool # {}
       THEN \E f \in pool :
               /\ pool' = pool \ {f}
               /\ at' = [at EXCEPT ![p].pc = "add", ![p].frame = f]
       ELSE at' = [at EXCEPT ![p].pc = "evict"] /\ UNCHANGED pool
    /\ Fine /\ UNCHANGED <<spt, pte, ft, stores, lock, history>>

\* Mutant of AddToTable: frame_add_to_ft returns with the lock held.
AddToTableKeeps(p) ==
    /\ On(p, "add") /\ Free("ft")
    /\ Take("ft", p)
    /\ ft' = [ft EXCEPT ![at[p].frame] = at[p].page]
    /\ at' = [at EXCEPT ![p].pc = "fill"]
    /\ Fine /\ UNCHANGED <<spt, pte, pool, stores, history>>

\* frame_add_to_ft.
AddToTable(p) ==
    /\ On(p, "add") /\ Free("ft")
    /\ ft' = [ft EXCEPT ![at[p].frame] = at[p].page]
    /\ at' = [at EXCEPT ![p].pc = "fill"]
    /\ Fine /\ UNCHANGED <<spt, pte, pool, stores, lock, history>>

\* load_page reads the file, under fs_lock.
ReadsFile(g) ==
    /\ spt[g].present /\ spt[g].type \in {"FILE", "MMAP"}
    /\ kind[g] \in {"data", "mmap"}

\* The code goes on after load_page or grow_stack, which do not fail here:
\* install_page finds the page unmapped (InstallSucceeds).
Resume(s) ==
    CASE s.then \in {"fault", "boot"} -> At("user")
      [] s.then = "args" -> [s EXCEPT !.pc = "args", !.page = None, !.then = None, !.frame = None]
      [] s.then = "buf"  -> [s EXCEPT !.pc = "copy", !.page = None, !.then = None, !.frame = None]

\* The slots in use after swap_in of slot s.
SwappedIn(s) == slots \ {s}

\* load_page and grow_stack from the frame on: the contents, install_page,
\* in_memory, hash_insert.  page_fault unlocks a page it has loaded.
Fill(p) ==
    LET g == at[p].page
        f == at[p].frame
        swapped == spt[g].present /\ spt[g].type = "SWAP"
    IN  /\ On(p, "fill")
        /\ ReadsFile(g) => Free("fs")
        /\ mem' = [mem EXCEPT ![f] = IF Growing(g) THEN @
                                     ELSE IF swapped THEN swap[spt[g].slot] ELSE file[g]]
        /\ want' = [want EXCEPT ![g] = IF Growing(g) THEN mem[f] ELSE @]
        /\ slots' = IF swapped THEN SwappedIn(spt[g].slot) ELSE slots
        /\ swap' = IF swapped THEN [swap EXCEPT ![spt[g].slot] = Zero] ELSE swap
        /\ pte' = [pte EXCEPT ![g] = [frame |-> f, acc |-> swapped, dirty |-> swapped]]
        /\ spt' = [spt EXCEPT ![g].loaded = TRUE, ![g].present = TRUE,
                              ![g].slot = None,
                              ![g].locked = Growing(g) \/ at[p].then # "fault"]
        /\ at' = [at EXCEPT ![p] = Resume(@)]
        /\ Fine /\ UNCHANGED <<ft, pool, file, lock, torn>>

-----------------------------------------------------------------------------
\* frame_evict takes the lock and starts to iterate.
Evict(p) ==
    /\ On(p, "evict") /\ Free("ft")
    /\ Take("ft", p)
    /\ at' = [at EXCEPT ![p].pc = "scan", ![p].todo = {f \in Frames : ft[f] # None}]
    /\ Fine /\ UNCHANGED <<tables, stores, history>>

\* The next entry: a locked page is skipped, an accessed one gets its second
\* chance.  No later step looks at locked again.
Scan(p) ==
    /\ On(p, "scan")
    /\ \E f \in at[p].todo :
          LET g == ft[f] IN
          IF spt[g].locked \/ pte[g].acc
          THEN /\ pte' = IF spt[g].locked THEN pte ELSE [pte EXCEPT ![g].acc = FALSE]
               /\ at' = [at EXCEPT ![p].todo = @ \ {f}]
          ELSE /\ at' = [at EXCEPT ![p].pc = "out", ![p].todo = {},
                                   ![p].victim = f, ![p].vpage = g]
               /\ UNCHANGED pte
    /\ Fine /\ UNCHANGED <<spt, ft, pool, stores, lock, history>>

\* No entry is left: nothing is returned, and frame_alloc tries again.
NothingToEvict(p) ==
    /\ On(p, "scan") /\ at[p].todo = {}
    /\ Release("ft")
    /\ at' = [at EXCEPT ![p].pc = "evict"]
    /\ Fine /\ UNCHANGED <<tables, stores, history>>

\* Mutant of Outgoing: only what came from swap goes back to swap.
OutgoingSwap(g) == spt[g].type = "SWAP"

Outgoing(g) == pte[g].dirty \/ spt[g].type = "SWAP"

\* The contents go to the mapped file, to a swap slot, or nowhere.
PageOut(p) ==
    LET g == at[p].vpage
        f == at[p].victim
    IN  /\ On(p, "out")
        /\ \/ ~ Outgoing(g) /\ UNCHANGED <<spt, file, swap, slots>>
           \/ /\ Outgoing(g) /\ spt[g].type = "MMAP" /\ Free("fs")
              /\ file' = [file EXCEPT ![g] = mem[f]]
              /\ UNCHANGED <<spt, swap, slots>>
           \/ /\ Outgoing(g) /\ spt[g].type # "MMAP"
              /\ \E s \in Slots \ slots :
                    /\ slots' = slots \cup {s}
                    /\ swap' = [swap EXCEPT ![s] = mem[f]]
                    /\ spt' = [spt EXCEPT ![g].type = "SWAP", ![g].slot = s]
              /\ UNCHANGED file
        /\ at' = [at EXCEPT ![p].pc = "unload"]
        /\ Fine /\ UNCHANGED <<pte, ft, pool, mem, lock, history>>

\* in_memory = false; hash_delete.
Unload(p) ==
    /\ On(p, "unload")
    /\ spt' = [spt EXCEPT ![at[p].vpage].loaded = FALSE]
    /\ ft' = [ft EXCEPT ![at[p].victim] = None]
    /\ at' = [at EXCEPT ![p].pc = "clear"]
    /\ Fine /\ UNCHANGED <<pte, pool, stores, lock, history>>

\* Mutant of Clear: the page directory keeps the mapping.
ClearNot(p) ==
    /\ On(p, "clear")
    /\ spt[at[p].vpage].present
    /\ PallocFree(at[p].victim)
    /\ at' = [at EXCEPT ![p].pc = "reget", ![p].victim = None, ![p].vpage = None]
    /\ Fine /\ UNCHANGED <<spt, pte, ft, file, swap, slots, lock, history>>

\* pagedir_clear_page, palloc_free_page.  The entry is still needed here.
Clear(p) ==
    LET g == at[p].vpage IN
    /\ On(p, "clear")
    /\ spt[g].present
    /\ pte' = [pte EXCEPT ![g] = IF spt[g].type = "MMAP" THEN [@ EXCEPT !.frame = None]
                                ELSE NoPte]
    /\ PallocFree(at[p].victim)
    /\ at' = [at EXCEPT ![p].pc = "reget", ![p].victim = None, ![p].vpage = None]
    /\ Fine /\ UNCHANGED <<spt, ft, file, swap, slots, lock, history>>

\* palloc_get_page again; frame_alloc releases the lock and loops on NULL.
Reget(p) ==
    /\ On(p, "reget")
    /\ Release("ft")
    /\ \/ pool = {} /\ at' = [at EXCEPT ![p].pc = "evict", ![p].todo = {}] /\ UNCHANGED pool
       \/ \E f \in pool :
             /\ pool' = pool \ {f}
             /\ at' = [at EXCEPT ![p].pc = "add", ![p].frame = f, ![p].todo = {}]
    /\ Fine /\ UNCHANGED <<spt, pte, ft, stores, history>>

-----------------------------------------------------------------------------
\* syscall_handler: copy_in calls load_page for the page of esp, which locks
\* it also when it is in memory.  The number of processes is the bound on exec.
Syscall(p) ==
    /\ On(p, "user")
    /\ \E g \in Pages, c \in Calls :
          /\ Owner[g] = p /\ kind[g] = "stack" /\ c[1] = p
          /\ c[2] \in {"mmap", "munmap"} => kind[c[3]] = "mmap"
          /\ c[2] = "exec" => \E q \in Procs : at[q].pc = "unborn"
          /\ LET s == [at[p] EXCEPT !.op = c[2], !.esp = g, !.buf = c[3]] IN
             IF spt[g].present /\ spt[g].loaded
             THEN /\ spt' = [spt EXCEPT ![g].locked = TRUE]
                  /\ at' = [at EXCEPT ![p] = [s EXCEPT !.pc = "args"]]
             ELSE LET t == [s EXCEPT !.pc = "get", !.page = g, !.then = "args"] IN
                  /\ at' = [at EXCEPT ![p] = t]
                  /\ spt' = [spt EXCEPT ![g] =
                               IF spt[g].present THEN [@ EXCEPT !.locked = TRUE]
                               ELSE [Absent EXCEPT !.type = "SWAP", !.loaded = TRUE,
                                                   !.locked = TRUE]]
    /\ Fine /\ UNCHANGED <<pte, ft, pool, stores, lock, history>>

\* get_user: the arguments are read; an unmapped page ends the process.
CopyIn(p) ==
    /\ On(p, "args")
    /\ IF pte[at[p].esp].frame # None
       THEN /\ Touch(at[p].esp, None)
            /\ at' = [at EXCEPT ![p].pc = "call"]
       ELSE /\ at' = [at EXCEPT ![p] = [At("exit") EXCEPT !.op = "exit"]]
            /\ UNCHANGED <<pte, mem, want, torn>>
    /\ Fine /\ UNCHANGED <<spt, ft, pool, file, swap, slots, lock>>

\* The handler unlocks the page of esp at its end.
Unpin(p) == spt' = [spt EXCEPT ![at[p].esp].locked = FALSE]

\* sys_read, sys_write: lock_acquire (&fs_lock), verify_user.
Verify(p) ==
    /\ On(p, "call") /\ at[p].op \in {"read", "write"} /\ Free("fs")
    /\ Take("fs", p)
    /\ LET b == at[p].buf IN
       \/ spt[b].present /\ spt[b].loaded
          /\ at' = [at EXCEPT ![p].pc = "copy"] /\ UNCHANGED spt
       \/ Bring(p, b, "buf")
       \/ ~ spt[b].present /\ kind[b] # "stack"
          /\ at' = [at EXCEPT ![p].pc = "refuse"] /\ UNCHANGED spt
    /\ Fine /\ UNCHANGED <<pte, ft, pool, stores, history>>

\* file_read stores to, file_write reads, the buffer; lock_release.
Copy(p) ==
    LET b == at[p].buf IN
    /\ On(p, "copy")
    /\ pte[b].frame # None
    /\ IF at[p].op = "read" THEN \E v \in Inputs : Touch(b, v) ELSE Touch(b, None)
    /\ Release("fs") /\ Unpin(p)
    /\ at' = [at EXCEPT ![p] = At("user")]
    /\ Fine /\ UNCHANGED <<ft, pool, file, swap, slots>>

\* verify_user failed: the lock is released and the process exits.
Refuse(p) ==
    /\ On(p, "refuse")
    /\ Release("fs")
    /\ at' = [at EXCEPT ![p] = [At("exit") EXCEPT !.op = "exit"]]
    /\ Fine /\ UNCHANGED <<tables, stores, history>>

\* sys_exec: copy_in_string, then process_execute with fs_lock held.
\* The new thread loads the program: load_segment, setup_stack.
Exec(p) ==
    /\ On(p, "call") /\ at[p].op = "exec"
    /\ IF pte[at[p].buf].frame = None
       THEN /\ at' = [at EXCEPT ![p] = [At("exit") EXCEPT !.op = "exit"]]
            /\ UNCHANGED <<spt, lock>>
       ELSE /\ Free("fs") /\ Take("fs", p)
            /\ \E c \in Procs :
                  /\ at[c].pc = "unborn"
                  /\ at' = [at EXCEPT ![p].pc = "load_done", ![p].buf = c,
                                      ![c].pc = "get", ![c].page = Start[c],
                                      ![c].then = "boot"]
                  /\ spt' = [g \in Pages |->
                       IF g = Start[c] THEN [Absent EXCEPT !.type = "SWAP", !.loaded = TRUE,
                                                           !.locked = TRUE]
                       ELSE IF Owner[g] = c /\ kind[g] \in {"data", "bss"} THEN NewEntry(g)
                       ELSE spt[g]]
    /\ Fine /\ UNCHANGED <<pte, ft, pool, stores, history>>

\* sema_down (&exec.load_done) returns once the child has its stack.
ExecReturns(p) ==
    /\ On(p, "load_done") /\ at[at[p].buf].then # "boot"
    /\ Release("fs") /\ Unpin(p)
    /\ at' = [at EXCEPT ![p] = At("user")]
    /\ Fine /\ UNCHANGED <<pte, ft, pool, stores, history>>

\* sys_mmap of a page that is not in the table yet.
Mmap(p) ==
    LET b == at[p].buf IN
    /\ On(p, "call") /\ at[p].op = "mmap"
    /\ spt' = [spt EXCEPT ![b] = IF spt[b].present THEN @ ELSE NewEntry(b),
                          ![at[p].esp].locked = FALSE]
    /\ at' = [at EXCEPT ![p] = At("user")]
    /\ Fine /\ UNCHANGED <<pte, ft, pool, stores, lock, history>>

\* sys_munmap starts.
Munmap(p) ==
    /\ On(p, "call") /\ at[p].op = "munmap"
    /\ at' = [at EXCEPT ![p].pc = "exit"]
    /\ Fine /\ UNCHANGED <<tables, stores, lock, history>>

-----------------------------------------------------------------------------
\* sys_exit, or the process is killed: process_exit.
Exit(p) ==
    /\ On(p, "user")
    /\ at' = [at EXCEPT ![p] = [At("exit") EXCEPT !.op = "exit"]]
    /\ Fine /\ UNCHANGED <<tables, stores, lock, history>>

\* The pages munmap or process_exit has left to give up: mapped files first.
Left(p) ==
    LET all == {g \in Pages : spt[g].present /\ Owner[g] = p}
        maps == {g \in all : spt[g].type = "MMAP"}
    IN  IF at[p].op = "munmap" THEN maps \cap {at[p].buf}
        ELSE IF maps # {} THEN maps ELSE all

\* The page given up has a frame to free.
HasFrame(g) == spt[g].loaded

\* sys_munmap locks the page and writes it when dirty; page_destroy_action
\* does not.  Both look at in_memory.
Drop(p) ==
    /\ On(p, "exit")
    /\ \E g \in Left(p) :
          \/ /\ ~ HasFrame(g)
             /\ spt' = [spt EXCEPT ![g] = Absent]
             /\ Forget(g)
             /\ UNCHANGED at
          \/ /\ HasFrame(g)
             /\ spt' = [spt EXCEPT ![g].locked = @ \/ spt[g].type = "MMAP"]
             /\ at' = [at EXCEPT ![p].pc = IF spt[g].type = "MMAP" THEN "save" ELSE "lookup",
                                 ![p].page = g]
             /\ UNCHANGED history
    /\ Fine /\ UNCHANGED <<pte, ft, pool, stores, lock>>

Save(p) ==
    LET g == at[p].page IN
    /\ On(p, "save")
    /\ pte[g].dirty => Free("fs") /\ pte[g].frame # None
    /\ file' = IF pte[g].dirty THEN [file EXCEPT ![g] = mem[pte[g].frame]] ELSE file
    /\ at' = [at EXCEPT ![p].pc = "lookup"]
    /\ Fine /\ UNCHANGED <<tables, mem, swap, slots, lock, history>>

\* The frame is looked up here and freed after the lock has been waited for.
Lookup(p) ==
    /\ On(p, "lookup")
    /\ at' = [at EXCEPT ![p].pc = "free", ![p].frame = pte[at[p].page].frame]
    /\ Fine /\ UNCHANGED <<tables, stores, lock, history>>

\* frame_free, pagedir_clear_page, free of the entry.
FreeFrame(p) ==
    LET g == at[p].page
        f == at[p].frame
        found == f # None /\ ft[f] # None
    IN  /\ On(p, "free") /\ Free("ft")
        /\ found => ft[f] = g
        /\ ft' = IF found THEN [ft EXCEPT ![f] = None] ELSE ft
        /\ IF found THEN PallocFree(f) ELSE UNCHANGED <<pool, mem>>
        /\ pte' = [pte EXCEPT ![g] = NoPte]
        /\ spt' = [spt EXCEPT ![g] = Absent]
        /\ Forget(g)
        /\ at' = [at EXCEPT ![p].pc = "exit", ![p].page = None, ![p].frame = None]
        /\ Fine /\ UNCHANGED <<file, swap, slots, lock>>

\* munmap returns; an exiting process gives up its page directory.
Dropped(p) ==
    /\ On(p, "exit") /\ Left(p) = {}
    /\ \/ /\ at[p].op = "munmap" /\ Unpin(p)
          /\ at' = [at EXCEPT ![p] = At("user")]
       \/ /\ at[p].op = "exit" /\ UNCHANGED spt
          /\ at' = [at EXCEPT ![p] = At("dead")]
    /\ Fine /\ UNCHANGED <<pte, ft, pool, stores, lock, history>>

-----------------------------------------------------------------------------
\* What ends the defined behaviour.

\* lock_acquire asserts that the caller does not hold the lock: load_page and
\* frame_evict take fs_lock under sys_read and sys_write, which hold it.
Reacquires(p) ==
    /\ lock["fs"] = p
    /\ \/ On(p, "fill") /\ ReadsFile(at[p].page)
       \/ On(p, "out") /\ Outgoing(at[p].vpage) /\ spt[at[p].vpage].type = "MMAP"
    /\ Break("reacquired")

\* swap_out: "No free space in swap partition!"
SwapFull(p) ==
    /\ On(p, "out") /\ slots = Slots
    /\ Outgoing(at[p].vpage) /\ spt[at[p].vpage].type # "MMAP"
    /\ Break("swap full")

\* The kernel touches the buffer, or the mapped page it saves, after it has
\* been evicted: page_fault continues at the address in eax.
KernelFault(p) ==
    /\ \/ On(p, "copy") /\ pte[at[p].buf].frame = None
       \/ On(p, "save") /\ pte[at[p].page].dirty /\ pte[at[p].page].frame = None
    /\ Break("kernel fault")

\* The evictor uses the entry of a page its owner has freed.
UsesFreed(p) ==
    /\ On(p, "clear") /\ ~ spt[at[p].vpage].present
    /\ Break("entry freed")

\* frame_free finds the frame in the table, for another page.
FreesOther(p) ==
    /\ On(p, "free") /\ Free("ft")
    /\ at[p].frame # None /\ ft[at[p].frame] \notin {None, at[p].page}
    /\ Break("frame of another page freed")

Undefined(p) ==
    \/ Reacquires(p) \/ SwapFull(p) \/ KernelFault(p) \/ UsesFreed(p) \/ FreesOther(p)

User(p) == Access(p) \/ PageFault(p) \/ Syscall(p) \/ Exit(p)
Alloc(p) == GetFrame(p) \/ AddToTable(p) \/ Fill(p)
Eviction(p) == \/ Evict(p) \/ Scan(p) \/ NothingToEvict(p) \/ PageOut(p)
               \/ Unload(p) \/ Clear(p) \/ Reget(p)
Call(p) == \/ CopyIn(p) \/ Verify(p) \/ Copy(p) \/ Refuse(p) \/ Exec(p)
           \/ ExecReturns(p) \/ Mmap(p) \/ Munmap(p)
Ending(p) == Drop(p) \/ Save(p) \/ Lookup(p) \/ FreeFrame(p) \/ Dropped(p)

Next == \E p \in Procs :
    User(p) \/ Alloc(p) \/ Eviction(p) \/ Call(p) \/ Ending(p) \/ Undefined(p)

Spec == Init /\ [][Next]_vars

-----------------------------------------------------------------------------
PageState == [present : BOOLEAN, type : {"FILE", "MMAP", "SWAP"}, loaded : BOOLEAN,
              locked : BOOLEAN, slot : Slots \cup {None}]

TypeOK ==
    /\ spt \in [Pages -> PageState]
    /\ pte \in [Pages -> [frame : Frames \cup {None}, acc : BOOLEAN, dirty : BOOLEAN]]
    /\ ft \in [Frames -> Pages \cup {None}]
    /\ pool \subseteq Frames
    /\ mem \in [Frames -> Values] /\ file \in [Pages -> Values]
    /\ swap \in [Slots -> Values] /\ slots \subseteq Slots
    /\ lock \in [{"ft", "fs"} -> Procs \cup {None}]
    /\ want \in [Pages -> Values] /\ torn \subseteq Pages

\* Processes that hold frame f: it is on its way into the table.
Holders(f) == {p \in Procs : at[p].frame = f /\ at[p].pc = "add"}
              \cup {p \in Procs : at[p].victim = f /\ at[p].pc = "clear"}

\* Every frame is in exactly one place: free, in the table, or in the hands
\* of one process; a mapped page has a frame that no other page maps, that is
\* not free and that the table, if it has an entry, has for this page.
FramesExclusive ==
    /\ \A f \in Frames :
          Cardinality(Holders(f)) + (IF f \in pool THEN 1 ELSE 0)
             + (IF ft[f] # None THEN 1 ELSE 0) = 1
    /\ \A g \in Pages : pte[g].frame # None =>
          LET f == pte[g].frame IN
          /\ f \notin pool
          /\ ft[f] \in {None, g}
          /\ \A h \in Pages \ {g} : pte[h].frame # f

\* No two pages share a swap slot, the bitmap has every slot a page is in, a
\* page that is out has one, and a slot in use without a page is the loss of a
\* process that ended with pages out.
SlotsExact ==
    /\ \A g \in Pages : spt[g].slot # None => spt[g].slot \in slots
    /\ \A g, h \in Pages : spt[g].slot # None /\ spt[g].slot = spt[h].slot => g = h
    /\ \A g \in Pages : spt[g].present /\ spt[g].type = "SWAP" /\ ~ spt[g].loaded
                           => spt[g].slot # None
    /\ \A s \in slots : \/ \E g \in Pages : spt[g].slot = s
                        \/ \E p \in Procs : at[p].op = "exit" \/ at[p].pc = "dead"

\* A page has the value last stored to it, wherever its contents are: in its
\* frame, in its swap slot, in its file.  Excepted are the pages stored to
\* after the evictor has made its copy.
StoresKept ==
    \A g \in Pages \ torn :
        /\ spt[g].present /\ pte[g].frame # None => mem[pte[g].frame] = want[g]
        /\ spt[g].present /\ pte[g].frame = None
              => IF spt[g].slot # None THEN swap[spt[g].slot] = want[g]
                                       ELSE file[g] = want[g]
        /\ ~ spt[g].present /\ kind[g] = "mmap" => file[g] = want[g]

\* The processes p waits for: the holder of the lock it needs, or its child.
WaitsFor(p) ==
    LET s == at[p] IN
    (CASE s.pc \in {"add", "evict", "free"} -> {lock["ft"]}
       [] s.pc = "fill" /\ ReadsFile(s.page) -> {lock["fs"]}
       [] s.pc = "out" /\ Outgoing(s.vpage) /\ spt[s.vpage].type = "MMAP" -> {lock["fs"]}
       [] s.pc = "save" /\ pte[s.page].dirty -> {lock["fs"]}
       [] s.pc = "call" /\ s.op \in {"read", "write", "exec"} -> {lock["fs"]}
       [] s.pc = "load_done" /\ at[s.buf].then = "boot" -> {s.buf}
       [] OTHER -> {}) \ {None, p}

Waiting == {p \in Procs : WaitsFor(p) # {}}

\* Processes wait for one another in a circle only when one of them evicts a
\* dirty page of a mapped file.
OnlyMmapDeadlocks ==
    \A S \in SUBSET Waiting :
        S # {} /\ (\A p \in S : WaitsFor(p) \cap S # {}) /\ Cardinality(S) > 1
            => \E p \in S : at[p].pc = "out" /\ spt[at[p].vpage].type = "MMAP"

\* load_page and grow_stack find their page unmapped: an evictor that has
\* declared a page gone clears its mapping before the owner, who may load the
\* page from then on, gets a frame.
InstallSucceeds ==
    \A p \in Procs : at[p].pc = "fill" => pte[at[p].page].frame = None

\* What a process cannot come back from: two locks in a cycle, an install
\* that fails.
NeverStuck == OnlyMmapDeadlocks /\ InstallSucceeds

\* An evictor that has not declared its page gone works on an entry that
\* exists, and on the frame the table has for it.
VictimLives ==
    \A p \in Procs : at[p].pc \in {"out", "unload"} =>
        /\ spt[at[p].vpage].present
        /\ ft[at[p].victim] = at[p].vpage

\* Frames, swap slots and page table entries: a frame holds one page, a slot
\* too, and eviction takes a frame only from a page that may lose it.
FramesRight == TypeOK /\ FramesExclusive /\ SlotsExact /\ VictimLives

=============================================================================
