------------------------------ MODULE Process ------------------------------
(***************************************************************************)
(* exec, wait and exit of prj4's userprog/process.c, called through        *)
(* userprog/syscall.c, with the struct wait_status that parent and child   *)
(* share, the struct exec_info of a start, and fs_lock.                    *)
(*                                                                         *)
(* Processes interleave at every step: each action is what one thread does *)
(* between two points where another may see or change what it shares.      *)
(* Semaphores and locks are taken as Synch shows them to be: sema_down     *)
(* waits for a positive value, and a lock has one holder.                  *)
(***************************************************************************)
EXTENDS Integers, FiniteSets

CONSTANTS
  Procs,    \* process threads, the initial thread included
  Main,     \* the initial thread, which runs run_actions
  Codes,    \* exit codes passed to exit
  MaxFds,   \* bound: the open files of a process
  None

ASSUME ProcessConstants ==
  /\ Main \in Procs
  /\ None \notin Procs /\ None \notin Int
  /\ Codes \subseteq Int
  /\ MaxFds \in Nat

VARIABLES
  pc,          \* where a process is
  parent,      \* the process whose exec_info start_process was given
  children,    \* struct thread's children: the processes listed (order is not used)
  fds,         \* number of open files
  bin_file,    \* struct thread's bin_file is not null
  load_done,   \* exec_info's semaphore, by the process that executes exec
  success,     \* exec_info's success, by the process that executes exec
  ws,          \* a process's wait_status: "none", "live" or "freed"
  ref_cnt,     \* its ref_cnt
  exit_code,   \* its exit_code
  dead,        \* the value of its semaphore dead
  cs_lock,     \* the holder of its lock
  cs,          \* the process whose wait_status a process is using
  new_ref_cnt, \* release_child's local variable
  exiting,     \* process_exit has notified the parent
  answer,      \* the value process_wait read for a process, or None
  fs_lock      \* the holder of fs_lock

exec_vars == <<parent, load_done, success>>
ws_vars == <<ws, ref_cnt, exit_code, dead, cs_lock>>
file_vars == <<fds, bin_file, fs_lock>>
local_vars == <<cs, new_ref_cnt, exiting, answer>>
vars == <<pc, children, exec_vars, ws_vars, file_vars, local_vars>>

\* The program points of release_child.
RelPcs == {"rel_acquire", "rel_dec", "rel_unlock", "rel_free"}
Pcs == {"none", "load", "loaded", "user", "fs", "dir", "exec", "exec_create",
        "exec_down", "exec_up", "wait_down", "wait_code", "exit", "exit_close",
        "exit_notify", "exit_children", "exit_fds", "exit_fs", "dead"} \cup RelPcs

Init ==
  /\ pc = [p \in Procs |-> IF p = Main THEN "user" ELSE "none"]
  /\ parent = [p \in Procs |-> None]
  /\ children = [p \in Procs |-> {}]
  /\ fds = [p \in Procs |-> 0]
  /\ bin_file = [p \in Procs |-> FALSE]
  /\ load_done = [p \in Procs |-> 0]
  /\ success = [p \in Procs |-> FALSE]
  /\ ws = [p \in Procs |-> "none"]
  /\ ref_cnt = [p \in Procs |-> 0]
  /\ exit_code = [p \in Procs |-> -1]
  /\ dead = [p \in Procs |-> 0]
  /\ cs_lock = [p \in Procs |-> None]
  /\ cs = [p \in Procs |-> None]
  /\ new_ref_cnt = [p \in Procs |-> 0]
  /\ exiting = [p \in Procs |-> FALSE]
  /\ answer = [p \in Procs |-> None]
  /\ fs_lock = None

Goto(p, at) == pc' = [pc EXCEPT ![p] = at]

AcquireFs(p) == fs_lock = None /\ fs_lock' = p
ReleaseFs(p) == fs_lock = p /\ fs_lock' = None

(***************************************************************************)
(* Files.                                                                  *)
(***************************************************************************)

\* A system call that serializes on fs_lock enters the file system.
FsEnter(p) ==
  /\ pc[p] = "user" /\ p # Main
  /\ AcquireFs(p) /\ Goto(p, "fs")
  /\ UNCHANGED <<children, exec_vars, ws_vars, fds, bin_file, local_vars>>

\* It leaves: the file descriptors are as before (read, write, seek, create,
\* remove, ... ), or one more (open) or one less (close).
FsLeave(p) ==
  /\ pc[p] = "fs"
  /\ \E n \in 0..MaxFds : n - fds[p] \in {-1, 0, 1} /\ fds' = [fds EXCEPT ![p] = n]
  /\ ReleaseFs(p) /\ Goto(p, "user")
  /\ UNCHANGED <<children, exec_vars, ws_vars, bin_file, local_vars>>

\* chdir, mkdir and readdir enter the file system without fs_lock.
DirEnter(p) ==
  /\ pc[p] = "user" /\ p # Main
  /\ Goto(p, "dir")
  /\ UNCHANGED <<children, exec_vars, ws_vars, file_vars, local_vars>>

DirLeave(p) ==
  /\ pc[p] = "dir"
  /\ Goto(p, "user")
  /\ UNCHANGED <<children, exec_vars, ws_vars, file_vars, local_vars>>

(***************************************************************************)
(* exec.                                                                   *)
(***************************************************************************)

\* Mutant of ExecLocks: sys_exec does not take fs_lock.
ExecLocksNot(p) == FALSE

\* sys_exec calls process_execute with fs_lock, run_task without.
ExecLocks(p) == p # Main

\* process_execute is called.  The initial thread waits for a process before
\* it starts the next one.
Exec(p) ==
  /\ pc[p] = "user"
  /\ p = Main => children[p] = {}
  /\ IF ExecLocks(p) THEN AcquireFs(p) ELSE UNCHANGED fs_lock
  /\ load_done' = [load_done EXCEPT ![p] = 0]
  /\ Goto(p, "exec_create")
  /\ UNCHANGED <<children, parent, success, ws_vars, fds, bin_file, local_vars>>

\* thread_create makes the thread c, which starts in start_process.
ExecCreate(p, c) ==
  /\ pc[p] = "exec_create" /\ pc[c] = "none"
  /\ parent' = [parent EXCEPT ![c] = p]
  /\ cs' = [cs EXCEPT ![p] = c]
  /\ pc' = [pc EXCEPT ![p] = "exec_down", ![c] = "load"]
  /\ UNCHANGED <<children, load_done, success, ws_vars, file_vars,
                 new_ref_cnt, exiting, answer>>

\* thread_create returns TID_ERROR.
ExecFail(p) ==
  /\ pc[p] = "exec_create"
  /\ Goto(p, "exec_up")
  /\ UNCHANGED <<children, exec_vars, ws_vars, file_vars, local_vars>>

\* start_process fails in load, with or without the file opened, or in malloc.
LoadFail(c) ==
  /\ pc[c] = "load"
  /\ \E open \in BOOLEAN : bin_file' = [bin_file EXCEPT ![c] = open]
  /\ success' = [success EXCEPT ![parent[c]] = FALSE]
  /\ Goto(c, "loaded")
  /\ UNCHANGED <<children, parent, load_done, ws_vars, fds, fs_lock, local_vars>>

\* Mutant of InitialRefs: the child's own reference is not counted.
InitialRefsParent == 1

\* Parent and child each have a reference.
InitialRefs == 2

\* Mutant of InitialDead: the semaphore as thread.h's comment describes it.
InitialDeadAlive == 1

\* The initial value of the semaphore dead.
InitialDead == 0

\* start_process loads the program and makes the wait_status.
Load(c) ==
  /\ pc[c] = "load"
  /\ bin_file' = [bin_file EXCEPT ![c] = TRUE]
  /\ ws' = [ws EXCEPT ![c] = "live"]
  /\ ref_cnt' = [ref_cnt EXCEPT ![c] = InitialRefs]
  /\ exit_code' = [exit_code EXCEPT ![c] = -1]
  /\ dead' = [dead EXCEPT ![c] = InitialDead]
  /\ cs_lock' = [cs_lock EXCEPT ![c] = None]
  /\ success' = [success EXCEPT ![parent[c]] = TRUE]
  /\ Goto(c, "loaded")
  /\ UNCHANGED <<children, parent, load_done, fds, fs_lock, local_vars>>

\* The semaphores load_done after start_process has upped its parent's.
LoadDone(c) == [load_done EXCEPT ![parent[c]] = @ + 1]

\* start_process notifies the parent; the user program runs, or the thread exits.
LoadNotify(c) ==
  /\ pc[c] = "loaded"
  /\ load_done' = LoadDone(c)
  /\ Goto(c, IF success[parent[c]] THEN "user" ELSE "exit")
  /\ UNCHANGED <<children, parent, success, ws_vars, file_vars, local_vars>>

\* The parent goes on: a child that was started enters the list of children.
ExecDown(p) ==
  /\ pc[p] = "exec_down" /\ load_done[p] > 0
  /\ load_done' = [load_done EXCEPT ![p] = @ - 1]
  /\ children' = IF success[p] THEN [children EXCEPT ![p] = @ \cup {cs[p]}]
                 ELSE children
  /\ cs' = [cs EXCEPT ![p] = None]
  /\ Goto(p, "exec_up")
  /\ UNCHANGED <<parent, success, ws_vars, file_vars, new_ref_cnt, exiting, answer>>

\* sys_exec releases fs_lock and returns; run_task just goes on.
ExecUp(p) ==
  /\ pc[p] = "exec_up"
  /\ IF ExecLocks(p) THEN ReleaseFs(p) ELSE UNCHANGED fs_lock
  /\ Goto(p, "user")
  /\ UNCHANGED <<children, exec_vars, ws_vars, fds, bin_file, local_vars>>

(***************************************************************************)
(* wait.                                                                   *)
(***************************************************************************)

\* process_wait finds c in the list of children and takes it out.  (For a
\* process that is not in the list it returns -1 and changes nothing.)
Wait(p, c) ==
  /\ pc[p] = "user" /\ c \in children[p]
  /\ children' = [children EXCEPT ![p] = @ \ {c}]
  /\ cs' = [cs EXCEPT ![p] = c]
  /\ Goto(p, "wait_down")
  /\ UNCHANGED <<exec_vars, ws_vars, file_vars, new_ref_cnt, exiting, answer>>

WaitDown(p) ==
  /\ pc[p] = "wait_down" /\ dead[cs[p]] > 0
  /\ dead' = [dead EXCEPT ![cs[p]] = @ - 1]
  /\ Goto(p, "wait_code")
  /\ UNCHANGED <<children, exec_vars, ws, ref_cnt, exit_code, cs_lock, file_vars, local_vars>>

WaitCode(p) ==
  /\ pc[p] = "wait_code"
  /\ answer' = [answer EXCEPT ![cs[p]] = exit_code[cs[p]]]
  /\ Goto(p, "rel_acquire")
  /\ UNCHANGED <<children, exec_vars, ws_vars, file_vars, cs, new_ref_cnt, exiting>>

(***************************************************************************)
(* release_child (cs[p]).                                                  *)
(***************************************************************************)

RelAcquire(p) ==
  /\ pc[p] = "rel_acquire" /\ cs_lock[cs[p]] = None
  /\ cs_lock' = [cs_lock EXCEPT ![cs[p]] = p]
  /\ Goto(p, "rel_dec")
  /\ UNCHANGED <<children, exec_vars, ws, ref_cnt, exit_code, dead, file_vars, local_vars>>

RelDec(p) ==
  /\ pc[p] = "rel_dec"
  /\ ref_cnt' = [ref_cnt EXCEPT ![cs[p]] = @ - 1]
  /\ new_ref_cnt' = [new_ref_cnt EXCEPT ![p] = ref_cnt[cs[p]] - 1]
  /\ Goto(p, "rel_unlock")
  /\ UNCHANGED <<children, exec_vars, ws, exit_code, dead, cs_lock, file_vars,
                 cs, exiting, answer>>

RelUnlock(p) ==
  /\ pc[p] = "rel_unlock"
  /\ cs_lock' = [cs_lock EXCEPT ![cs[p]] = None]
  /\ Goto(p, "rel_free")
  /\ UNCHANGED <<children, exec_vars, ws, ref_cnt, exit_code, dead, file_vars, local_vars>>

\* The last reference is gone: free, and return to process_wait's or
\* process_exit's code.
RelFree(p) ==
  /\ pc[p] = "rel_free"
  /\ ws' = IF new_ref_cnt[p] = 0 THEN [ws EXCEPT ![cs[p]] = "freed"] ELSE ws
  /\ cs' = [cs EXCEPT ![p] = None]
  /\ Goto(p, IF exiting[p] THEN "exit_children" ELSE "user")
  /\ UNCHANGED <<children, exec_vars, ref_cnt, exit_code, dead, cs_lock, file_vars,
                 new_ref_cnt, exiting, answer>>

(***************************************************************************)
(* exit.                                                                   *)
(***************************************************************************)

\* sys_exit.
Exit(p, code) ==
  /\ pc[p] = "user" /\ p # Main
  /\ exit_code' = [exit_code EXCEPT ![p] = code]
  /\ Goto(p, "exit")
  /\ UNCHANGED <<children, exec_vars, ws, ref_cnt, dead, cs_lock, file_vars, local_vars>>

\* thread_exit after a page fault or a bad argument of a system call, and
\* the end of the initial thread's actions.
Kill(p) ==
  /\ pc[p] = "user"
  /\ p = Main => children[p] = {}
  /\ Goto(p, "exit")
  /\ UNCHANGED <<children, exec_vars, ws_vars, file_vars, local_vars>>

\* process_exit calls file_close on the executable, without fs_lock; on a
\* null pointer it does nothing.
ExitOpen(p) ==
  /\ pc[p] = "exit"
  /\ Goto(p, IF bin_file[p] THEN "exit_close" ELSE "exit_notify")
  /\ UNCHANGED <<children, exec_vars, ws_vars, file_vars, local_vars>>

ExitClose(p) ==
  /\ pc[p] = "exit_close"
  /\ bin_file' = [bin_file EXCEPT ![p] = FALSE]
  /\ Goto(p, "exit_notify")
  /\ UNCHANGED <<children, exec_vars, ws_vars, fds, fs_lock, local_vars>>

\* Mutant of Notified: the parent is only notified by a call of exit.
NotifiedByExit(p) == [dead EXCEPT ![p] = IF exit_code[p] = -1 THEN @ ELSE @ + 1]

\* The semaphores dead after process_exit has upped the one of p.
Notified(p) == [dead EXCEPT ![p] = @ + 1]

\* process_exit notifies the parent and releases its own wait_status, when it
\* has one.
ExitNotify(p) ==
  /\ pc[p] = "exit_notify"
  /\ exiting' = [exiting EXCEPT ![p] = TRUE]
  /\ IF ws[p] = "none"
     THEN Goto(p, "exit_children") /\ UNCHANGED <<dead, cs>>
     ELSE /\ dead' = Notified(p)
          /\ cs' = [cs EXCEPT ![p] = p]
          /\ Goto(p, "rel_acquire")
  /\ UNCHANGED <<children, exec_vars, ws, ref_cnt, exit_code, cs_lock, file_vars,
                 new_ref_cnt, answer>>

\* Mutant of Orphans: an exiting process forgets its children.
OrphansNone(p) == {}

\* The children whose wait_status process_exit still has to release.
Orphans(p) == children[p]

ExitChildren(p) ==
  /\ pc[p] = "exit_children"
  /\ IF Orphans(p) = {}
     THEN Goto(p, "exit_fds") /\ UNCHANGED <<children, cs>>
     ELSE \E c \in Orphans(p) :
            /\ children' = [children EXCEPT ![p] = @ \ {c}]
            /\ cs' = [cs EXCEPT ![p] = c]
            /\ Goto(p, "rel_acquire")
  /\ UNCHANGED <<exec_vars, ws_vars, file_vars, new_ref_cnt, exiting, answer>>

\* syscall_exit closes the open files one by one, each with fs_lock; when none
\* is left the thread ends.
ExitFds(p) ==
  /\ pc[p] = "exit_fds"
  /\ IF fds[p] = 0 THEN Goto(p, "dead") /\ UNCHANGED fs_lock
     ELSE Goto(p, "exit_fs") /\ AcquireFs(p)
  /\ UNCHANGED <<children, exec_vars, ws_vars, fds, bin_file, local_vars>>

ExitFs(p) ==
  /\ pc[p] = "exit_fs"
  /\ fds' = [fds EXCEPT ![p] = @ - 1]
  /\ ReleaseFs(p) /\ Goto(p, "exit_fds")
  /\ UNCHANGED <<children, exec_vars, ws_vars, bin_file, local_vars>>

----------------------------------------------------------------------------

FileStep(p) == FsEnter(p) \/ FsLeave(p) \/ DirEnter(p) \/ DirLeave(p)

ExecStep(p) ==
  \/ Exec(p) \/ ExecFail(p) \/ ExecDown(p) \/ ExecUp(p)
  \/ \E c \in Procs : ExecCreate(p, c)

StartStep(p) == LoadFail(p) \/ Load(p) \/ LoadNotify(p)

WaitStep(p) == WaitDown(p) \/ WaitCode(p) \/ \E c \in Procs : Wait(p, c)

RelStep(p) == RelAcquire(p) \/ RelDec(p) \/ RelUnlock(p) \/ RelFree(p)

ExitStep(p) ==
  \/ ExitOpen(p) \/ ExitClose(p) \/ ExitNotify(p) \/ ExitChildren(p)
  \/ ExitFds(p) \/ ExitFs(p) \/ Kill(p) \/ \E code \in Codes : Exit(p, code)

Step(p) == FileStep(p) \/ ExecStep(p) \/ StartStep(p) \/ WaitStep(p) \/ RelStep(p) \/ ExitStep(p)

\* Nothing is left to do.
Ended == (\A p \in Procs : pc[p] \in {"none", "dead"}) /\ UNCHANGED vars

Next == Ended \/ \E p \in Procs : Step(p)

Spec == Init /\ [][Next]_vars

\* Every process has PRI_DEFAULT, so that the scheduler's round robin gives
\* each of them the CPU again and again.  What a user program does next, and
\* when, is its own affair: "user" has no fairness.
Fairness ==
  \A p \in Procs :
    WF_vars(pc[p] # "user" /\ Step(p))

LiveSpec == Spec /\ Fairness

(***************************************************************************)
(* Properties.                                                             *)
(***************************************************************************)

\* Type correctness.
TypeOK ==
  /\ pc \in [Procs -> Pcs]
  /\ parent \in [Procs -> Procs \cup {None}]
  /\ children \in [Procs -> SUBSET Procs]
  /\ fds \in [Procs -> 0..MaxFds]
  /\ bin_file \in [Procs -> BOOLEAN]
  /\ load_done \in [Procs -> 0..1]
  /\ success \in [Procs -> BOOLEAN]
  /\ ws \in [Procs -> {"none", "live", "freed"}]
  /\ ref_cnt \in [Procs -> 0..2]
  /\ exit_code \in [Procs -> Codes \cup {-1}]
  /\ dead \in [Procs -> 0..1]
  /\ cs_lock \in [Procs -> Procs \cup {None}]
  /\ cs \in [Procs -> Procs \cup {None}]
  /\ new_ref_cnt \in [Procs -> 0..2]
  /\ exiting \in [Procs -> BOOLEAN]
  /\ answer \in [Procs -> Codes \cup {-1, None}]
  /\ fs_lock \in Procs \cup {None}

\* The process c has not given back its own reference to its wait_status.
OwnRef(c) == ~exiting[c] \/ (cs[c] = c /\ pc[c] \in {"rel_acquire", "rel_dec"})

\* The process p, another one, has a reference to c's wait_status that it has
\* not given back.
ParentRef(p, c) ==
  \/ c \in children[p]
  \/ cs[p] = c /\ pc[p] \in {"exec_down", "wait_down", "wait_code", "rel_acquire", "rel_dec"}

\* The thread p has counted the last reference to c's wait_status down and is
\* going to free it.
Freeing(p, c) == cs[p] = c /\ pc[p] \in {"rel_unlock", "rel_free"} /\ new_ref_cnt[p] = 0

\* ref_cnt counts the references of release_child's two callers, in every
\* interleaving of the two: the wait_status is allocated exactly while one of
\* them has a reference or the last one is freeing it.
RefsCounted ==
  \A c \in Procs : ws[c] # "none" =>
    /\ ref_cnt[c] = (IF OwnRef(c) THEN 1 ELSE 0)
                      + (IF ParentRef(parent[c], c) THEN 1 ELSE 0)
    /\ ws[c] = "live" <=> (ref_cnt[c] > 0 \/ \E p \in Procs : Freeing(p, c))

\* A thread that is going to touch a wait_status (process_wait, process_exit,
\* release_child, the list of children) or to free it finds it allocated.
NoUseAfterFree ==
  \A p \in Procs :
    /\ \A c \in children[p] : ws[c] = "live"
    /\ pc[p] \in {"wait_down", "wait_code", "rel_acquire", "rel_dec", "rel_unlock"} =>
         ws[cs[p]] = "live"
    /\ pc[p] = "rel_free" /\ new_ref_cnt[p] = 0 => ws[cs[p]] = "live"
    /\ pc[p] \in {"user", "exit", "exit_close", "exit_notify"} => ws[p] # "freed"

\* Whoever ends first, and waited for or not, the wait_status is freed once
\* both the process and its parent have ended.
AllFreed ==
  \A c \in Procs :
    parent[c] # None /\ pc[c] = "dead" /\ pc[parent[c]] = "dead" => ws[c] # "live"

\* While a process loads its program on behalf of sys_exec, its parent holds
\* fs_lock for it.
LoadGuarded ==
  \A c \in Procs : pc[c] = "load" /\ parent[c] # Main => fs_lock = parent[c]

\* c has ended as far as its parent can tell.
Exited(c) == ws[c] # "none" /\ exiting[c]

\* Starts, ends and answers, as userprog.texi has them.
Starters == [c \in Procs |-> IF ws[c] # "none" THEN parent[c] ELSE None]
Fates == [c \in Procs |-> IF Exited(c) THEN exit_code[c] ELSE None]

Promise == INSTANCE WaitSpec WITH starter <- Starters, fate <- Fates

\* exec, exit and wait implement WaitSpec: every answer is the code of a child
\* that has ended, goes to the process that started it, and comes once.
ImplementsWait == Promise!Spec

\* A wait for a process that is ending, or has ended, returns.
WaitReturns ==
  \A p \in Procs :
    (pc[p] = "wait_down" /\ (pc[cs[p]] = "exit" \/ exiting[cs[p]])) ~> pc[p] = "user"

\* exec returns, whether the program can be loaded or not.
ExecReturns == \A p \in Procs : pc[p] = "exec_create" ~> pc[p] = "user"
=============================================================================
