--------------------------- MODULE ProcessProofs ---------------------------
(***************************************************************************)
(* Proofs about Process for every set of processes, exit codes and bound   *)
(* on open files.                                                          *)
(***************************************************************************)
EXTENDS Process, TLAPS

\* The program points at which a process uses a wait_status through cs.
CsPcs == {"exec_down", "wait_down", "wait_code"} \cup RelPcs

\* Who may use whose wait_status: the list of children and cs only lead from
\* a parent to its child, or from an exiting process to itself, and never both
\* ways at once.
Family ==
  /\ pc[Main] \notin {"none", "load", "loaded"} /\ ws[Main] = "none"
  /\ \A c \in Procs :
       /\ parent[c] # c
       /\ parent[c] = None <=> (pc[c] = "none" \/ c = Main)
       /\ pc[c] \in {"none", "load"} => ws[c] = "none"
       /\ pc[c] = "none" => children[c] = {} /\ answer[c] = None
  /\ \A p \in Procs : \A c \in children[p] :
       /\ parent[c] = p /\ ws[c] # "none" /\ cs[p] # c
       /\ answer[c] = None
  /\ \A p \in Procs :
       /\ cs[p] # None <=> pc[p] \in CsPcs
       /\ cs[p] # None /\ cs[p] # p => parent[cs[p]] = p
       /\ cs[p] = p => exiting[p] /\ pc[p] \in RelPcs
       /\ cs[p] # None /\ pc[p] # "exec_down" => ws[cs[p]] # "none"
       /\ pc[p] \in {"exec_down", "wait_down", "wait_code"} => answer[cs[p]] = None

\* The handshake of exec: the parent stays in process_execute until the child
\* has notified it, and then knows whether the child has a wait_status.
Starting ==
  /\ \A c \in Procs : pc[c] \in {"load", "loaded"} =>
       /\ pc[parent[c]] = "exec_down" /\ cs[parent[c]] = c
       /\ load_done[parent[c]] = 0
       /\ pc[c] = "loaded" => (success[parent[c]] <=> ws[c] # "none")
  /\ \A p \in Procs :
       /\ pc[p] = "exec_create" => load_done[p] = 0
       /\ pc[p] = "exec_down" /\ load_done[p] > 0 => (success[p] <=> ws[cs[p]] # "none")
       /\ pc[p] = "exec_down" => pc[cs[p]] # "none"

\* When the parent is told of the end, and what has been given up by then.
Ending ==
  /\ \A p \in Procs :
       /\ exiting[p] => pc[p] \in {"exit_children", "exit_fds", "exit_fs", "dead"} \cup RelPcs
       /\ pc[p] \in {"exit_children", "exit_fds", "exit_fs", "dead"} => exiting[p]
       /\ pc[p] \in {"exit_fds", "exit_fs", "dead"} => children[p] = {}
       /\ ~exiting[p] => dead[p] = 0
       /\ pc[p] = "wait_code" => exiting[cs[p]]
       /\ pc[p] = "exit_fs" => fds[p] > 0

\* The lock of a wait_status is held in the critical section of release_child.
Locking ==
  \A p, c \in Procs :
    cs_lock[c] = p <=> (cs[p] = c /\ pc[p] \in {"rel_dec", "rel_unlock"})

\* RefsCounted, with what the local variable new_ref_cnt still says of it
\* before and after the lock is released.
Counting ==
  /\ RefsCounted
  /\ \A p, c \in Procs :
       /\ cs[p] = c /\ pc[p] = "rel_unlock" => new_ref_cnt[p] = ref_cnt[c]
       /\ cs[p] = c /\ pc[p] = "rel_free" => ref_cnt[c] =< new_ref_cnt[p]
  /\ \A p, q, c \in Procs : Freeing(p, c) /\ Freeing(q, c) => p = q

IInv == TypeOK /\ Family /\ Starting /\ Ending /\ Locking /\ Counting

\* A process with a wait_status has a parent.
LEMMA HasParent ==
  ASSUME IInv, NEW c \in Procs, ws[c] # "none"
  PROVE  parent[c] \in Procs /\ parent[c] # c
  BY DEF IInv, TypeOK, Family

\* A step that changes no reference, no counter and no critical section of
\* release_child keeps the counts.
LEMMA CountingFrame ==
  ASSUME IInv, UNCHANGED <<ws, ref_cnt, new_ref_cnt>>,
         \A c \in Procs : ws[c] # "none" => parent'[c] = parent[c] /\ (OwnRef(c) <=> OwnRef(c)'),
         \A q, c \in Procs : ws[c] # "none" /\ q # c => (ParentRef(q, c) <=> ParentRef(q, c)'),
         \A q, c \in Procs : Freeing(q, c) <=> Freeing(q, c)',
         \A q \in Procs : pc'[q] \in {"rel_unlock", "rel_free"} => pc'[q] = pc[q] /\ cs'[q] = cs[q]
  PROVE  Counting'
<1>1. RefsCounted'
  <2>1. SUFFICES ASSUME NEW c \in Procs, ws[c] # "none"
        PROVE  /\ ref_cnt'[c] = (IF OwnRef(c)' THEN 1 ELSE 0)
                                   + (IF ParentRef(parent[c], c)' THEN 1 ELSE 0)
               /\ ws'[c] = "live" <=> (ref_cnt'[c] > 0 \/ \E p \in Procs : Freeing(p, c)')
    BY DEF RefsCounted
  <2>2. PICK q \in Procs : q = parent[c] /\ q # c
    BY <2>1, HasParent
  <2>3. parent'[c] = q /\ (OwnRef(c) <=> OwnRef(c)')
    BY <2>1, <2>2
  <2>4. ParentRef(q, c) <=> ParentRef(q, c)'
    BY <2>1, <2>2
  <2>5. ref_cnt'[c] = (IF OwnRef(c)' THEN 1 ELSE 0) + (IF ParentRef(q, c)' THEN 1 ELSE 0)
    BY <2>1, <2>2, <2>3, <2>4 DEF IInv, Counting, RefsCounted
  <2>6. ws'[c] = "live" <=> (ref_cnt'[c] > 0 \/ \E p \in Procs : Freeing(p, c)')
    BY <2>1 DEF IInv, Counting, RefsCounted
  <2> QED
    BY <2>2, <2>3, <2>5, <2>6
<1>2. \A p, q, c \in Procs : Freeing(p, c)' /\ Freeing(q, c)' => p = q
  BY DEF IInv, Counting
<1>3. \A p, c \in Procs :
        /\ cs'[p] = c /\ pc'[p] = "rel_unlock" => new_ref_cnt'[p] = ref_cnt'[c]
        /\ cs'[p] = c /\ pc'[p] = "rel_free" => ref_cnt'[c] =< new_ref_cnt'[p]
  BY DEF IInv, Counting
<1> QED
  BY <1>1, <1>2, <1>3 DEF Counting

(***************************************************************************)
(* Every action keeps the invariant: one lemma per action, in the order of *)
(* Process.                                                                *)
(***************************************************************************)

\* sys_create and the other calls that take fs_lock.
LEMMA FsEnterInv ==
  ASSUME IInv, NEW p \in Procs, FsEnter(p)
  PROVE  IInv'
<1> USE ProcessConstants DEF IInv, FsEnter, Goto, AcquireFs, exec_vars, ws_vars, local_vars
<1>1. TypeOK'
  BY DEF TypeOK, Pcs
<1>2. Family'
  BY DEF Family, CsPcs, RelPcs
<1>3. Starting'
  BY DEF Starting
<1>4. Ending'
  BY DEF Ending, RelPcs
<1>5. Locking'
  BY DEF Locking
<1>6. Counting'
  BY DEF Counting, RefsCounted, OwnRef, ParentRef, Freeing
<1> QED
  BY <1>1, <1>2, <1>3, <1>4, <1>5, <1>6

\* The end of such a call.
LEMMA FsLeaveInv ==
  ASSUME IInv, NEW p \in Procs, FsLeave(p)
  PROVE  IInv'
<1> USE ProcessConstants DEF IInv, FsLeave, Goto, ReleaseFs, exec_vars, ws_vars, local_vars
<1>1. TypeOK'
  BY DEF TypeOK, Pcs
<1>2. Family'
  BY DEF Family, CsPcs, RelPcs
<1>3. Starting'
  BY DEF Starting
<1>4. Ending'
  BY DEF Ending, RelPcs
<1>5. Locking'
  BY DEF Locking
<1>6. Counting'
  BY DEF Counting, RefsCounted, OwnRef, ParentRef, Freeing
<1> QED
  BY <1>1, <1>2, <1>3, <1>4, <1>5, <1>6

\* chdir, mkdir and readdir, which take no lock.
LEMMA DirEnterInv ==
  ASSUME IInv, NEW p \in Procs, DirEnter(p)
  PROVE  IInv'
<1> USE ProcessConstants DEF IInv, DirEnter, Goto, exec_vars, ws_vars, file_vars, local_vars
<1>1. TypeOK'
  BY DEF TypeOK, Pcs
<1>2. Family'
  BY DEF Family, CsPcs, RelPcs
<1>3. Starting'
  BY DEF Starting
<1>4. Ending'
  BY DEF Ending, RelPcs
<1>5. Locking'
  BY DEF Locking
<1>6. Counting'
  BY DEF Counting, RefsCounted, OwnRef, ParentRef, Freeing
<1> QED
  BY <1>1, <1>2, <1>3, <1>4, <1>5, <1>6

\* The end of such a call.
LEMMA DirLeaveInv ==
  ASSUME IInv, NEW p \in Procs, DirLeave(p)
  PROVE  IInv'
<1> USE ProcessConstants DEF IInv, DirLeave, Goto, exec_vars, ws_vars, file_vars, local_vars
<1>1. TypeOK'
  BY DEF TypeOK, Pcs
<1>2. Family'
  BY DEF Family, CsPcs, RelPcs
<1>3. Starting'
  BY DEF Starting
<1>4. Ending'
  BY DEF Ending, RelPcs
<1>5. Locking'
  BY DEF Locking
<1>6. Counting'
  BY DEF Counting, RefsCounted, OwnRef, ParentRef, Freeing
<1> QED
  BY <1>1, <1>2, <1>3, <1>4, <1>5, <1>6

\* sys_exec, or the initial thread, calls process_execute.
LEMMA ExecInv ==
  ASSUME IInv, NEW p \in Procs, Exec(p)
  PROVE  IInv'
<1> USE ProcessConstants DEF IInv, Exec, Goto, AcquireFs, ExecLocks, ws_vars, local_vars
<1>1. TypeOK'
  BY DEF TypeOK, Pcs
<1>2. Family'
  BY DEF Family, CsPcs, RelPcs
<1>3. Starting'
  BY DEF TypeOK, Starting
<1>4. Ending'
  BY DEF Ending, RelPcs
<1>5. Locking'
  BY DEF Locking
<1>6. Counting'
  BY DEF Counting, RefsCounted, OwnRef, ParentRef, Freeing
<1> QED
  BY <1>1, <1>2, <1>3, <1>4, <1>5, <1>6

\* thread_create fails.
LEMMA ExecFailInv ==
  ASSUME IInv, NEW p \in Procs, ExecFail(p)
  PROVE  IInv'
<1> USE ProcessConstants DEF IInv, ExecFail, Goto, exec_vars, ws_vars, file_vars, local_vars
<1>1. TypeOK'
  BY DEF TypeOK, Pcs
<1>2. Family'
  BY DEF Family, CsPcs, RelPcs
<1>3. Starting'
  BY DEF Starting
<1>4. Ending'
  BY DEF Ending, RelPcs
<1>5. Locking'
  BY DEF Locking
<1>6. Counting'
  BY DEF Counting, RefsCounted, OwnRef, ParentRef, Freeing
<1> QED
  BY <1>1, <1>2, <1>3, <1>4, <1>5, <1>6

\* process_execute has been notified: a child that was started enters the list, and
\* the reference that the parent had through cs becomes the list's.
LEMMA ExecDownInv ==
  ASSUME IInv, NEW p \in Procs, ExecDown(p)
  PROVE  IInv'
<1> USE ProcessConstants DEF IInv, ExecDown, Goto, ws_vars, file_vars
<1>1. TypeOK'
  <2>1. cs[p] \in Procs
    BY DEF TypeOK, Family, CsPcs
  <2>2. load_done' \in [Procs -> 0..1]
    BY DEF TypeOK
  <2>3. children' \in [Procs -> SUBSET Procs]
    BY <2>1 DEF TypeOK
  <2> QED
    BY <2>2, <2>3 DEF TypeOK, Pcs
<1>2. Family'
  BY DEF TypeOK, Family, Starting, CsPcs, RelPcs
<1>3. Starting'
  BY DEF TypeOK, Starting
<1>4. Ending'
  BY DEF Ending, RelPcs
<1>5. Locking'
  BY DEF Locking
<1>6. Counting'
  BY DEF TypeOK, Starting, Counting, RefsCounted, OwnRef, ParentRef, Freeing
<1> QED
  BY <1>1, <1>2, <1>3, <1>4, <1>5, <1>6

\* sys_exec releases fs_lock.
LEMMA ExecUpInv ==
  ASSUME IInv, NEW p \in Procs, ExecUp(p)
  PROVE  IInv'
<1> USE ProcessConstants DEF IInv, ExecUp, Goto, ReleaseFs, ExecLocks, exec_vars, ws_vars, local_vars
<1>1. TypeOK'
  BY DEF TypeOK, Pcs
<1>2. Family'
  BY DEF Family, CsPcs, RelPcs
<1>3. Starting'
  BY DEF Starting
<1>4. Ending'
  BY DEF Ending, RelPcs
<1>5. Locking'
  BY DEF Locking
<1>6. Counting'
  BY DEF Counting, RefsCounted, OwnRef, ParentRef, Freeing
<1> QED
  BY <1>1, <1>2, <1>3, <1>4, <1>5, <1>6

\* thread_create makes the child, whose wait_status is not used by anyone.
LEMMA ExecCreateInv ==
  ASSUME IInv, NEW p \in Procs, NEW c \in Procs, ExecCreate(p, c)
  PROVE  IInv'
<1> USE ProcessConstants DEF IInv, ExecCreate, ws_vars, file_vars
<1>1. TypeOK'
  BY DEF TypeOK, Pcs
<1>2. Family'
  <2>1. c # p /\ c # Main /\ cs[c] = None /\ children[c] = {} /\ ~exiting[c]
    BY DEF Family, Ending, CsPcs, RelPcs
  <2>2. ws[c] = "none" /\ answer[c] = None /\ (\A q \in Procs : cs[q] # c)
    BY DEF Family
  <2> QED
    BY <2>1, <2>2 DEF TypeOK, Family, CsPcs, RelPcs
<1>3. Starting'
  BY DEF TypeOK, Family, Starting, CsPcs
<1>4. Ending'
  BY DEF TypeOK, Ending, RelPcs
<1>5. Locking'
  BY DEF TypeOK, Locking
<1>6. Counting'
  <2>1. c # p /\ cs[c] = None /\ cs[p] = None /\ ws[c] = "none"
    BY DEF Family, CsPcs, RelPcs
  <2>2. \A d \in Procs : ws[d] # "none" => parent'[d] = parent[d] /\ (OwnRef(d) <=> OwnRef(d)')
    BY <2>1 DEF TypeOK, OwnRef
  <2>3. \A q, d \in Procs : ws[d] # "none" => (ParentRef(q, d) <=> ParentRef(q, d)')
    BY <2>1 DEF TypeOK, ParentRef
  <2>4. \A q, d \in Procs : Freeing(q, d) <=> Freeing(q, d)'
    BY <2>1 DEF TypeOK, Freeing
  <2>5. \A q \in Procs : pc'[q] \in {"rel_unlock", "rel_free"} => pc'[q] = pc[q] /\ cs'[q] = cs[q]
    BY DEF TypeOK
  <2> QED
    BY <2>2, <2>3, <2>4, <2>5, CountingFrame
<1> QED
  BY <1>1, <1>2, <1>3, <1>4, <1>5, <1>6

\* start_process fails.
LEMMA LoadFailInv ==
  ASSUME IInv, NEW p \in Procs, LoadFail(p)
  PROVE  IInv'
<1> USE ProcessConstants DEF IInv, LoadFail, Goto, ws_vars, local_vars
<1>1. TypeOK'
  BY DEF TypeOK, Family, Pcs
<1>2. Family'
  BY DEF Family, CsPcs, RelPcs
<1>3. Starting'
  BY DEF TypeOK, Family, Starting
<1>4. Ending'
  BY DEF Ending, RelPcs
<1>5. Locking'
  BY DEF Locking
<1>6. Counting'
  BY DEF Counting, RefsCounted, OwnRef, ParentRef, Freeing
<1> QED
  BY <1>1, <1>2, <1>3, <1>4, <1>5, <1>6

\* start_process makes the wait_status, with a reference for the child and one for
\* the parent, which still waits.
LEMMA LoadInv ==
  ASSUME IInv, NEW p \in Procs, Load(p)
  PROVE  IInv'
<1> USE ProcessConstants DEF IInv, Load, Goto, InitialRefs, InitialDead, local_vars
<1>1. TypeOK'
  <2>1. parent[p] \in Procs
    BY DEF TypeOK, Family
  <2> QED
    BY <2>1 DEF TypeOK, Pcs
<1>2. Family'
  BY DEF TypeOK, Family, CsPcs, RelPcs
<1>3. Starting'
  BY DEF TypeOK, Family, Starting
<1>4. Ending'
  BY DEF Ending, RelPcs
<1>5. Locking'
  BY DEF Family, Locking
<1>6. Counting'
  <2>1. parent[p] \in Procs /\ parent[p] # p /\ ws[p] = "none" /\ ~exiting[p]
    <3>1. parent[p] # None /\ parent[p] # p /\ ws[p] = "none"
      BY DEF Family
    <3>2. parent[p] \in Procs
      BY <3>1 DEF TypeOK
    <3>3. ~exiting[p]
      BY DEF Ending, RelPcs
    <3> QED
      BY <3>1, <3>2, <3>3
  <2>2. OwnRef(p)' /\ ParentRef(parent[p], p)' /\ \A q \in Procs : ~Freeing(q, p)'
    BY <2>1 DEF Family, Starting, OwnRef, ParentRef, Freeing
  <2>3. \A q, d \in Procs : d # p => /\ OwnRef(d) <=> OwnRef(d)'
                                     /\ ParentRef(q, d) <=> ParentRef(q, d)'
    BY DEF OwnRef, ParentRef
  <2>4. \A q, d \in Procs : Freeing(q, d) <=> Freeing(q, d)'
    BY DEF Freeing
  <2>5. RefsCounted'
    BY <2>1, <2>2, <2>3, <2>4, HasParent DEF TypeOK, Counting, RefsCounted
  <2>6. \A q \in Procs : pc'[q] \in {"rel_unlock", "rel_free"} => pc'[q] = pc[q] /\ cs'[q] = cs[q] /\ cs[q] # p
    BY <2>1 DEF Family
  <2> QED
    BY <2>4, <2>5, <2>6 DEF Counting
<1> QED
  BY <1>1, <1>2, <1>3, <1>4, <1>5, <1>6

\* start_process notifies its parent.
LEMMA LoadNotifyInv ==
  ASSUME IInv, NEW p \in Procs, LoadNotify(p)
  PROVE  IInv'
<1> USE ProcessConstants DEF IInv, LoadNotify, Goto, LoadDone, ws_vars, file_vars, local_vars
<1>1. TypeOK'
  BY DEF TypeOK, Family, Starting, Pcs
<1>2. Family'
  BY DEF Family, CsPcs, RelPcs
<1>3. Starting'
  BY DEF TypeOK, Starting
<1>4. Ending'
  BY DEF Ending, RelPcs
<1>5. Locking'
  BY DEF Locking
<1>6. Counting'
  BY DEF Counting, RefsCounted, OwnRef, ParentRef, Freeing
<1> QED
  BY <1>1, <1>2, <1>3, <1>4, <1>5, <1>6

\* process_wait has been notified of the child's end.
LEMMA WaitDownInv ==
  ASSUME IInv, NEW p \in Procs, WaitDown(p)
  PROVE  IInv'
<1> USE ProcessConstants DEF IInv, WaitDown, Goto, exec_vars, file_vars, local_vars
<1>1. TypeOK'
  <2>1. cs[p] \in Procs
    BY DEF TypeOK, Family, CsPcs
  <2>2. dead' \in [Procs -> 0..1]
    BY <2>1 DEF TypeOK
  <2> QED
    BY <2>2 DEF TypeOK, Pcs
<1>2. Family'
  BY DEF Family, CsPcs, RelPcs
<1>3. Starting'
  BY DEF Starting
<1>4. Ending'
  BY DEF TypeOK, Family, Ending, CsPcs, RelPcs
<1>5. Locking'
  BY DEF Locking
<1>6. Counting'
  BY DEF Counting, RefsCounted, OwnRef, ParentRef, Freeing
<1> QED
  BY <1>1, <1>2, <1>3, <1>4, <1>5, <1>6

\* process_wait reads the exit code.
LEMMA WaitCodeInv ==
  ASSUME IInv, NEW p \in Procs, WaitCode(p)
  PROVE  IInv'
<1> USE ProcessConstants DEF IInv, WaitCode, Goto, exec_vars, ws_vars, file_vars
<1>1. TypeOK'
  <2>1. cs[p] \in Procs
    BY DEF TypeOK, Family, CsPcs
  <2>2. answer' \in [Procs -> Codes \cup {-1, None}]
    BY <2>1 DEF TypeOK
  <2> QED
    BY <2>2 DEF TypeOK, Pcs, RelPcs
<1>2. Family'
  BY DEF TypeOK, Family, CsPcs, RelPcs
<1>3. Starting'
  BY DEF Starting
<1>4. Ending'
  BY DEF Ending, RelPcs
<1>5. Locking'
  BY DEF Locking
<1>6. Counting'
  BY DEF Family, Counting, RefsCounted, OwnRef, ParentRef, Freeing, RelPcs
<1> QED
  BY <1>1, <1>2, <1>3, <1>4, <1>5, <1>6

\* process_wait moves a child from the list to cs.
LEMMA WaitInv ==
  ASSUME IInv, NEW p \in Procs, NEW c \in Procs, Wait(p, c)
  PROVE  IInv'
<1> USE ProcessConstants DEF IInv, Wait, Goto, exec_vars, ws_vars, file_vars
<1>1. TypeOK'
  BY DEF TypeOK, Pcs
<1>2. Family'
  BY DEF TypeOK, Family, CsPcs
<1>3. Starting'
  BY DEF Starting
<1>4. Ending'
  BY DEF Ending, RelPcs
<1>5. Locking'
  BY DEF Locking
<1>6. Counting'
  BY DEF TypeOK, Counting, RefsCounted, OwnRef, ParentRef, Freeing
<1> QED
  BY <1>1, <1>2, <1>3, <1>4, <1>5, <1>6

\* release_child takes the lock, which no one has.
LEMMA RelAcquireInv ==
  ASSUME IInv, NEW p \in Procs, RelAcquire(p)
  PROVE  IInv'
<1> USE ProcessConstants DEF IInv, RelAcquire, Goto, exec_vars, file_vars, local_vars
<1>1. TypeOK'
  BY DEF TypeOK, Pcs, RelPcs
<1>2. Family'
  BY DEF Family, CsPcs, RelPcs
<1>3. Starting'
  BY DEF Starting
<1>4. Ending'
  BY DEF Ending, RelPcs
<1>5. Locking'
  BY DEF TypeOK, Locking
<1>6. Counting'
  BY DEF Family, Counting, RefsCounted, OwnRef, ParentRef, Freeing
<1> QED
  BY <1>1, <1>2, <1>3, <1>4, <1>5, <1>6

\* release_child gives up the reference; only one of the two can see 0.
LEMMA RelDecInv ==
  ASSUME IInv, NEW p \in Procs, RelDec(p)
  PROVE  IInv'
<1> USE ProcessConstants DEF IInv, RelDec, Goto, exec_vars, file_vars
<1>1. TypeOK'
  <2>1. cs[p] \in Procs
    BY DEF TypeOK, Family, CsPcs, RelPcs
  <2>2. ref_cnt[cs[p]] \in 1..2
    BY <2>1 DEF Family, Counting, RefsCounted, OwnRef, ParentRef
  <2>3. ref_cnt' \in [Procs -> 0..2] /\ new_ref_cnt' \in [Procs -> 0..2]
    BY <2>1, <2>2 DEF TypeOK
  <2> QED
    BY <2>3 DEF TypeOK, Pcs, RelPcs
<1>2. Family'
  BY DEF Family, CsPcs, RelPcs
<1>3. Starting'
  BY DEF Starting
<1>4. Ending'
  BY DEF Ending, RelPcs
<1>5. Locking'
  BY DEF Locking
<1>6. Counting'
  BY DEF TypeOK, Family, Ending, Locking, Counting, RefsCounted, OwnRef, ParentRef, Freeing, CsPcs, RelPcs
<1> QED
  BY <1>1, <1>2, <1>3, <1>4, <1>5, <1>6

\* release_child releases the lock.
LEMMA RelUnlockInv ==
  ASSUME IInv, NEW p \in Procs, RelUnlock(p)
  PROVE  IInv'
<1> USE ProcessConstants DEF IInv, RelUnlock, Goto, exec_vars, file_vars, local_vars
<1>1. TypeOK'
  BY DEF TypeOK, Pcs, RelPcs
<1>2. Family'
  BY DEF Family, CsPcs, RelPcs
<1>3. Starting'
  BY DEF Starting
<1>4. Ending'
  BY DEF Ending, RelPcs
<1>5. Locking'
  BY DEF TypeOK, Locking
<1>6. Counting'
  BY DEF TypeOK, Counting, RefsCounted, OwnRef, ParentRef, Freeing
<1> QED
  BY <1>1, <1>2, <1>3, <1>4, <1>5, <1>6

\* release_child frees the wait_status if the reference was the last.
LEMMA RelFreeInv ==
  ASSUME IInv, NEW p \in Procs, RelFree(p)
  PROVE  IInv'
<1> USE ProcessConstants DEF IInv, RelFree, Goto, exec_vars, file_vars
<1>1. TypeOK'
  BY DEF TypeOK, Pcs
<1>2. Family'
  BY DEF TypeOK, Family, CsPcs, RelPcs
<1>3. Starting'
  BY DEF TypeOK, Family, Starting
<1>4. Ending'
  BY DEF Ending
<1>5. Locking'
  BY DEF Locking
<1>6. Counting'
  BY DEF TypeOK, Family, Counting, RefsCounted, OwnRef, ParentRef, Freeing
<1> QED
  BY <1>1, <1>2, <1>3, <1>4, <1>5, <1>6

\* process_exit looks for the executable.
LEMMA ExitOpenInv ==
  ASSUME IInv, NEW p \in Procs, ExitOpen(p)
  PROVE  IInv'
<1> USE ProcessConstants DEF IInv, ExitOpen, Goto, exec_vars, ws_vars, file_vars, local_vars
<1>1. TypeOK'
  BY DEF TypeOK, Pcs
<1>2. Family'
  BY DEF Family, CsPcs, RelPcs
<1>3. Starting'
  BY DEF Starting
<1>4. Ending'
  BY DEF Ending, RelPcs
<1>5. Locking'
  BY DEF Locking
<1>6. Counting'
  BY DEF Counting, RefsCounted, OwnRef, ParentRef, Freeing
<1> QED
  BY <1>1, <1>2, <1>3, <1>4, <1>5, <1>6

\* process_exit closes the executable.
LEMMA ExitCloseInv ==
  ASSUME IInv, NEW p \in Procs, ExitClose(p)
  PROVE  IInv'
<1> USE ProcessConstants DEF IInv, ExitClose, Goto, exec_vars, ws_vars, local_vars
<1>1. TypeOK'
  BY DEF TypeOK, Pcs
<1>2. Family'
  BY DEF Family, CsPcs, RelPcs
<1>3. Starting'
  BY DEF Starting
<1>4. Ending'
  BY DEF Ending, RelPcs
<1>5. Locking'
  BY DEF Locking
<1>6. Counting'
  BY DEF Counting, RefsCounted, OwnRef, ParentRef, Freeing
<1> QED
  BY <1>1, <1>2, <1>3, <1>4, <1>5, <1>6

\* process_exit notifies the parent and goes on to release its own wait_status.
LEMMA ExitNotifyInv ==
  ASSUME IInv, NEW p \in Procs, ExitNotify(p)
  PROVE  IInv'
<1> USE ProcessConstants DEF IInv, ExitNotify, Goto, Notified, exec_vars, file_vars
<1>1. TypeOK'
  <2>1. dead[p] = 0
    BY DEF Ending, RelPcs
  <2>2. dead' \in [Procs -> 0..1]
    BY <2>1 DEF TypeOK
  <2>3. pc' \in [Procs -> Pcs] /\ cs' \in [Procs -> Procs \cup {None}]
    BY DEF TypeOK, Pcs, RelPcs
  <2>4. exiting' \in [Procs -> BOOLEAN]
    BY DEF TypeOK
  <2> QED
    BY <2>2, <2>3, <2>4 DEF TypeOK
<1>2. Family'
  BY DEF TypeOK, Family, CsPcs, RelPcs
<1>3. Starting'
  BY DEF TypeOK, Family, Starting, CsPcs
<1>4. Ending'
  BY DEF TypeOK, Ending, RelPcs
<1>5. Locking'
  BY DEF TypeOK, Locking
<1>6. Counting'
  <2>1. ~exiting[p] /\ cs[p] = None
    BY DEF Family, Ending, CsPcs, RelPcs
  <2>2. \A d \in Procs : ws[d] # "none" => parent'[d] = parent[d] /\ (OwnRef(d) <=> OwnRef(d)')
    BY <2>1 DEF TypeOK, OwnRef
  <2>3. \A q, d \in Procs : q # d => (ParentRef(q, d) <=> ParentRef(q, d)')
    BY <2>1, ProcessConstants DEF TypeOK, ParentRef
  <2>4. \A q, d \in Procs : Freeing(q, d) <=> Freeing(q, d)'
    BY <2>1 DEF TypeOK, Freeing
  <2>5. \A q \in Procs : pc'[q] \in {"rel_unlock", "rel_free"} => pc'[q] = pc[q] /\ cs'[q] = cs[q]
    BY DEF TypeOK
  <2> QED
    BY <2>2, <2>3, <2>4, <2>5, CountingFrame
<1> QED
  BY <1>1, <1>2, <1>3, <1>4, <1>5, <1>6

\* process_exit takes a child from the list, to release its wait_status.
LEMMA ExitChildrenInv ==
  ASSUME IInv, NEW p \in Procs, ExitChildren(p)
  PROVE  IInv'
<1> USE ProcessConstants DEF IInv, ExitChildren, Goto, Orphans, exec_vars, ws_vars, file_vars
<1>1. TypeOK'
  <2>1. children' \in [Procs -> SUBSET Procs] /\ cs' \in [Procs -> Procs \cup {None}]
    BY DEF TypeOK
  <2> QED
    BY <2>1 DEF TypeOK, Pcs, RelPcs
<1>2. Family'
  <2>1. CASE children[p] = {}
    BY <2>1 DEF TypeOK, Family, CsPcs, RelPcs
  <2>2. ASSUME NEW c \in children[p],
               children' = [children EXCEPT ![p] = @ \ {c}],
               cs' = [cs EXCEPT ![p] = c],
               pc' = [pc EXCEPT ![p] = "rel_acquire"]
        PROVE  Family'
    <3>1. c \in Procs /\ parent[c] = p /\ ws[c] # "none"
      BY <2>2 DEF TypeOK, Family
    <3>2. cs[p] = None /\ exiting[p]
      BY DEF Family, Ending, CsPcs, RelPcs
    <3>3. c # p
      BY <3>1 DEF Family
    <3> QED
      BY <2>2, <3>1, <3>2, <3>3 DEF TypeOK, Family, CsPcs, RelPcs
  <2> QED
    BY <2>1, <2>2
<1>3. Starting'
  <2>1. CASE children[p] = {}
    BY <2>1 DEF TypeOK, Family, Starting, CsPcs
  <2>2. ASSUME NEW c \in children[p],
               children' = [children EXCEPT ![p] = @ \ {c}],
               cs' = [cs EXCEPT ![p] = c],
               pc' = [pc EXCEPT ![p] = "rel_acquire"]
        PROVE  Starting'
    <3>1. c \in Procs /\ parent[c] = p /\ ws[c] # "none"
      BY <2>2 DEF TypeOK, Family
    <3>2. cs[p] = None /\ exiting[p]
      BY DEF Family, Ending, CsPcs, RelPcs
    <3>3. c # p
      BY <3>1 DEF Family
    <3> QED
      BY <2>2, <3>1, <3>2, <3>3 DEF Starting
  <2> QED
    BY <2>1, <2>2
<1>4. Ending'
  BY DEF TypeOK, Ending, RelPcs
<1>5. Locking'
  BY DEF TypeOK, Locking
<1>6. Counting'
  <2>1. CASE children[p] = {}
    <3>1. \A q, d \in Procs : /\ OwnRef(q) <=> OwnRef(q)'
                              /\ ParentRef(q, d) <=> ParentRef(q, d)'
                              /\ Freeing(q, d) <=> Freeing(q, d)'
      BY <2>1 DEF TypeOK, OwnRef, ParentRef, Freeing
    <3>2. \A q \in Procs : pc'[q] \in {"rel_unlock", "rel_free"} => pc'[q] = pc[q] /\ cs'[q] = cs[q]
      BY <2>1 DEF TypeOK
    <3> QED
      BY <2>1, <3>1, <3>2, CountingFrame
  <2>2. ASSUME NEW c \in children[p],
               children' = [children EXCEPT ![p] = @ \ {c}],
               cs' = [cs EXCEPT ![p] = c],
               pc' = [pc EXCEPT ![p] = "rel_acquire"]
        PROVE  Counting'
    <3>1. c \in Procs /\ parent[c] = p /\ ws[c] # "none"
      BY <2>2 DEF TypeOK, Family
    <3>2. cs[p] = None /\ exiting[p]
      BY DEF Family, Ending, CsPcs, RelPcs
    <3>3. c # p
      BY <3>1 DEF Family
    <3> QED
      BY <2>2, <3>1, <3>2, <3>3 DEF TypeOK, Counting, RefsCounted, OwnRef, ParentRef, Freeing
  <2> QED
    BY <2>1, <2>2
<1> QED
  BY <1>1, <1>2, <1>3, <1>4, <1>5, <1>6

\* syscall_exit goes on to the next open file.
LEMMA ExitFdsInv ==
  ASSUME IInv, NEW p \in Procs, ExitFds(p)
  PROVE  IInv'
<1> USE ProcessConstants DEF IInv, ExitFds, Goto, AcquireFs, exec_vars, ws_vars, local_vars
<1>1. TypeOK'
  <2>1. pc' \in [Procs -> Pcs] /\ fs_lock' \in Procs \cup {None}
    BY DEF TypeOK, Pcs
  <2> QED
    BY <2>1 DEF TypeOK
<1>2. Family'
  BY DEF TypeOK, Family, CsPcs, RelPcs
<1>3. Starting'
  BY DEF TypeOK, Family, Starting, CsPcs
<1>4. Ending'
  BY DEF TypeOK, Ending
<1>5. Locking'
  BY DEF TypeOK, Locking
<1>6. Counting'
  <2>1. \A q, d \in Procs : /\ OwnRef(q) <=> OwnRef(q)'
                            /\ ParentRef(q, d) <=> ParentRef(q, d)'
                            /\ Freeing(q, d) <=> Freeing(q, d)'
    BY DEF TypeOK, OwnRef, ParentRef, Freeing
  <2>2. \A q \in Procs : pc'[q] \in {"rel_unlock", "rel_free"} => pc'[q] = pc[q] /\ cs'[q] = cs[q]
    BY DEF TypeOK
  <2> QED
    BY <2>1, <2>2, CountingFrame
<1> QED
  BY <1>1, <1>2, <1>3, <1>4, <1>5, <1>6

\* syscall_exit closes a file.
LEMMA ExitFsInv ==
  ASSUME IInv, NEW p \in Procs, ExitFs(p)
  PROVE  IInv'
<1> USE ProcessConstants DEF IInv, ExitFs, Goto, ReleaseFs, exec_vars, ws_vars, local_vars
<1>1. TypeOK'
  BY DEF TypeOK, Ending, Pcs
<1>2. Family'
  BY DEF Family, CsPcs, RelPcs
<1>3. Starting'
  BY DEF Starting
<1>4. Ending'
  BY DEF TypeOK, Ending
<1>5. Locking'
  BY DEF Locking
<1>6. Counting'
  BY DEF Counting, RefsCounted, OwnRef, ParentRef, Freeing
<1> QED
  BY <1>1, <1>2, <1>3, <1>4, <1>5, <1>6

\* A process is killed.
LEMMA KillInv ==
  ASSUME IInv, NEW p \in Procs, Kill(p)
  PROVE  IInv'
<1> USE ProcessConstants DEF IInv, Kill, Goto, exec_vars, ws_vars, file_vars, local_vars
<1>1. TypeOK'
  BY DEF TypeOK, Pcs
<1>2. Family'
  BY DEF Family, CsPcs, RelPcs
<1>3. Starting'
  BY DEF Starting
<1>4. Ending'
  BY DEF Ending, RelPcs
<1>5. Locking'
  BY DEF Locking
<1>6. Counting'
  BY DEF Counting, RefsCounted, OwnRef, ParentRef, Freeing
<1> QED
  BY <1>1, <1>2, <1>3, <1>4, <1>5, <1>6

\* sys_exit sets the exit code.
LEMMA ExitInv ==
  ASSUME IInv, NEW p \in Procs, NEW code \in Codes, Exit(p, code)
  PROVE  IInv'
<1> USE ProcessConstants DEF IInv, Exit, Goto, exec_vars, file_vars, local_vars
<1>1. TypeOK'
  BY DEF TypeOK, Pcs
<1>2. Family'
  BY DEF Family, CsPcs, RelPcs
<1>3. Starting'
  BY DEF Starting
<1>4. Ending'
  BY DEF Ending, RelPcs
<1>5. Locking'
  BY DEF Locking
<1>6. Counting'
  BY DEF Counting, RefsCounted, OwnRef, ParentRef, Freeing
<1> QED
  BY <1>1, <1>2, <1>3, <1>4, <1>5, <1>6

\* The invariant holds in the beginning.
LEMMA InitInv == Init => IInv
<1> SUFFICES ASSUME Init PROVE IInv
  OBVIOUS
<1> USE ProcessConstants DEF Init
<1>1. TypeOK
  BY DEF TypeOK, Pcs
<1>2. Family /\ Starting /\ Ending /\ Locking
  BY DEF Family, Starting, Ending, Locking, CsPcs, RelPcs
<1>3. Counting
  BY DEF Counting, RefsCounted, Freeing
<1> QED
  BY <1>1, <1>2, <1>3 DEF IInv

\* Every step keeps the invariant.
LEMMA NextInv == IInv /\ [Next]_vars => IInv'
<1>1. ASSUME IInv, NEW p \in Procs, Step(p) PROVE IInv'
  <2>1. CASE FileStep(p)
    BY <1>1, <2>1, FsEnterInv, FsLeaveInv, DirEnterInv, DirLeaveInv DEF FileStep
  <2>2. CASE ExecStep(p)
    BY <1>1, <2>2, ExecInv, ExecFailInv, ExecDownInv, ExecUpInv, ExecCreateInv DEF ExecStep
  <2>3. CASE StartStep(p)
    BY <1>1, <2>3, LoadFailInv, LoadInv, LoadNotifyInv DEF StartStep
  <2>4. CASE WaitStep(p)
    BY <1>1, <2>4, WaitDownInv, WaitCodeInv, WaitInv DEF WaitStep
  <2>5. CASE RelStep(p)
    BY <1>1, <2>5, RelAcquireInv, RelDecInv, RelUnlockInv, RelFreeInv DEF RelStep
  <2>6. CASE ExitStep(p)
    BY <1>1, <2>6, ExitOpenInv, ExitCloseInv, ExitNotifyInv, ExitChildrenInv, ExitFdsInv,
       ExitFsInv, KillInv, ExitInv DEF ExitStep
  <2> QED
    BY <1>1, <2>1, <2>2, <2>3, <2>4, <2>5, <2>6 DEF Step
<1>2. ASSUME IInv, UNCHANGED vars PROVE IInv'
  <2> USE <1>2 DEF vars, exec_vars, ws_vars, file_vars, local_vars
  <2>1. TypeOK' /\ Family' /\ Starting' /\ Ending' /\ Locking'
    BY DEF IInv, TypeOK, Family, Starting, Ending, Locking
  <2>2. Counting'
    BY DEF IInv, Counting, RefsCounted, OwnRef, ParentRef, Freeing
  <2> QED
    BY <2>1, <2>2 DEF IInv
<1> QED
  BY <1>1, <1>2 DEF Next, Ended

\* IInv holds in every reachable state.  It is what the theorems below need of
\* who may use whose wait_status, where the handshakes stand, and what is counted.
THEOREM Invariance == Spec => []IInv
  BY InitInv, NextInv, PTL DEF Spec

\* Every variable keeps its type; in particular no semaphore of the two
\* handshakes ever exceeds 1 and no reference count leaves 0..2.
THEOREM TypeCorrect == Spec => []TypeOK
<1>1. IInv => TypeOK
  BY DEF IInv
<1> QED
  BY <1>1, Invariance, PTL

\* ref_cnt is the number of references not given back, and a wait_status is
\* allocated exactly while there are some or the last one is freeing it.
THEOREM References == Spec => []RefsCounted
<1>1. IInv => RefsCounted
  BY DEF IInv, Counting
<1> QED
  BY <1>1, Invariance, PTL

\* No thread touches a wait_status that is freed, and none frees it twice.
THEOREM NoDangling == Spec => []NoUseAfterFree
<1>1. ASSUME IInv PROVE NoUseAfterFree
  <2> USE <1>1 DEF IInv
  <2>1. ASSUME NEW p \in Procs, NEW c \in children[p] PROVE ws[c] = "live"
    <3>1. c \in Procs /\ parent[c] = p /\ ws[c] # "none"
      BY DEF TypeOK, Family
    <3>2. ref_cnt[c] > 0
      BY <3>1, <2>1 DEF Counting, RefsCounted, ParentRef
    <3> QED
      BY <3>1, <3>2 DEF Counting, RefsCounted
  <2>2. ASSUME NEW p \in Procs, pc[p] \in {"wait_down", "wait_code"} \cup RelPcs
        PROVE  /\ cs[p] \in Procs /\ ws[cs[p]] # "none"
               /\ cs[p] # p => parent[cs[p]] = p /\ parent[cs[p]] # cs[p]
               /\ cs[p] = p => exiting[p] /\ pc[p] \in RelPcs
    BY <2>2 DEF TypeOK, Family, CsPcs, RelPcs
  <2>3. ASSUME NEW p \in Procs, pc[p] \in {"wait_down", "wait_code", "rel_acquire", "rel_dec"}
        PROVE  ws[cs[p]] = "live"
    <3>1. ref_cnt[cs[p]] > 0
      BY <2>2, <2>3 DEF Counting, RefsCounted, OwnRef, ParentRef, RelPcs
    <3> QED
      BY <2>2, <2>3, <3>1 DEF Counting, RefsCounted, RelPcs
  <2>4. ASSUME NEW p \in Procs, pc[p] \in {"rel_unlock", "rel_free"}, new_ref_cnt[p] = 0
        PROVE  ws[cs[p]] = "live"
    <3>1. Freeing(p, cs[p])
      BY <2>4 DEF Freeing
    <3> QED
      BY <2>2, <2>4, <3>1 DEF Counting, RefsCounted, RelPcs
  <2>5. ASSUME NEW p \in Procs, pc[p] = "rel_unlock", new_ref_cnt[p] # 0
        PROVE  ws[cs[p]] = "live"
    <3>1. cs[p] \in Procs
      BY <2>2, <2>5 DEF RelPcs
    <3>2. new_ref_cnt[p] = ref_cnt[cs[p]]
      BY <2>5, <3>1 DEF Counting
    <3>3. new_ref_cnt[p] > 0
      BY <2>5 DEF TypeOK
    <3>4. ref_cnt[cs[p]] > 0
      BY <3>2, <3>3
    <3> QED
      BY <2>2, <2>5, <3>4 DEF Counting, RefsCounted, RelPcs
  <2>6. ASSUME NEW p \in Procs, pc[p] \in {"user", "exit", "exit_close", "exit_notify"}
        PROVE  ws[p] # "freed"
    <3>1. OwnRef(p)
      BY <2>6 DEF Ending, OwnRef, RelPcs
    <3> QED
      BY <3>1 DEF Counting, RefsCounted
  <2> QED
    BY <2>1, <2>3, <2>4, <2>5, <2>6 DEF NoUseAfterFree
<1> QED
  BY <1>1, Invariance, PTL

\* Nothing leaks: the wait_status of a process is freed once the process and
\* its parent have both ended, in whichever order.
THEOREM NoLeak == Spec => []AllFreed
<1>1. ASSUME IInv PROVE AllFreed
  <2> USE <1>1 DEF IInv
  <2>1. SUFFICES ASSUME NEW c \in Procs, parent[c] # None, pc[c] = "dead",
                        pc[parent[c]] = "dead", ws[c] # "none"
                 PROVE  ws[c] # "live"
    BY DEF AllFreed
  <2>2. PICK p \in Procs : p = parent[c]
    BY <2>1 DEF TypeOK
  <2>3. ~OwnRef(c) /\ ~ParentRef(p, c)
    BY <2>1, <2>2 DEF Ending, OwnRef, ParentRef
  <2>4. \A q \in Procs : ~Freeing(q, c)
    BY <2>1, <2>2, ProcessConstants DEF Family, Freeing
  <2>5. ref_cnt[c] = 0
    BY <2>1, <2>2, <2>3 DEF Counting, RefsCounted
  <2> QED
    BY <2>1, <2>4, <2>5 DEF Counting, RefsCounted
<1> QED
  BY <1>1, Invariance, PTL

\* Who is in the file system with fs_lock: the calls that take it, exec of
\* every process but the initial one, and the closing of files at the exit.
FsHeld ==
  \A p \in Procs :
    \/ pc[p] \in {"fs", "exit_fs"}
    \/ p # Main /\ pc[p] \in {"exec_create", "exec_down", "exec_up"}
    => fs_lock = p

\* A step takes fs_lock only when nobody has it, and returns only its own.
LEMMA FsHeldStep ==
  ASSUME IInv, FsHeld, NEW p \in Procs, Step(p)
  PROVE  FsHeld'
<1> USE DEF IInv, TypeOK, FsHeld, Goto, AcquireFs, ReleaseFs, ExecLocks, file_vars, exec_vars
<1> USE ProcessConstants
<1>1. CASE FileStep(p)
  BY <1>1 DEF FileStep, FsEnter, FsLeave, DirEnter, DirLeave
<1>2. CASE Exec(p)
  BY <1>2 DEF Exec
<1>3. CASE ExecFail(p) \/ ExecDown(p) \/ ExecUp(p)
  BY <1>3 DEF ExecFail, ExecDown, ExecUp
<1>4. ASSUME NEW c \in Procs, ExecCreate(p, c) PROVE FsHeld'
  BY <1>4 DEF ExecCreate
<1>5. CASE StartStep(p)
  BY <1>5 DEF StartStep, LoadFail, Load, LoadNotify
<1>6. CASE WaitStep(p)
  BY <1>6 DEF WaitStep, WaitDown, WaitCode, Wait
<1>7. CASE RelStep(p)
  BY <1>7 DEF RelStep, RelAcquire, RelDec, RelUnlock, RelFree
<1>8. CASE ExitOpen(p) \/ ExitClose(p) \/ ExitNotify(p) \/ ExitChildren(p)
  BY <1>8 DEF ExitOpen, ExitClose, ExitNotify, ExitChildren
<1>9. CASE ExitFds(p) \/ ExitFs(p)
  BY <1>9 DEF ExitFds, ExitFs
<1>10. CASE Kill(p) \/ \E code \in Codes : Exit(p, code)
  BY <1>10 DEF Kill, Exit
<1> QED
  BY <1>1, <1>2, <1>3, <1>4, <1>5, <1>6, <1>7, <1>8, <1>9, <1>10
     DEF Step, ExecStep, ExitStep

\* The load of a program runs under the fs_lock of the process that called
\* exec: the parent sleeps in sema_down (load_done) and returns the lock later.
THEOREM LoadsGuarded == Spec => []LoadGuarded
<1>1. Init => FsHeld
  BY ProcessConstants DEF Init, FsHeld
<1>2. IInv /\ FsHeld /\ [Next]_vars => FsHeld'
  <2>1. ASSUME FsHeld, UNCHANGED vars PROVE FsHeld'
    BY <2>1 DEF FsHeld, vars, file_vars
  <2> QED
    BY <2>1, FsHeldStep DEF Next, Ended
<1>3. ASSUME IInv, FsHeld PROVE LoadGuarded
  <2>1. ASSUME NEW c \in Procs, pc[c] = "load" PROVE parent[c] \in Procs /\ pc[parent[c]] = "exec_down"
    BY <1>3, <2>1 DEF IInv, TypeOK, Family, Starting
  <2> QED
    BY <1>3, <2>1 DEF FsHeld, LoadGuarded
<1> QED
  BY <1>1, <1>2, <1>3, Invariance, PTL DEF Spec

\* A step that starts, ends and answers nothing.
Quiet == UNCHANGED <<Starters, Fates, answer>>

\* The other actions are no steps of WaitSpec.
LEMMA QuietSteps ==
  ASSUME IInv, NEW p \in Procs,
         \/ FileStep(p) \/ ExecStep(p) \/ RelStep(p)
         \/ LoadFail(p) \/ LoadNotify(p)
         \/ WaitDown(p) \/ \E c \in Procs : Wait(p, c)
         \/ ExitOpen(p) \/ ExitClose(p) \/ ExitChildren(p) \/ ExitFds(p) \/ ExitFs(p)
         \/ Kill(p) \/ \E code \in Codes : Exit(p, code)
  PROVE  Quiet
<1> USE DEF IInv, Quiet, Starters, Fates, Exited, exec_vars, ws_vars, file_vars, local_vars
<1>1. CASE FileStep(p)
  BY <1>1 DEF FileStep, FsEnter, FsLeave, DirEnter, DirLeave
<1>2. CASE Exec(p) \/ ExecFail(p) \/ ExecDown(p) \/ ExecUp(p)
  BY <1>2 DEF Exec, ExecFail, ExecDown, ExecUp
<1>3. ASSUME NEW c \in Procs, ExecCreate(p, c) PROVE Quiet
  <2>1. ws[c] = "none"
    BY <1>3 DEF ExecCreate, Family
  <2> QED
    BY <1>3, <2>1 DEF ExecCreate
<1>4. CASE RelAcquire(p) \/ RelDec(p) \/ RelUnlock(p)
  BY <1>4 DEF RelAcquire, RelDec, RelUnlock
<1>5. CASE RelFree(p)
  <2>1. cs[p] \in Procs /\ ws[cs[p]] # "none"
    BY <1>5 DEF RelFree, TypeOK, Family, CsPcs, RelPcs
  <2>2. \A c \in Procs : ws'[c] # "none" <=> ws[c] # "none"
    BY <1>5, <2>1 DEF RelFree
  <2> QED
    BY <1>5, <2>2 DEF RelFree
<1>6. CASE LoadFail(p) \/ LoadNotify(p) \/ WaitDown(p) \/ \E c \in Procs : Wait(p, c)
  BY <1>6 DEF LoadFail, LoadNotify, WaitDown, Wait
<1>7. CASE ExitOpen(p) \/ ExitClose(p) \/ ExitChildren(p) \/ ExitFds(p) \/ ExitFs(p) \/ Kill(p)
  BY <1>7 DEF ExitOpen, ExitClose, ExitChildren, ExitFds, ExitFs, Kill
<1>8. ASSUME NEW code \in Codes, Exit(p, code) PROVE Quiet
  <2>1. ~exiting[p]
    BY <1>8 DEF Exit, Ending, RelPcs
  <2> QED
    BY <1>8, <2>1 DEF Exit
<1> QED
  BY <1>1, <1>2, <1>3, <1>4, <1>5, <1>6, <1>7, <1>8 DEF ExecStep, RelStep

\* start_process's making of the wait_status is WaitSpec's start.
LEMMA LoadStarts == ASSUME IInv, NEW c \in Procs, Load(c) PROVE Promise!Start(parent[c], c)
<1> USE DEF IInv, Load, Starters, Fates, Exited, local_vars
<1>1. ws[c] = "none" /\ ~exiting[c]
  BY DEF Family, Ending, RelPcs
<1>2. parent[c] \in Procs /\ ~exiting[parent[c]]
  <2>1. parent[c] \in Procs /\ pc[parent[c]] = "exec_down"
    BY DEF TypeOK, Family, Starting
  <2> QED
    BY <2>1 DEF Ending, RelPcs
<1>3. Fates' = Fates
  BY <1>1
<1>4. Starters' = [Starters EXCEPT ![c] = parent[c]]
  BY DEF TypeOK
<1> QED
  BY <1>1, <1>2, <1>3, <1>4 DEF Promise!Start

\* process_exit's notification ends the process with its exit code.
LEMMA NotifyEnds ==
  ASSUME IInv, NEW c \in Procs, ExitNotify(c)
  PROVE  Quiet \/ Promise!End(c, exit_code[c])
<1> USE DEF IInv, ExitNotify, Starters, Fates, Exited, Quiet
<1>1. ~exiting[c]
  BY DEF Ending, RelPcs
<1>2. Starters' = Starters /\ answer' = answer
  BY DEF exec_vars
<1>3. CASE ws[c] = "none"
  BY <1>1, <1>2, <1>3
<1>4. CASE ws[c] # "none"
  <2>1. Starters[c] # None
    BY <1>4, HasParent, ProcessConstants
  <2>2. Fates' = [Fates EXCEPT ![c] = exit_code[c]]
    BY <1>4 DEF TypeOK
  <2> QED
    BY <1>1, <1>2, <2>1, <2>2 DEF Promise!End
<1> QED
  BY <1>3, <1>4

\* process_wait's reading of the exit code is WaitSpec's answer.
LEMMA CodeAnswers ==
  ASSUME IInv, NEW p \in Procs, WaitCode(p)
  PROVE  cs[p] \in Procs /\ Promise!Answer(cs[p])
<1> USE DEF IInv, WaitCode, Starters, Fates, Exited
<1>1. cs[p] \in Procs /\ cs[p] # p /\ ws[cs[p]] # "none" /\ answer[cs[p]] = None
  BY DEF TypeOK, Family, CsPcs, RelPcs
<1>2. parent[cs[p]] = p /\ ~exiting[p] /\ exiting[cs[p]]
  BY <1>1, ProcessConstants DEF Family, Ending, RelPcs
<1>3. exit_code[cs[p]] # None
  <2>1. exit_code[cs[p]] \in Codes \cup {-1}
    BY <1>1 DEF TypeOK
  <2>2. Codes \cup {-1} \subseteq Int
    BY ProcessConstants
  <2> QED
    BY <2>1, <2>2, ProcessConstants
<1>4. UNCHANGED <<Starters, Fates>>
  BY DEF exec_vars, ws_vars
<1> QED
  BY <1>1, <1>2, <1>3, <1>4 DEF Promise!Answer

\* exec, exit and wait implement WaitSpec: whatever the interleaving, a wait
\* answers once for a child of the caller, with the code the child ended with.
THEOREM WaitRefinement == Spec => ImplementsWait
<1>1. Init => Promise!Init
  BY DEF Init, Promise!Init, Starters, Fates, Exited
<1>2. IInv /\ [Next]_vars => [Promise!Next]_<<Starters, Fates, answer>>
  <2>1. SUFFICES ASSUME IInv, NEW p \in Procs, Step(p)
                 PROVE  Promise!Next \/ Quiet
    BY DEF Next, Ended, vars, exec_vars, ws_vars, local_vars, Quiet, Starters, Fates, Exited
  <2>2. CASE Load(p)
    <3>1. parent[p] \in Procs
      BY <2>1, <2>2 DEF Load, IInv, TypeOK, Family
    <3> QED
      BY <2>1, <2>2, <3>1, LoadStarts DEF Promise!Next
  <2>3. CASE ExitNotify(p)
    <3>1. exit_code[p] \in Codes \cup {-1}
      BY <2>1 DEF IInv, TypeOK
    <3> QED
      BY <2>1, <2>3, <3>1, NotifyEnds DEF Promise!Next
  <2>4. CASE WaitCode(p)
    BY <2>1, <2>4, CodeAnswers DEF Promise!Next
  <2> QED
    BY <2>1, <2>2, <2>3, <2>4, QuietSteps DEF Step, StartStep, WaitStep, ExitStep
<1> QED
  BY <1>1, <1>2, Invariance, PTL DEF Spec, ImplementsWait, Promise!Spec
=============================================================================
