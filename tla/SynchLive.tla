----------------------------- MODULE SynchLive -----------------------------
(***************************************************************************)
(* Progress of lock_acquire.  The callers create threads and acquire and   *)
(* release locks in any pattern, spin, and are preempted; none of them     *)
(* changes its priority or exits.                                          *)
(***************************************************************************)
EXTENDS Synch

LiveNext ==
  \/ Preempt \/ IdleBlock
  \/ \E t \in Threads :
       LockStep(t) \/ Yield(t) \/ \E u \in Threads, p \in Priorities : Create(t, u, p)

\* A step with interrupts off, of which the running thread has at most one.
OffStep == \E t \in Threads : RecomputePriority(t) \/ DownBlock(t) \/ DownTake(t)

\* The CPU does not stop inside a section with interrupts off, the idle
\* thread gives way to a ready one, the timer keeps interrupting, and a
\* thread that has a lock and keeps the CPU releases the lock in the end.
Fairness ==
  /\ WF_vars(IdleBlock)
  /\ WF_vars(Preempt)
  /\ WF_vars(OffStep)
  /\ \A t \in Threads : \A l \in Locks : WF_vars(LockRelease(t, l))

LiveSpec == Init /\ [][LiveNext]_vars /\ Fairness

\* t is the only thread of its priority, and none has a higher one.
Top(t) == \A u \in Threads \ {t} : normal_priority[u] < normal_priority[t]

\* Priority inversion is bounded: the thread of the highest priority gets the
\* lock it asks for, although the holder has a low priority and threads of
\* middle priority never stop running.
TopGetsLock(t, l) == (at[t] = l /\ Top(t)) ~> (holder[l] = t \/ ~Top(t))
=============================================================================
