------------------------------- MODULE Synch -------------------------------
(***************************************************************************)
(* The Pintos kernel's scheduler and synchronization primitives as they    *)
(* are in prj4 (prj3 has the same code): thread.c without the multi-level  *)
(* feedback queue, and synch.c.  One CPU runs the thread cur; a section    *)
(* executed with interrupts off is one action, except that                 *)
(* thread_recompute_priority takes one action per thread it visits.        *)
(* Between two such sections a timer interrupt may preempt cur and a       *)
(* device interrupt may up a semaphore.                                    *)
(*                                                                         *)
(* The callers of the primitives are every kernel thread that respects     *)
(* their assertions: a lock is released by its holder, a lock is not       *)
(* acquired twice, a condition is used with its lock held, and a thread    *)
(* exits holding no lock.                                                  *)
(***************************************************************************)
EXTENDS Integers, Sequences, SequencesExt

CONSTANTS
  Threads,     \* kernel threads (each a struct thread), the idle thread excluded
  Main,        \* initial_thread
  Idle,        \* idle_thread, which is never on a list
  Locks,       \* struct lock, each with the semaphore it contains
  Semas,       \* semaphores used on their own
  Conds,       \* condition variables
  CondLock,    \* the lock each condition is used with
  TryLocks,    \* the locks that lock_try_acquire is used on
  IntrSemas,   \* the semaphores that interrupt handlers up
  InitValue,   \* the value sema_init gives each member of Semas
  Priorities,  \* the priorities in use, a part of PRI_MIN..PRI_MAX
  DefaultPri,  \* PRI_DEFAULT, the priority of the initial thread
  MaxValue,    \* bound: a semaphore in Semas is not upped beyond it
  None         \* the null pointer

\* A waiter in cond_wait has a semaphore on its own stack: it is named
\* after the thread.
AllSemas == Locks \cup Semas \cup Threads

ASSUME SynchConstants ==
  /\ Main \in Threads
  /\ Idle \notin Threads
  /\ None \notin Threads \cup Locks \cup Semas \cup Conds \cup {Idle}
  /\ Locks \cap Semas = {} /\ Locks \cap Threads = {} /\ Semas \cap Threads = {}
  /\ CondLock \in [Conds -> Locks]
  /\ IntrSemas \subseteq Semas
  /\ TryLocks \subseteq Locks
  /\ InitValue \in [Semas -> Nat]
  /\ Priorities \subseteq Int
  /\ DefaultPri \in Priorities
  /\ MaxValue \in Nat

VARIABLES
  cur,              \* running_thread ()
  status,           \* enum thread_status, with "new" before thread_create
  ready_list,       \* the run queue
  priority,         \* effective priority, donations included
  normal_priority,  \* priority without donations
  donors,           \* the threads donating to a thread (order is never used)
  donee,            \* the thread a thread donates to, or None
  want_lock,        \* the lock a thread last had to wait for
  value,            \* semaphore value
  waiters,          \* semaphore wait list
  holder,           \* lock holder, or None
  cond_waiters,     \* the threads in a condition's list of waiters
  pc,               \* where a thread is in the primitive it executes
  at,               \* the semaphore of the sema_down it executes
  cv,               \* the condition of the cond_wait or broadcast it executes
  chain             \* argument of the thread_recompute_priority in progress

sched_vars == <<cur, status, ready_list>>
pri_vars == <<priority, normal_priority, donors, donee, want_lock>>
sema_vars == <<value, waiters, holder, cond_waiters>>
vars == <<sched_vars, pri_vars, sema_vars, pc, at, cv, chain>>

Statuses == {"new", "running", "ready", "blocked", "dying"}

\* Program points with interrupts on.
OnPcs == {"run", "tried", "wait_release", "wait_down", "wait_lock", "broadcast"}
\* Program points inside an interrupts-off section: sema_down's loop,
\* lock_acquire's donation, and the recomputation that precedes a yield.
OffPcs == {"down", "donate", "recompute"}

InterruptsOn == cur # Idle => pc[cur] \in OnPcs

Init ==
  /\ cur = Main
  /\ status = [t \in Threads |-> IF t = Main THEN "running" ELSE "new"]
  /\ ready_list = << >>
  /\ priority = [t \in Threads |-> DefaultPri]
  /\ normal_priority = [t \in Threads |-> DefaultPri]
  /\ donors = [t \in Threads |-> {}]
  /\ donee = [t \in Threads |-> None]
  /\ want_lock = [t \in Threads |-> None]
  /\ value = [s \in AllSemas |-> IF s \in Locks THEN 1
                                 ELSE IF s \in Semas THEN InitValue[s] ELSE 0]
  /\ waiters = [s \in AllSemas |-> << >>]
  /\ holder = [l \in Locks |-> None]
  /\ cond_waiters = [c \in Conds |-> << >>]
  /\ pc = [t \in Threads |-> IF t = Main THEN "run" ELSE "new"]
  /\ at = [t \in Threads |-> None]
  /\ cv = [t \in Threads |-> None]
  /\ chain = None

(***************************************************************************)
(* The scheduler.                                                          *)
(***************************************************************************)

\* list_max with thread_lower_priority: the index of the first of the
\* threads of the highest priority on list s.
Highest(s, pri) ==
  {i \in DOMAIN s :
     \A j \in DOMAIN s : /\ pri[s[j]] =< pri[s[i]]
                         /\ j < i => pri[s[j]] < pri[s[i]]}

\* schedule: switch to the first of the highest-priority threads of the run
\* queue rl, or to the idle thread; st is the status of every thread.
Schedule(rl, st, pri) ==
  IF rl = << >>
  THEN cur' = Idle /\ ready_list' = rl /\ status' = st
  ELSE \E i \in Highest(rl, pri) :
         /\ cur' = rl[i]
         /\ ready_list' = RemoveAt(rl, i)
         /\ status' = [st EXCEPT ![rl[i]] = "running"]

\* thread_yield by t.
ThreadYield(t, rl, st, pri) ==
  Schedule(Append(rl, t), [st EXCEPT ![t] = "ready"], pri)

\* Mutant of HigherReady: only the front of the run queue is looked at.
HigherAtFront(t, rl, pri) == rl # << >> /\ pri[Head(rl)] > pri[t]

\* The run queue rl has a thread of higher priority than t.
HigherReady(t, rl, pri) == \E i \in DOMAIN rl : pri[rl[i]] > pri[t]

\* thread_yield_to_higher_priority by t.
YieldToHigher(t, rl, st, pri) ==
  IF HigherReady(t, rl, pri)
  THEN ThreadYield(t, rl, st, pri)
  ELSE cur' = t /\ ready_list' = rl /\ status' = st

\* Mutant of Woken: a waiter is only woken when the value was 0.
WokenFromZero(s) ==
  IF waiters[s] = << >> \/ value[s] > 0
  THEN {[ws |-> waiters, rl |-> ready_list, st |-> status]}
  ELSE {[ws |-> [waiters EXCEPT ![s] = RemoveAt(@, i)],
         rl |-> Append(ready_list, waiters[s][i]),
         st |-> [status EXCEPT ![waiters[s][i]] = "ready"]] :
           i \in Highest(waiters[s], priority)}

\* sema_up on s up to thread_unblock: the wait lists, the run queue and the
\* statuses that result, by the waiter that is woken.
Woken(s) ==
  IF waiters[s] = << >>
  THEN {[ws |-> waiters, rl |-> ready_list, st |-> status]}
  ELSE {[ws |-> [waiters EXCEPT ![s] = RemoveAt(@, i)],
         rl |-> Append(ready_list, waiters[s][i]),
         st |-> [status EXCEPT ![waiters[s][i]] = "ready"]] :
           i \in Highest(waiters[s], priority)}

\* A timer interrupt at the end of a time slice: thread_tick asks for
\* thread_yield on return from the interrupt.
Preempt ==
  /\ cur # Idle /\ InterruptsOn
  /\ ThreadYield(cur, ready_list, status, priority)
  /\ UNCHANGED <<pri_vars, sema_vars, pc, at, cv, chain>>

\* The idle thread blocks again after each interrupt.
IdleBlock ==
  /\ cur = Idle /\ ready_list # << >>
  /\ Schedule(ready_list, status, priority)
  /\ UNCHANGED <<pri_vars, sema_vars, pc, at, cv, chain>>

\* thread_yield called by a thread.
Yield(t) ==
  /\ cur = t /\ pc[t] = "run"
  /\ ThreadYield(t, ready_list, status, priority)
  /\ UNCHANGED <<pri_vars, sema_vars, pc, at, cv, chain>>

\* thread_create: the new thread u becomes ready, and the creator yields to
\* it when it asked for a higher priority than its own.
Create(t, u, p) ==
  /\ cur = t /\ pc[t] = "run" /\ pc[u] = "new"
  /\ priority' = [priority EXCEPT ![u] = p]
  /\ normal_priority' = [normal_priority EXCEPT ![u] = p]
  /\ pc' = [pc EXCEPT ![u] = "run"]
  /\ LET rl == Append(ready_list, u)
         st == [status EXCEPT ![u] = "ready"]
     IN  IF p > priority[t]
         THEN ThreadYield(t, rl, st, priority')
         ELSE cur' = t /\ ready_list' = rl /\ status' = st
  /\ UNCHANGED <<donors, donee, want_lock, sema_vars, at, cv, chain>>

\* thread_exit, by a thread that holds no lock.
Exit(t) ==
  /\ cur = t /\ pc[t] = "run"
  /\ \A l \in Locks : holder[l] # t
  /\ pc' = [pc EXCEPT ![t] = "dead"]
  /\ Schedule(ready_list, [status EXCEPT ![t] = "dying"], priority)
  /\ UNCHANGED <<pri_vars, sema_vars, at, cv, chain>>

(***************************************************************************)
(* Priorities.                                                             *)
(***************************************************************************)

\* Mutant of Cascades: no nested donation.
CascadesNever(p) == FALSE

\* The new priority p of chain is passed on to its donee.
Cascades(p) == p > priority[chain] /\ donee[chain] # None

\* thread_recompute_priority (chain), one call: the priority becomes the
\* highest of the normal one and the donors'.  A rise goes on to the donee.
\* After lock_acquire's call the thread goes on to sema_down; after the one
\* of lock_release or thread_set_priority it yields to a higher priority.
RecomputePriority(t) ==
  /\ cur = t /\ pc[t] \in {"donate", "recompute"}
  /\ \E p \in {normal_priority[chain]} \cup {priority[d] : d \in donors[chain]} :
       /\ p >= normal_priority[chain]
       /\ \A d \in donors[chain] : p >= priority[d]
       /\ priority' = [priority EXCEPT ![chain] = p]
       /\ IF Cascades(p)
          THEN chain' = donee[chain] /\ UNCHANGED <<sched_vars, pc>>
          ELSE /\ chain' = None
               /\ IF pc[t] = "donate"
                  THEN pc' = [pc EXCEPT ![t] = "down"] /\ UNCHANGED sched_vars
                  ELSE /\ pc' = [pc EXCEPT ![t] = IF cv[t] = None THEN "run"
                                                  ELSE "wait_down"]
                       /\ YieldToHigher(t, ready_list, status, priority')
  /\ UNCHANGED <<normal_priority, donors, donee, want_lock, sema_vars, at, cv>>

\* thread_set_priority, up to recompute_priority_chain.
SetPriority(t, p) ==
  /\ cur = t /\ pc[t] = "run"
  /\ normal_priority' = [normal_priority EXCEPT ![t] = p]
  /\ chain' = t
  /\ pc' = [pc EXCEPT ![t] = "recompute"]
  /\ UNCHANGED <<sched_vars, priority, donors, donee, want_lock, sema_vars, at, cv>>

(***************************************************************************)
(* Semaphores.                                                             *)
(***************************************************************************)

\* sema_down is called: interrupts go off.
SemaDown(t, s) ==
  /\ cur = t /\ pc[t] = "run" /\ s \in Semas
  /\ pc' = [pc EXCEPT ![t] = "down"]
  /\ at' = [at EXCEPT ![t] = s]
  /\ UNCHANGED <<sched_vars, pri_vars, sema_vars, cv, chain>>

\* An iteration of sema_down's loop that finds the value 0: wait and block.
DownBlock(t) ==
  /\ cur = t /\ pc[t] = "down" /\ value[at[t]] = 0
  /\ waiters' = [waiters EXCEPT ![at[t]] = Append(@, t)]
  /\ Schedule(ready_list, [status EXCEPT ![t] = "blocked"], priority)
  /\ UNCHANGED <<pri_vars, value, holder, cond_waiters, pc, at, cv, chain>>

\* The end of sema_down's loop, and the rest of its caller's interrupts-off
\* section: lock_acquire records the holder, cond_wait goes on to reacquire
\* its lock.
DownTake(t) ==
  /\ cur = t /\ pc[t] = "down" /\ value[at[t]] > 0
  /\ value' = [value EXCEPT ![at[t]] = @ - 1]
  /\ at' = [at EXCEPT ![t] = None]
  /\ IF at[t] \in Locks
     THEN /\ holder' = [holder EXCEPT ![at[t]] = t]
          /\ pc' = [pc EXCEPT ![t] = "run"]
          /\ cv' = [cv EXCEPT ![t] = None]
     ELSE /\ pc' = [pc EXCEPT ![t] = IF at[t] \in Semas THEN "run" ELSE "wait_lock"]
          /\ UNCHANGED <<holder, cv>>
  /\ UNCHANGED <<sched_vars, pri_vars, waiters, cond_waiters, chain>>

\* Mutant of Available: sema_try_down does not look at the value.
AvailableAlways(s) == TRUE

\* sema_try_down's test.
Available(s) == value[s] > 0

\* sema_try_down that succeeds (one that fails changes nothing).
SemaTryDown(t, s) ==
  /\ cur = t /\ pc[t] = "run" /\ s \in Semas /\ Available(s)
  /\ value' = [value EXCEPT ![s] = @ - 1]
  /\ UNCHANGED <<sched_vars, pri_vars, waiters, holder, cond_waiters, pc, at, cv, chain>>

\* sema_up by a thread with interrupts on, which yields to a higher priority
\* if it woke a thread.
SemaUp(t, s) ==
  /\ cur = t /\ pc[t] = "run" /\ s \in Semas /\ value[s] < MaxValue
  /\ value' = [value EXCEPT ![s] = @ + 1]
  /\ \E w \in Woken(s) :
       /\ waiters' = w.ws
       /\ IF waiters[s] = << >> THEN UNCHANGED sched_vars
          ELSE YieldToHigher(t, w.rl, w.st, priority)
  /\ UNCHANGED <<pri_vars, holder, cond_waiters, pc, at, cv, chain>>

\* sema_up by an interrupt handler, which never yields.
IntrSemaUp(s) ==
  /\ InterruptsOn /\ s \in IntrSemas /\ value[s] < MaxValue
  /\ value' = [value EXCEPT ![s] = @ + 1]
  /\ \E w \in Woken(s) :
       waiters' = w.ws /\ ready_list' = w.rl /\ status' = w.st
  /\ UNCHANGED <<cur, pri_vars, holder, cond_waiters, pc, at, cv, chain>>

(***************************************************************************)
(* Locks.                                                                  *)
(***************************************************************************)

\* Mutant of Contended: no donation.
ContendedNever(l) == FALSE

\* lock_acquire's test that l has a holder to donate to.
Contended(l) == holder[l] # None

\* lock_acquire on l up to sema_down, called by a thread or at the end of
\* cond_wait.  When the lock has a holder, the thread becomes its donor.
LockAcquire(t, l) ==
  /\ cur = t
  /\ \/ pc[t] = "run" /\ holder[l] # t
     \/ pc[t] = "wait_lock" /\ l = CondLock[cv[t]]
  /\ at' = [at EXCEPT ![t] = l]
  /\ IF Contended(l)
     THEN /\ want_lock' = [want_lock EXCEPT ![t] = l]
          /\ donee' = [donee EXCEPT ![t] = holder[l]]
          /\ donors' = [donors EXCEPT ![holder[l]] = @ \cup {t}]
          /\ chain' = holder[l]
          /\ pc' = [pc EXCEPT ![t] = "donate"]
     ELSE /\ pc' = [pc EXCEPT ![t] = "down"]
          /\ UNCHANGED <<want_lock, donee, donors, chain>>
  /\ UNCHANGED <<sched_vars, priority, normal_priority, sema_vars, cv>>

\* lock_try_acquire that succeeds, up to the return of sema_try_down:
\* interrupts are back on and the holder is not recorded yet.
LockTryAcquire(t, l) ==
  /\ cur = t /\ pc[t] = "run" /\ l \in TryLocks /\ holder[l] # t /\ Available(l)
  /\ value' = [value EXCEPT ![l] = @ - 1]
  /\ pc' = [pc EXCEPT ![t] = "tried"]
  /\ at' = [at EXCEPT ![t] = l]
  /\ UNCHANGED <<sched_vars, pri_vars, waiters, holder, cond_waiters, cv, chain>>

\* The rest of lock_try_acquire.
SetHolder(t) ==
  /\ cur = t /\ pc[t] = "tried"
  /\ holder' = [holder EXCEPT ![at[t]] = t]
  /\ pc' = [pc EXCEPT ![t] = "run"]
  /\ at' = [at EXCEPT ![t] = None]
  /\ UNCHANGED <<sched_vars, pri_vars, value, waiters, cond_waiters, cv, chain>>

\* Mutant of Returned: every donor is returned, whatever lock it wants.
ReturnedAll(t, l) == donors[t]

\* The donors of t that lock_release gives their donation back for l.
Returned(t, l) == {d \in donors[t] : want_lock[d] = l}

\* Mutant of Unheld: the holder stays recorded.
UnheldNot(l) == holder

\* The holders once lock_release has cleared that of l.
Unheld(l) == [holder EXCEPT ![l] = None]

\* lock_release up to thread_recompute_priority, called by a thread or by
\* cond_wait: the donations for l are returned and a waiter is woken.
LockRelease(t, l) ==
  /\ cur = t /\ holder[l] = t
  /\ \/ pc[t] = "run"
     \/ pc[t] = "wait_release" /\ l = CondLock[cv[t]]
  /\ donee' = [d \in Threads |-> IF d \in Returned(t, l) THEN None ELSE donee[d]]
  /\ donors' = [donors EXCEPT ![t] = @ \ Returned(t, l)]
  /\ holder' = Unheld(l)
  /\ value' = [value EXCEPT ![l] = @ + 1]
  /\ \E w \in Woken(l) :
       waiters' = w.ws /\ ready_list' = w.rl /\ status' = w.st
  /\ chain' = t
  /\ pc' = [pc EXCEPT ![t] = "recompute"]
  /\ UNCHANGED <<cur, priority, normal_priority, want_lock, cond_waiters, at, cv>>

(***************************************************************************)
(* Condition variables.                                                    *)
(***************************************************************************)

\* cond_wait up to lock_release: the waiter, with a new semaphore, is put at
\* the end of the condition's list.
CondWait(t, c) ==
  /\ cur = t /\ pc[t] = "run" /\ holder[CondLock[c]] = t
  /\ value' = [value EXCEPT ![t] = 0]
  /\ waiters' = [waiters EXCEPT ![t] = << >>]
  /\ cond_waiters' = [cond_waiters EXCEPT ![c] = Append(@, t)]
  /\ cv' = [cv EXCEPT ![t] = c]
  /\ pc' = [pc EXCEPT ![t] = "wait_release"]
  /\ UNCHANGED <<sched_vars, pri_vars, holder, at, chain>>

\* cond_wait calls sema_down on its semaphore.
CondDown(t) ==
  /\ cur = t /\ pc[t] = "wait_down"
  /\ pc' = [pc EXCEPT ![t] = "down"]
  /\ at' = [at EXCEPT ![t] = t]
  /\ UNCHANGED <<sched_vars, pri_vars, sema_vars, cv, chain>>

\* The list of c without its i-th waiter.
Unlisted(c, i) == RemoveAt(cond_waiters[c], i)

\* cond_signal on c with a waiter: the one of the highest priority leaves the
\* list and its semaphore is upped.
Signal(t, c) ==
  \E i \in Highest(cond_waiters[c], priority) :
    LET s == cond_waiters[c][i]
    IN  /\ cond_waiters' = [cond_waiters EXCEPT ![c] = Unlisted(c, i)]
        /\ value' = [value EXCEPT ![s] = @ + 1]
        /\ \E w \in Woken(s) :
             /\ waiters' = w.ws
             /\ IF waiters[s] = << >> THEN UNCHANGED sched_vars
                ELSE YieldToHigher(t, w.rl, w.st, priority)
        /\ UNCHANGED <<pri_vars, holder, at, chain>>

CondSignal(t, c) ==
  /\ cur = t /\ pc[t] = "run" /\ holder[CondLock[c]] = t
  /\ Signal(t, c)
  /\ UNCHANGED <<pc, cv>>

\* cond_broadcast is called on c.
CondBroadcast(t, c) ==
  /\ cur = t /\ pc[t] = "run" /\ holder[CondLock[c]] = t
  /\ cond_waiters[c] # << >>
  /\ pc' = [pc EXCEPT ![t] = "broadcast"]
  /\ cv' = [cv EXCEPT ![t] = c]
  /\ UNCHANGED <<sched_vars, pri_vars, sema_vars, at, chain>>

\* An iteration of cond_broadcast's loop, or its end.
BroadcastStep(t) ==
  /\ cur = t /\ pc[t] = "broadcast"
  /\ IF cond_waiters[cv[t]] # << >>
     THEN Signal(t, cv[t]) /\ UNCHANGED <<pc, cv>>
     ELSE /\ pc' = [pc EXCEPT ![t] = "run"]
          /\ cv' = [cv EXCEPT ![t] = None]
          /\ UNCHANGED <<sched_vars, pri_vars, sema_vars, at, chain>>

----------------------------------------------------------------------------

LockStep(t) ==
  \/ RecomputePriority(t) \/ DownBlock(t) \/ DownTake(t) \/ SetHolder(t)
  \/ \E l \in Locks : LockAcquire(t, l) \/ LockTryAcquire(t, l) \/ LockRelease(t, l)

SemaStep(t) == \E s \in Semas : SemaDown(t, s) \/ SemaTryDown(t, s) \/ SemaUp(t, s)

CondStep(t) ==
  \/ CondDown(t) \/ BroadcastStep(t)
  \/ \E c \in Conds : CondWait(t, c) \/ CondSignal(t, c) \/ CondBroadcast(t, c)

ThreadStep(t) ==
  \/ Yield(t) \/ Exit(t)
  \/ \E p \in Priorities : SetPriority(t, p) \/ \E u \in Threads : Create(t, u, p)

Step(t) == LockStep(t) \/ SemaStep(t) \/ CondStep(t) \/ ThreadStep(t)

Interrupt == Preempt \/ IdleBlock \/ \E s \in Semas : IntrSemaUp(s)

Next == Interrupt \/ \E t \in Threads : Step(t)

Spec == Init /\ [][Next]_vars

(***************************************************************************)
(* Properties.                                                             *)
(***************************************************************************)

\* Type correctness.
TypeOK ==
  /\ cur \in Threads \cup {Idle}
  /\ status \in [Threads -> Statuses]
  /\ ready_list \in Seq(Threads)
  /\ priority \in [Threads -> Priorities]
  /\ normal_priority \in [Threads -> Priorities]
  /\ donors \in [Threads -> SUBSET Threads]
  /\ donee \in [Threads -> Threads \cup {None}]
  /\ want_lock \in [Threads -> Locks \cup {None}]
  /\ value \in [AllSemas -> Nat]
  /\ waiters \in [AllSemas -> Seq(Threads)]
  /\ holder \in [Locks -> Threads \cup {None}]
  /\ cond_waiters \in [Conds -> Seq(Threads)]
  /\ pc \in [Threads -> OnPcs \cup OffPcs \cup {"new", "dead"}]
  /\ at \in [Threads -> AllSemas \cup {None}]
  /\ cv \in [Threads -> Conds \cup {None}]
  /\ chain \in Threads \cup {None}

\* The thread of sema_down's loop on s that is not asleep: it will look at
\* the value of s before it does anything else.
Awake(s) == {t \in Threads : /\ pc[t] \in {"down", "donate"} /\ at[t] = s
                             /\ status[t] # "blocked"}

\* t has the lock l: sema_down or sema_try_down has succeeded for it.
Owns(t, l) == holder[l] = t \/ (pc[t] = "tried" /\ at[t] = l)

\* A lock's semaphore is 0 exactly when one thread has the lock, and then no
\* other thread has it (lock_acquire, lock_try_acquire, lock_release).
LockExclusive ==
  \A l \in Locks :
    /\ value[l] = IF \E t \in Threads : Owns(t, l) THEN 0 ELSE 1
    /\ \A t, u \in Threads : Owns(t, l) /\ Owns(u, l) => t = u

\* The elem of struct thread is shared by the run queue and the semaphore
\* wait lists: a thread is on the run queue once exactly when it is ready, on
\* the wait list of the semaphore it downs once exactly when it is blocked,
\* and on no other list.
OnOneList ==
  /\ \A t \in Threads :
       Cardinality({i \in DOMAIN ready_list : ready_list[i] = t})
         = IF status[t] = "ready" THEN 1 ELSE 0
  /\ \A t \in Threads, s \in AllSemas :
       Cardinality({i \in DOMAIN waiters[s] : waiters[s][i] = t})
         = IF status[t] = "blocked" /\ at[t] = s THEN 1 ELSE 0
  /\ \A t \in Threads : status[t] = "running" <=> cur = t

\* No wakeup is lost: while threads wait for a semaphore, each unit of its
\* value has a thread awake in sema_down that is about to look at it.
NoLostWakeup ==
  \A s \in AllSemas : waiters[s] # << >> => value[s] =< Cardinality(Awake(s))

\* A donor is asleep on the lock it wants, or about to be, and gives to the
\* holder of that lock; donee and donors agree.
DonationGraph ==
  /\ \A d \in Threads :
       donee[d] # None =>
         /\ donee[d] # d /\ d \in donors[donee[d]]
         /\ want_lock[d] = at[d] /\ holder[want_lock[d]] = donee[d]
         /\ status[d] = "blocked" \/ (cur = d /\ pc[d] \in {"donate", "down"})
  /\ \A t \in Threads : \A d \in donors[t] : donee[d] = t

\* When no recomputation is in progress, every priority is the highest of the
\* thread's own and its donors': no donation is missed at any depth, and none
\* outlives its lock.
DonationExact ==
  chain = None =>
    \A t \in Threads :
      /\ priority[t] \in {normal_priority[t]} \cup {priority[d] : d \in donors[t]}
      /\ priority[t] >= normal_priority[t]
      /\ \A d \in donors[t] : priority[t] >= priority[d]

\* A thread that holds no lock has its own priority.
NoLockNoDonation ==
  chain = None =>
    \A t \in Threads :
      (\A l \in Locks : holder[l] # t) => priority[t] = normal_priority[t]

\* In a caller's code, no ready thread has a higher priority than the running
\* one: whatever made it ready or raised it was followed by a yield.
HighestRuns ==
  (InterruptsOn /\ cur # Idle) =>
    \A i \in DOMAIN ready_list : priority[ready_list[i]] =< priority[cur]

\* A donation is only taken back by the release of the lock it was made for:
\* lock_release returns no donation for another lock of the same thread.
DonationLasts ==
  [][\A d \in Threads :
       (donee[d] # None /\ donee'[d] # donee[d]) =>
         /\ holder[want_lock[d]] = donee[d]
         /\ holder'[want_lock[d]] = None]_vars

\* t is in cond_wait on c, not yet past its sema_down.
InWait(t, c) ==
  /\ cv[t] = c
  /\ \/ pc[t] \in {"wait_release", "recompute", "wait_down"}
     \/ pc[t] = "down" /\ at[t] = t

\* A thread is on a condition's list, once, exactly while it is in cond_wait
\* and not signalled, so that no signal is lost in the window between
\* lock_release and sema_down, and no signal goes to a semaphore_elem whose
\* cond_wait has returned.
SignalKept ==
  /\ \A t \in Threads, c \in Conds :
       Cardinality({i \in DOMAIN cond_waiters[c] : cond_waiters[c][i] = t})
         = IF InWait(t, c) /\ value[t] = 0 THEN 1 ELSE 0
  /\ \A t \in Threads : value[t] =< 1

\* lock_acquire, lock_release and thread_recompute_priority: who donates to
\* whom agrees with who waits for what, priorities are what donors give, at
\* every depth, and nothing more.
DonationRight == DonationGraph /\ DonationExact /\ NoLockNoDonation

\* sema_up, cond_signal and cond_wait: every thread is on the one list it
\* belongs to, and no wakeup and no signal is lost.
WakeupsKept == OnOneList /\ NoLostWakeup /\ SignalKept

\* Each lock, seen through the threads that have it.
LockSpec == INSTANCE AbstractLock
              WITH owners <- [l \in Locks |-> {t \in Threads : Owns(t, l)}]

\* lock_acquire, lock_try_acquire and lock_release implement abstract locks.
ImplementsLocks == LockSpec!Spec
=============================================================================
