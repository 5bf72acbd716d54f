------------------------------ MODULE Donation ------------------------------
(***************************************************************************)
(* Locks, priority donation and the priority scheduler of prj1 and prj2    *)
(* (threads/synch.c, threads/thread.c), which differ from those of prj3    *)
(* and prj4: lock_acquire looks at the holder, donates, takes the          *)
(* semaphore and records the holder in four steps with interrupts on in    *)
(* between, and donation_back takes a priority back from a list of donors. *)
(*                                                                         *)
(* A section with interrupts off is one action.  allowed holds the locks   *)
(* that a behaviour uses, and what happens in it besides the creation of   *)
(* threads, lock_acquire, lock_release and the ends of time slices:        *)
(*   "window"  the timer interrupt takes the CPU inside lock_acquire or    *)
(*             lock_release too, not only in the code that calls them      *)
(*   "sleep"   threads call timer_sleep, with locks or without             *)
(*   "set"     threads call thread_set_priority                            *)
(* broken names a null pointer that was followed or a list element that is *)
(* put on a second list; nothing happens in the model afterwards.          *)
(***************************************************************************)
EXTENDS Naturals, FiniteSets, SequencesExt

CONSTANTS
    Threads, Main, Idle,
    Locks,
    Priorities, DefaultPri,
    MaxDepth,       \* MAX_DEPTH of donation
    Allowed,        \* the values of allowed that are looked at
    None

ASSUME DonationAssumption ==
    /\ IsFiniteSet(Threads) /\ Main \in Threads /\ Idle \notin Threads
    /\ Priorities \subseteq Nat /\ DefaultPri \in Priorities
    /\ MaxDepth \in Nat
    /\ {"window", "sleep", "set"} \cap Locks = {}
    /\ Allowed \subseteq SUBSET ({"window", "sleep", "set"} \cup Locks)
    /\ None \notin Threads \cup {Idle} \cup Locks

VARIABLES
    allowed,
    cur,            \* the running thread
    ready_list,     \* a sequence of threads
    pc,             \* where a thread is
    arg,            \* the lock of the call it is in
    priority, ori_priority, wait_lock,
    donation_list,  \* donors of a thread, the latest first
    holder, value, waiters,     \* of each lock and its semaphore
    base,           \* history: the priority a thread was given or set
    broken

sched == <<cur, ready_list>>
pris == <<priority, ori_priority, wait_lock, donation_list>>
locks == <<holder, value, waiters>>
vars == <<allowed, sched, pc, arg, pris, locks, base, broken>>

Init ==
    /\ allowed \in Allowed
    /\ cur = Main /\ ready_list = <<>>
    /\ pc = [t \in Threads |-> IF t = Main THEN "run" ELSE "new"]
    /\ arg = [t \in Threads |-> None]
    /\ priority = [t \in Threads |-> DefaultPri]
    /\ ori_priority = [t \in Threads |-> 0]
    /\ wait_lock = [t \in Threads |-> None]
    /\ donation_list = [t \in Threads |-> <<>>]
    /\ holder = [l \in Locks |-> None]
    /\ value = [l \in Locks |-> 1]
    /\ waiters = [l \in Locks |-> <<>>]
    /\ base = [t \in Threads |-> DefaultPri]
    /\ broken = None

-----------------------------------------------------------------------------
\* list_insert_ordered by compare_thread_priority: before the first thread
\* of lower priority.
Insert(list, t, pri) ==
    LET lower == {i \in DOMAIN list : pri[t] > pri[list[i]]}
        at == IF lower = {} THEN Len(list) + 1
              ELSE CHOOSE i \in lower : \A j \in lower : i <= j
    IN  InsertAt(list, at, t)

\* Mutant of Sorted: the list is left as it is.
SortedNot(list, pri) == list

\* The elements of list that come before its i-th when it is sorted.
Before(list, pri, i) ==
    {j \in DOMAIN list : pri[list[j]] > pri[list[i]] \/ (pri[list[j]] = pri[list[i]] /\ j < i)}

\* list_sort by compare_thread_priority: stable, highest first.
Sorted(list, pri) ==
    [k \in DOMAIN list |->
        list[CHOOSE i \in DOMAIN list : Cardinality(Before(list, pri, i)) + 1 = k]]

\* schedule: the front of ready runs, or the idle thread.
Schedule(ready) ==
    IF ready = <<>> THEN cur' = Idle /\ ready_list' = <<>>
    ELSE cur' = Head(ready) /\ ready_list' = Tail(ready)

\* thread_super_yield of the running thread t, with the run queue and the
\* priorities as they are by then.
SuperYield(t, ready, pri) ==
    IF ready # <<>> /\ pri[Head(ready)] > pri[t]
    THEN Schedule(Insert(ready, t, pri))
    ELSE cur' = t /\ ready_list' = ready

Running(t, at) == broken = None /\ cur = t /\ pc[t] = at
Goto(t, at) == pc' = [pc EXCEPT ![t] = at]
Keep == UNCHANGED <<allowed, broken>>

-----------------------------------------------------------------------------
\* thread_create: init_thread, thread_unblock, thread_super_yield.
Create(t) ==
    /\ Running(t, "run")
    /\ \E u \in Threads, p \in Priorities :
          /\ pc[u] = "new"
          /\ Goto(u, "run")
          /\ priority' = [priority EXCEPT ![u] = p]
          /\ base' = [base EXCEPT ![u] = p]
          /\ SuperYield(t, Insert(ready_list, u, priority'), priority')
    /\ Keep /\ UNCHANGED <<arg, ori_priority, wait_lock, donation_list, locks>>

\* thread_set_priority.
SetPriority(t) ==
    /\ "set" \in allowed
    /\ Running(t, "run")
    /\ \E p \in Priorities \ {base[t]} :
          /\ IF donation_list[t] = <<>> \/ p > priority[t]
             THEN /\ priority' = [priority EXCEPT ![t] = p]
                  /\ UNCHANGED ori_priority
             ELSE /\ ori_priority' = [ori_priority EXCEPT ![t] = p]
                  /\ UNCHANGED priority
          /\ base' = [base EXCEPT ![t] = p]
          /\ SuperYield(t, ready_list, priority')
    /\ Keep /\ UNCHANGED <<pc, arg, wait_lock, donation_list, locks>>

\* timer_sleep.
Sleep(t) ==
    /\ "sleep" \in allowed
    /\ Running(t, "run")
    /\ Goto(t, "asleep")
    /\ Schedule(ready_list)
    /\ Keep /\ UNCHANGED <<arg, pris, locks, base>>

\* The timer interrupt wakes a sleeper; a thread it overtakes yields on return.
\* The idle thread always gives way.
Wake(u) ==
    /\ broken = None /\ pc[u] = "asleep"
    /\ cur # Idle => pc[cur] = "run" \/ "window" \in allowed
    /\ Goto(u, "run")
    /\ LET ready == Insert(ready_list, u, priority) IN
       IF cur = Idle THEN Schedule(ready) ELSE SuperYield(cur, ready, priority)
    /\ Keep /\ UNCHANGED <<arg, pris, locks, base>>

\* thread_tick at the end of a time slice: threads of equal priority take turns.
Preempt(t) ==
    /\ broken = None /\ cur = t /\ t \in Threads
    /\ pc[t] = "run" \/ "window" \in allowed
    /\ ready_list # <<>> /\ priority[Head(ready_list)] = priority[t]
    /\ Schedule(Insert(ready_list, t, priority))
    /\ Keep /\ UNCHANGED <<pc, arg, pris, locks, base>>

Exit(t) ==
    /\ Running(t, "run")
    /\ \A l \in Locks : holder[l] # t
    /\ Goto(t, "dead")
    /\ Schedule(ready_list)
    /\ Keep /\ UNCHANGED <<arg, pris, locks, base>>

-----------------------------------------------------------------------------
\* lock_acquire: is there a holder?
Acquire(t) ==
    /\ Running(t, "run")
    /\ \E l \in Locks \cap allowed :
          /\ holder[l] # t
          /\ arg' = [arg EXCEPT ![t] = l]
          /\ Goto(t, IF holder[l] # None THEN "donate" ELSE "down")
    /\ Keep /\ UNCHANGED <<sched, pris, locks, base>>

\* The thread that a donation to u reaches next.
Further(u) == IF u = None \/ wait_lock[u] = None THEN u ELSE holder[wait_lock[u]]

\* Link(l)[i]: the thread that the donation for lock l reaches i locks further.
Link(l) ==
    LET link[i \in 0..MaxDepth + 1] == IF i = 0 THEN holder[l] ELSE Further(link[i - 1])
    IN  link

Links(l) == {Link(l)[i] : i \in 0..MaxDepth + 1}

\* Mutant of Reached: the donation goes to the holder only.
ReachedFirst(l) == {holder[l]}

\* The threads that get the donor's priority.
Reached(l) == Links(l)

\* donation: its only guard, the test of the holder, has been made before.
Donate(t) ==
    LET l == arg[t]
        h == holder[l]
        fresh == ~ \E u \in Threads : t \in ToSet(donation_list[u])
    IN  /\ Running(t, "donate")
        /\ None \notin Links(l) /\ fresh
        /\ ori_priority' = [ori_priority EXCEPT ![h] =
                              IF donation_list[h] = <<>> THEN priority[h] ELSE @]
        /\ wait_lock' = [wait_lock EXCEPT ![t] = l]
        /\ donation_list' = [donation_list EXCEPT ![h] = <<t>> \o @]
        /\ priority' = [u \in Threads |-> IF u \in Reached(l) THEN priority[t]
                                          ELSE priority[u]]
        /\ ready_list' = Sorted(ready_list, priority')
        /\ Goto(t, "down")
        /\ Keep /\ UNCHANGED <<cur, arg, locks, base>>

\* The holder has gone, or a lock of the chain has no holder: a null pointer
\* is followed.  Or the donor's element is still on another list.
DonateBreaks(t) ==
    LET l == arg[t] IN
    /\ Running(t, "donate")
    /\ \/ None \in Links(l) /\ broken' = "null"
       \/ /\ None \notin Links(l)
          /\ \E u \in Threads : t \in ToSet(donation_list[u])
          /\ broken' = "list"
    /\ UNCHANGED <<allowed, sched, pc, arg, pris, locks, base>>

\* sema_down: one round of its loop.
Down(t) ==
    LET l == arg[t] IN
    /\ Running(t, "down")
    /\ IF value[l] = 0
       THEN /\ waiters' = [waiters EXCEPT ![l] = Insert(@, t, priority)]
            /\ Goto(t, "blocked")
            /\ Schedule(ready_list)
            /\ UNCHANGED value
       ELSE /\ value' = [value EXCEPT ![l] = 0]
            /\ Goto(t, "own")
            /\ UNCHANGED <<waiters, sched>>
    /\ Keep /\ UNCHANGED <<arg, pris, holder, base>>

\* lock->holder = thread_current ().
Own(t) ==
    /\ Running(t, "own")
    /\ holder' = [holder EXCEPT ![arg[t]] = t]
    /\ arg' = [arg EXCEPT ![t] = None]
    /\ Goto(t, "run")
    /\ Keep /\ UNCHANGED <<sched, pris, value, waiters, base>>

\* lock_release: the holder is cleared first.
Release(t) ==
    /\ Running(t, "run")
    /\ \E l \in Locks :
          /\ holder[l] = t
          /\ holder' = [holder EXCEPT ![l] = None]
          /\ arg' = [arg EXCEPT ![t] = l]
    /\ Goto(t, "back")
    /\ Keep /\ UNCHANGED <<sched, pris, value, waiters, base>>

\* The donors of t for lock l.
DonorsFor(t, l) == {u \in ToSet(donation_list[t]) : wait_lock[u] = l}

\* A list without some of its elements.
Others(list, gone) ==
    LET left == {i \in DOMAIN list : list[i] \notin gone}
    IN  [k \in 1..Cardinality(left) |->
            list[CHOOSE i \in left : Cardinality({j \in left : j <= i}) = k]]

\* The priority donation_back leaves: that of the latest donor left.
Restored(t, rest) == IF rest # <<>> THEN priority[Head(rest)] ELSE ori_priority[t]

\* donation_back, unless nobody has donated or nobody waits.
TakeBack(t) ==
    LET l == arg[t]
        rest == Others(donation_list[t], DonorsFor(t, l))
    IN  /\ Running(t, "back")
        /\ IF donation_list[t] # <<>> /\ waiters[l] # <<>>
           THEN /\ donation_list' = [donation_list EXCEPT ![t] = rest]
                /\ wait_lock' = [u \in Threads |-> IF u \in DonorsFor(t, l) THEN None
                                                   ELSE wait_lock[u]]
                /\ priority' = [priority EXCEPT ![t] = Restored(t, rest)]
                /\ ready_list' = Sorted(ready_list, priority')
           ELSE UNCHANGED <<donation_list, wait_lock, priority, ready_list>>
        /\ Goto(t, "up")
        /\ Keep /\ UNCHANGED <<cur, arg, ori_priority, locks, base>>

\* The waiters of l in the order sema_up takes them.
Upped(l) == Sorted(waiters[l], priority)

\* Mutant of Resumed: sema_down does not test the value again.
ResumedOwn == "own"

\* Where a thread goes on that sema_up wakes: at the loop of sema_down.
Resumed == "down"

\* sema_up, and its thread_super_yield.
Up(t) ==
    LET l == arg[t]
        list == Upped(l)
    IN  /\ Running(t, "up")
        /\ value' = [value EXCEPT ![l] = @ + 1]
        /\ waiters' = [waiters EXCEPT ![l] = IF list = <<>> THEN <<>> ELSE Tail(list)]
        /\ pc' = [u \in Threads |-> IF u = t THEN "run"
                                    ELSE IF list # <<>> /\ u = Head(list) THEN Resumed
                                    ELSE pc[u]]
        /\ SuperYield(t, IF list = <<>> THEN ready_list
                         ELSE Insert(ready_list, Head(list), priority), priority)
        /\ arg' = [arg EXCEPT ![t] = None]
        /\ Keep /\ UNCHANGED <<pris, holder, base>>

Next == \E t \in Threads :
    \/ Create(t) \/ SetPriority(t) \/ Sleep(t) \/ Wake(t) \/ Preempt(t) \/ Exit(t)
    \/ Acquire(t) \/ Donate(t) \/ DonateBreaks(t) \/ Down(t) \/ Own(t)
    \/ Release(t) \/ TakeBack(t) \/ Up(t)

Spec == Init /\ [][Next]_vars

-----------------------------------------------------------------------------
Ready == ToSet(ready_list)

TypeOK ==
    /\ allowed \in Allowed
    /\ cur \in Threads \cup {Idle}
    /\ ready_list \in Seq(Threads) /\ IsInjective(ready_list)
    /\ pc \in [Threads -> {"new", "run", "asleep", "donate", "down", "blocked", "own",
                           "back", "up", "dead"}]
    /\ arg \in [Threads -> Locks \cup {None}]
    /\ priority \in [Threads -> Priorities] /\ base \in [Threads -> Priorities]
    /\ wait_lock \in [Threads -> Locks \cup {None}]
    /\ holder \in [Locks -> Threads \cup {None}]
    /\ value \in [Locks -> {0, 1}]

\* A lock is free or has one owner, at whatever step of lock_acquire and
\* lock_release: the value of the semaphore, the holder, a thread about to be
\* recorded as the holder and one about to up the semaphore exclude each other.
OneOwner ==
    \A l \in Locks :
        value[l] + Cardinality({t \in Threads : \/ holder[l] = t
                                                \/ arg[t] = l /\ pc[t] \in {"own", "back", "up"}})
            = 1

\* No thread stays blocked on a free lock unless another thread has been woken
\* for it or is about to take it.
NoneForgotten ==
    \A t \in Threads :
        pc[t] = "blocked" /\ value[arg[t]] = 1 =>
            \E u \in Threads : arg[u] = arg[t] /\ pc[u] = "down"

\* The run queue is in the order of priorities, and between two primitives no
\* ready thread has a higher priority than the running one.
HighestRuns ==
    /\ \A i, j \in DOMAIN ready_list :
          i < j => priority[ready_list[i]] >= priority[ready_list[j]]
    /\ cur \in Threads /\ pc[cur] = "run" =>
          \A t \in Ready : priority[t] <= priority[cur]

\* Where there is one lock and nobody sleeps, its holder does not run below a
\* thread whose donation to it is recorded, whatever priorities are set meanwhile.
OneLockDonated ==
    \A l \in Locks : allowed \subseteq {l, "set"} =>
        \A u \in Threads : holder[l] # None /\ wait_lock[u] = l =>
            priority[u] <= priority[holder[l]]

\* Where three threads nest locks in any order, and every thread that waits has
\* its donation recorded, no holder runs below a thread that waits for it.  Not
\* so with more threads: donation_back restores the priority of the latest
\* donor, and with a fifth thread that need not be the highest.
DonationsRight ==
    /\ Cardinality(Threads) <= 3 /\ allowed \subseteq Locks
    /\ \A l \in Locks : \A u \in ToSet(waiters[l]) : wait_lock[u] = l
    =>  \A l \in Locks : holder[l] # None =>
            \A u \in ToSet(waiters[l]) : priority[u] <= priority[holder[l]]

\* A thread that holds no lock and is not in a primitive has its own priority
\* back, and no donors.
Repaid ==
    allowed \subseteq {"sleep"} \cup Locks =>
        \A t \in Threads :
            pc[t] \in {"run", "asleep"} /\ (\A l \in Locks : holder[l] # t) =>
                priority[t] = base[t] /\ donation_list[t] = <<>>

\* Donation follows no null pointer and corrupts no list.
DonationDefined == "window" \notin allowed => broken = None

\* lock_acquire and lock_release of prj1 exclude and forget no waiter, in the
\* window before the donation as well; without that window the donation follows
\* pointers that exist and every donation is paid back.
LocksRight ==
    TypeOK /\ OneOwner /\ NoneForgotten /\ DonationDefined /\ Repaid /\ OneLockDonated
=============================================================================
