----------------------------- MODULE MCProgress -----------------------------
(* Small instances of AlarmClock, IntQueue, Ide and SynchLive for TLC.  They   *)
(* share nothing: a behaviour is one of the part that Init chooses, and the    *)
(* others stay in an initial state.                                            *)
EXTENDS Integers, FiniteSets

CONSTANTS
  Sleepers, MaxSleep,                              \* AlarmClock
  Users, BufSize, Bytes, Nobody,                   \* IntQueue
  Requesters, Places, Data, MaxSpurious, Unowned,  \* Ide
  Threads, Main, Idle, Locks, Priorities, DefaultPri, None  \* SynchLive

VARIABLES
  part,
  nextElem, prevElem, ticksLeft, stage, timerSema, torn,
  side, buf, head, tail, queueLock, waiter, user, crowded, queued,
  channelLock, request, phase, selected, status, transfer, disk, irq, completionWait, spurious, written,
  cur, threadStatus, ready_list, priority, normal_priority, donors, donee, want_lock,
  value, waiters, holder, cond_waiters, pc, at, cv, chain

Alarm == INSTANCE AlarmClock
Queue == INSTANCE IntQueue
Disk  == INSTANCE Ide
Live  == INSTANCE SynchLive WITH
           status <- threadStatus, Semas <- {}, Conds <- {}, CondLock <- <<>>, TryLocks <- {},
           IntrSemas <- {}, InitValue <- <<>>, MaxValue <- 0

ASSUME DevicesAssumption == Alarm!SleepAssumption /\ Queue!IntQueueAssumption /\ Disk!IdeAssumption

alarmVars == <<nextElem, prevElem, ticksLeft, stage, timerSema, torn>>
intqVars == <<side, buf, head, tail, queueLock, waiter, user, crowded, queued>>
ideVars == <<channelLock, request, phase, selected, status, transfer, disk, irq, completionWait, spurious, written>>
lockVars == <<cur, threadStatus, ready_list, priority, normal_priority, donors, donee, want_lock,
              value, waiters, holder, cond_waiters, pc, at, cv, chain>>
vars == <<part, alarmVars, intqVars, ideVars, lockVars>>

Init ==
  /\ part \in {"alarm", "queue", "disk", "lock"}
  /\ Alarm!Init /\ Queue!Init /\ Disk!Init /\ Live!Init
  /\ part # "queue" => side = "input" /\ \A i \in DOMAIN buf : \A b \in Bytes : buf[i] <= b

OnAlarm == part = "alarm" /\ UNCHANGED <<part, intqVars, ideVars, lockVars>>
OnQueue == part = "queue" /\ UNCHANGED <<part, alarmVars, ideVars, lockVars>>
OnDisk  == part = "disk" /\ UNCHANGED <<part, alarmVars, intqVars, lockVars>>
OnLock  == part = "lock" /\ UNCHANGED <<part, alarmVars, intqVars, ideVars>>

Next ==
  \/ OnAlarm /\ Alarm!Next
  \/ OnQueue /\ Queue!Next
  \/ OnDisk /\ Disk!Next
  \/ OnLock /\ Live!LiveNext

\* The fairness of the four modules, of the part that runs.
Fairness ==
  /\ WF_vars(OnAlarm /\ ~torn /\ Alarm!TimerInterrupt)
  /\ \A t \in Sleepers : WF_vars(OnAlarm /\ ~torn /\ Alarm!Resume(t))
  /\ WF_vars(OnQueue /\ ~crowded /\ Queue!Handler)
  /\ \A t \in Users : WF_vars(OnQueue /\ ~crowded /\ (Queue!Leave(t) \/ Queue!Finish(t)))
  /\ WF_vars(OnDisk /\ Disk!Device) /\ WF_vars(OnDisk /\ Disk!Handle)
  /\ \A t \in Requesters : WF_vars(OnDisk /\ Disk!Step(t))
  /\ WF_vars(OnLock /\ Live!IdleBlock) /\ WF_vars(OnLock /\ Live!Preempt)
  /\ WF_vars(OnLock /\ Live!OffStep)
  /\ \A t \in Threads, l \in Locks : WF_vars(OnLock /\ Live!LockRelease(t, l))

Spec == Init /\ [][Next]_vars /\ Fairness
----------------------------------------------------------------------------
\* timer_sleep and timer_interrupt: the sleep list is a list of the threads
\* that sleep, whichever interrupt hits a push, and nobody is woken early.
SleepersRight == Alarm!TypeOK /\ Alarm!SleepListSound /\ Alarm!NeverEarly

\* intq_getc, intq_putc, wait and signal: bytes come out in order, no thread
\* sleeps on them, and the assertion of wait fails only for a second thread.
QueueRight == Queue!TypeOK /\ Queue!RingIsFifo /\ Queue!NoSleepOnBytes /\ Queue!CrowdedByTwo

\* ide_read, ide_write and the interrupt handler: reads return what was
\* written, completions are matched, the device is ready when polled.
DiskRight == Disk!TypeOK /\ Disk!ReadsRight /\ Disk!CompletionMatched /\ Disk!NoPanic

Any(S) == CHOOSE x \in S : TRUE

\* timer_sleep returns, a thread that waits for a byte or for room in the
\* queue gets it, and a request that has the disk returns.  What holds for
\* one sleeper or requester holds for all, since nothing tells them apart.
Answered == Alarm!Woken(Any(Sleepers)) /\ Queue!Served /\ Disk!Returned(Any(Requesters))

\* lock_acquire: priority inversion is bounded, for the initial thread and
\* for one that was created, however long others spin.
TopGetsLock ==
  \A t \in {Main, Any(Threads \ {Main})}, l \in Locks : Live!TopGetsLock(t, l)
=============================================================================
