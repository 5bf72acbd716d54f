------------------------------- MODULE Mlfqs -------------------------------
(***************************************************************************)
(* The multi-level feedback queue of prj1: thread_tick charges the running *)
(* thread, recomputes every priority at the end of TIME_SLICE ticks and    *)
(* recent_cpu and load_avg every TIMER_FREQ ticks, in fixed point with F   *)
(* as one, and decides whether to yield.  The ready list is ordered by the *)
(* priorities that threads had when they were put on it; it is sorted when *)
(* a thread is taken off it and when a slice is over.                      *)
(*                                                                         *)
(* The threads do not use locks here: they run, block and are woken.       *)
(***************************************************************************)
EXTENDS Integers, SequencesExt, FiniteSets

CONSTANTS
  Threads,    \* threads other than idle
  Idle,       \* the idle thread
  NiceVals,   \* values for thread_set_nice
  F,          \* one, in fixed point: 2^14 in the code
  PriMax,     \* PRI_MAX
  NiceMax,    \* NICE_MAX; NICE_MIN is its negative
  Slice,      \* TIME_SLICE
  Freq,       \* TIMER_FREQ
  MaxTicks,   \* bound: ticks
  MaxCalls    \* bound: calls of thread_set_nice

MlfqsAssumption ==
  /\ Idle \notin Threads /\ NiceVals \subseteq Int
  /\ {F, Slice, Freq} \subseteq Nat \ {0} /\ {PriMax, NiceMax, MaxTicks, MaxCalls} \subseteq Nat

VARIABLES
  running,      \* the current thread
  readyList,    \* ready threads, in the order of the list
  recent,       \* recent_cpu of each thread
  nice,         \* nice of each thread
  pri,          \* priority of each thread
  loadAvg,      \* load_avg
  calcTicks,    \* calc_ticks
  threadTicks,  \* thread_ticks
  now,          \* ticks so far
  niceCalls,    \* calls of thread_set_nice so far
  outranked     \* history: ticks for which a ready thread has had a higher priority

mlfqsVars == <<running, readyList, recent, nice, pri, loadAvg, calcTicks, threadTicks, now,
               niceCalls, outranked>>

Ready == Range(readyList)
Quotient(x, y) == IF x >= 0 THEN x \div y ELSE -((-x) \div y)
RoundNearest(x) == IF x >= 0 THEN Quotient(x + F \div 2, F) ELSE Quotient(x - F \div 2, F)

\* thread_set_nice: between NICE_MIN and NICE_MAX.
Clamped(n) == IF n > NiceMax THEN NiceMax ELSE IF n < -NiceMax THEN -NiceMax ELSE n

Priority(rc, n) == PriMax - RoundNearest(Quotient(rc, 4)) - 2 * n

\* calc_recent_cpu.
Decayed(rc, n) ==
  LET coef == Quotient(2 * loadAvg * F, 2 * loadAvg + F)
  IN  Quotient(coef * rc, F) + n * F

\* calc_load_avg.
Load(count) == Quotient(Quotient(59 * F, 60) * loadAvg, F) + Quotient(F, 60) * count

\* list_insert_ordered with compare_thread_priority, by the priorities p.
Inserted(s, t, p) ==
  LET less == {i \in 1..Len(s) : p[t] > p[s[i]]}
      at == IF less = {} THEN Len(s) + 1 ELSE CHOOSE i \in less : \A j \in less : i <= j
  IN  InsertAt(s, at, t)

\* Mutant of Sorted: the list is left as it is.
SortedNot(s, p) == s

\* list_sort keeps equal threads in order.
Sorted(s, p) == FoldLeft(LAMBDA sorted, t : Inserted(sorted, t, p), <<>>, s)

Init ==
  /\ running \in Threads
  /\ readyList = <<>>
  /\ recent = [t \in Threads |-> 0] /\ nice = [t \in Threads |-> 0]
  /\ pri = [t \in Threads |-> PriMax]
  /\ loadAvg = 0 /\ calcTicks = 0 /\ threadTicks = 0
  /\ now = 0 /\ niceCalls = 0 /\ outranked = 0
----------------------------------------------------------------------------
\* schedule: the front of the sorted list, or idle, starts a new slice.
Dispatch(list, p) ==
  /\ threadTicks' = 0
  /\ IF list = <<>> THEN running' = Idle /\ readyList' = <<>>
     ELSE running' = Head(Sorted(list, p)) /\ readyList' = Tail(Sorted(list, p))

\* thread_yield; idle is not put on the list.
Yield(list, p) == Dispatch(IF running = Idle THEN list ELSE Inserted(list, running, p), p)

\* Mutant of FrontWins: priorities are not compared.
FrontWinsIdle(list, p) == list # <<>> /\ running = Idle

\* The front of the list, which need not be sorted, outranks the running
\* thread.  Idle blocks as soon as an interrupt has made a thread ready.
FrontWins(list, p) == list # <<>> /\ (running = Idle \/ p[Head(list)] > p[running])

\* thread_super_yield.
SuperYield(list, p) ==
  IF FrontWins(list, p) THEN Yield(list, p)
  ELSE readyList' = list /\ UNCHANGED <<running, threadTicks>>

Outranks == running' # Idle /\ \E t \in Range(readyList') : pri'[t] > pri'[running']

\* thread_tick, and the yield when the interrupt returns.
Tick ==
  LET charged == [t \in Threads |-> recent[t] + (IF t = running THEN F ELSE 0)]
      recalc == calcTicks + 1 >= Slice
      newPri == IF recalc THEN [t \in Threads |-> Priority(charged[t], nice[t])] ELSE pri
      second == (now + 1) % Freq = 0
      sliceOver == threadTicks + 1 >= Slice /\ readyList # <<>>
      list == IF sliceOver THEN Sorted(readyList, newPri) ELSE readyList
      equal == sliceOver /\ running # Idle /\ newPri[Head(list)] = newPri[running]
  IN  /\ now < MaxTicks /\ now' = now + 1
      /\ calcTicks' = IF recalc THEN 0 ELSE calcTicks + 1
      /\ pri' = newPri
      /\ recent' = IF second THEN [t \in Threads |-> Decayed(charged[t], nice[t])] ELSE charged
      /\ loadAvg' = IF second THEN Load(IF running = Idle THEN 0 ELSE Len(readyList) + 1) ELSE loadAvg
      /\ IF (recalc /\ FrontWins(readyList, newPri)) \/ equal \/ (running = Idle /\ readyList # <<>>)
         THEN Yield(list, newPri)
         ELSE /\ readyList' = list /\ UNCHANGED running
              /\ threadTicks' = IF threadTicks + 1 >= Slice /\ readyList = <<>> THEN 0 ELSE threadTicks + 1
      /\ outranked' = IF Outranks THEN outranked + 1 ELSE 0
      /\ UNCHANGED <<nice, niceCalls>>

\* The running thread blocks.
Block ==
  /\ running # Idle
  /\ Dispatch(readyList, pri)
  /\ UNCHANGED <<recent, nice, pri, loadAvg, calcTicks, now, niceCalls>>
  /\ outranked' = IF Outranks THEN outranked ELSE 0

\* sema_up or an interrupt handler wakes t: thread_unblock, then
\* thread_super_yield.
Wake(t) ==
  /\ t # running /\ t \notin Ready
  /\ SuperYield(Inserted(readyList, t, pri), pri)
  /\ UNCHANGED <<recent, nice, pri, loadAvg, calcTicks, now, niceCalls>>
  /\ outranked' = IF Outranks THEN outranked ELSE 0

\* thread_set_nice of the running thread: only the priority of this call is
\* computed from the clamped value.
SetNice(n) ==
  /\ running # Idle /\ niceCalls < MaxCalls /\ niceCalls' = niceCalls + 1
  /\ nice' = [nice EXCEPT ![running] = n]
  /\ LET newPri == [pri EXCEPT ![running] = Priority(recent[running], Clamped(n))]
     IN  pri' = newPri /\ SuperYield(readyList, newPri)
  /\ outranked' = IF Outranks THEN outranked ELSE 0
  /\ UNCHANGED <<recent, loadAvg, calcTicks, now>>

Next == Tick \/ Block \/ (\E t \in Threads : Wake(t)) \/ (\E n \in NiceVals : SetNice(n))

Spec == Init /\ [][Next]_mlfqsVars
----------------------------------------------------------------------------
\* Every part is of its type; a thread is on the list at most once.
TypeOK ==
  /\ running \in Threads \cup {Idle} /\ Ready \subseteq Threads \ {running}
  /\ IsInjective(readyList)
  /\ recent \in [Threads -> Int] /\ nice \in [Threads -> NiceVals \cup {0}] /\ pri \in [Threads -> Int]
  /\ loadAvg \in Nat /\ calcTicks \in 0..(Slice-1) /\ threadTicks \in Nat
  /\ now \in 0..MaxTicks /\ niceCalls \in 0..MaxCalls /\ outranked \in 0..MaxTicks

\* A recomputation may leave the list in the order of the old priorities, so
\* that thread_super_yield sees the wrong front: a ready thread of higher
\* priority waits, but never longer than a slice.
OutrankedBriefly == outranked <= Slice

\* Whoever is given the CPU has the highest priority of the ready threads,
\* in whatever order the list was.
HighestNext ==
  [][running' \notin {running, Idle} =>
       \A t \in Range(readyList') : pri'[t] <= pri'[running']]_mlfqsVars

\* A woken thread with a higher priority than the running one is not left
\* behind: it, or one as high, runs at once, although the list it was
\* inserted in may be out of order.
WokenRuns ==
  [][\A t \in Threads : Wake(t) /\ running # Idle /\ pri[t] > pri[running] =>
        running' # running /\ pri[running'] >= pri[t]]_mlfqsVars
=============================================================================
