---------------------------- MODULE AlarmClock ----------------------------
(***************************************************************************)
(* timer_sleep and the timer interrupt.  A sleeping thread is on           *)
(* sleep_list and blocked on its own semaphore; the interrupt of every     *)
(* tick takes the threads that are due off the list.  The list is a chain  *)
(* of next and prev pointers between a head and a tail, and timer_sleep    *)
(* links into it with interrupts on, in three stores, between which the    *)
(* timer and other threads run.                                            *)
(*                                                                         *)
(* The tick counter is left out: ticksLeft counts wakeup_time down to the  *)
(* present.  A push during which the end of the list moved is torn; what   *)
(* the chain is afterwards is undefined and the model stops there.         *)
(***************************************************************************)
EXTENDS Integers, SequencesExt

CONSTANTS
  Sleepers,   \* threads that call timer_sleep
  MaxSleep    \* bound: longest sleep, in ticks

SleepAssumption ==
  /\ IsFiniteSet(Sleepers) /\ {"head", "tail"} \cap Sleepers = {}
  /\ MaxSleep \in Nat \ {0}

VARIABLES
  nextElem,   \* next pointer of every list element
  prevElem,   \* prev pointer of every list element
  ticksLeft,  \* ticks until wakeup_time
  stage,      \* where each thread is in timer_sleep
  timerSema,  \* value of timer_sema
  torn        \* history: the end of the list moved under a push

alarmVars == <<nextElem, prevElem, ticksLeft, stage, timerSema, torn>>

Elems == Sleepers \cup {"head", "tail"}
Stages == {"run", "timed", "linked", "reached", "listed", "blocked"}
Pushing(t) == stage[t] \in {"linked", "reached"}

\* The elements from e up to the tail, in the order of the next pointers nx.
Order(nx, e) ==
  LET From[x \in Elems] == IF x = "tail" THEN <<>> ELSE <<x>> \o From[nx[x]]
  IN  From[e]
Chain(nx) == Range(Order(nx, nx["head"]))

Init ==
  /\ nextElem = [e \in Elems |-> IF e = "head" THEN "tail" ELSE "null"]
  /\ prevElem = [e \in Elems |-> IF e = "tail" THEN "head" ELSE "null"]
  /\ ticksLeft = [t \in Sleepers |-> 0]
  /\ stage = [t \in Sleepers |-> "run"]
  /\ timerSema = [t \in Sleepers |-> 0]
  /\ torn = FALSE
----------------------------------------------------------------------------
\* wakeup_time is set; the list comes later.
Sleep(t) ==
  /\ stage[t] = "run"
  /\ \E n \in 1..MaxSleep : ticksLeft' = [ticksLeft EXCEPT ![t] = n]
  /\ stage' = [stage EXCEPT ![t] = "timed"]
  /\ UNCHANGED <<nextElem, prevElem, timerSema, torn>>

\* The stores of list_insert.  The new element is nobody's yet.
LinkSelf(t) ==
  /\ stage[t] = "timed"
  /\ prevElem' = [prevElem EXCEPT ![t] = prevElem["tail"]]
  /\ nextElem' = [nextElem EXCEPT ![t] = "tail"]
  /\ stage' = [stage EXCEPT ![t] = "linked"]
  /\ torn' = \E u \in Sleepers : Pushing(u)
  /\ UNCHANGED <<ticksLeft, timerSema>>

LinkBefore(t) ==
  /\ stage[t] = "linked"
  /\ nextElem' = [nextElem EXCEPT ![prevElem["tail"]] = t]
  /\ stage' = [stage EXCEPT ![t] = "reached"]
  /\ UNCHANGED <<prevElem, ticksLeft, timerSema, torn>>

LinkTail(t) ==
  /\ stage[t] = "reached"
  /\ prevElem' = [prevElem EXCEPT !["tail"] = t]
  /\ stage' = [stage EXCEPT ![t] = "listed"]
  /\ UNCHANGED <<nextElem, ticksLeft, timerSema, torn>>

\* sema_down: blocks unless the interrupt was faster.
Down(t) ==
  /\ stage[t] = "listed"
  /\ IF timerSema[t] > 0
     THEN /\ timerSema' = [timerSema EXCEPT ![t] = @ - 1]
          /\ stage' = [stage EXCEPT ![t] = "run"]
     ELSE /\ stage' = [stage EXCEPT ![t] = "blocked"]
          /\ UNCHANGED timerSema
  /\ UNCHANGED <<nextElem, prevElem, ticksLeft, torn>>

\* A woken thread finds its semaphore up.
Resume(t) ==
  /\ stage[t] = "blocked" /\ timerSema[t] > 0
  /\ timerSema' = [timerSema EXCEPT ![t] = @ - 1]
  /\ stage' = [stage EXCEPT ![t] = "run"]
  /\ UNCHANGED <<nextElem, prevElem, ticksLeft, torn>>
----------------------------------------------------------------------------
\* Mutant of Due: a thread is woken a tick early.
DueEarly(t, left) == left[t] <= 1

Due(t, left) == left[t] <= 0

\* list_remove of e from the chains s.
Unlinked(s, e) ==
  [next |-> [s.next EXCEPT ![s.prev[e]] = s.next[e]],
   prev |-> [s.prev EXCEPT ![s.next[e]] = s.prev[e]]]

\* The threads that the loop of timer_interrupt wakes, in list order.
DueThreads(left) == SelectSeq(Order(nextElem, nextElem["head"]), LAMBDA t : Due(t, left))

TimerInterrupt ==
  LET left == [t \in Sleepers |->
                 IF stage[t] = "run" \/ ticksLeft[t] = 0 THEN ticksLeft[t] ELSE ticksLeft[t] - 1]
      up == Range(DueThreads(left))
      list == FoldLeft(Unlinked, [next |-> nextElem, prev |-> prevElem], DueThreads(left))
  IN  /\ \E t \in Sleepers : stage[t] # "run"
      /\ ticksLeft' = left
      /\ nextElem' = list.next /\ prevElem' = list.prev
      /\ timerSema' = [t \in Sleepers |-> timerSema[t] + (IF t \in up THEN 1 ELSE 0)]
      /\ torn' = \/ \E t \in up : Pushing(t)
                 \/ (\E t \in Sleepers : Pushing(t)) /\ prevElem'["tail"] # prevElem["tail"]
      /\ UNCHANGED stage

Next ==
  /\ ~torn
  /\ \/ \E t \in Sleepers :
          Sleep(t) \/ LinkSelf(t) \/ LinkBefore(t) \/ LinkTail(t) \/ Down(t) \/ Resume(t)
     \/ TimerInterrupt

\* Ticks keep coming, and a thread that is ready runs in the end.
Fairness ==
  /\ WF_alarmVars(~torn /\ TimerInterrupt)
  /\ \A t \in Sleepers : WF_alarmVars(~torn /\ Resume(t))

Spec == Init /\ [][Next]_alarmVars /\ Fairness
----------------------------------------------------------------------------
\* Every part is of its type; a semaphore is at most 1, and 0 in a thread
\* that runs: one wake-up for every sleep.
TypeOK ==
  /\ nextElem \in [Elems -> Elems \cup {"null"}] /\ prevElem \in [Elems -> Elems \cup {"null"}]
  /\ ticksLeft \in [Sleepers -> 0..MaxSleep] /\ stage \in [Sleepers -> Stages]
  /\ timerSema \in [Sleepers -> 0..1] /\ torn \in BOOLEAN
  /\ \A t \in Sleepers : stage[t] \in {"run", "timed", "linked"} => timerSema[t] = 0

Asleep(t) == stage[t] \in {"listed", "blocked"} /\ timerSema[t] = 0

\* While nobody is in the middle of a push, sleep_list holds exactly the
\* threads that wait for their tick, and its two chains agree: the removals
\* of the interrupt and pushes that it cut short leave a list.
SleepListSound ==
  (~torn /\ \A t \in Sleepers : ~Pushing(t)) =>
    /\ Chain(nextElem) = {t \in Sleepers : Asleep(t)}
    /\ \A e \in Chain(nextElem) \cup {"head"} : prevElem[nextElem[e]] = e

\* timer_interrupt: nobody is woken before the last tick of its sleep.
NeverEarly == \A t \in Sleepers : timerSema[t] > 0 => ticksLeft[t] = 0

\* timer_sleep returns, whatever the order of the list and whichever
\* interrupts hit its push.
Woken(t) == stage[t] = "blocked" ~> (stage[t] = "run" \/ torn)
=============================================================================
