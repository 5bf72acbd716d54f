---------------------------- MODULE SynchProofs ----------------------------
(***************************************************************************)
(* Proofs about Synch for every set of threads, locks, semaphores and      *)
(* conditions: types, mutual exclusion and the refinement of AbstractLock; *)
(* the donors; the lists; the priorities.                                  *)
(***************************************************************************)
EXTENDS Synch, SequenceTheorems, FiniteSetTheorems, TLAPS

-----------------------------------------------------------------------------
(* What adding and removing elements does to the lists of the kernel.        *)

\* The length and the elements of a sequence without its i-th element.
LEMMA RemoveAtProperties ==
  ASSUME NEW S, NEW s \in Seq(S), NEW i \in DOMAIN s
  PROVE  /\ RemoveAt(s, i) \in Seq(S)
         /\ Len(RemoveAt(s, i)) = Len(s) - 1
         /\ \A j \in 1 .. Len(s) - 1 :
              RemoveAt(s, i)[j] = IF j < i THEN s[j] ELSE s[j + 1]
<1>1. i \in 1 .. Len(s) /\ Len(s) \in Nat
  OBVIOUS
<1> DEFINE a == SubSeq(s, 1, i - 1)
           z == SubSeq(s, i + 1, Len(s))
<1>2. /\ a \in Seq(S) /\ Len(a) = i - 1
      /\ \A j \in 1 .. i - 1 : a[j] = s[j]
  BY <1>1, SubSeqProperties
<1>3. /\ z \in Seq(S) /\ Len(z) = Len(s) - i
      /\ \A j \in 1 .. Len(s) - i : z[j] = s[j + i]
  <2>1. \A j \in i + 1 .. Len(s) : s[j] \in S
    BY <1>1
  <2>2. /\ z \in Seq(S)
        /\ Len(z) = IF i + 1 <= Len(s) THEN Len(s) - (i + 1) + 1 ELSE 0
        /\ \A j \in 1 .. Len(s) - (i + 1) + 1 : z[j] = s[i + 1 + j - 1]
    BY <1>1, <2>1, SubSeqProperties
  <2> QED
    BY <1>1, <2>2
<1> HIDE DEF a, z
<1>4. /\ a \o z \in Seq(S)
      /\ Len(a \o z) = Len(s) - 1
      /\ \A j \in 1 .. Len(s) - 1 :
           (a \o z)[j] = IF j < i THEN a[j] ELSE z[j - (i - 1)]
  <2>1. /\ a \o z \in Seq(S) /\ Len(a \o z) = Len(a) + Len(z)
        /\ \A j \in 1 .. Len(a) + Len(z) : (a \o z)[j] = IF j <= Len(a) THEN a[j] ELSE z[j - Len(a)]
    BY ONLY <1>2, <1>3, ConcatProperties
  <2>2. Len(a) = i - 1 /\ Len(a) + Len(z) = Len(s) - 1
    BY <1>1, <1>2, <1>3
  <2> QED
    BY <1>1, <2>1, <2>2
<1>5. \A j \in 1 .. Len(s) - 1 :
        (a \o z)[j] = IF j < i THEN s[j] ELSE s[j + 1]
  <2>1. TAKE j \in 1 .. Len(s) - 1
  <2>2. CASE j < i
    BY <2>2, <1>1, <1>2, <1>4
  <2>3. CASE ~(j < i)
    <3>1. j - (i - 1) \in 1 .. Len(s) - i /\ (j - (i - 1)) + i = j + 1
      BY <2>3, <1>1
    <3> QED
      BY <2>3, <3>1, <1>3, <1>4
  <2> QED
    BY <2>2, <2>3
<1> QED
  BY <1>4, <1>5 DEF RemoveAt, a, z

\* The elements of a sequence, and of one with another element behind.
LEMMA ToSetMembers ==
  ASSUME NEW S, NEW s \in Seq(S)
  PROVE  /\ ToSet(s) \subseteq S
         /\ \A i \in DOMAIN s : s[i] \in ToSet(s)
         /\ \A x \in ToSet(s) : \E i \in DOMAIN s : s[i] = x
  BY DEF ToSet

\* The empty sequence has no elements.
LEMMA ToSetEmpty ==
  ASSUME NEW S, NEW s \in Seq(S)
  PROVE  s = << >> <=> ToSet(s) = {}
<1>1. CASE s = << >>
  BY <1>1 DEF ToSet
<1>2. CASE s # << >>
  <2>1. 1 \in DOMAIN s
    BY <1>2
  <2> QED
    BY <1>2, <2>1 DEF ToSet
<1> QED
  BY <1>1, <1>2

\* One more element at the end.
LEMMA ToSetAppend ==
  ASSUME NEW S, NEW s \in Seq(S), NEW x \in S
  PROVE  ToSet(Append(s, x)) = ToSet(s) \cup {x}
  BY AppendProperties DEF ToSet

\* A sequence without duplicates stays so when the new element is not in it.
LEMMA InjectiveAppend ==
  ASSUME NEW S, NEW s \in Seq(S), NEW x \in S, IsInjective(s), x \notin ToSet(s)
  PROVE  IsInjective(Append(s, x))
  BY AppendProperties DEF ToSet, IsInjective

\* Removing an element, from any sequence and from one without duplicates.
LEMMA ToSetRemoveAt ==
  ASSUME NEW S, NEW s \in Seq(S), NEW i \in DOMAIN s
  PROVE  /\ ToSet(RemoveAt(s, i)) \subseteq ToSet(s)
         /\ ToSet(s) \subseteq ToSet(RemoveAt(s, i)) \cup {s[i]}
<1> DEFINE r == RemoveAt(s, i)
<1>1. /\ i \in 1 .. Len(s) /\ Len(s) \in Nat /\ DOMAIN s = 1 .. Len(s)
      /\ DOMAIN r = 1 .. Len(s) - 1
  BY RemoveAtProperties
<1>2. \A j \in DOMAIN r : r[j] = IF j < i THEN s[j] ELSE s[j + 1]
  BY <1>1, RemoveAtProperties
<1> HIDE DEF r
<1>3. \A j \in DOMAIN r : \E k \in DOMAIN s : r[j] = s[k]
  BY <1>1, <1>2
<1>4. ASSUME NEW k \in DOMAIN s, k # i
      PROVE  \E j \in DOMAIN r : r[j] = s[k]
  <2>1. CASE k < i
    BY <2>1, <1>1, <1>2
  <2>2. CASE k > i
    <3>1. k - 1 \in DOMAIN r /\ r[k - 1] = s[k]
      BY <2>2, <1>1, <1>2
    <3> QED
      BY <3>1
  <2> QED
    BY <2>1, <2>2, <1>1, <1>4
<1> QED
  BY <1>3, <1>4 DEF ToSet, r

\* A sequence without duplicates stays so when an element is taken out.
LEMMA InjectiveRemoveAt ==
  ASSUME NEW S, NEW s \in Seq(S), NEW i \in DOMAIN s, IsInjective(s)
  PROVE  /\ IsInjective(RemoveAt(s, i))
         /\ ToSet(RemoveAt(s, i)) = ToSet(s) \ {s[i]}
<1> DEFINE r == RemoveAt(s, i)
           from(j) == IF j < i THEN j ELSE j + 1
<1>1. /\ i \in 1 .. Len(s) /\ Len(s) \in Nat /\ DOMAIN s = 1 .. Len(s)
      /\ DOMAIN r = 1 .. Len(s) - 1
  BY RemoveAtProperties
<1>2. \A j \in DOMAIN r : r[j] = s[from(j)] /\ from(j) \in DOMAIN s /\ from(j) # i
  <2>1. \A j \in 1 .. Len(s) - 1 : r[j] = IF j < i THEN s[j] ELSE s[j + 1]
    BY RemoveAtProperties
  <2> HIDE DEF r
  <2> QED
    BY <1>1, <2>1
<1>3. \A j, k \in DOMAIN r : from(j) = from(k) => j = k
  BY <1>1
<1> HIDE DEF r, from
<1>4. IsInjective(r)
  BY <1>2, <1>3 DEF IsInjective
<1>5. s[i] \notin ToSet(r)
  BY <1>2 DEF IsInjective, ToSet
<1> QED
  BY <1>4, <1>5, ToSetRemoveAt DEF r

-----------------------------------------------------------------------------
(* Types, locks and donors.                                                  *)

\* The scheduler's part of TypeOK.
SchedOK ==
  /\ cur \in Threads \cup {Idle}
  /\ ready_list \in Seq(Threads)
  /\ status \in [Threads -> Statuses]

\* schedule, thread_yield and thread_yield_to_higher_priority leave a running
\* thread, a run queue and the statuses of their types.
LEMMA ScheduleType ==
  ASSUME NEW rl \in Seq(Threads), NEW st \in [Threads -> Statuses], NEW pri,
         Schedule(rl, st, pri)
  PROVE  SchedOK'
<1> USE DEF SchedOK
<1>1. CASE rl = << >>
  BY <1>1 DEF Schedule
<1>2. CASE rl # << >>
  <2>1. PICK i \in Highest(rl, pri) :
          /\ cur' = rl[i]
          /\ ready_list' = RemoveAt(rl, i)
          /\ status' = [st EXCEPT ![rl[i]] = "running"]
    BY <1>2 DEF Schedule
  <2>2. i \in DOMAIN rl
    BY DEF Highest
  <2> QED
    BY <2>1, <2>2, RemoveAtProperties DEF Statuses
<1> QED
  BY <1>1, <1>2

\* thread_yield and the choice of the next thread.
LEMMA YieldType ==
  ASSUME NEW rl \in Seq(Threads), NEW st \in [Threads -> Statuses], NEW pri,
         NEW t \in Threads, ThreadYield(t, rl, st, pri)
  PROVE  SchedOK'
<1>1. Append(rl, t) \in Seq(Threads)
  OBVIOUS
<1>2. [st EXCEPT ![t] = "ready"] \in [Threads -> Statuses]
  BY DEF Statuses
<1> QED
  BY <1>1, <1>2, ScheduleType DEF ThreadYield

\* What thread_yield_to_higher_priority leaves.
LEMMA YieldToHigherType ==
  ASSUME NEW rl \in Seq(Threads), NEW st \in [Threads -> Statuses], NEW pri,
         NEW t \in Threads, YieldToHigher(t, rl, st, pri)
  PROVE  SchedOK'
  BY YieldType DEF YieldToHigher, SchedOK

\* What sema_up leaves when it wakes a waiter or finds none.
LEMMA WokenType ==
  ASSUME TypeOK, NEW s \in AllSemas, NEW w \in Woken(s)
  PROVE  /\ w.ws \in [AllSemas -> Seq(Threads)]
         /\ w.rl \in Seq(Threads)
         /\ w.st \in [Threads -> Statuses]
<1> USE DEF TypeOK
<1>1. CASE waiters[s] = << >>
  BY <1>1 DEF Woken
<1>2. CASE waiters[s] # << >>
  <2>1. PICK i \in Highest(waiters[s], priority) :
          w = [ws |-> [waiters EXCEPT ![s] = RemoveAt(waiters[s], i)],
               rl |-> Append(ready_list, waiters[s][i]),
               st |-> [status EXCEPT ![waiters[s][i]] = "ready"]]
    BY <1>2 DEF Woken
  <2>2. i \in DOMAIN waiters[s] /\ waiters[s] \in Seq(Threads)
    BY DEF Highest
  <2>3. RemoveAt(waiters[s], i) \in Seq(Threads)
    BY <2>2, RemoveAtProperties
  <2>4. waiters[s][i] \in Threads
    BY <2>2
  <2> QED
    BY <2>1, <2>3, <2>4 DEF Statuses
<1> QED
  BY <1>1, <1>2

\* Control: the variables a program point reads have values there, and only
\* the running thread is in the middle of a recomputation.
Control ==
  \A t \in Threads :
    /\ pc[t] \in {"down", "donate"} => at[t] \in AllSemas
    /\ pc[t] = "tried" => at[t] \in Locks
    /\ pc[t] \in {"wait_release", "wait_down", "wait_lock", "broadcast"} => cv[t] \in Conds
    /\ pc[t] = "down" /\ at[t] \notin Locks \cup Semas => cv[t] \in Conds
    /\ pc[t] = "donate" => at[t] \in Locks
    /\ pc[t] \in {"donate", "recompute"} => cur = t /\ chain \in Threads

TypeInv == TypeOK /\ Control

\* The types at the start.
LEMMA InitType == Init => TypeInv
  BY SynchConstants DEF Init, TypeInv, TypeOK, Control, AllSemas, OnPcs, OffPcs, Statuses

\* The timer's yield.
LEMMA PreemptType == TypeInv /\ Preempt => TypeInv'
<1> SUFFICES ASSUME TypeInv, Preempt PROVE TypeInv'
  OBVIOUS
<1> USE DEF TypeInv, SchedOK
<1>1. cur \in Threads
  BY DEF Preempt, TypeOK
<1>2. SchedOK'
  BY <1>1, YieldType DEF Preempt, TypeOK
<1>3. TypeOK'
  BY <1>2 DEF Preempt, TypeOK, pri_vars, sema_vars
<1>4. Control'
  BY DEF Preempt, Control, TypeOK, InterruptsOn, OnPcs, pri_vars, sema_vars
<1> QED
  BY <1>3, <1>4

\* The idle thread blocks, and the next thread is chosen.
LEMMA IdleBlockType == TypeInv /\ IdleBlock => TypeInv'
<1> SUFFICES ASSUME TypeInv, IdleBlock PROVE TypeInv'
  OBVIOUS
<1> USE DEF TypeInv, SchedOK
<1>2. SchedOK'
  BY ScheduleType DEF IdleBlock, TypeOK
<1>3. TypeOK'
  BY <1>2 DEF IdleBlock, TypeOK, pri_vars, sema_vars
<1>4. Control'
  BY SynchConstants DEF IdleBlock, Control, TypeOK, pri_vars, sema_vars
<1> QED
  BY <1>3, <1>4

\* Whatever the running thread does.
LEMMA ThreadStepType ==
  ASSUME TypeInv, NEW t \in Threads, ThreadStep(t)
  PROVE  TypeInv'
<1> USE DEF TypeInv, SchedOK
<1>1. CASE Yield(t)
  <2>1. SchedOK'
    BY <1>1, YieldType DEF Yield, TypeOK
  <2>2. TypeOK'
    BY <1>1, <2>1 DEF Yield, TypeOK, pri_vars, sema_vars
  <2>3. Control'
    BY <1>1 DEF Yield, Control, TypeOK, pri_vars, sema_vars
  <2> QED
    BY <2>2, <2>3
<1>2. CASE Exit(t)
  <2>1. [status EXCEPT ![t] = "dying"] \in [Threads -> Statuses]
    BY DEF TypeOK, Statuses
  <2>2. SchedOK'
    BY <1>2, <2>1, ScheduleType DEF Exit, TypeOK
  <2>3. TypeOK'
    BY <1>2, <2>2 DEF Exit, TypeOK, pri_vars, sema_vars
  <2>4. Control'
    BY <1>2 DEF Exit, Control, TypeOK, pri_vars, sema_vars
  <2> QED
    BY <2>3, <2>4
<1>3. ASSUME NEW p \in Priorities, SetPriority(t, p)
      PROVE  TypeInv'
  <2>1. TypeOK'
    BY <1>3 DEF SetPriority, TypeOK, OffPcs, sched_vars, sema_vars
  <2>2. Control'
    BY <1>3 DEF SetPriority, Control, TypeOK, sched_vars, sema_vars
  <2> QED
    BY <2>1, <2>2
<1>4. ASSUME NEW p \in Priorities, NEW u \in Threads, Create(t, u, p)
      PROVE  TypeInv'
  <2>1. /\ Append(ready_list, u) \in Seq(Threads)
        /\ [status EXCEPT ![u] = "ready"] \in [Threads -> Statuses]
    BY DEF TypeOK, Statuses
  <2>2. SchedOK'
    <3>1. CASE p > priority[t]
      BY <1>4, <2>1, <3>1, YieldType DEF Create
    <3>2. CASE ~(p > priority[t])
      BY <1>4, <2>1, <3>2 DEF Create
    <3> QED
      BY <3>1, <3>2
  <2>3. TypeOK'
    BY <1>4, <2>2 DEF Create, TypeOK, OnPcs, sema_vars
  <2>4. Control'
    BY <1>4 DEF Create, Control, TypeOK, sema_vars
  <2> QED
    BY <2>3, <2>4
<1> QED
  BY <1>1, <1>2, <1>3, <1>4 DEF ThreadStep

\* The callers' semaphore operations.
LEMMA SemaStepType ==
  ASSUME TypeInv, NEW t \in Threads, SemaStep(t)
  PROVE  TypeInv'
<1> USE DEF TypeInv, SchedOK
<1>0. Semas \subseteq AllSemas
  BY DEF AllSemas
<1>1. ASSUME NEW s \in Semas, SemaDown(t, s)
      PROVE  TypeInv'
  <2>1. TypeOK'
    BY <1>0, <1>1 DEF SemaDown, TypeOK, OffPcs, sched_vars, pri_vars, sema_vars
  <2>2. Control'
    BY <1>0, <1>1 DEF SemaDown, Control, TypeOK, sched_vars, pri_vars, sema_vars
  <2> QED
    BY <2>1, <2>2
<1>2. ASSUME NEW s \in Semas, SemaTryDown(t, s)
      PROVE  TypeInv'
  <2>1. TypeOK'
    BY <1>0, <1>2 DEF SemaTryDown, Available, TypeOK, sched_vars, pri_vars
  <2>2. Control'
    BY <1>0, <1>2 DEF SemaTryDown, Control, TypeOK, sched_vars, pri_vars
  <2> QED
    BY <2>1, <2>2
<1>3. ASSUME NEW s \in Semas, SemaUp(t, s)
      PROVE  TypeInv'
  <2>1. PICK w \in Woken(s) :
          /\ waiters' = w.ws
          /\ IF waiters[s] = << >> THEN UNCHANGED sched_vars
             ELSE YieldToHigher(t, w.rl, w.st, priority)
    BY <1>3 DEF SemaUp
  <2>2. SchedOK'
    BY <1>0, <2>1, WokenType, YieldToHigherType DEF TypeOK, sched_vars
  <2>3. waiters' \in [AllSemas -> Seq(Threads)] /\ value' \in [AllSemas -> Nat]
    BY <1>0, <1>3, <2>1, WokenType DEF SemaUp, TypeOK
  <2>5. TypeOK'
    BY <1>3, <2>2, <2>3 DEF SemaUp, TypeOK, pri_vars
  <2>4. Control'
    BY <1>3 DEF SemaUp, Control, TypeOK, pri_vars
  <2> QED
    BY <2>5, <2>4
<1> QED
  BY <1>1, <1>2, <1>3 DEF SemaStep

\* An interrupt handler ups a semaphore.
LEMMA IntrSemaUpType ==
  ASSUME TypeInv, NEW s \in Semas, IntrSemaUp(s)
  PROVE  TypeInv'
<1> USE DEF TypeInv, SchedOK
<1>0. s \in AllSemas
  BY DEF AllSemas
<1>1. TypeOK'
  BY <1>0, WokenType DEF IntrSemaUp, TypeOK, pri_vars
<1>2. Control'
  BY DEF IntrSemaUp, Control, TypeOK, pri_vars
<1> QED
  BY <1>1, <1>2

\* sema_down: the caller goes on or joins the waiters.
LEMMA DownType ==
  ASSUME TypeInv, NEW t \in Threads, DownBlock(t) \/ DownTake(t)
  PROVE  TypeInv'
<1> USE DEF TypeInv, SchedOK
<1>0. at[t] \in AllSemas
  BY DEF DownBlock, DownTake, Control
<1>1. CASE DownBlock(t)
  <2>1. [status EXCEPT ![t] = "blocked"] \in [Threads -> Statuses]
    BY DEF TypeOK, Statuses
  <2>2. SchedOK'
    BY <1>1, <2>1, ScheduleType DEF DownBlock, TypeOK
  <2>3. waiters' \in [AllSemas -> Seq(Threads)]
    BY <1>0, <1>1 DEF DownBlock, TypeOK
  <2>4. TypeOK'
    BY <1>1, <2>2, <2>3 DEF DownBlock, TypeOK, pri_vars
  <2>5. Control'
    BY <1>1 DEF DownBlock, Control, TypeOK, pri_vars
  <2> QED
    BY <2>4, <2>5
<1>2. CASE DownTake(t)
  <2>1. value' \in [AllSemas -> Nat]
    BY <1>0, <1>2 DEF DownTake, TypeOK
  <2>2. /\ holder' \in [Locks -> Threads \cup {None}]
        /\ pc' \in [Threads -> OnPcs \cup OffPcs \cup {"new", "dead"}]
        /\ cv' \in [Threads -> Conds \cup {None}]
    <3>1. CASE at[t] \in Locks
      <4>1. holder' = [holder EXCEPT ![at[t]] = t] /\ pc' = [pc EXCEPT ![t] = "run"]
            /\ cv' = [cv EXCEPT ![t] = None]
        BY <1>2, <3>1 DEF DownTake
      <4>2. holder' \in [Locks -> Threads \cup {None}]
        BY <4>1 DEF TypeOK
      <4>3. pc' \in [Threads -> OnPcs \cup OffPcs \cup {"new", "dead"}]
        BY <4>1 DEF TypeOK, OnPcs
      <4>4. cv' \in [Threads -> Conds \cup {None}]
        BY <4>1 DEF TypeOK
      <4> QED
        BY <4>2, <4>3, <4>4
    <3>2. CASE at[t] \notin Locks
      BY <1>0, <1>2, <3>2 DEF DownTake, TypeOK, OnPcs
    <3> QED
      BY <3>1, <3>2
  <2>3. TypeOK'
    BY <1>2, <2>1, <2>2 DEF DownTake, TypeOK, sched_vars, pri_vars
  <2>4. Control'
    <3>1. CASE at[t] \in Locks
      BY <1>2, <3>1 DEF DownTake, Control, TypeOK, sched_vars, pri_vars
    <3>2. CASE at[t] \notin Locks
      BY <1>2, <3>2 DEF DownTake, Control, TypeOK, sched_vars, pri_vars
    <3> QED
      BY <3>1, <3>2
  <2> QED
    BY <2>3, <2>4
<1> QED
  BY <1>1, <1>2

\* recompute_priority after lock_release.
LEMMA RecomputeType ==
  ASSUME TypeInv, NEW t \in Threads, RecomputePriority(t)
  PROVE  TypeInv'
<1> USE DEF TypeInv, SchedOK
<1>1. chain \in Threads /\ cur = t
  BY DEF RecomputePriority, Control
<1>2. PICK p \in {normal_priority[chain]} \cup {priority[d] : d \in donors[chain]} :
        /\ priority' = [priority EXCEPT ![chain] = p]
        /\ IF Cascades(p)
           THEN chain' = donee[chain] /\ UNCHANGED <<sched_vars, pc>>
           ELSE /\ chain' = None
                /\ IF pc[t] = "donate"
                   THEN pc' = [pc EXCEPT ![t] = "down"] /\ UNCHANGED sched_vars
                   ELSE /\ pc' = [pc EXCEPT ![t] = IF cv[t] = None THEN "run"
                                                   ELSE "wait_down"]
                        /\ YieldToHigher(t, ready_list, status, priority')
  BY DEF RecomputePriority
<1>3. priority' \in [Threads -> Priorities]
  BY <1>1, <1>2 DEF TypeOK
<1>4. UNCHANGED <<normal_priority, donors, donee, want_lock, sema_vars, at, cv>>
  BY DEF RecomputePriority
<1>5. CASE Cascades(p)
  <2>1. chain' \in Threads
    BY <1>1, <1>2, <1>5 DEF Cascades, TypeOK
  <2>2. TypeOK'
    BY <1>2, <1>3, <1>4, <1>5, <2>1 DEF TypeOK, sched_vars, sema_vars
  <2>3. Control'
    BY <1>2, <1>4, <1>5, <2>1 DEF Control, TypeOK, sched_vars, sema_vars
  <2> QED
    BY <2>2, <2>3
<1>6. CASE ~Cascades(p) /\ pc[t] = "donate"
  <2>1. TypeOK'
    BY <1>2, <1>3, <1>4, <1>6 DEF TypeOK, OffPcs, sched_vars, sema_vars
  <2>2. Control'
    BY <1>2, <1>4, <1>6, <1>1 DEF Control, TypeOK, sched_vars, sema_vars
  <2> QED
    BY <2>1, <2>2
<1>7. CASE ~Cascades(p) /\ pc[t] # "donate"
  <2>1. SchedOK'
    BY <1>2, <1>7, YieldToHigherType DEF TypeOK
  <2>2. TypeOK'
    BY <1>2, <1>3, <1>4, <1>7, <2>1 DEF TypeOK, OnPcs, sema_vars
  <2>3. Control'
    BY <1>2, <1>4, <1>7, <1>1 DEF Control, TypeOK, sema_vars
  <2> QED
    BY <2>2, <2>3
<1> QED
  BY <1>5, <1>6, <1>7

\* lock_acquire, lock_try_acquire and lock_release.
LEMMA LockStepType ==
  ASSUME TypeInv, NEW t \in Threads, LockStep(t)
  PROVE  TypeInv'
<1> USE DEF TypeInv, SchedOK
<1>0. Locks \subseteq AllSemas
  BY DEF AllSemas
<1>1. CASE SetHolder(t)
  <2>1. at[t] \in Locks
    BY <1>1 DEF SetHolder, Control
  <2>2. TypeOK'
    BY <1>1, <2>1 DEF SetHolder, TypeOK, OnPcs, sched_vars, pri_vars
  <2>3. Control'
    BY <1>1 DEF SetHolder, Control, TypeOK, sched_vars, pri_vars
  <2> QED
    BY <2>2, <2>3
<1>2. ASSUME NEW l \in Locks, LockAcquire(t, l)
      PROVE  TypeInv'
  <2>1. CASE Contended(l)
    <3>1. holder[l] \in Threads
      BY <2>1 DEF Contended, TypeOK
    <3>4. /\ want_lock' = [want_lock EXCEPT ![t] = l]
          /\ donee' = [donee EXCEPT ![t] = holder[l]]
          /\ donors' = [donors EXCEPT ![holder[l]] = @ \cup {t}]
          /\ chain' = holder[l]
          /\ pc' = [pc EXCEPT ![t] = "donate"]
          /\ at' = [at EXCEPT ![t] = l]
          /\ UNCHANGED <<sched_vars, priority, normal_priority, sema_vars, cv>>
      BY <1>2, <2>1 DEF LockAcquire
    <3>5. donors' \in [Threads -> SUBSET Threads]
      BY <3>1, <3>4 DEF TypeOK
    <3>2. TypeOK'
      BY <1>0, <3>1, <3>4, <3>5 DEF TypeOK, OffPcs, sched_vars, sema_vars
    <3>3. Control'
      BY <1>0, <1>2, <2>1, <3>1 DEF LockAcquire, Control, TypeOK, sched_vars, sema_vars
    <3> QED
      BY <3>2, <3>3
  <2>2. CASE ~Contended(l)
    <3>1. TypeOK'
      BY <1>0, <1>2, <2>2 DEF LockAcquire, TypeOK, OffPcs, sched_vars, sema_vars
    <3>2. Control'
      BY <1>0, <1>2, <2>2 DEF LockAcquire, Control, TypeOK, sched_vars, sema_vars
    <3> QED
      BY <3>1, <3>2
  <2> QED
    BY <2>1, <2>2
<1>3. ASSUME NEW l \in Locks, LockTryAcquire(t, l)
      PROVE  TypeInv'
  <2>1. TypeOK'
    BY <1>0, <1>3 DEF LockTryAcquire, Available, TypeOK, OnPcs, sched_vars, pri_vars
  <2>2. Control'
    BY <1>0, <1>3 DEF LockTryAcquire, Control, TypeOK, sched_vars, pri_vars
  <2> QED
    BY <2>1, <2>2
<1>4. ASSUME NEW l \in Locks, LockRelease(t, l)
      PROVE  TypeInv'
  <2>1. PICK w \in Woken(l) : waiters' = w.ws /\ ready_list' = w.rl /\ status' = w.st
    BY <1>4 DEF LockRelease
  <2>2. /\ waiters' \in [AllSemas -> Seq(Threads)]
        /\ ready_list' \in Seq(Threads)
        /\ status' \in [Threads -> Statuses]
    BY <1>0, <2>1, WokenType
  <2>3. /\ donee' \in [Threads -> Threads \cup {None}]
        /\ donors' \in [Threads -> SUBSET Threads]
        /\ holder' \in [Locks -> Threads \cup {None}]
        /\ value' \in [AllSemas -> Nat]
    BY <1>0, <1>4 DEF LockRelease, Unheld, TypeOK
  <2>4. TypeOK'
    BY <1>4, <2>2, <2>3 DEF LockRelease, TypeOK, OffPcs
  <2>5. Control'
    BY <1>4 DEF LockRelease, Control, TypeOK
  <2> QED
    BY <2>4, <2>5
<1> QED
  BY <1>1, <1>2, <1>3, <1>4, DownType, RecomputeType DEF LockStep

\* What cond_signal leaves.
LEMMA SignalType ==
  ASSUME TypeInv, NEW t \in Threads, NEW c \in Conds, Signal(t, c)
  PROVE  /\ SchedOK'
         /\ cond_waiters' \in [Conds -> Seq(Threads)]
         /\ value' \in [AllSemas -> Nat]
         /\ waiters' \in [AllSemas -> Seq(Threads)]
         /\ UNCHANGED <<pri_vars, holder, at, chain>>
<1> USE DEF TypeInv, SchedOK
<1>1. PICK i \in Highest(cond_waiters[c], priority) :
        /\ cond_waiters' = [cond_waiters EXCEPT ![c] = Unlisted(c, i)]
        /\ value' = [value EXCEPT ![cond_waiters[c][i]] = @ + 1]
        /\ \E w \in Woken(cond_waiters[c][i]) :
             /\ waiters' = w.ws
             /\ IF waiters[cond_waiters[c][i]] = << >> THEN UNCHANGED sched_vars
                ELSE YieldToHigher(t, w.rl, w.st, priority)
        /\ UNCHANGED <<pri_vars, holder, at, chain>>
  BY DEF Signal
<1>2. i \in DOMAIN cond_waiters[c] /\ cond_waiters[c] \in Seq(Threads)
  BY DEF Highest, TypeOK
<1> DEFINE s == cond_waiters[c][i]
<1>3. s \in Threads /\ s \in AllSemas
  BY <1>2 DEF AllSemas
<1>4. PICK w \in Woken(s) :
        /\ waiters' = w.ws
        /\ IF waiters[s] = << >> THEN UNCHANGED sched_vars
           ELSE YieldToHigher(t, w.rl, w.st, priority)
  BY <1>1
<1>5. cond_waiters' \in [Conds -> Seq(Threads)]
  BY <1>1, <1>2, RemoveAtProperties DEF Unlisted, TypeOK
<1>6. value' \in [AllSemas -> Nat]
  BY <1>1, <1>3 DEF TypeOK
<1>7. waiters' \in [AllSemas -> Seq(Threads)]
  BY <1>3, <1>4, WokenType
<1>8. SchedOK'
  BY <1>3, <1>4, WokenType, YieldToHigherType DEF TypeOK, sched_vars
<1> QED
  BY <1>1, <1>5, <1>6, <1>7, <1>8

\* cond_wait, cond_signal and cond_broadcast.
LEMMA CondStepType ==
  ASSUME TypeInv, NEW t \in Threads, CondStep(t)
  PROVE  TypeInv'
<1> USE DEF TypeInv, SchedOK
<1>0. Threads \subseteq AllSemas
  BY DEF AllSemas
<1>1. CASE CondDown(t)
  <2>1. TypeOK'
    BY <1>0, <1>1 DEF CondDown, TypeOK, OffPcs, sched_vars, pri_vars, sema_vars
  <2>2. Control'
    BY <1>0, <1>1 DEF CondDown, Control, TypeOK, sched_vars, pri_vars, sema_vars
  <2> QED
    BY <2>1, <2>2
<1>2. CASE BroadcastStep(t)
  <2>1. CASE cond_waiters[cv[t]] # << >>
    <3>1. cv[t] \in Conds /\ Signal(t, cv[t]) /\ UNCHANGED <<pc, cv>>
      BY <1>2, <2>1 DEF BroadcastStep, Control
    <3>2. TypeOK'
      BY <3>1, SignalType DEF TypeOK, pri_vars
    <3>3. Control'
      BY <3>1, SignalType, <1>2 DEF BroadcastStep, Control, TypeOK
    <3> QED
      BY <3>2, <3>3
  <2>2. CASE cond_waiters[cv[t]] = << >>
    <3>1. TypeOK'
      BY <1>2, <2>2 DEF BroadcastStep, TypeOK, OnPcs, sched_vars, pri_vars, sema_vars
    <3>2. Control'
      BY <1>2, <2>2 DEF BroadcastStep, Control, TypeOK, sched_vars, pri_vars, sema_vars
    <3> QED
      BY <3>1, <3>2
  <2> QED
    BY <2>1, <2>2
<1>3. ASSUME NEW c \in Conds, CondWait(t, c)
      PROVE  TypeInv'
  <2>1. value' \in [AllSemas -> Nat] /\ waiters' \in [AllSemas -> Seq(Threads)]
    BY <1>0, <1>3 DEF CondWait, TypeOK
  <2>2. cond_waiters' \in [Conds -> Seq(Threads)]
    BY <1>3 DEF CondWait, TypeOK
  <2>3. TypeOK'
    BY <1>3, <2>1, <2>2 DEF CondWait, TypeOK, OnPcs, sched_vars, pri_vars
  <2>4. Control'
    BY <1>3 DEF CondWait, Control, TypeOK, sched_vars, pri_vars
  <2> QED
    BY <2>3, <2>4
<1>4. ASSUME NEW c \in Conds, CondSignal(t, c)
      PROVE  TypeInv'
  <2>1. TypeOK'
    BY <1>4, SignalType DEF CondSignal, TypeOK, pri_vars
  <2>2. Control'
    BY <1>4, SignalType DEF CondSignal, Control, TypeOK
  <2> QED
    BY <2>1, <2>2
<1>5. ASSUME NEW c \in Conds, CondBroadcast(t, c)
      PROVE  TypeInv'
  <2>1. TypeOK'
    BY <1>5 DEF CondBroadcast, TypeOK, OnPcs, sched_vars, pri_vars, sema_vars
  <2>2. Control'
    BY <1>5 DEF CondBroadcast, Control, TypeOK, sched_vars, pri_vars, sema_vars
  <2> QED
    BY <2>1, <2>2
<1> QED
  BY <1>1, <1>2, <1>3, <1>4, <1>5 DEF CondStep

\* Every step keeps the types.
LEMMA NextType == TypeInv /\ [Next]_vars => TypeInv'
<1> SUFFICES ASSUME TypeInv, [Next]_vars PROVE TypeInv'
  OBVIOUS
<1>1. CASE Interrupt
  BY <1>1, PreemptType, IdleBlockType, IntrSemaUpType DEF Interrupt
<1>2. ASSUME NEW t \in Threads, Step(t)
      PROVE  TypeInv'
  BY <1>2, LockStepType, SemaStepType, CondStepType, ThreadStepType DEF Step
<1>3. CASE UNCHANGED vars
  BY <1>3 DEF vars, sched_vars, pri_vars, sema_vars, TypeInv, TypeOK, Control
<1> QED
  BY <1>1, <1>2, <1>3 DEF Next

\* In every behaviour, every variable of the scheduler and of the
\* synchronization primitives keeps its type, and only the running thread is
\* inside thread_recompute_priority.
THEOREM TypeCorrect == Spec => []TypeInv
<1> QED
  BY InitType, NextType, PTL DEF Spec

\* The type invariant the runs check.
THEOREM TypeOKHolds == Spec => []TypeOK
<1>1. TypeInv => TypeOK
  BY DEF TypeInv
<1> QED
  BY <1>1, TypeCorrect, PTL

----------------------------------------------------------------------------
(***************************************************************************)
(* Locks exclude, and implement AbstractLock.  LockExclusive is inductive  *)
(* relative to TypeInv: the holder that lock_try_acquire has not recorded  *)
(* yet is part of Owns.                                                    *)
(***************************************************************************)

Owners == [l \in Locks |-> {t \in Threads : Owns(t, l)}]

\* A step that changes nothing that Owns or the value of a lock depends on.
LockFrame ==
  /\ holder' = holder
  /\ \A l \in Locks : value'[l] = value[l]
  /\ \A t \in Threads, l \in Locks :
       (pc'[t] = "tried" /\ at'[t] = l) <=> (pc[t] = "tried" /\ at[t] = l)

\* A step that leaves the locks alone leaves their owners.
LEMMA FrameOwners ==
  ASSUME LockExclusive, LockFrame
  PROVE  LockExclusive' /\ Owners' = Owners
<1>1. \A t \in Threads, l \in Locks : Owns(t, l)' <=> Owns(t, l)
  BY DEF LockFrame, Owns
<1>2. Owners' = Owners
  BY <1>1 DEF Owners
<1>3. LockExclusive'
  BY <1>1 DEF LockExclusive, LockFrame
<1> QED
  BY <1>2, <1>3

\* Interrupts, the scheduler's operations, semaphores used on their own and
\* condition variables leave every lock alone.
LEMMA OtherStepsFrame ==
  ASSUME TypeInv, NEW t \in Threads,
         \/ Interrupt \/ ThreadStep(t) \/ SemaStep(t) \/ CondStep(t)
         \/ RecomputePriority(t) \/ DownBlock(t) \/ \E l \in Locks : LockAcquire(t, l)
  PROVE  LockFrame
<1> USE DEF TypeInv
<1>0. Locks \cap Threads = {} /\ Locks \cap Semas = {} /\ None \notin Locks
  BY SynchConstants
<1>1. CASE Interrupt
  <2>1. CASE Preempt \/ IdleBlock
    BY <2>1 DEF Preempt, IdleBlock, LockFrame, sema_vars
  <2>2. ASSUME NEW s \in Semas, IntrSemaUp(s)
        PROVE  LockFrame
    BY <1>0, <2>2 DEF IntrSemaUp, LockFrame, TypeOK
  <2> QED
    BY <1>1, <2>1, <2>2 DEF Interrupt
<1>2. CASE ThreadStep(t)
  <2>1. CASE Yield(t) \/ Exit(t)
    BY <2>1 DEF Yield, Exit, LockFrame, sema_vars, TypeOK
  <2>2. ASSUME NEW p \in Priorities, SetPriority(t, p)
        PROVE  LockFrame
    BY <2>2 DEF SetPriority, LockFrame, sema_vars, TypeOK
  <2>3. ASSUME NEW p \in Priorities, NEW u \in Threads, Create(t, u, p)
        PROVE  LockFrame
    BY <2>3 DEF Create, LockFrame, sema_vars, TypeOK
  <2> QED
    BY <1>2, <2>1, <2>2, <2>3 DEF ThreadStep
<1>3. ASSUME NEW s \in Semas, SemaDown(t, s) \/ SemaTryDown(t, s) \/ SemaUp(t, s)
      PROVE  LockFrame
  <2>1. CASE SemaDown(t, s)
    BY <2>1 DEF SemaDown, LockFrame, sema_vars, TypeOK
  <2>2. CASE SemaTryDown(t, s)
    BY <1>0, <2>2 DEF SemaTryDown, LockFrame, TypeOK
  <2>3. CASE SemaUp(t, s)
    BY <1>0, <2>3 DEF SemaUp, LockFrame, TypeOK
  <2> QED
    BY <1>3, <2>1, <2>2, <2>3
<1>4. CASE CondStep(t)
  <2>1. ASSUME NEW c \in Conds, Signal(t, c)
        PROVE  \A l \in Locks : value'[l] = value[l]
    <3>1. PICK i \in Highest(cond_waiters[c], priority) :
            value' = [value EXCEPT ![cond_waiters[c][i]] = @ + 1]
      BY <2>1 DEF Signal
    <3>2. cond_waiters[c][i] \in Threads
      BY DEF Highest, TypeOK
    <3> QED
      BY <1>0, <3>1, <3>2 DEF TypeOK
  <2>2. CASE CondDown(t)
    BY <2>2 DEF CondDown, LockFrame, sema_vars, TypeOK
  <2>3. CASE BroadcastStep(t)
    <3>1. CASE cond_waiters[cv[t]] # << >>
      <4>1. cv[t] \in Conds /\ Signal(t, cv[t]) /\ UNCHANGED <<pc, cv>>
        BY <2>3, <3>1 DEF BroadcastStep, Control
      <4> QED
        BY <2>1, <4>1, SignalType DEF LockFrame
    <3>2. CASE cond_waiters[cv[t]] = << >>
      BY <2>3, <3>2 DEF BroadcastStep, LockFrame, sema_vars, TypeOK
    <3> QED
      BY <3>1, <3>2
  <2>4. ASSUME NEW c \in Conds, CondWait(t, c)
        PROVE  LockFrame
    BY <1>0, <2>4 DEF CondWait, LockFrame, TypeOK
  <2>5. ASSUME NEW c \in Conds, CondSignal(t, c)
        PROVE  LockFrame
    BY <2>1, <2>5, SignalType DEF CondSignal, LockFrame
  <2>6. ASSUME NEW c \in Conds, CondBroadcast(t, c)
        PROVE  LockFrame
    BY <2>6 DEF CondBroadcast, LockFrame, sema_vars, TypeOK
  <2> QED
    BY <1>4, <2>2, <2>3, <2>4, <2>5, <2>6 DEF CondStep
<1>5. CASE RecomputePriority(t)
  BY <1>5 DEF RecomputePriority, LockFrame, sema_vars, TypeOK
<1>6. CASE DownBlock(t)
  BY <1>6 DEF DownBlock, LockFrame
<1>7. ASSUME NEW l \in Locks, LockAcquire(t, l)
      PROVE  LockFrame
  BY <1>7 DEF LockAcquire, LockFrame, sema_vars, TypeOK
<1> QED
  BY <1>1, <1>2, <1>3, <1>4, <1>5, <1>6, <1>7 DEF SemaStep

\* A step that gives the free lock l to t.
LEMMA TakeLock ==
  ASSUME TypeInv, LockExclusive, NEW t \in Threads, NEW l \in Locks,
         value[l] > 0, value' = [value EXCEPT ![l] = @ - 1],
         \A u \in Threads, k \in Locks : Owns(u, k)' <=> (Owns(u, k) \/ (u = t /\ k = l))
  PROVE  LockExclusive' /\ LockSpec!Acquire(t, l)
<1> USE DEF TypeInv
<1>1. \A u \in Threads : ~Owns(u, l)
  BY DEF LockExclusive
<1>2. value[l] = 1
  BY <1>1 DEF LockExclusive
<1>3. value'[l] = 0 /\ \A k \in Locks : k # l => value'[k] = value[k]
  BY <1>2 DEF TypeOK, AllSemas
<1>4. LockExclusive'
  BY <1>1, <1>3 DEF LockExclusive
<1>5. Owners[l] = {} /\ Owners' = [Owners EXCEPT ![l] = {t}]
  BY <1>1 DEF Owners
<1> QED
  BY <1>4, <1>5 DEF LockSpec!Acquire, Owners

\* The operations that give a lock to a thread or take it back.
LEMMA LockOperations ==
  ASSUME TypeInv, LockExclusive, NEW t \in Threads,
         DownTake(t) \/ SetHolder(t)
           \/ \E l \in Locks : LockTryAcquire(t, l) \/ LockRelease(t, l)
  PROVE  LockExclusive' /\ [LockSpec!Next]_Owners
<1> USE DEF TypeInv
<1>0. Locks \cap Threads = {} /\ Locks \cap Semas = {} /\ None \notin Locks \cup Threads
  BY SynchConstants
<1>1. CASE DownTake(t)
  <2>1. at[t] \in AllSemas
    BY <1>1 DEF DownTake, Control
  <2>2. CASE at[t] \in Locks
    <3>1. \A u \in Threads : ~Owns(u, at[t])
      BY <1>1, <2>2 DEF DownTake, LockExclusive
    <3>2. \A u \in Threads, k \in Locks :
            Owns(u, k)' <=> (Owns(u, k) \/ (u = t /\ k = at[t]))
      BY <1>0, <1>1, <2>2, <3>1 DEF DownTake, Owns, TypeOK
    <3>3. LockExclusive' /\ LockSpec!Acquire(t, at[t])
      BY <1>1, <2>2, <3>2, TakeLock DEF DownTake
    <3> QED
      BY <2>2, <3>3 DEF LockSpec!Next
  <2>3. CASE at[t] \notin Locks
    <3>1. LockFrame
      BY <1>0, <1>1, <2>1, <2>3 DEF DownTake, LockFrame, TypeOK
    <3> QED
      BY <3>1, FrameOwners
  <2> QED
    BY <2>2, <2>3
<1>2. CASE SetHolder(t)
  <2>1. at[t] \in Locks /\ Owns(t, at[t])
    BY <1>2 DEF SetHolder, Control, Owns
  <2>2. \A u \in Threads : Owns(u, at[t]) => u = t
    BY <2>1 DEF LockExclusive
  <2>3. \A u \in Threads, l \in Locks : Owns(u, l)' <=> Owns(u, l)
    BY <1>0, <1>2, <2>1, <2>2 DEF SetHolder, Owns, TypeOK
  <2>4. Owners' = Owners
    BY <2>3 DEF Owners
  <2>5. LockExclusive'
    BY <1>2, <2>3 DEF LockExclusive, SetHolder
  <2> QED
    BY <2>4, <2>5
<1>3. ASSUME NEW l \in Locks, LockTryAcquire(t, l)
      PROVE  LockExclusive' /\ [LockSpec!Next]_Owners
  <2>1. \A u \in Threads, k \in Locks : Owns(u, k)' <=> (Owns(u, k) \/ (u = t /\ k = l))
    BY <1>3 DEF LockTryAcquire, Owns, TypeOK
  <2>2. LockExclusive' /\ LockSpec!Acquire(t, l)
    BY <1>3, <2>1, TakeLock DEF LockTryAcquire, Available
  <2> QED
    BY <2>2 DEF LockSpec!Next
<1>4. ASSUME NEW l \in Locks, LockRelease(t, l)
      PROVE  LockExclusive' /\ [LockSpec!Next]_Owners
  <2>1. Owns(t, l)
    BY <1>4 DEF LockRelease, Owns
  <2>2. value[l] = 0 /\ \A u \in Threads : Owns(u, l) => u = t
    BY <2>1 DEF LockExclusive
  <2>3. \A u \in Threads, k \in Locks : Owns(u, k)' <=> (Owns(u, k) /\ k # l)
    BY <1>0, <1>4, <2>2 DEF LockRelease, Unheld, Owns, TypeOK
  <2>4. value'[l] = 1 /\ \A k \in Locks : k # l => value'[k] = value[k]
    BY <1>4, <2>2 DEF LockRelease, TypeOK, AllSemas
  <2>5. LockExclusive'
    BY <2>3, <2>4 DEF LockExclusive
  <2>6. Owners[l] = {t} /\ Owners' = [Owners EXCEPT ![l] = {}]
    BY <2>1, <2>2, <2>3 DEF Owners
  <2>7. LockSpec!Release(t, l)
    BY <2>6 DEF LockSpec!Release, Owners
  <2> QED
    BY <2>5, <2>7 DEF LockSpec!Next
<1> QED
  BY <1>1, <1>2, <1>3, <1>4

\* Every step keeps one owner for each lock.
LEMMA NextLocks ==
  ASSUME TypeInv, LockExclusive, [Next]_vars
  PROVE  LockExclusive' /\ [LockSpec!Next]_Owners
<1>0. Main \in Threads
  BY SynchConstants
<1>1. CASE Interrupt
  BY <1>0, <1>1, OtherStepsFrame, FrameOwners
<1>2. ASSUME NEW t \in Threads, Step(t)
      PROVE  LockExclusive' /\ [LockSpec!Next]_Owners
  <2>1. CASE ThreadStep(t) \/ SemaStep(t) \/ CondStep(t)
    BY <2>1, OtherStepsFrame, FrameOwners
  <2>2. CASE LockStep(t)
    BY <2>2, OtherStepsFrame, FrameOwners, LockOperations DEF LockStep
  <2> QED
    BY <1>2, <2>1, <2>2 DEF Step
<1>3. CASE UNCHANGED vars
  <2>1. LockFrame
    BY <1>3 DEF vars, sema_vars, LockFrame
  <2> QED
    BY <2>1, FrameOwners
<1> QED
  BY <1>1, <1>2, <1>3 DEF Next

\* No lock is held at the start.
LEMMA InitLocks == Init => LockExclusive /\ LockSpec!Init
<1> SUFFICES ASSUME Init PROVE LockExclusive /\ LockSpec!Init
  OBVIOUS
<1>1. \A t \in Threads, l \in Locks : ~Owns(t, l)
  BY SynchConstants DEF Init, Owns
<1>2. LockExclusive
  BY <1>1 DEF Init, LockExclusive, AllSemas
<1>3. LockSpec!Init
  BY <1>1 DEF LockSpec!Init
<1> QED
  BY <1>2, <1>3

\* Mutual exclusion: whatever the threads do and however they are
\* interrupted, a lock is had by at most one of them, and its semaphore is 0
\* exactly while one has it.
THEOREM MutualExclusion == Spec => []LockExclusive
<1>1. Init => LockExclusive
  BY InitLocks
<1>2. TypeInv /\ LockExclusive /\ [Next]_vars => LockExclusive'
  BY NextLocks
<1> QED
  BY <1>1, <1>2, TypeCorrect, PTL DEF Spec

\* lock_acquire, lock_try_acquire and lock_release implement the abstract
\* lock: each of their steps is an abstract step or leaves the owners alone.
THEOREM LockRefinement == Spec => ImplementsLocks
<1>1. Init => LockSpec!Init
  BY InitLocks
<1>2. TypeInv /\ LockExclusive /\ [Next]_vars => [LockSpec!Next]_Owners
  BY NextLocks
<1> QED
  BY <1>1, <1>2, TypeCorrect, MutualExclusion, PTL
  DEF Spec, ImplementsLocks, LockSpec!Spec, Owners

----------------------------------------------------------------------------
(***************************************************************************)
(* Donations last as long as the hold on the lock they were made for.      *)
(* DonorsOK, inductive relative to TypeInv and LockExclusive, says that a  *)
(* donor is still in lock_acquire on the lock it wants, that it gives to   *)
(* the holder of that lock, and that donee and donors agree.               *)
(***************************************************************************)

Acquiring == {"donate", "down"}

DonorsOK ==
  /\ \A d \in Threads :
       donee[d] # None =>
         /\ d \in donors[donee[d]]
         /\ pc[d] \in Acquiring /\ at[d] \in Locks
         /\ want_lock[d] = at[d] /\ holder[at[d]] = donee[d]
  /\ \A t \in Threads : \A d \in donors[t] : donee[d] = t

\* A step that leaves donations and holders alone, and nobody out of
\* sema_down.
DonorFrame ==
  /\ UNCHANGED <<donors, donee, want_lock, holder>>
  /\ \A d \in Threads : pc[d] \in Acquiring => pc'[d] \in Acquiring /\ at'[d] = at[d]

\* A step that leaves locks, waiters and donations alone.
LEMMA FrameDonors ==
  ASSUME DonorsOK, DonorFrame
  PROVE  DonorsOK'
BY DEF DonorsOK, DonorFrame

\* Everything but taking a lock, giving it back and waiting for it.
LEMMA OtherStepsDonors ==
  ASSUME TypeInv, NEW t \in Threads,
         \/ Interrupt \/ ThreadStep(t) \/ SemaStep(t) \/ CondStep(t)
         \/ RecomputePriority(t) \/ DownBlock(t) \/ \E l \in Locks : LockTryAcquire(t, l)
  PROVE  DonorFrame
<1> USE DEF TypeInv
<1>1. CASE Interrupt
  BY <1>1 DEF Interrupt, Preempt, IdleBlock, IntrSemaUp, DonorFrame, pri_vars, sema_vars
<1>2. CASE ThreadStep(t)
  <2>1. CASE Yield(t) \/ Exit(t)
    BY <2>1 DEF Yield, Exit, DonorFrame, pri_vars, sema_vars, TypeOK, Acquiring
  <2>2. ASSUME NEW p \in Priorities, SetPriority(t, p)
        PROVE  DonorFrame
    BY <2>2 DEF SetPriority, DonorFrame, sema_vars, TypeOK, Acquiring
  <2>3. ASSUME NEW p \in Priorities, NEW u \in Threads, Create(t, u, p)
        PROVE  DonorFrame
    BY <2>3 DEF Create, DonorFrame, sema_vars, TypeOK, Acquiring
  <2> QED
    BY <1>2, <2>1, <2>2, <2>3 DEF ThreadStep
<1>3. ASSUME NEW s \in Semas, SemaDown(t, s) \/ SemaTryDown(t, s) \/ SemaUp(t, s)
      PROVE  DonorFrame
  BY <1>3 DEF SemaDown, SemaTryDown, SemaUp, DonorFrame, pri_vars, sema_vars, TypeOK, Acquiring
<1>4. CASE CondStep(t)
  <2>1. ASSUME NEW c, Signal(t, c)
        PROVE  UNCHANGED <<donors, donee, want_lock, holder, at>>
    BY <2>1 DEF Signal, pri_vars
  <2>2. CASE CondDown(t)
    BY <2>2 DEF CondDown, DonorFrame, pri_vars, sema_vars, TypeOK, Acquiring
  <2>3. CASE BroadcastStep(t)
    <3>1. CASE cond_waiters[cv[t]] # << >>
      BY <2>1, <2>3, <3>1 DEF BroadcastStep, DonorFrame
    <3>2. CASE cond_waiters[cv[t]] = << >>
      BY <2>3, <3>2 DEF BroadcastStep, DonorFrame, pri_vars, sema_vars, TypeOK, Acquiring
    <3> QED
      BY <3>1, <3>2
  <2>4. ASSUME NEW c \in Conds, CondWait(t, c) \/ CondBroadcast(t, c)
        PROVE  DonorFrame
    BY <2>4 DEF CondWait, CondBroadcast, DonorFrame, pri_vars, sema_vars, TypeOK, Acquiring
  <2>5. ASSUME NEW c \in Conds, CondSignal(t, c)
        PROVE  DonorFrame
    BY <2>1, <2>5 DEF CondSignal, DonorFrame
  <2> QED
    BY <1>4, <2>2, <2>3, <2>4, <2>5 DEF CondStep
<1>5. CASE RecomputePriority(t)
  <2>1. \/ pc' = pc \/ pc' = [pc EXCEPT ![t] = "down"]
        \/ pc[t] = "recompute" /\ \E s \in {"run", "wait_down"} : pc' = [pc EXCEPT ![t] = s]
    BY <1>5 DEF RecomputePriority
  <2> QED
    BY <1>5, <2>1 DEF RecomputePriority, DonorFrame, sema_vars, TypeOK, Acquiring
<1>6. CASE DownBlock(t)
  BY <1>6 DEF DownBlock, DonorFrame, pri_vars
<1>7. ASSUME NEW l \in Locks, LockTryAcquire(t, l)
      PROVE  DonorFrame
  BY <1>7 DEF LockTryAcquire, DonorFrame, pri_vars, TypeOK, Acquiring
<1> QED
  BY <1>1, <1>2, <1>3, <1>4, <1>5, <1>6, <1>7 DEF SemaStep

\* The donations that a step ends are those for a lock it makes free.
DonationsEnd ==
  \A d \in Threads :
    (donee[d] # None /\ donee'[d] # donee[d]) =>
      /\ holder[want_lock[d]] = donee[d]
      /\ holder'[want_lock[d]] = None

\* lock_acquire: a thread that is about to wait gives to nobody yet.
LEMMA AcquireDonors ==
  ASSUME TypeInv, DonorsOK, NEW t \in Threads, NEW l \in Locks, LockAcquire(t, l)
  PROVE  DonorsOK' /\ DonationsEnd
<1> USE DEF TypeInv
<1>0. None \notin Threads
  BY SynchConstants
<1>1. donee[t] = None
  BY DEF LockAcquire, DonorsOK, Acquiring
<1>2. \A u \in Threads : t \notin donors[u]
  BY <1>0, <1>1 DEF DonorsOK
<1>3. holder' = holder /\ at' = [at EXCEPT ![t] = l]
  BY DEF LockAcquire, sema_vars
<1>4. CASE Contended(l)
  <2>1. /\ holder[l] \in Threads
        /\ want_lock' = [want_lock EXCEPT ![t] = l]
        /\ donee' = [donee EXCEPT ![t] = holder[l]]
        /\ donors' = [donors EXCEPT ![holder[l]] = @ \cup {t}]
        /\ pc' = [pc EXCEPT ![t] = "donate"]
    BY <1>4 DEF LockAcquire, Contended, TypeOK
  <2>2. \A d \in Threads : donee'[d] # None =>
            /\ d \in donors'[donee'[d]]
            /\ pc'[d] \in Acquiring /\ at'[d] \in Locks
            /\ want_lock'[d] = at'[d] /\ holder'[at'[d]] = donee'[d]
    <3> SUFFICES ASSUME NEW d \in Threads, donee'[d] # None
                 PROVE  /\ d \in donors'[donee'[d]]
                        /\ pc'[d] \in Acquiring /\ at'[d] \in Locks
                        /\ want_lock'[d] = at'[d] /\ holder'[at'[d]] = donee'[d]
      OBVIOUS
    <3>1. CASE d = t
      BY <1>3, <2>1, <3>1 DEF TypeOK, Acquiring
    <3>2. CASE d # t
      <4>1. donee'[d] = donee[d] /\ donee[d] \in Threads
        BY <2>1, <3>2 DEF TypeOK
      <4>2. pc'[d] = pc[d] /\ at'[d] = at[d] /\ want_lock'[d] = want_lock[d]
        BY <1>3, <2>1, <3>2 DEF TypeOK
      <4>3. donors[donee[d]] \subseteq donors'[donee[d]]
        BY <2>1, <4>1 DEF TypeOK
      <4> QED
        BY <1>3, <4>1, <4>2, <4>3 DEF DonorsOK
    <3> QED
      BY <3>1, <3>2
  <2>3. \A u \in Threads : \A d \in donors'[u] : donee'[d] = u
    BY <1>2, <2>1 DEF DonorsOK, TypeOK
  <2>4. DonationsEnd
    BY <1>1, <2>1 DEF DonationsEnd, TypeOK
  <2> QED
    BY <2>2, <2>3, <2>4 DEF DonorsOK
<1>5. CASE ~Contended(l)
  <2>1. /\ UNCHANGED <<want_lock, donee, donors>>
        /\ pc' = [pc EXCEPT ![t] = "down"]
    BY <1>5 DEF LockAcquire
  <2> QED
    BY <1>1, <1>3, <2>1 DEF DonorsOK, DonationsEnd, TypeOK
<1> QED
  BY <1>4, <1>5

\* sema_down's end and lock_try_acquire's: the thread that gets the lock is
\* nobody's donor, and no donor waits for a lock that was free.
LEMMA TakeDonors ==
  ASSUME TypeInv, LockExclusive, DonorsOK, NEW t \in Threads, DownTake(t) \/ SetHolder(t)
  PROVE  DonorsOK' /\ DonationsEnd
<1> USE DEF TypeInv
<1>0. None \notin Threads
  BY SynchConstants
<1>1. UNCHANGED <<donors, donee, want_lock>>
  BY DEF DownTake, SetHolder, pri_vars
<1>2. \A d \in Threads : d # t => pc'[d] = pc[d] /\ at'[d] = at[d]
  BY DEF DownTake, SetHolder, TypeOK
<1>3. /\ donee[t] = None
      /\ \A d \in Threads : donee[d] # None => holder'[at[d]] = holder[at[d]]
  <2>1. CASE DownTake(t)
    <3>1. CASE at[t] \in Locks
      <4>1. value[at[t]] # 0
        BY <2>1 DEF DownTake
      <4>2. \A u \in Threads : ~Owns(u, at[t])
        BY <3>1, <4>1 DEF LockExclusive
      <4>3. \A d \in Threads : donee[d] # None => at[d] # at[t]
        <5> SUFFICES ASSUME NEW d \in Threads, donee[d] # None, at[d] = at[t]
                     PROVE  FALSE
          OBVIOUS
        <5>1. donee[d] \in Threads /\ holder[at[t]] = donee[d]
          BY DEF DonorsOK, TypeOK
        <5> QED
          BY <4>2, <5>1 DEF Owns
      <4>4. holder' = [holder EXCEPT ![at[t]] = t]
        BY <2>1, <3>1 DEF DownTake
      <4> QED
        BY <4>3, <4>4 DEF DonorsOK, TypeOK
    <3>2. CASE at[t] \notin Locks
      <4>1. holder' = holder
        BY <2>1, <3>2 DEF DownTake
      <4> QED
        BY <3>2, <4>1 DEF DonorsOK
    <3> QED
      BY <3>1, <3>2
  <2>2. CASE SetHolder(t)
    <3>1. donee[t] = None
      BY <2>2 DEF SetHolder, DonorsOK, Acquiring
    <3>2. at[t] \in Locks /\ Owns(t, at[t]) /\ holder' = [holder EXCEPT ![at[t]] = t]
      BY <2>2 DEF SetHolder, Control, Owns
    <3>3. ASSUME NEW d \in Threads, donee[d] # None
          PROVE  holder'[at[d]] = holder[at[d]]
      <4>1. donee[d] \in Threads /\ at[d] \in Locks /\ holder[at[d]] = donee[d]
        BY <3>3 DEF DonorsOK, TypeOK
      <4>2. CASE at[d] = at[t]
        <5>1. donee[d] = t
          BY <3>2, <4>1, <4>2 DEF Owns, LockExclusive
        <5> QED
          BY <3>2, <4>1, <4>2, <5>1 DEF TypeOK
      <4>3. CASE at[d] # at[t]
        BY <3>2, <4>1, <4>3 DEF TypeOK
      <4> QED
        BY <4>2, <4>3
    <3> QED
      BY <3>1, <3>3
  <2> QED
    BY <2>1, <2>2
<1> QED
  BY <1>1, <1>2, <1>3 DEF DonorsOK, DonationsEnd

\* lock_release: the donors of the lock are exactly those it returns.
LEMMA ReleaseDonors ==
  ASSUME TypeInv, DonorsOK, NEW t \in Threads, NEW l \in Locks, LockRelease(t, l)
  PROVE  DonorsOK' /\ DonationsEnd
<1> USE DEF TypeInv
<1>0. None \notin Threads
  BY SynchConstants
<1>1. /\ holder[l] = t
      /\ donee' = [d \in Threads |-> IF d \in Returned(t, l) THEN None ELSE donee[d]]
      /\ donors' = [donors EXCEPT ![t] = @ \ Returned(t, l)]
      /\ holder' = [holder EXCEPT ![l] = None]
      /\ pc' = [pc EXCEPT ![t] = "recompute"]
      /\ UNCHANGED <<want_lock, at>>
  BY DEF LockRelease, Unheld
<1>2. donee[t] = None
  BY DEF LockRelease, DonorsOK, Acquiring
<1>3. \A d \in Threads : d \in Returned(t, l) <=> (donee[d] = t /\ want_lock[d] = l)
  BY <1>0 DEF DonorsOK, Returned
<1>4. \A d \in Threads : d \in Returned(t, l) <=> (donee[d] # None /\ want_lock[d] = l)
  BY <1>0, <1>1, <1>3 DEF DonorsOK
<1>5. ASSUME NEW d \in Threads, donee'[d] # None
      PROVE  /\ d \in donors'[donee'[d]]
             /\ pc'[d] \in Acquiring /\ at'[d] \in Locks
             /\ want_lock'[d] = at'[d] /\ holder'[at'[d]] = donee'[d]
  <2>1. d \notin Returned(t, l) /\ donee'[d] = donee[d] /\ donee[d] \in Threads
    BY <1>1, <1>5 DEF TypeOK
  <2>2. want_lock[d] # l /\ at[d] \in Locks /\ want_lock[d] = at[d]
    BY <1>4, <1>5, <2>1 DEF DonorsOK
  <2>3. holder'[at[d]] = holder[at[d]]
    BY <1>1, <2>2 DEF TypeOK
  <2>4. d \in donors[donee[d]] /\ d \in donors'[donee[d]]
    BY <1>1, <1>5, <2>1 DEF DonorsOK, TypeOK
  <2>5. d # t /\ pc'[d] = pc[d]
    BY <1>1, <1>2, <1>5, <2>1 DEF TypeOK
  <2> QED
    BY <1>1, <1>5, <2>1, <2>2, <2>3, <2>4, <2>5 DEF DonorsOK
<1>6. ASSUME NEW u \in Threads, NEW d \in donors'[u]
      PROVE  donee'[d] = u
  <2>1. d \in Threads /\ d \in donors[u] /\ d \notin Returned(t, l)
    BY <1>1, <1>3, <1>6 DEF DonorsOK, TypeOK
  <2> QED
    BY <1>1, <2>1 DEF DonorsOK
<1>7. DonationsEnd
  BY <1>1, <1>4 DEF DonationsEnd, DonorsOK, TypeOK
<1> QED
  BY <1>5, <1>6, <1>7 DEF DonorsOK

\* Every step keeps the donors where they wait.
LEMMA NextDonors ==
  ASSUME TypeInv, LockExclusive, DonorsOK, [Next]_vars
  PROVE  DonorsOK' /\ DonationsEnd
<1>0. Main \in Threads
  BY SynchConstants
<1>1. ASSUME DonorFrame
      PROVE  DonorsOK' /\ DonationsEnd
  BY <1>1, FrameDonors DEF DonorFrame, DonationsEnd
<1>2. CASE Interrupt
  BY <1>0, <1>1, <1>2, OtherStepsDonors
<1>3. ASSUME NEW t \in Threads, Step(t)
      PROVE  DonorsOK' /\ DonationsEnd
  <2>1. CASE ThreadStep(t) \/ SemaStep(t) \/ CondStep(t)
    BY <1>1, <2>1, OtherStepsDonors
  <2>2. CASE LockStep(t)
    BY <1>1, <2>2, OtherStepsDonors, AcquireDonors, TakeDonors, ReleaseDonors DEF LockStep
  <2> QED
    BY <1>3, <2>1, <2>2 DEF Step
<1>4. CASE UNCHANGED vars
  BY <1>1, <1>4 DEF vars, pri_vars, sema_vars, DonorFrame
<1> QED
  BY <1>2, <1>3, <1>4 DEF Next

\* A donation is only taken back by the release of the lock it was made for,
\* however many locks a thread holds and whoever donates for them.
THEOREM DonationsLast == Spec => DonationLasts
<1>1. Init => DonorsOK
  BY DEF Init, DonorsOK
<1>2. TypeInv /\ LockExclusive /\ DonorsOK /\ [Next]_vars => DonorsOK'
  BY NextDonors
<1>3. TypeInv /\ LockExclusive /\ DonorsOK /\ [Next]_vars => [DonationsEnd]_vars
  BY NextDonors
<1>4. Spec => [][DonationsEnd]_vars
  BY <1>1, <1>2, <1>3, TypeCorrect, MutualExclusion, PTL DEF Spec
<1> QED
  BY <1>4 DEF DonationLasts, DonationsEnd

----------------------------------------------------------------------------
(***************************************************************************)
(* The run queue and the wait lists, and wakeups.                          *)
(***************************************************************************)

ReadyIn(st) == {t \in Threads : st[t] = "ready"}

\* The run queue has each ready thread once; the running thread is cur.
SchedLists ==
  /\ IsInjective(ready_list) /\ ToSet(ready_list) = ReadyIn(status)
  /\ \A t \in Threads : status[t] = "running" <=> cur = t

\* A wait list has each thread that is blocked on its semaphore once.
WaitLists ==
  \A s \in AllSemas :
    /\ IsInjective(waiters[s])
    /\ ToSet(waiters[s]) = {t \in Threads : status[t] = "blocked" /\ at[t] = s}

\* A thread's status and its program point, and who waits for the semaphores
\* that cond_wait makes.
PcStatus ==
  \A t \in Threads :
    /\ status[t] = "new" <=> pc[t] = "new"
    /\ status[t] = "dying" <=> pc[t] = "dead"
    /\ status[t] = "blocked" => pc[t] = "down"
    /\ at[t] \in Threads => at[t] = t

ListsOK == SchedLists /\ WaitLists /\ PcStatus

\* The statuses in st that no scheduling changes.
Settled(st) ==
  \A t \in Threads : \A x \in {"new", "blocked", "dying"} : status'[t] = x <=> st[t] = x

----------------------------------------------------------------------------

\* schedule takes the thread it runs off the run queue.
LEMMA ScheduleLists ==
  ASSUME NEW rl \in Seq(Threads), NEW st \in [Threads -> Statuses], NEW pri,
         IsInjective(rl), ToSet(rl) = ReadyIn(st), \A t \in Threads : st[t] # "running",
         Schedule(rl, st, pri)
  PROVE  SchedLists' /\ Settled(st)
<1>1. CASE rl = << >>
  BY <1>1, SynchConstants DEF Schedule, SchedLists, Settled, ReadyIn
<1>2. CASE rl # << >>
  <2>1. PICK i \in DOMAIN rl :
          /\ cur' = rl[i]
          /\ ready_list' = RemoveAt(rl, i)
          /\ status' = [st EXCEPT ![rl[i]] = "running"]
    BY <1>2 DEF Schedule, Highest
  <2>2. rl[i] \in Threads /\ st[rl[i]] = "ready"
    BY DEF ToSet, ReadyIn
  <2>3. IsInjective(ready_list') /\ ToSet(ready_list') = ToSet(rl) \ {rl[i]}
    BY <2>1, InjectiveRemoveAt
  <2>4. \A t \in Threads : status'[t] = IF t = rl[i] THEN "running" ELSE st[t]
    BY <2>1, <2>2
  <2> QED
    BY <2>1, <2>2, <2>3, <2>4 DEF SchedLists, Settled, ReadyIn
<1> QED
  BY <1>1, <1>2

\* thread_yield by the only thread that is running in st.
LEMMA YieldLists ==
  ASSUME NEW rl \in Seq(Threads), NEW st \in [Threads -> Statuses], NEW pri,
         NEW t \in Threads,
         IsInjective(rl), ToSet(rl) = ReadyIn(st),
         \A u \in Threads : st[u] = "running" <=> u = t,
         ThreadYield(t, rl, st, pri)
  PROVE  SchedLists' /\ Settled(st)
<1> DEFINE st1 == [st EXCEPT ![t] = "ready"]
           rl1 == Append(rl, t)
<1>1. st1 \in [Threads -> Statuses] /\ rl1 \in Seq(Threads)
  BY DEF Statuses
<1>2. t \notin ToSet(rl)
  BY DEF ReadyIn
<1>3. IsInjective(rl1) /\ ToSet(rl1) = ToSet(rl) \cup {t}
  BY <1>2, InjectiveAppend, ToSetAppend
<1>4. \A u \in Threads : st1[u] = IF u = t THEN "ready" ELSE st[u]
  OBVIOUS
<1>5. Schedule(rl1, st1, pri)
  BY DEF ThreadYield
<1> HIDE DEF st1, rl1
<1>6. ToSet(rl1) = ReadyIn(st1)
  BY <1>3, <1>4 DEF ReadyIn
<1>7. \A u \in Threads : st1[u] # "running"
  BY <1>4
<1>8. SchedLists' /\ Settled(st1)
  BY <1>1, <1>3, <1>5, <1>6, <1>7, ScheduleLists
<1> QED
  BY <1>4, <1>8 DEF Settled

\* The yield to a thread of higher priority.
LEMMA YieldToHigherLists ==
  ASSUME NEW rl \in Seq(Threads), NEW st \in [Threads -> Statuses], NEW pri,
         NEW t \in Threads,
         IsInjective(rl), ToSet(rl) = ReadyIn(st),
         \A u \in Threads : st[u] = "running" <=> u = t,
         YieldToHigher(t, rl, st, pri)
  PROVE  SchedLists' /\ Settled(st)
<1>1. CASE HigherReady(t, rl, pri)
  BY <1>1, YieldLists DEF YieldToHigher
<1>2. CASE ~HigherReady(t, rl, pri)
  BY <1>2 DEF YieldToHigher, SchedLists, Settled, ReadyIn
<1> QED
  BY <1>1, <1>2

\* What sema_up on s leaves: nobody waits, or one waiter becomes ready.
LEMMA WokenLists ==
  ASSUME TypeOK, SchedLists, WaitLists, NEW s \in AllSemas, NEW w \in Woken(s)
  PROVE  /\ IsInjective(w.rl) /\ ToSet(w.rl) = ReadyIn(w.st)
         /\ \A t \in Threads : w.st[t] = "running" <=> cur = t
         /\ \A r \in AllSemas :
              /\ IsInjective(w.ws[r])
              /\ ToSet(w.ws[r]) = {t \in Threads : w.st[t] = "blocked" /\ at[t] = r}
         /\ \A t \in Threads :
              /\ \A x \in {"new", "dying"} : w.st[t] = x <=> status[t] = x
              /\ w.st[t] = "blocked" => status[t] = "blocked"
         /\ \/ /\ waiters[s] = << >> /\ w.ws = waiters /\ w.rl = ready_list /\ w.st = status
            \/ \E u \in Threads :
                 /\ waiters[s] # << >> /\ status[u] = "blocked" /\ at[u] = s
                 /\ w.st = [status EXCEPT ![u] = "ready"]
                 /\ w.rl = Append(ready_list, u)
<1>1. CASE waiters[s] = << >>
  BY <1>1 DEF Woken, SchedLists, WaitLists
<1>2. CASE waiters[s] # << >>
  <2>1. PICK i \in DOMAIN waiters[s] :
          w = [ws |-> [waiters EXCEPT ![s] = RemoveAt(waiters[s], i)],
               rl |-> Append(ready_list, waiters[s][i]),
               st |-> [status EXCEPT ![waiters[s][i]] = "ready"]]
    BY <1>2 DEF Woken, Highest
  <2> DEFINE u == waiters[s][i]
  <2>2. waiters[s] \in Seq(Threads) /\ u \in Threads /\ u \in ToSet(waiters[s])
    BY DEF ToSet, TypeOK
  <2>3. status[u] = "blocked" /\ at[u] = s
    BY <2>2 DEF WaitLists
  <2>4. /\ IsInjective(RemoveAt(waiters[s], i))
        /\ ToSet(RemoveAt(waiters[s], i)) = ToSet(waiters[s]) \ {u}
    BY <2>2, InjectiveRemoveAt DEF WaitLists
  <2> HIDE DEF u
  <2>5. \A t \in Threads : w.st[t] = IF t = u THEN "ready" ELSE status[t]
    BY <2>1, <2>2 DEF u, TypeOK
  <2>6. /\ w.rl = Append(ready_list, u) /\ w.st = [status EXCEPT ![u] = "ready"]
        /\ \A r \in AllSemas :
             w.ws[r] = IF r = s THEN RemoveAt(waiters[s], i) ELSE waiters[r]
    BY <2>1 DEF u, TypeOK
  <2>7. u \notin ToSet(ready_list)
    BY <2>2, <2>3 DEF SchedLists, ReadyIn
  <2>8. IsInjective(w.rl) /\ ToSet(w.rl) = ToSet(ready_list) \cup {u}
    BY <2>2, <2>6, <2>7, InjectiveAppend, ToSetAppend DEF SchedLists, TypeOK
  <2>9. ToSet(w.rl) = ReadyIn(w.st) /\ \A t \in Threads : w.st[t] = "running" <=> cur = t
    BY <2>2, <2>3, <2>5, <2>8 DEF SchedLists, ReadyIn
  <2>10. \A r \in AllSemas :
           /\ IsInjective(w.ws[r])
           /\ ToSet(w.ws[r]) = {t \in Threads : w.st[t] = "blocked" /\ at[t] = r}
    <3>1. TAKE r \in AllSemas
    <3>2. CASE r = s
      BY <2>2, <2>4, <2>5, <2>6, <3>2 DEF WaitLists
    <3>3. CASE r # s
      BY <2>3, <2>5, <2>6, <3>3 DEF WaitLists
    <3> QED
      BY <3>2, <3>3
  <2> QED
    BY <1>2, <2>2, <2>3, <2>5, <2>6, <2>8, <2>9, <2>10
<1> QED
  BY <1>1, <1>2

----------------------------------------------------------------------------
(***************************************************************************)
(* ListsOK is inductive relative to TypeInv.                               *)
(***************************************************************************)

\* At the start the lists are empty but for the ready threads.
LEMMA InitLists == Init => ListsOK
<1> SUFFICES ASSUME Init PROVE ListsOK
  OBVIOUS
<1> USE SynchConstants DEF Init
<1>1. SchedLists
  BY DEF SchedLists, ReadyIn, ToSet, IsInjective
<1>2. WaitLists
  BY DEF WaitLists, AllSemas, ToSet, IsInjective
<1>3. PcStatus
  BY DEF PcStatus
<1> QED
  BY <1>1, <1>2, <1>3 DEF ListsOK

\* A step that blocks and wakes nobody.
LEMMA KeepWaiters ==
  ASSUME WaitLists, waiters' = waiters, Settled(status),
         \A t \in Threads : status[t] = "blocked" => at'[t] = at[t],
         \A t \in Threads : status'[t] = "blocked" => at'[t] = at[t]
  PROVE  WaitLists'
  BY DEF WaitLists, Settled

\* Steps of the scheduler alone.
LEMMA InterruptLists ==
  ASSUME TypeInv, ListsOK, Interrupt
  PROVE  ListsOK'
<1> USE DEF TypeInv, ListsOK
<1>1. CASE Preempt
  <2>1. cur \in Threads /\ ThreadYield(cur, ready_list, status, priority)
        /\ UNCHANGED <<pri_vars, sema_vars, pc, at, cv, chain>>
    BY <1>1 DEF Preempt, TypeOK
  <2>2. SchedLists' /\ Settled(status)
    BY <2>1, YieldLists DEF TypeOK, SchedLists
  <2> QED
    BY <2>1, <2>2, KeepWaiters DEF PcStatus, Settled, sema_vars
<1>2. CASE IdleBlock
  <2>1. cur \notin Threads /\ Schedule(ready_list, status, priority)
        /\ UNCHANGED <<pri_vars, sema_vars, pc, at, cv, chain>>
    BY <1>2, SynchConstants DEF IdleBlock
  <2>2. SchedLists' /\ Settled(status)
    BY <2>1, ScheduleLists DEF TypeOK, SchedLists
  <2> QED
    BY <2>1, <2>2, KeepWaiters DEF PcStatus, Settled, sema_vars
<1>3. ASSUME NEW s \in Semas, IntrSemaUp(s)
      PROVE  ListsOK'
  <2>1. PICK w \in Woken(s) : waiters' = w.ws /\ ready_list' = w.rl /\ status' = w.st
    BY <1>3 DEF IntrSemaUp
  <2>2. s \in AllSemas /\ UNCHANGED <<cur, pc, at>>
    BY <1>3 DEF IntrSemaUp, AllSemas
  <2>3. SchedLists' /\ WaitLists'
    BY <2>1, <2>2, WokenLists DEF SchedLists, WaitLists
  <2>4. PcStatus'
    BY <2>1, <2>2, WokenLists DEF PcStatus
  <2> QED
    BY <2>3, <2>4
<1> QED
  BY <1>1, <1>2, <1>3 DEF Interrupt

\* Whatever the running thread does.
LEMMA ThreadStepLists ==
  ASSUME TypeInv, ListsOK, NEW t \in Threads, ThreadStep(t)
  PROVE  ListsOK'
<1> USE DEF TypeInv, ListsOK
<1>0. cur = t /\ pc[t] = "run" /\ status[t] = "running"
  BY DEF ThreadStep, Yield, Exit, SetPriority, Create, SchedLists
<1>1. CASE Yield(t)
  <2>1. SchedLists' /\ Settled(status)
    BY <1>0, <1>1, YieldLists DEF Yield, TypeOK, SchedLists
  <2> QED
    BY <1>1, <2>1, KeepWaiters DEF Yield, PcStatus, Settled, sema_vars
<1>2. CASE Exit(t)
  <2> DEFINE st == [status EXCEPT ![t] = "dying"]
  <2>1. st \in [Threads -> Statuses] /\ \A u \in Threads : st[u] = IF u = t THEN "dying" ELSE status[u]
    BY DEF TypeOK, Statuses
  <2>2. Schedule(ready_list, st, priority) /\ pc' = [pc EXCEPT ![t] = "dead"]
        /\ UNCHANGED <<pri_vars, sema_vars, at, cv, chain>>
    BY <1>2 DEF Exit
  <2> HIDE DEF st
  <2>3. ToSet(ready_list) = ReadyIn(st) /\ \A u \in Threads : st[u] # "running"
    BY <1>0, <2>1 DEF SchedLists, ReadyIn
  <2>4. SchedLists' /\ Settled(st)
    BY <2>1, <2>2, <2>3, ScheduleLists DEF TypeOK, SchedLists
  <2>5. WaitLists'
    BY <1>0, <2>1, <2>2, <2>4 DEF WaitLists, Settled, sema_vars
  <2>6. PcStatus'
    BY <1>0, <2>1, <2>2, <2>4 DEF PcStatus, Settled, TypeOK
  <2> QED
    BY <2>4, <2>5, <2>6
<1>3. ASSUME NEW p \in Priorities, SetPriority(t, p)
      PROVE  ListsOK'
  <2>1. pc' = [pc EXCEPT ![t] = "recompute"] /\ UNCHANGED <<sched_vars, sema_vars, at>>
    BY <1>3 DEF SetPriority
  <2>2. SchedLists' /\ WaitLists'
    BY <2>1 DEF SchedLists, WaitLists, sched_vars, sema_vars
  <2>3. PcStatus'
    BY <1>0, <2>1 DEF PcStatus, TypeOK, sched_vars
  <2> QED
    BY <2>2, <2>3
<1>4. ASSUME NEW p \in Priorities, NEW u \in Threads, Create(t, u, p)
      PROVE  ListsOK'
  <2> DEFINE rl == Append(ready_list, u)
             st == [status EXCEPT ![u] = "ready"]
  <2>1. /\ rl \in Seq(Threads) /\ st \in [Threads -> Statuses]
        /\ \A v \in Threads : st[v] = IF v = u THEN "ready" ELSE status[v]
    BY DEF TypeOK, Statuses
  <2>2. /\ IF p > priority[t] THEN ThreadYield(t, rl, st, priority')
                             ELSE cur' = t /\ ready_list' = rl /\ status' = st
        /\ pc[u] = "new" /\ pc' = [pc EXCEPT ![u] = "run"] /\ UNCHANGED <<sema_vars, at>>
    BY <1>4 DEF Create
  <2>3. status[u] = "new" /\ u # t
    BY <1>0, <2>2 DEF PcStatus
  <2>4. IsInjective(rl) /\ ToSet(rl) = ToSet(ready_list) \cup {u}
    <3>1. u \notin ToSet(ready_list)
      BY <2>3 DEF SchedLists, ReadyIn
    <3> QED
      BY <3>1, InjectiveAppend, ToSetAppend DEF SchedLists, TypeOK
  <2> HIDE DEF rl, st
  <2>5. ToSet(rl) = ReadyIn(st) /\ \A v \in Threads : st[v] = "running" <=> v = t
    BY <1>0, <2>1, <2>3, <2>4 DEF SchedLists, ReadyIn
  <2>6. SchedLists' /\ Settled(st)
    <3>1. CASE p > priority[t]
      BY <2>1, <2>2, <2>4, <2>5, <3>1, YieldLists
    <3>2. CASE ~(p > priority[t])
      BY <2>1, <2>2, <2>4, <2>5, <3>2 DEF SchedLists, Settled, ReadyIn
    <3> QED
      BY <3>1, <3>2
  <2>7. WaitLists'
    BY <2>1, <2>2, <2>3, <2>6 DEF WaitLists, Settled, sema_vars
  <2>8. PcStatus'
    BY <2>1, <2>2, <2>3, <2>6 DEF PcStatus, Settled, TypeOK
  <2> QED
    BY <2>6, <2>7, <2>8
<1> QED
  BY <1>1, <1>2, <1>3, <1>4 DEF ThreadStep

\* The callers' semaphore operations move a thread from one list to another.
LEMMA SemaStepLists ==
  ASSUME TypeInv, ListsOK, NEW t \in Threads, SemaStep(t)
  PROVE  ListsOK'
<1> USE DEF TypeInv, ListsOK
<1>0. cur = t /\ pc[t] = "run" /\ status[t] = "running"
  BY DEF SemaStep, SemaDown, SemaTryDown, SemaUp, SchedLists
<1>1. ASSUME NEW s \in Semas, SemaDown(t, s)
      PROVE  ListsOK'
  <2>1. /\ pc' = [pc EXCEPT ![t] = "down"] /\ at' = [at EXCEPT ![t] = s] /\ s \notin Threads
        /\ UNCHANGED <<sched_vars, sema_vars>>
    BY <1>1, SynchConstants DEF SemaDown
  <2>2. SchedLists' /\ WaitLists'
    BY <1>0, <2>1 DEF SchedLists, WaitLists, sched_vars, sema_vars, TypeOK
  <2>3. PcStatus'
    BY <1>0, <2>1 DEF PcStatus, TypeOK, sched_vars
  <2> QED
    BY <2>2, <2>3
<1>2. ASSUME NEW s \in Semas, SemaTryDown(t, s)
      PROVE  ListsOK'
  BY <1>2 DEF SemaTryDown, SchedLists, WaitLists, PcStatus, sched_vars
<1>3. ASSUME NEW s \in Semas, SemaUp(t, s)
      PROVE  ListsOK'
  <2>1. PICK w \in Woken(s) :
          /\ waiters' = w.ws
          /\ IF waiters[s] = << >> THEN UNCHANGED sched_vars
             ELSE YieldToHigher(t, w.rl, w.st, priority)
    BY <1>3 DEF SemaUp
  <2>2. s \in AllSemas /\ UNCHANGED <<pc, at>>
    BY <1>3 DEF SemaUp, AllSemas
  <2>3. SchedLists' /\ Settled(w.st)
    <3>1. CASE waiters[s] = << >>
      <4>1. w.st = status
        BY <3>1 DEF Woken
      <4>2. UNCHANGED sched_vars
        BY <2>1, <3>1
      <4> QED
        BY <4>1, <4>2 DEF SchedLists, Settled, sched_vars
    <3>2. CASE waiters[s] # << >>
      BY <1>0, <2>1, <2>2, <3>2, WokenLists, WokenType, YieldToHigherLists
    <3> QED
      BY <3>1, <3>2
  <2>4. WaitLists'
    BY <2>1, <2>2, <2>3, WokenLists DEF WaitLists, Settled
  <2>5. PcStatus'
    BY <2>2, <2>3, WokenLists DEF PcStatus, Settled
  <2> QED
    BY <2>3, <2>4, <2>5
<1> QED
  BY <1>1, <1>2, <1>3 DEF SemaStep

\* So do lock_acquire, lock_try_acquire and lock_release.
LEMMA LockStepLists ==
  ASSUME TypeInv, ListsOK, NEW t \in Threads, LockStep(t)
  PROVE  ListsOK'
<1> USE DEF TypeInv, ListsOK
<1>0. cur = t /\ status[t] = "running" /\ pc[t] \notin {"new", "dead"}
  BY DEF LockStep, RecomputePriority, DownBlock, DownTake, SetHolder, LockAcquire, LockTryAcquire,
         LockRelease, SchedLists
\* A step that goes on running, out of sema_down or at another semaphore.
<1> DEFINE Goes(a, b) ==
      /\ pc' = [pc EXCEPT ![t] = a] /\ at' = [at EXCEPT ![t] = b]
      /\ a \notin {"new", "dead"} /\ b \notin Threads
      /\ UNCHANGED <<sched_vars, waiters>>
<1>1. ASSUME NEW a, NEW b, Goes(a, b)
      PROVE  ListsOK'
  <2>1. SchedLists' /\ WaitLists'
    BY <1>0, <1>1 DEF SchedLists, WaitLists, sched_vars, TypeOK
  <2>2. PcStatus'
    BY <1>0, <1>1 DEF PcStatus, TypeOK, sched_vars
  <2> QED
    BY <2>1, <2>2
<1>2. Locks \cap Threads = {} /\ None \notin Threads /\ Locks \subseteq AllSemas
  BY SynchConstants DEF AllSemas
<1>3. CASE RecomputePriority(t)
  <2>1. PICK p : /\ priority' = [priority EXCEPT ![chain] = p]
                 /\ IF Cascades(p)
                    THEN chain' = donee[chain] /\ UNCHANGED <<sched_vars, pc>>
                    ELSE /\ chain' = None
                         /\ IF pc[t] = "donate"
                            THEN pc' = [pc EXCEPT ![t] = "down"] /\ UNCHANGED sched_vars
                            ELSE /\ pc' = [pc EXCEPT ![t] = IF cv[t] = None THEN "run"
                                                            ELSE "wait_down"]
                                 /\ YieldToHigher(t, ready_list, status, priority')
    BY <1>3 DEF RecomputePriority
  <2>2. UNCHANGED <<sema_vars, at>>
    BY <1>3 DEF RecomputePriority
  <2>3. CASE UNCHANGED <<sched_vars, pc>>
    BY <2>2, <2>3 DEF SchedLists, WaitLists, PcStatus, sched_vars, sema_vars
  <2>4. CASE pc' = [pc EXCEPT ![t] = "down"] /\ UNCHANGED sched_vars
    <3>1. SchedLists' /\ WaitLists'
      BY <2>2, <2>4 DEF SchedLists, WaitLists, sched_vars, sema_vars
    <3>2. PcStatus'
      BY <1>0, <2>2, <2>4 DEF PcStatus, sched_vars, TypeOK
    <3> QED
      BY <3>1, <3>2
  <2>5. CASE /\ pc' = [pc EXCEPT ![t] = IF cv[t] = None THEN "run" ELSE "wait_down"]
             /\ YieldToHigher(t, ready_list, status, priority')
    <3>1. SchedLists' /\ Settled(status)
      BY <1>0, <2>5, YieldToHigherLists DEF TypeOK, SchedLists
    <3>2. WaitLists'
      BY <2>2, <3>1, KeepWaiters DEF sema_vars
    <3>3. PcStatus'
      BY <1>0, <2>2, <2>5, <3>1 DEF PcStatus, Settled, TypeOK
    <3> QED
      BY <3>1, <3>2, <3>3
  <2> QED
    BY <2>1, <2>3, <2>4, <2>5
<1>4. CASE DownBlock(t)
  <2> DEFINE st == [status EXCEPT ![t] = "blocked"]
             s == at[t]
  <2>1. /\ st \in [Threads -> Statuses] /\ s \in AllSemas
        /\ \A u \in Threads : st[u] = IF u = t THEN "blocked" ELSE status[u]
    BY <1>4 DEF DownBlock, Control, TypeOK, Statuses
  <2>2. /\ pc[t] = "down" /\ waiters' = [waiters EXCEPT ![s] = Append(@, t)]
        /\ Schedule(ready_list, st, priority) /\ UNCHANGED <<pc, at>>
    BY <1>4 DEF DownBlock
  <2>3. t \notin ToSet(waiters[s]) /\ waiters[s] \in Seq(Threads)
    BY <1>0, <2>1 DEF WaitLists, TypeOK
  <2>4. /\ IsInjective(Append(waiters[s], t))
        /\ ToSet(Append(waiters[s], t)) = ToSet(waiters[s]) \cup {t}
    BY <2>1, <2>3, InjectiveAppend, ToSetAppend DEF WaitLists
  <2>5. \A r \in AllSemas : waiters'[r] = IF r = s THEN Append(waiters[s], t) ELSE waiters[r]
    BY <2>2 DEF TypeOK
  <2>6. at[t] = s
    OBVIOUS
  <2> HIDE DEF st, s
  <2>7. ToSet(ready_list) = ReadyIn(st) /\ \A u \in Threads : st[u] # "running"
    BY <1>0, <2>1 DEF SchedLists, ReadyIn
  <2>8. SchedLists' /\ Settled(st)
    BY <2>1, <2>2, <2>7, ScheduleLists DEF TypeOK, SchedLists
  <2>9. WaitLists'
    <3> SUFFICES ASSUME NEW r \in AllSemas
                 PROVE  /\ IsInjective(waiters'[r])
                        /\ ToSet(waiters'[r]) = {u \in Threads : status'[u] = "blocked" /\ at'[u] = r}
      BY DEF WaitLists
    <3>1. \A u \in Threads : status'[u] = "blocked" <=> status[u] = "blocked" \/ u = t
      BY <2>1, <2>8 DEF Settled
    <3>2. CASE r = s
      BY <2>2, <2>4, <2>5, <2>6, <3>1, <3>2 DEF WaitLists
    <3>3. CASE r # s
      BY <2>2, <2>5, <2>6, <3>1, <3>3 DEF WaitLists
    <3> QED
      BY <3>2, <3>3
  <2>10. PcStatus'
    BY <1>0, <2>1, <2>2, <2>8 DEF PcStatus, Settled
  <2> QED
    BY <2>8, <2>9, <2>10
<1>5. CASE DownTake(t)
  <2>1. \E a \in {"run", "wait_lock"} : Goes(a, None)
    BY <1>2, <1>5 DEF DownTake
  <2> QED
    BY <1>1, <2>1
<1>6. CASE SetHolder(t)
  <2>1. Goes("run", None)
    BY <1>2, <1>6 DEF SetHolder
  <2> QED
    BY <1>1, <2>1
<1>7. ASSUME NEW l \in Locks, LockAcquire(t, l) \/ LockTryAcquire(t, l)
      PROVE  ListsOK'
  <2>1. \E a \in {"donate", "down", "tried"} : Goes(a, l)
    BY <1>2, <1>7 DEF LockAcquire, LockTryAcquire, sema_vars
  <2> QED
    BY <1>1, <2>1
<1>8. ASSUME NEW l \in Locks, LockRelease(t, l)
      PROVE  ListsOK'
  <2>1. PICK w \in Woken(l) : waiters' = w.ws /\ ready_list' = w.rl /\ status' = w.st
    BY <1>8 DEF LockRelease
  <2>2. l \in AllSemas /\ UNCHANGED <<cur, at>> /\ pc' = [pc EXCEPT ![t] = "recompute"]
        /\ pc[t] # "down"
    BY <1>2, <1>8 DEF LockRelease
  <2>3. SchedLists' /\ WaitLists'
    BY <2>1, <2>2, WokenLists DEF SchedLists, WaitLists
  <2>4. PcStatus'
    BY <1>0, <2>1, <2>2, WokenLists DEF PcStatus, TypeOK
  <2> QED
    BY <2>3, <2>4
<1> QED
  BY <1>3, <1>4, <1>5, <1>6, <1>7, <1>8 DEF LockStep

\* cond_signal wakes its waiter like sema_up.
LEMMA SignalLists ==
  ASSUME TypeInv, ListsOK, NEW t \in Threads, cur = t, NEW c \in Conds, Signal(t, c)
  PROVE  /\ SchedLists' /\ WaitLists'
         /\ \A u \in Threads :
              /\ \A x \in {"new", "dying"} : status'[u] = x <=> status[u] = x
              /\ status'[u] = "blocked" => status[u] = "blocked"
<1> USE DEF TypeInv, ListsOK
<1>1. PICK i \in DOMAIN cond_waiters[c] :
        /\ \E w \in Woken(cond_waiters[c][i]) :
             /\ waiters' = w.ws
             /\ IF waiters[cond_waiters[c][i]] = << >> THEN UNCHANGED sched_vars
                ELSE YieldToHigher(t, w.rl, w.st, priority)
        /\ UNCHANGED at
  BY DEF Signal, Highest
<1>2. PICK s \in AllSemas :
        \E w \in Woken(s) :
          /\ waiters' = w.ws
          /\ IF waiters[s] = << >> THEN UNCHANGED sched_vars
             ELSE YieldToHigher(t, w.rl, w.st, priority)
  <2>1. cond_waiters[c][i] \in AllSemas
    BY DEF TypeOK, AllSemas
  <2> QED
    BY <1>1, <2>1
<1>3. PICK w \in Woken(s) :
        /\ waiters' = w.ws
        /\ IF waiters[s] = << >> THEN UNCHANGED sched_vars
           ELSE YieldToHigher(t, w.rl, w.st, priority)
  BY <1>2
<1>4. SchedLists' /\ Settled(w.st)
  <2>1. CASE waiters[s] = << >>
    <3>1. w.st = status
      BY <2>1 DEF Woken
    <3>2. UNCHANGED sched_vars
      BY <1>3, <2>1
    <3> QED
      BY <3>1, <3>2 DEF SchedLists, Settled, sched_vars
  <2>2. CASE waiters[s] # << >>
    BY <1>3, <2>2, WokenLists, WokenType, YieldToHigherLists
  <2> QED
    BY <2>1, <2>2
<1>5. WaitLists'
  BY <1>1, <1>3, <1>4, WokenLists DEF WaitLists, Settled
<1> QED
  BY <1>4, <1>5, WokenLists DEF Settled

\* cond_wait, cond_signal and cond_broadcast work on the condition's own
\* semaphores.
LEMMA CondStepLists ==
  ASSUME TypeInv, ListsOK, NEW t \in Threads, CondStep(t)
  PROVE  ListsOK'
<1> USE DEF TypeInv, ListsOK
<1>0. cur = t /\ status[t] = "running" /\ pc[t] \in {"run", "wait_down", "broadcast"}
  BY DEF CondStep, CondDown, BroadcastStep, CondWait, CondSignal, CondBroadcast, SchedLists
<1>1. ASSUME NEW c \in Conds, Signal(t, c), UNCHANGED pc
      PROVE  ListsOK'
  <2>1. at' = at
    BY <1>1 DEF Signal
  <2> QED
    BY <1>0, <1>1, <2>1, SignalLists DEF PcStatus
\* A step that leaves the lists alone.
<1> DEFINE Goes(a) ==
      /\ pc' = [pc EXCEPT ![t] = a] /\ a \notin {"new", "dead"}
      /\ at' = at \/ at' = [at EXCEPT ![t] = t]
      /\ UNCHANGED sched_vars /\ \A s \in AllSemas : waiters'[s] = waiters[s]
<1>2. ASSUME NEW a, Goes(a)
      PROVE  ListsOK'
  <2>1. SchedLists' /\ WaitLists'
    BY <1>0, <1>2 DEF SchedLists, WaitLists, sched_vars, TypeOK
  <2>2. PcStatus'
    BY <1>0, <1>2 DEF PcStatus, TypeOK, sched_vars
  <2> QED
    BY <2>1, <2>2
<1>3. CASE CondDown(t)
  <2>1. Goes("down")
    BY <1>3 DEF CondDown, sema_vars
  <2> QED
    BY <1>2, <2>1
<1>4. CASE BroadcastStep(t)
  <2>1. CASE cond_waiters[cv[t]] # << >>
    BY <1>1, <1>4, <2>1 DEF BroadcastStep, Control
  <2>2. CASE cond_waiters[cv[t]] = << >>
    <3>1. Goes("run")
      BY <1>4, <2>2 DEF BroadcastStep, sema_vars
    <3> QED
      BY <1>2, <3>1
  <2> QED
    BY <2>1, <2>2
<1>5. ASSUME NEW c \in Conds, CondWait(t, c)
      PROVE  ListsOK'
  <2>0. t \in AllSemas /\ waiters[t] \in Seq(Threads)
    BY DEF AllSemas, TypeOK
  <2>1. \A u \in Threads : ~(status[u] = "blocked" /\ at[u] = t)
    BY <1>0 DEF PcStatus
  <2>2. waiters[t] = << >>
    BY <2>0, <2>1, ToSetEmpty DEF WaitLists
  <2>3. \A s \in AllSemas : waiters'[s] = waiters[s]
    BY <1>5, <2>2 DEF CondWait, TypeOK
  <2>4. Goes("wait_release")
    BY <1>5, <2>3 DEF CondWait
  <2> QED
    BY <1>2, <2>4
<1>6. ASSUME NEW c \in Conds, CondSignal(t, c)
      PROVE  ListsOK'
  BY <1>1, <1>6 DEF CondSignal
<1>7. ASSUME NEW c \in Conds, CondBroadcast(t, c)
      PROVE  ListsOK'
  <2>1. Goes("broadcast")
    BY <1>7 DEF CondBroadcast, sema_vars
  <2> QED
    BY <1>2, <2>1
<1> QED
  BY <1>3, <1>4, <1>5, <1>6, <1>7 DEF CondStep

\* Every step keeps each thread on one list.
LEMMA NextLists ==
  ASSUME TypeInv, ListsOK, [Next]_vars
  PROVE  ListsOK'
<1>1. CASE UNCHANGED vars
  BY <1>1 DEF vars, sched_vars, sema_vars, ListsOK, SchedLists, WaitLists, PcStatus
<1>2. CASE Interrupt
  BY <1>2, InterruptLists
<1>3. ASSUME NEW t \in Threads, Step(t)
      PROVE  ListsOK'
  BY <1>3, ThreadStepLists, SemaStepLists, LockStepLists, CondStepLists DEF Step
<1> QED
  BY <1>1, <1>2, <1>3 DEF Next

\* A thread is on one list, and its status says on which.
LEMMA ListsHold == Spec => []ListsOK
<1>1. Init => ListsOK
  BY InitLists
<1>2. TypeInv /\ ListsOK /\ [Next]_vars => ListsOK'
  BY NextLists
<1> QED
  BY <1>1, <1>2, TypeCorrect, PTL DEF Spec

\* How often an element is in a sequence without duplicates.
LEMMA OnceInList ==
  ASSUME NEW s \in Seq(Threads), IsInjective(s), NEW t
  PROVE  Cardinality({i \in DOMAIN s : s[i] = t}) = IF t \in ToSet(s) THEN 1 ELSE 0
<1>1. CASE t \in ToSet(s)
  <2>1. PICK i \in DOMAIN s : s[i] = t
    BY <1>1 DEF ToSet
  <2>2. {j \in DOMAIN s : s[j] = t} = {i}
    BY <2>1 DEF IsInjective
  <2> QED
    BY <1>1, <2>2, FS_Singleton
<1>2. CASE t \notin ToSet(s)
  <2>1. {j \in DOMAIN s : s[j] = t} = {}
    BY <1>2 DEF ToSet
  <2> QED
    BY <1>2, <2>1, FS_EmptySet
<1> QED
  BY <1>1, <1>2

\* A thread is on the run queue or on a wait list, once, exactly when it is
\* ready or blocked there: no operation links it into two lists.
THEOREM EachOnOneList == Spec => []OnOneList
<1>1. TypeInv /\ ListsOK => OnOneList
  <2> SUFFICES ASSUME TypeOK, SchedLists, WaitLists PROVE OnOneList
    BY DEF TypeInv, ListsOK
  <2>1. \A t \in Threads :
          Cardinality({i \in DOMAIN ready_list : ready_list[i] = t})
            = IF t \in ToSet(ready_list) THEN 1 ELSE 0
    BY OnceInList DEF SchedLists, TypeOK
  <2>2. \A t \in Threads, s \in AllSemas :
          Cardinality({i \in DOMAIN waiters[s] : waiters[s][i] = t})
            = IF t \in ToSet(waiters[s]) THEN 1 ELSE 0
    BY OnceInList DEF WaitLists, TypeOK
  <2>3. \A t \in Threads : t \in ToSet(ready_list) <=> status[t] = "ready"
    BY DEF SchedLists, ReadyIn
  <2>4. \A t \in Threads, s \in AllSemas :
          t \in ToSet(waiters[s]) <=> status[t] = "blocked" /\ at[t] = s
    BY DEF WaitLists
  <2> QED
    BY <2>1, <2>2, <2>3, <2>4 DEF OnOneList, SchedLists
<1> QED
  BY <1>1, TypeCorrect, ListsHold, PTL

----------------------------------------------------------------------------
(***************************************************************************)
(* No wakeup is lost.  NoLostWakeup is inductive relative to TypeInv and   *)
(* ListsOK: an up that finds waiters makes one of them awake, and only a   *)
(* down that took a unit stops being awake.                                *)
(***************************************************************************)

DownPcs == {"down", "donate"}

\* A set of threads that run or are ready is finite.
LEMMA FiniteOnQueue ==
  ASSUME NEW rl \in Seq(Threads), NEW x, NEW A, A \subseteq ToSet(rl) \cup {x}
  PROVE  IsFiniteSet(A)
<1>1. IsFiniteSet(DOMAIN rl)
  <2>1. DOMAIN rl = 1 .. Len(rl) /\ Len(rl) \in Nat
    OBVIOUS
  <2> QED
    BY <2>1, FS_Interval
<1>2. IsFiniteSet(ToSet(rl))
  <2>1. rl \in Surjection(DOMAIN rl, ToSet(rl))
    BY DEF Surjection, ToSet
  <2> QED
    BY <1>1, <2>1, FS_Surjection
<1> QED
  BY <1>2, FS_AddElement, FS_Subset

\* Finitely many threads have been woken and not run: they are in the ready
\* list.
LEMMA AwakeFinite ==
  ASSUME TypeInv, ListsOK, NEW s \in AllSemas
  PROVE  IsFiniteSet(Awake(s))
<1>1. ready_list \in Seq(Threads)
  BY DEF TypeInv, TypeOK
<1>2. Awake(s) \subseteq ToSet(ready_list) \cup {cur}
  BY DEF TypeInv, TypeOK, Statuses, ListsOK, SchedLists, ReadyIn, PcStatus, Awake
<1> QED
  BY <1>1, <1>2, FiniteOnQueue

\* The same after the step.
LEMMA AwakeFiniteNext ==
  ASSUME TypeInv', ListsOK', NEW s \in AllSemas
  PROVE  IsFiniteSet(Awake(s)')
<1>1. ready_list' \in Seq(Threads)
  BY DEF TypeInv, TypeOK
<1>2. Awake(s)' \subseteq ToSet(ready_list') \cup {cur'}
  BY DEF TypeInv, TypeOK, Statuses, ListsOK, SchedLists, ReadyIn, PcStatus, Awake
<1> QED
  BY <1>1, <1>2, FiniteOnQueue

\* The threads that are in sema_down stay there, except those in S.
StayDown(S) ==
  \A u \in Threads \ S : pc[u] \in DownPcs => pc'[u] \in DownPcs /\ at'[u] = at[u]

\* A thread that blocks joins a wait list, so one that is awake in sema_down
\* stays awake if no wait list grows.
LEMMA AwakeGrows ==
  ASSUME TypeInv', ListsOK, ListsOK', NEW S, StayDown(S), NEW s \in AllSemas,
         ToSet(waiters'[s]) \subseteq ToSet(waiters[s])
  PROVE  Awake(s) \ S \subseteq Awake(s)'
<1> SUFFICES ASSUME NEW u \in Threads, u \in Awake(s), u \notin S
             PROVE  status'[u] # "blocked"
  BY DEF Awake, StayDown, DownPcs
<1>1. at'[u] = s /\ status[u] # "blocked"
  BY DEF Awake, StayDown, DownPcs
<1>2. status'[u] = "blocked" => u \in ToSet(waiters'[s])
  BY <1>1 DEF ListsOK, WaitLists
<1>3. u \notin ToSet(waiters[s])
  BY <1>1 DEF ListsOK, WaitLists
<1> QED
  BY <1>2, <1>3

\* A step that ups nothing and after which everyone in sema_down still is.
LEMMA QuietWakeups ==
  ASSUME TypeInv, TypeInv', ListsOK, ListsOK', NoLostWakeup, StayDown({}),
         \A s \in AllSemas : waiters'[s] = waiters[s] /\ value'[s] =< value[s]
  PROVE  NoLostWakeup'
<1> SUFFICES ASSUME NEW s \in AllSemas, waiters'[s] # << >>
             PROVE  value'[s] =< Cardinality(Awake(s)')
  BY DEF NoLostWakeup
<1>1. Awake(s) \subseteq Awake(s)'
  BY AwakeGrows
<1>2. /\ Cardinality(Awake(s)) \in Nat /\ Cardinality(Awake(s)') \in Nat
      /\ Cardinality(Awake(s)) =< Cardinality(Awake(s)')
  BY <1>1, AwakeFinite, AwakeFiniteNext, FS_Subset, FS_CardinalityType
<1>3. value[s] =< Cardinality(Awake(s)) /\ value[s] \in Nat /\ value'[s] \in Nat
  BY DEF NoLostWakeup, TypeInv, TypeOK
<1> QED
  BY <1>2, <1>3

\* An up of s: a waiter becomes awake for the unit that is added.
LEMMA UpWakeups ==
  ASSUME TypeInv, TypeInv', ListsOK, ListsOK', NoLostWakeup, StayDown({}),
         NEW s \in AllSemas, NEW w \in Woken(s), waiters' = w.ws, at' = at,
         value' = [value EXCEPT ![s] = @ + 1]
  PROVE  NoLostWakeup'
<1> SUFFICES ASSUME NEW r \in AllSemas, waiters'[r] # << >>
             PROVE  value'[r] =< Cardinality(Awake(r)')
  BY DEF NoLostWakeup
<1>0. /\ value[r] \in Nat
      /\ Cardinality(Awake(r)) \in Nat /\ Cardinality(Awake(r)') \in Nat
  BY AwakeFinite, AwakeFiniteNext, FS_CardinalityType DEF TypeInv, TypeOK
<1>1. CASE waiters[s] = << >>
  <2>1. waiters' = waiters
    BY <1>1 DEF Woken
  <2>2. r # s /\ value'[r] = value[r]
    BY <1>1, <2>1 DEF TypeInv, TypeOK
  <2>3. Awake(r) \subseteq Awake(r)'
    BY <2>1, AwakeGrows
  <2>4. Cardinality(Awake(r)) =< Cardinality(Awake(r)')
    BY <2>3, AwakeFiniteNext, FS_Subset
  <2>5. value[r] =< Cardinality(Awake(r))
    BY <2>1 DEF NoLostWakeup
  <2> QED
    BY <1>0, <2>2, <2>4, <2>5
<1>2. CASE waiters[s] # << >>
  <2>1. PICK i \in DOMAIN waiters[s] :
          waiters' = [waiters EXCEPT ![s] = RemoveAt(waiters[s], i)]
    BY <1>2 DEF Woken, Highest
  <2>2. waiters[s] \in Seq(Threads) /\ waiters \in [AllSemas -> Seq(Threads)]
        /\ value \in [AllSemas -> Nat]
    BY DEF TypeInv, TypeOK
  <2>3. ToSet(waiters'[s]) = ToSet(waiters[s]) \ {waiters[s][i]}
    BY <2>1, <2>2, InjectiveRemoveAt DEF ListsOK, WaitLists
  <2>4. ToSet(waiters'[r]) \subseteq ToSet(waiters[r])
    BY <2>1, <2>2, <2>3
  <2>5. Awake(r) \subseteq Awake(r)'
    BY <2>4, AwakeGrows
  <2>6. Cardinality(Awake(r)) =< Cardinality(Awake(r)')
    BY <2>5, AwakeFiniteNext, FS_Subset
  <2>7. CASE r # s
    <3>1. waiters[r] # << >> /\ value'[r] = value[r]
      BY <2>1, <2>2, <2>7
    <3> QED
      BY <1>0, <2>6, <3>1 DEF NoLostWakeup
  <2>8. CASE r = s
    <3> DEFINE u == waiters[s][i]
    <3>1. u \in Threads /\ u \in ToSet(waiters[s])
      BY <2>2 DEF ToSet
    <3>2. status[u] = "blocked" /\ at[u] = s /\ pc[u] = "down"
      BY <3>1 DEF ListsOK, WaitLists, PcStatus
    <3>3. u \notin Awake(s)
      BY <3>2 DEF Awake
    <3>4. status'[u] # "blocked"
      BY <2>3, <3>1, <3>2 DEF ListsOK, WaitLists
    <3>5. u \in Awake(s)'
      BY <3>1, <3>2, <3>4 DEF Awake, StayDown, DownPcs
    <3> HIDE DEF u
    <3>6. Cardinality(Awake(s) \cup {u}) = Cardinality(Awake(s)) + 1
          /\ IsFiniteSet(Awake(s) \cup {u})
      BY <3>3, AwakeFinite, FS_AddElement
    <3>7. Awake(s) \cup {u} \subseteq Awake(s)'
      BY <2>5, <2>8, <3>5
    <3>8. Cardinality(Awake(s)) + 1 =< Cardinality(Awake(s)')
      BY <3>6, <3>7, AwakeFiniteNext, FS_Subset
    <3>9. value'[s] = value[s] + 1 /\ value[s] =< Cardinality(Awake(s))
      BY <1>2, <2>2 DEF NoLostWakeup
    <3> QED
      BY <1>0, <2>8, <3>8, <3>9
  <2> QED
    BY <2>7, <2>8
<1> QED
  BY <1>1, <1>2

\* sema_down: it blocks on the value 0, or takes a unit and leaves.
LEMMA DownWakeups ==
  ASSUME TypeInv, TypeInv', ListsOK, ListsOK', NoLostWakeup,
         NEW t \in Threads, DownBlock(t) \/ DownTake(t)
  PROVE  NoLostWakeup'
<1> SUFFICES ASSUME NEW r \in AllSemas, waiters'[r] # << >>
             PROVE  value'[r] =< Cardinality(Awake(r)')
  BY DEF NoLostWakeup
<1>0. /\ value[r] \in Nat
      /\ Cardinality(Awake(r)) \in Nat /\ Cardinality(Awake(r)') \in Nat
  BY AwakeFinite, AwakeFiniteNext, FS_CardinalityType DEF TypeInv, TypeOK
<1>1. /\ at[t] \in AllSemas /\ waiters \in [AllSemas -> Seq(Threads)]
      /\ value \in [AllSemas -> Nat]
  BY DEF TypeInv, TypeOK, Control, DownBlock, DownTake
<1>2. CASE r = at[t] /\ DownBlock(t)
  BY <1>0, <1>2 DEF DownBlock
<1>3. CASE r = at[t] /\ DownTake(t)
  <2>1. StayDown({t}) /\ waiters' = waiters /\ value'[r] = value[r] - 1
    BY <1>1, <1>3 DEF DownTake, StayDown, TypeInv, TypeOK
  <2>2. Awake(r) \ {t} \subseteq Awake(r)'
    BY <2>1, AwakeGrows
  <2>3. t \in Awake(r)
    BY <1>3 DEF DownTake, Awake, ListsOK, SchedLists
  <2>4. IsFiniteSet(Awake(r))
    BY AwakeFinite
  <2>5. Cardinality(Awake(r) \ {t}) = Cardinality(Awake(r)) - 1
    BY <2>3, <2>4, FS_RemoveElement
  <2>6. Cardinality(Awake(r)) - 1 =< Cardinality(Awake(r)')
    BY <2>2, <2>5, AwakeFiniteNext, FS_Subset
  <2>7. value[r] =< Cardinality(Awake(r))
    BY <2>1 DEF NoLostWakeup
  <2> QED
    BY <1>0, <2>1, <2>6, <2>7
<1>4. CASE r # at[t]
  <2>1. StayDown({t}) /\ waiters'[r] = waiters[r] /\ value'[r] = value[r]
    BY <1>1, <1>4 DEF DownBlock, DownTake, StayDown, TypeInv, TypeOK
  <2>2. Awake(r) \ {t} \subseteq Awake(r)'
    BY <2>1, AwakeGrows
  <2>3. t \notin Awake(r)
    BY <1>4 DEF Awake
  <2>4. Cardinality(Awake(r)) =< Cardinality(Awake(r)')
    BY <2>2, <2>3, AwakeFiniteNext, FS_Subset
  <2> QED
    BY <1>0, <2>1, <2>4 DEF NoLostWakeup
<1> QED
  BY <1>2, <1>3, <1>4

\* Every step keeps the count of wakeups.
LEMMA NextWakeups ==
  ASSUME TypeInv, TypeInv', ListsOK, ListsOK', NoLostWakeup, [Next]_vars
  PROVE  NoLostWakeup'
<1> DEFINE Quiet ==
      /\ StayDown({})
      /\ \A s \in AllSemas : waiters'[s] = waiters[s] /\ value'[s] =< value[s]
<1> DEFINE Up ==
      \E s \in AllSemas : \E w \in Woken(s) :
        /\ waiters' = w.ws /\ at' = at
        /\ value' = [value EXCEPT ![s] = @ + 1] /\ StayDown({})
<1>1. Quiet => NoLostWakeup'
  BY QuietWakeups
<1>2. Up => NoLostWakeup'
  BY UpWakeups
<1>0. /\ Semas \subseteq AllSemas /\ Locks \subseteq AllSemas /\ Threads \subseteq AllSemas
      /\ value \in [AllSemas -> Nat] /\ waiters \in [AllSemas -> Seq(Threads)]
      /\ pc \in [Threads -> OnPcs \cup OffPcs \cup {"new", "dead"}]
      /\ at \in [Threads -> AllSemas \cup {None}]
      /\ cond_waiters \in [Conds -> Seq(Threads)]
  BY DEF TypeInv, TypeOK, AllSemas
<1>3. CASE UNCHANGED vars
  <2>1. Quiet
    BY <1>0, <1>3 DEF vars, sema_vars, StayDown
  <2> QED
    BY <1>1, <2>1
<1>4. CASE Interrupt
  <2>1. CASE Preempt \/ IdleBlock
    <3>1. Quiet
      BY <1>0, <2>1 DEF Preempt, IdleBlock, sema_vars, StayDown
    <3> QED
      BY <1>1, <3>1
  <2>2. ASSUME NEW s \in Semas, IntrSemaUp(s)
        PROVE  NoLostWakeup'
    <3>1. Up
      BY <1>0, <2>2 DEF IntrSemaUp, StayDown
    <3> QED
      BY <1>2, <3>1
  <2> QED
    BY <1>4, <2>1, <2>2 DEF Interrupt
<1>5. ASSUME NEW t \in Threads, ThreadStep(t)
      PROVE  NoLostWakeup'
  <2>1. Quiet
    <3>1. CASE Yield(t) \/ Exit(t)
      BY <1>0, <3>1 DEF Yield, Exit, sema_vars, StayDown, DownPcs
    <3>2. CASE \E p \in Priorities : SetPriority(t, p)
      BY <1>0, <3>2 DEF SetPriority, sema_vars, StayDown, DownPcs
    <3>3. CASE \E p \in Priorities, u \in Threads : Create(t, u, p)
      BY <1>0, <3>3 DEF Create, sema_vars, StayDown, DownPcs
    <3> QED
      BY <1>5, <3>1, <3>2, <3>3 DEF ThreadStep
  <2> QED
    BY <1>1, <2>1
<1>6. ASSUME NEW t \in Threads, NEW s \in Semas, SemaDown(t, s) \/ SemaTryDown(t, s)
      PROVE  NoLostWakeup'
  <2>0. s \in AllSemas
    BY <1>0
  <2>1. CASE SemaDown(t, s)
    <3>1. Quiet
      BY <1>0, <2>1 DEF SemaDown, sema_vars, StayDown, DownPcs
    <3> QED
      BY <1>1, <3>1
  <2>2. CASE SemaTryDown(t, s)
    <3>1. Quiet
      BY <1>0, <2>0, <2>2 DEF SemaTryDown, StayDown
    <3> QED
      BY <1>1, <3>1
  <2> QED
    BY <1>6, <2>1, <2>2
<1>7. ASSUME NEW t \in Threads, NEW s \in Semas, SemaUp(t, s)
      PROVE  NoLostWakeup'
  <2>1. Up
    BY <1>0, <1>7 DEF SemaUp, StayDown
  <2> QED
    BY <1>2, <2>1
<1>8. ASSUME NEW t \in Threads, LockStep(t)
      PROVE  NoLostWakeup'
  <2>1. CASE RecomputePriority(t)
    <3>1. Quiet
      BY <1>0, <2>1 DEF RecomputePriority, sema_vars, StayDown, DownPcs
    <3> QED
      BY <1>1, <3>1
  <2>2. CASE SetHolder(t)
    <3>1. Quiet
      BY <1>0, <2>2 DEF SetHolder, StayDown, DownPcs
    <3> QED
      BY <1>1, <3>1
  <2>3. ASSUME NEW l \in Locks, LockAcquire(t, l)
        PROVE  NoLostWakeup'
    <3>1. Quiet
      BY <1>0, <2>3 DEF LockAcquire, sema_vars, StayDown, DownPcs
    <3> QED
      BY <1>1, <3>1
  <2>5. ASSUME NEW l \in Locks, LockTryAcquire(t, l)
        PROVE  NoLostWakeup'
    <3>0. l \in AllSemas
      BY <1>0
    <3>1. Quiet
      BY <1>0, <2>5, <3>0 DEF LockTryAcquire, StayDown, DownPcs
    <3> QED
      BY <1>1, <3>1
  <2>4. ASSUME NEW l \in Locks, LockRelease(t, l)
        PROVE  NoLostWakeup'
    <3>1. Up
      BY <1>0, <2>4 DEF LockRelease, StayDown, DownPcs
    <3> QED
      BY <1>2, <3>1
  <2> QED
    BY <1>8, <2>1, <2>2, <2>3, <2>4, <2>5, DownWakeups DEF LockStep
<1>9. ASSUME NEW t \in Threads, NEW c \in Conds, Signal(t, c), UNCHANGED pc
      PROVE  NoLostWakeup'
  <2>0. PICK i \in DOMAIN cond_waiters[c] :
          /\ value' = [value EXCEPT ![cond_waiters[c][i]] = @ + 1]
          /\ \E w \in Woken(cond_waiters[c][i]) : waiters' = w.ws
          /\ at' = at
    BY <1>9 DEF Signal, Highest
  <2>2. cond_waiters[c][i] \in AllSemas
    BY <1>0
  <2>3. StayDown({})
    BY <1>9, <2>0 DEF StayDown
  <2>1. Up
    BY <2>0, <2>2, <2>3
  <2> QED
    BY <1>2, <2>1
<1>10. ASSUME NEW t \in Threads, CondStep(t)
       PROVE  NoLostWakeup'
  <2>1. CASE CondDown(t)
    <3>1. Quiet
      BY <1>0, <2>1 DEF CondDown, sema_vars, StayDown, DownPcs
    <3> QED
      BY <1>1, <3>1
  <2>2. CASE BroadcastStep(t)
    <3>1. CASE cond_waiters[cv[t]] # << >>
      BY <1>9, <2>2, <3>1 DEF BroadcastStep, TypeInv, Control
    <3>2. CASE cond_waiters[cv[t]] = << >>
      <4>1. Quiet
        BY <1>0, <2>2, <3>2 DEF BroadcastStep, sema_vars, StayDown, DownPcs
      <4> QED
        BY <1>1, <4>1
    <3> QED
      BY <3>1, <3>2
  <2>3. ASSUME NEW c \in Conds, CondWait(t, c)
        PROVE  NoLostWakeup'
    <3>1. waiters[t] = << >>
      <4>1. \A u \in Threads : ~(status[u] = "blocked" /\ at[u] = t)
        BY <2>3 DEF CondWait, ListsOK, SchedLists, PcStatus
      <4>2. ToSet(waiters[t]) = {} /\ waiters[t] \in Seq(Threads)
        BY <1>0, <4>1 DEF ListsOK, WaitLists
      <4> QED
        BY <4>2, ToSetEmpty
    <3>2. Quiet
      BY <1>0, <2>3, <3>1 DEF CondWait, StayDown, DownPcs
    <3> QED
      BY <1>1, <3>2
  <2>4. ASSUME NEW c \in Conds, CondSignal(t, c)
        PROVE  NoLostWakeup'
    BY <1>9, <2>4 DEF CondSignal
  <2>5. ASSUME NEW c \in Conds, CondBroadcast(t, c)
        PROVE  NoLostWakeup'
    <3>1. Quiet
      BY <1>0, <2>5 DEF CondBroadcast, sema_vars, StayDown, DownPcs
    <3> QED
      BY <1>1, <3>1
  <2> QED
    BY <1>10, <2>1, <2>2, <2>3, <2>4, <2>5 DEF CondStep
<1> QED
  BY <1>3, <1>4, <1>5, <1>6, <1>7, <1>8, <1>10 DEF Next, Step, SemaStep

\* While threads wait for a semaphore, each unit of its value has a thread
\* awake that will look at it: sema_up and sema_down lose no wakeup.
THEOREM WakeupsNotLost == Spec => []NoLostWakeup
<1>1. Init => NoLostWakeup
  BY DEF Init, NoLostWakeup
<1>2. TypeInv /\ TypeInv' /\ ListsOK /\ ListsOK' /\ NoLostWakeup /\ [Next]_vars
        => NoLostWakeup'
  BY NextWakeups
<1> QED
  BY <1>1, <1>2, TypeCorrect, ListsHold, PTL DEF Spec

----------------------------------------------------------------------------
(***************************************************************************)
(* No signal is lost.  SignalOK says who is on a condition's list; it is   *)
(* inductive with the values a waiter's semaphore can have and with the    *)
(* program points at which a thread is in no condition.                    *)
(***************************************************************************)

\* A condition's list has, once, each thread in its cond_wait that is not
\* signalled.
SignalOK ==
  \A c \in Conds :
    /\ IsInjective(cond_waiters[c])
    /\ ToSet(cond_waiters[c]) = {t \in Threads : InWait(t, c) /\ value[t] = 0}

\* A waiter's semaphore is upped once.
SelfValue == \A t \in Threads : value[t] =< 1

\* Program points outside cond_wait and cond_broadcast.
CondIdle ==
  \A t \in Threads :
    (\/ pc[t] \in {"run", "tried", "new", "dead"}
     \/ pc[t] = "down" /\ at[t] \in Semas) => cv[t] = None

SignalInv == SignalOK /\ SelfValue /\ CondIdle

\* A step that neither signals nor enters or leaves a cond_wait.
SignalFrame ==
  /\ cond_waiters' = cond_waiters
  /\ \A t \in Threads :
       /\ value'[t] = value[t]
       /\ \A c \in Conds : InWait(t, c)' <=> InWait(t, c)

\* A step that leaves the condition variables' semaphores alone.
LEMMA FrameSignal ==
  ASSUME SignalInv, SignalFrame, CondIdle'
  PROVE  SignalInv'
<1>1. SignalOK'
  BY DEF SignalInv, SignalOK, SignalFrame
<1>2. SelfValue'
  BY DEF SignalInv, SelfValue, SignalFrame
<1> QED
  BY <1>1, <1>2 DEF SignalInv

\* A step of t that changes no list and no value of a thread's semaphore, and
\* leaves t in its cond_wait or outside one.
LEMMA MoveSignal ==
  ASSUME TypeInv, SignalInv, NEW t \in Threads,
         cond_waiters' = cond_waiters, \A u \in Threads : value'[u] = value[u],
         \A u \in Threads : u # t => pc'[u] = pc[u] /\ at'[u] = at[u] /\ cv'[u] = cv[u],
         \A c \in Conds : InWait(t, c)' <=> InWait(t, c),
         (\/ pc'[t] \in {"run", "tried", "new", "dead"}
          \/ pc'[t] = "down" /\ at'[t] \in Semas) => cv'[t] = None
  PROVE  SignalInv'
<1>1. SignalFrame
  BY DEF SignalFrame, InWait
<1>2. CondIdle'
  BY DEF SignalInv, CondIdle
<1> QED
  BY <1>1, <1>2, FrameSignal

\* cond_signal takes the waiter it wakes off the list.
LEMMA SignalSignal ==
  ASSUME TypeInv, SignalInv, NEW t \in Threads, NEW c \in Conds, Signal(t, c),
         UNCHANGED <<pc, cv>>
  PROVE  SignalInv'
<1>0. /\ None \notin Conds /\ Threads \subseteq AllSemas /\ value \in [AllSemas -> Nat]
      /\ cond_waiters \in [Conds -> Seq(Threads)]
  BY SynchConstants DEF TypeInv, TypeOK, AllSemas
<1>1. PICK i \in DOMAIN cond_waiters[c] :
        /\ cond_waiters' = [cond_waiters EXCEPT ![c] = RemoveAt(cond_waiters[c], i)]
        /\ value' = [value EXCEPT ![cond_waiters[c][i]] = @ + 1]
        /\ at' = at
  BY DEF Signal, Highest, Unlisted
<1> DEFINE s == cond_waiters[c][i]
<1>2. s \in Threads /\ s \in ToSet(cond_waiters[c])
  BY <1>0 DEF ToSet
<1>3. InWait(s, c) /\ value[s] = 0
  BY <1>2 DEF SignalInv, SignalOK
<1>4. /\ IsInjective(RemoveAt(cond_waiters[c], i))
      /\ ToSet(RemoveAt(cond_waiters[c], i)) = ToSet(cond_waiters[c]) \ {s}
  BY <1>0, InjectiveRemoveAt DEF SignalInv, SignalOK
<1> HIDE DEF s
<1>5. \A u \in Threads : value'[u] = IF u = s THEN 1 ELSE value[u]
  BY <1>0, <1>1, <1>2, <1>3 DEF s
<1>6. \A u \in Threads, d \in Conds : InWait(u, d)' <=> InWait(u, d)
  BY <1>1 DEF InWait
<1>7. \A d \in Conds : d # c => ~InWait(s, d)
  BY <1>3 DEF InWait
<1>8. SignalOK'
  <2>1. SUFFICES ASSUME NEW d \in Conds
        PROVE  /\ IsInjective(cond_waiters'[d])
               /\ ToSet(cond_waiters'[d]) = {u \in Threads : InWait(u, d)' /\ value'[u] = 0}
    BY DEF SignalOK
  <2>2. CASE d = c
    <3>1. cond_waiters'[d] = RemoveAt(cond_waiters[c], i)
      BY <1>0, <1>1, <2>2
    <3> QED
      BY <1>4, <1>5, <1>6, <2>2, <3>1 DEF SignalInv, SignalOK
  <2>3. CASE d # c
    <3>1. cond_waiters'[d] = cond_waiters[d]
      BY <1>0, <1>1, <2>3
    <3> QED
      BY <1>5, <1>6, <1>7, <2>3, <3>1 DEF SignalInv, SignalOK
  <2> QED
    BY <2>2, <2>3
<1>9. SelfValue' /\ CondIdle'
  BY <1>1, <1>5 DEF SignalInv, SelfValue, CondIdle
<1> QED
  BY <1>8, <1>9 DEF SignalInv

\* cond_wait puts its thread on the list, with a semaphore that is 0.
LEMMA CondWaitSignal ==
  ASSUME TypeInv, SignalInv, NEW t \in Threads, NEW c \in Conds, CondWait(t, c)
  PROVE  SignalInv'
<1>0. /\ None \notin Conds /\ Threads \subseteq AllSemas /\ value \in [AllSemas -> Nat]
      /\ cond_waiters \in [Conds -> Seq(Threads)]
      /\ cv \in [Threads -> Conds \cup {None}]
      /\ pc \in [Threads -> OnPcs \cup OffPcs \cup {"new", "dead"}]
  BY SynchConstants DEF TypeInv, TypeOK, AllSemas
<1>1. /\ pc[t] = "run" /\ cv' = [cv EXCEPT ![t] = c] /\ at' = at
      /\ pc' = [pc EXCEPT ![t] = "wait_release"]
      /\ value' = [value EXCEPT ![t] = 0]
      /\ cond_waiters' = [cond_waiters EXCEPT ![c] = Append(@, t)]
  BY DEF CondWait
<1>2. \A d \in Conds : ~InWait(t, d) /\ t \notin ToSet(cond_waiters[d])
  <2>1. \A d \in Conds : ~InWait(t, d)
    BY ONLY <1>1 DEF InWait
  <2>2. SignalOK
    BY DEF SignalInv
  <2> QED
    BY ONLY <2>1, <2>2 DEF SignalOK
<1>3. \A u \in Threads, d \in Conds :
        InWait(u, d)' <=> (InWait(u, d) \/ (u = t /\ d = c))
  BY <1>0, <1>1, <1>2 DEF InWait
<1>4. \A u \in Threads : value'[u] = IF u = t THEN 0 ELSE value[u]
  BY <1>0, <1>1
<1>5. SignalOK'
  <2>1. SUFFICES ASSUME NEW d \in Conds
        PROVE  /\ IsInjective(cond_waiters'[d])
               /\ ToSet(cond_waiters'[d]) = {u \in Threads : InWait(u, d)' /\ value'[u] = 0}
    BY DEF SignalOK
  <2>2. CASE d = c
    <3>1. cond_waiters'[d] = Append(cond_waiters[c], t) /\ cond_waiters[c] \in Seq(Threads)
      BY <1>0, <1>1, <2>2
    <3>2. /\ IsInjective(cond_waiters'[d])
          /\ ToSet(cond_waiters'[d]) = ToSet(cond_waiters[c]) \cup {t}
      BY <1>2, <3>1, InjectiveAppend, ToSetAppend DEF SignalInv, SignalOK
    <3> QED
      BY <1>3, <1>4, <2>2, <3>2 DEF SignalInv, SignalOK
  <2>3. CASE d # c
    <3>1. cond_waiters'[d] = cond_waiters[d]
      BY <1>0, <1>1, <2>3
    <3> QED
      BY <1>2, <1>3, <1>4, <2>3, <3>1 DEF SignalInv, SignalOK
  <2> QED
    BY <2>2, <2>3
<1>6. SelfValue' /\ CondIdle'
  BY <1>0, <1>1, <1>4 DEF SignalInv, SelfValue, CondIdle
<1> QED
  BY <1>5, <1>6 DEF SignalInv

\* A waiter that was signalled takes its unit and leaves the cond_wait's
\* sema_down; one that was not blocks.
LEMMA DownSignal ==
  ASSUME TypeInv, ListsOK, SignalInv, NEW t \in Threads, DownBlock(t) \/ DownTake(t)
  PROVE  SignalInv'
<1>0. /\ None \notin Conds /\ Threads \subseteq AllSemas /\ value \in [AllSemas -> Nat]
      /\ Locks \cap Threads = {} /\ Semas \cap Threads = {} /\ Locks \cap Semas = {}
      /\ cv \in [Threads -> Conds \cup {None}] /\ at \in [Threads -> AllSemas \cup {None}]
      /\ pc \in [Threads -> OnPcs \cup OffPcs \cup {"new", "dead"}]
      /\ at[t] \in AllSemas
  BY SynchConstants DEF TypeInv, TypeOK, Control, DownBlock, DownTake, AllSemas
<1>1. CASE DownBlock(t)
  <2>1. SignalFrame /\ CondIdle'
    BY <1>1 DEF DownBlock, SignalInv, SignalFrame, CondIdle, InWait
  <2> QED
    BY <2>1, FrameSignal
<1>2. CASE DownTake(t) /\ at[t] \in Locks
  <2>1. /\ pc[t] = "down" /\ value' = [value EXCEPT ![at[t]] = @ - 1]
        /\ pc' = [pc EXCEPT ![t] = "run"] /\ at' = [at EXCEPT ![t] = None]
        /\ cv' = [cv EXCEPT ![t] = None] /\ cond_waiters' = cond_waiters
    BY <1>2 DEF DownTake
  <2>2. \A u \in Threads : value'[u] = value[u]
    BY <1>0, <1>2, <2>1
  <2>3. \A c \in Conds : InWait(t, c)' <=> InWait(t, c)
    BY <1>0, <1>2, <2>1 DEF InWait
  <2>4. cv'[t] = None /\ \A u \in Threads :
          u # t => pc'[u] = pc[u] /\ at'[u] = at[u] /\ cv'[u] = cv[u]
    BY <1>0, <2>1
  <2> QED
    BY <2>1, <2>2, <2>3, <2>4, MoveSignal
<1>3. CASE DownTake(t) /\ at[t] \in Semas
  <2>1. /\ pc[t] = "down" /\ value' = [value EXCEPT ![at[t]] = @ - 1]
        /\ pc' = [pc EXCEPT ![t] = "run"] /\ at' = [at EXCEPT ![t] = None]
        /\ cv' = cv /\ cond_waiters' = cond_waiters
    BY <1>0, <1>3 DEF DownTake
  <2>2. \A u \in Threads : value'[u] = value[u]
    BY <1>0, <1>3, <2>1
  <2>3. \A c \in Conds : InWait(t, c)' <=> InWait(t, c)
    BY <1>0, <1>3, <2>1 DEF InWait
  <2>4. cv'[t] = None /\ \A u \in Threads :
          u # t => pc'[u] = pc[u] /\ at'[u] = at[u] /\ cv'[u] = cv[u]
    BY <1>0, <1>3, <2>1 DEF SignalInv, CondIdle
  <2> QED
    BY <2>1, <2>2, <2>3, <2>4, MoveSignal
<1>4. CASE DownTake(t) /\ at[t] \in Threads
  <2>1. /\ pc[t] = "down" /\ value[at[t]] > 0 /\ value' = [value EXCEPT ![at[t]] = @ - 1]
        /\ pc' = [pc EXCEPT ![t] = "wait_lock"] /\ at' = [at EXCEPT ![t] = None]
        /\ cv' = cv /\ cond_waiters' = cond_waiters
    BY <1>0, <1>4 DEF DownTake
  <2>2. at[t] = t
    BY <1>4 DEF ListsOK, PcStatus
  <2>3. \A u \in Threads : value'[u] = IF u = t THEN value[t] - 1 ELSE value[u]
    BY <1>0, <2>1, <2>2
  <2>4. \A c \in Conds : ~InWait(t, c)'
    BY <1>0, <2>1 DEF InWait
  <2>5. \A u \in Threads, c \in Conds : u # t => (InWait(u, c)' <=> InWait(u, c))
    BY <1>0, <2>1 DEF InWait
  <2>6. value[t] # 0 /\ value[t] \in Nat
    BY <1>0, <2>1, <2>2
  <2>7. SignalOK'
    BY <2>1, <2>3, <2>4, <2>5, <2>6 DEF SignalInv, SignalOK
  <2>8. SelfValue'
    BY <2>3, <2>6 DEF SignalInv, SelfValue
  <2>9. CondIdle'
    BY <1>0, <2>1 DEF SignalInv, CondIdle
  <2> QED
    BY <2>7, <2>8, <2>9 DEF SignalInv
<1> QED
  BY <1>0, <1>1, <1>2, <1>3, <1>4 DEF AllSemas

\* Every step keeps the signals with their waiters.
LEMMA NextSignal ==
  ASSUME TypeInv, ListsOK, SignalInv, [Next]_vars
  PROVE  SignalInv'
<1>0. /\ None \notin Conds /\ Threads \subseteq AllSemas
      /\ Locks \cap Threads = {} /\ Semas \cap Threads = {} /\ Locks \cap Semas = {}
      /\ value \in [AllSemas -> Nat] /\ cond_waiters \in [Conds -> Seq(Threads)]
      /\ cv \in [Threads -> Conds \cup {None}] /\ at \in [Threads -> AllSemas \cup {None}]
      /\ pc \in [Threads -> OnPcs \cup OffPcs \cup {"new", "dead"}]
  BY SynchConstants DEF TypeInv, TypeOK, AllSemas
\* A step of t to a, outside any condition.
<1> DEFINE Outside(t, a) ==
      /\ pc[t] \in {"run", "tried", "new"} /\ pc' = [pc EXCEPT ![t] = a] /\ cv' = cv
      /\ cond_waiters' = cond_waiters /\ \A u \in Threads : value'[u] = value[u]
      /\ \A u \in Threads : u # t => at'[u] = at[u]
\* A step that changes only the scheduler, priorities, locks and semaphores.
<1> DEFINE Still ==
      /\ UNCHANGED <<pc, at, cv, cond_waiters>> /\ \A u \in Threads : value'[u] = value[u]
<1>1. ASSUME NEW t \in Threads, NEW a, Outside(t, a)
      PROVE  SignalInv'
  <2>1. cv[t] = None /\ cv' = cv
    BY <1>1 DEF SignalInv, CondIdle
  <2>2. \A c \in Conds : InWait(t, c)' <=> InWait(t, c)
    BY <1>0, <2>1 DEF InWait
  <2> QED
    BY <1>0, <1>1, <2>1, <2>2, MoveSignal
<1>2. Still => SignalInv'
  <2> SUFFICES ASSUME Still PROVE SignalInv'
    OBVIOUS
  <2>1. SignalFrame /\ CondIdle'
    BY DEF SignalFrame, SignalInv, CondIdle, InWait
  <2> QED
    BY <2>1, FrameSignal
<1> HIDE DEF Outside
<1>3. CASE UNCHANGED vars
  BY <1>2, <1>3 DEF vars, sema_vars
<1>4. CASE Interrupt
  <2>1. CASE Preempt \/ IdleBlock
    BY <1>2, <2>1 DEF Preempt, IdleBlock, sema_vars
  <2>2. ASSUME NEW s \in Semas, IntrSemaUp(s)
        PROVE  SignalInv'
    BY <1>0, <1>2, <2>2 DEF IntrSemaUp
  <2> QED
    BY <1>4, <2>1, <2>2 DEF Interrupt
<1>5. ASSUME NEW t \in Threads, ThreadStep(t)
      PROVE  SignalInv'
  <2>1. CASE Yield(t)
    BY <1>2, <2>1 DEF Yield, sema_vars
  <2>2. CASE Exit(t)
    <3>1. Outside(t, "dead")
      BY <2>2 DEF Exit, Outside, sema_vars
    <3> QED
      BY <1>1, <3>1
  <2>3. ASSUME NEW p \in Priorities, SetPriority(t, p)
        PROVE  SignalInv'
    <3>1. Outside(t, "recompute")
      BY <2>3 DEF SetPriority, Outside, sema_vars
    <3> QED
      BY <1>1, <3>1
  <2>4. ASSUME NEW p \in Priorities, NEW u \in Threads, Create(t, u, p)
        PROVE  SignalInv'
    <3>1. Outside(u, "run")
      BY <2>4 DEF Create, Outside, sema_vars
    <3> QED
      BY <1>1, <3>1
  <2> QED
    BY <1>5, <2>1, <2>2, <2>3, <2>4 DEF ThreadStep
<1>6. ASSUME NEW t \in Threads, NEW s \in Semas, SemaDown(t, s) \/ SemaTryDown(t, s) \/ SemaUp(t, s)
      PROVE  SignalInv'
  <2>1. CASE SemaDown(t, s)
    <3>1. Outside(t, "down")
      BY <1>0, <2>1 DEF SemaDown, Outside, sema_vars
    <3> QED
      BY <1>1, <3>1
  <2>2. CASE SemaTryDown(t, s)
    BY <1>0, <1>2, <2>2 DEF SemaTryDown
  <2>3. CASE SemaUp(t, s)
    BY <1>0, <1>2, <2>3 DEF SemaUp
  <2> QED
    BY <1>6, <2>1, <2>2, <2>3
<1>7. ASSUME NEW t \in Threads, LockStep(t)
      PROVE  SignalInv'
  <2>1. CASE RecomputePriority(t)
    <3>1. /\ pc[t] \in {"donate", "recompute"} /\ UNCHANGED <<value, cond_waiters, at, cv>>
          /\ \/ pc' = pc
             \/ pc[t] = "donate" /\ pc' = [pc EXCEPT ![t] = "down"]
             \/ pc[t] = "recompute" /\ pc' = [pc EXCEPT ![t] = IF cv[t] = None THEN "run"
                                                              ELSE "wait_down"]
      BY <2>1 DEF RecomputePriority, sema_vars
    <3>2. pc[t] = "donate" => at[t] \in Locks
      BY DEF TypeInv, Control
    <3>3. \A c \in Conds : InWait(t, c)' <=> InWait(t, c)
      BY <1>0, <3>1, <3>2 DEF InWait
    <3>4. (\/ pc'[t] \in {"run", "tried", "new", "dead"}
           \/ pc'[t] = "down" /\ at'[t] \in Semas) => cv'[t] = None
      BY <1>0, <3>1, <3>2
    <3>5. \A u \in Threads : u # t => pc'[u] = pc[u]
      BY <1>0, <3>1
    <3> QED
      BY <3>1, <3>3, <3>4, <3>5, MoveSignal
  <2>2. CASE SetHolder(t)
    <3>1. Outside(t, "run")
      BY <1>0, <2>2 DEF SetHolder, Outside
    <3> QED
      BY <1>1, <3>1
  <2>3. ASSUME NEW l \in Locks, LockAcquire(t, l)
        PROVE  SignalInv'
    <3>1. /\ pc[t] \in {"run", "wait_lock"} /\ UNCHANGED <<value, cond_waiters, cv>>
          /\ at' = [at EXCEPT ![t] = l]
          /\ \E a \in {"donate", "down"} : pc' = [pc EXCEPT ![t] = a]
      BY <2>3 DEF LockAcquire, sema_vars
    <3>2. \A c \in Conds : InWait(t, c)' <=> InWait(t, c)
      <4>1. \A c \in Conds : ~InWait(t, c)
        BY <1>0, <3>1 DEF InWait, SignalInv, CondIdle
      <4>2. \A c \in Conds : ~InWait(t, c)'
        BY <1>0, <3>1 DEF InWait
      <4> QED
        BY <4>1, <4>2
    <3>3. ~(\/ pc'[t] \in {"run", "tried", "new", "dead"}
            \/ pc'[t] = "down" /\ at'[t] \in Semas)
      BY <1>0, <3>1
    <3>4. \A u \in Threads : u # t => pc'[u] = pc[u] /\ at'[u] = at[u]
      BY <1>0, <3>1
    <3> QED
      BY <3>1, <3>2, <3>3, <3>4, MoveSignal
  <2>4. ASSUME NEW l \in Locks, LockTryAcquire(t, l)
        PROVE  SignalInv'
    <3>1. Outside(t, "tried")
      BY <1>0, <2>4 DEF LockTryAcquire, Outside
    <3> QED
      BY <1>1, <3>1
  <2>5. ASSUME NEW l \in Locks, LockRelease(t, l)
        PROVE  SignalInv'
    <3>1. /\ pc[t] \in {"run", "wait_release"} /\ UNCHANGED <<cond_waiters, at, cv>>
          /\ value' = [value EXCEPT ![l] = @ + 1] /\ pc' = [pc EXCEPT ![t] = "recompute"]
      BY <2>5 DEF LockRelease
    <3>2. \A u \in Threads : value'[u] = value[u]
      BY <1>0, <3>1
    <3>3. \A c \in Conds : InWait(t, c)' <=> InWait(t, c)
      BY <1>0, <3>1 DEF InWait, SignalInv, CondIdle
    <3>4. pc'[t] = "recompute" /\ \A u \in Threads : u # t => pc'[u] = pc[u]
      BY <1>0, <3>1
    <3> QED
      BY <3>1, <3>2, <3>3, <3>4, MoveSignal
  <2> QED
    BY <1>7, <2>1, <2>2, <2>3, <2>4, <2>5, DownSignal DEF LockStep
<1>8. ASSUME NEW t \in Threads, CondStep(t)
      PROVE  SignalInv'
  <2>1. CASE CondDown(t)
    <3>1. /\ pc[t] = "wait_down" /\ UNCHANGED <<value, cond_waiters, cv>>
          /\ pc' = [pc EXCEPT ![t] = "down"] /\ at' = [at EXCEPT ![t] = t]
      BY <2>1 DEF CondDown, sema_vars
    <3>2. \A c \in Conds : InWait(t, c)' <=> InWait(t, c)
      BY <1>0, <3>1 DEF InWait
    <3>3. at'[t] = t /\ pc'[t] = "down"
          /\ \A u \in Threads : u # t => pc'[u] = pc[u] /\ at'[u] = at[u]
      BY <1>0, <3>1
    <3> QED
      BY <1>0, <3>1, <3>2, <3>3, MoveSignal
  <2>2. CASE BroadcastStep(t)
    <3>1. CASE cond_waiters[cv[t]] # << >>
      BY <2>2, <3>1, SignalSignal DEF BroadcastStep, TypeInv, Control
    <3>2. CASE cond_waiters[cv[t]] = << >>
      <4>1. /\ pc[t] = "broadcast" /\ UNCHANGED <<value, cond_waiters, at>>
            /\ pc' = [pc EXCEPT ![t] = "run"] /\ cv' = [cv EXCEPT ![t] = None]
        BY <2>2, <3>2 DEF BroadcastStep, sema_vars
      <4>2. \A c \in Conds : InWait(t, c)' <=> InWait(t, c)
        BY <1>0, <4>1 DEF InWait
      <4>3. cv'[t] = None /\ \A u \in Threads : u # t => pc'[u] = pc[u] /\ cv'[u] = cv[u]
        BY <1>0, <4>1
      <4> QED
        BY <4>1, <4>2, <4>3, MoveSignal
    <3> QED
      BY <3>1, <3>2
  <2>3. ASSUME NEW c \in Conds, CondBroadcast(t, c)
        PROVE  SignalInv'
    <3>1. /\ pc[t] = "run" /\ UNCHANGED <<value, cond_waiters, at>>
          /\ pc' = [pc EXCEPT ![t] = "broadcast"] /\ cv' = [cv EXCEPT ![t] = c]
      BY <2>3 DEF CondBroadcast, sema_vars
    <3>2. \A d \in Conds : InWait(t, d)' <=> InWait(t, d)
      BY <1>0, <3>1 DEF InWait
    <3>3. pc'[t] = "broadcast" /\ \A u \in Threads : u # t => pc'[u] = pc[u] /\ cv'[u] = cv[u]
      BY <1>0, <3>1
    <3> QED
      BY <3>1, <3>2, <3>3, MoveSignal
  <2>4. ASSUME NEW c \in Conds, CondSignal(t, c)
        PROVE  SignalInv'
    BY <2>4, SignalSignal DEF CondSignal
  <2> QED
    BY <1>8, <2>1, <2>2, <2>3, <2>4, CondWaitSignal DEF CondStep
<1> QED
  BY <1>3, <1>4, <1>5, <1>6, <1>7, <1>8 DEF Next, Step, SemaStep

\* No condition variable has waiters at the start.
LEMMA InitSignal == Init => SignalInv
<1> SUFFICES ASSUME Init PROVE SignalInv
  OBVIOUS
<1>1. SignalOK
  BY SynchConstants DEF Init, SignalOK, InWait, ToSet, IsInjective
<1>2. SelfValue
  BY SynchConstants DEF Init, SelfValue, AllSemas
<1>3. CondIdle
  BY DEF Init, CondIdle
<1> QED
  BY <1>1, <1>2, <1>3 DEF SignalInv

\* A signal is with its waiter until the waiter has gone on.
LEMMA SignalInvHolds == Spec => []SignalInv
<1>1. TypeInv /\ ListsOK /\ SignalInv /\ [Next]_vars => SignalInv'
  BY NextSignal
<1> QED
  BY <1>1, InitSignal, TypeCorrect, ListsHold, PTL DEF Spec

\* Every thread is on the one list it belongs to, and neither a wakeup of a
\* semaphore nor a signal of a condition is lost.
THEOREM NothingLost == Spec => []WakeupsKept
<1>1. TypeInv /\ SignalInv => SignalKept
  <2> SUFFICES ASSUME TypeInv, SignalInv PROVE SignalKept
    OBVIOUS
  <2>1. \A t \in Threads, c \in Conds :
          Cardinality({i \in DOMAIN cond_waiters[c] : cond_waiters[c][i] = t})
            = IF t \in ToSet(cond_waiters[c]) THEN 1 ELSE 0
    BY OnceInList DEF TypeInv, TypeOK, SignalInv, SignalOK
  <2>2. \A t \in Threads, c \in Conds :
          t \in ToSet(cond_waiters[c]) <=> InWait(t, c) /\ value[t] = 0
    BY DEF SignalInv, SignalOK
  <2> QED
    BY <2>1, <2>2 DEF SignalKept, SignalInv, SelfValue
<1>2. OnOneList /\ NoLostWakeup /\ SignalKept => WakeupsKept
  BY DEF WakeupsKept
<1> QED
  BY <1>1, <1>2, TypeCorrect, SignalInvHolds, EachOnOneList, WakeupsNotLost, PTL

----------------------------------------------------------------------------
(***************************************************************************)
(* Who donates to whom.  AsleepOK, inductive with DonorsOK, says that a    *)
(* donor is asleep or still in lock_acquire, that cond_wait reacquires a   *)
(* lock its thread does not hold, and that a thread that was not created   *)
(* holds none.                                                             *)
(***************************************************************************)

ReleasedPcs == {"recompute", "wait_down", "wait_lock", "donate", "down"}

AsleepOK ==
  \A d \in Threads :
    /\ donee[d] # None => donee[d] # d /\ (status[d] = "blocked" \/ cur = d)
    /\ cv[d] # None /\ pc[d] \in ReleasedPcs => holder[CondLock[cv[d]]] # d
    /\ pc[d] = "new" => \A l \in Locks : holder[l] # d

\* A step that leaves holders alone, wakes nobody who waits for a lock, puts
\* nobody into the part of cond_wait without its lock, and does not preempt a
\* thread in lock_acquire.
AsleepFrame ==
  /\ \A l \in Locks : ToSet(waiters[l]) \subseteq ToSet(waiters'[l])
  /\ cur' = cur \/ cur \notin Threads \/ pc[cur] \notin Acquiring \/ status'[cur] = "blocked"
  /\ \A u \in Threads :
       /\ cv'[u] # None /\ pc'[u] \in ReleasedPcs => cv'[u] = cv[u] /\ pc[u] \in ReleasedPcs
       /\ pc'[u] = "new" => pc[u] = "new"

\* A step that wakes no donor.
LEMMA FrameAsleep ==
  ASSUME TypeInv, ListsOK, ListsOK', DonorsOK, AsleepOK, AsleepFrame, DonorFrame
  PROVE  AsleepOK'
<1>1. ASSUME NEW d \in Threads, donee[d] # None
      PROVE  status'[d] = "blocked" \/ cur' = d
  <2>1. at[d] \in Locks /\ at[d] \in AllSemas /\ pc[d] \in Acquiring /\ at'[d] = at[d]
    BY <1>1 DEF DonorsOK, DonorFrame, AllSemas
  <2>2. CASE status[d] = "blocked"
    <3>1. d \in ToSet(waiters'[at[d]])
      BY <2>1, <2>2 DEF ListsOK, WaitLists, AsleepFrame
    <3> QED
      BY <2>1, <3>1 DEF ListsOK, WaitLists
  <2>3. CASE cur = d
    BY <2>1, <2>3 DEF AsleepFrame
  <2> QED
    BY <1>1, <2>2, <2>3 DEF AsleepOK
<1> QED
  BY <1>1 DEF AsleepOK, AsleepFrame, DonorFrame

\* An up of a semaphore that is not a lock's.
LEMMA UpAsleep ==
  ASSUME TypeInv, NEW s \in Semas \cup Threads, NEW w \in Woken(s), waiters' = w.ws
  PROVE  \A l \in Locks : waiters'[l] = waiters[l]
<1>1. s \in AllSemas \ Locks /\ Locks \subseteq AllSemas
      /\ waiters \in [AllSemas -> Seq(Threads)]
  BY SynchConstants DEF AllSemas, TypeInv, TypeOK
<1> QED
  BY <1>1 DEF Woken

\* Everything but taking a lock, giving it back and waiting for it.
LEMMA OtherStepsAsleep ==
  ASSUME TypeInv, ListsOK, SignalInv, NEW t \in Threads,
         \/ Interrupt \/ ThreadStep(t) \/ SemaStep(t) \/ CondStep(t)
         \/ RecomputePriority(t) \/ DownBlock(t) \/ \E l \in Locks : LockTryAcquire(t, l)
  PROVE  AsleepFrame
<1>0. /\ Semas \cap Locks = {} /\ Threads \cap Locks = {} /\ None \notin Conds
      /\ Locks \subseteq AllSemas /\ Semas \subseteq AllSemas /\ Threads \subseteq AllSemas
      /\ waiters \in [AllSemas -> Seq(Threads)]
      /\ cv \in [Threads -> Conds \cup {None}] /\ at \in [Threads -> AllSemas \cup {None}]
      /\ pc \in [Threads -> OnPcs \cup OffPcs \cup {"new", "dead"}]
      /\ status \in [Threads -> Statuses] /\ cond_waiters \in [Conds -> Seq(Threads)]
  BY SynchConstants DEF TypeInv, TypeOK, AllSemas
<1> DEFINE SameLists == \A l \in Locks : waiters'[l] = waiters[l]
\* The running thread t goes to a, from r, without changing its condition.
<1> DEFINE Moves(r, a) ==
      /\ cur = t /\ pc[t] = r /\ pc' = [pc EXCEPT ![t] = a] /\ cv' = cv
      /\ r \in {"run", "tried"} \/ r \in ReleasedPcs \/ a \notin ReleasedPcs
      /\ r \notin Acquiring \/ cur' = cur
      /\ a # "new" /\ SameLists
\* Only the scheduler's and the semaphores' variables change.
<1> DEFINE Still ==
      /\ UNCHANGED <<pc, cv>> /\ SameLists
      /\ cur' = cur \/ cur \notin Threads \/ pc[cur] \notin Acquiring
<1>1. Still => AsleepFrame
  BY DEF AsleepFrame
<1>2. ASSUME NEW r, NEW a, Moves(r, a)
      PROVE  AsleepFrame
  <2>1. r \in {"run", "tried"} => cv[t] = None
    BY <1>2 DEF SignalInv, CondIdle
  <2> QED
    BY <1>0, <1>2, <2>1 DEF AsleepFrame
<1> HIDE DEF Moves
<1>3. CASE Interrupt
  <2>1. CASE Preempt \/ IdleBlock
    <3>1. UNCHANGED <<pc, cv, waiters>> /\ (cur = Idle \/ pc[cur] \in OnPcs)
      BY <2>1 DEF Preempt, IdleBlock, sema_vars, InterruptsOn
    <3>2. Still
      BY <3>1, SynchConstants DEF OnPcs, Acquiring
    <3> QED
      BY <1>1, <3>2
  <2>2. ASSUME NEW s \in Semas, IntrSemaUp(s)
        PROVE  AsleepFrame
    <3>1. SameLists
      BY <2>2, UpAsleep DEF IntrSemaUp
    <3> QED
      BY <1>1, <2>2, <3>1 DEF IntrSemaUp
  <2> QED
    BY <1>3, <2>1, <2>2 DEF Interrupt
<1>4. CASE ThreadStep(t)
  <2>1. CASE Yield(t)
    BY <1>1, <2>1 DEF Yield, sema_vars, Acquiring
  <2>2. CASE Exit(t)
    <3>1. Moves("run", "dead")
      BY <2>2 DEF Exit, Moves, sema_vars, Acquiring
    <3> QED
      BY <1>2, <3>1
  <2>3. ASSUME NEW p \in Priorities, SetPriority(t, p)
        PROVE  AsleepFrame
    <3>1. Moves("run", "recompute")
      BY <2>3 DEF SetPriority, Moves, sema_vars, sched_vars, Acquiring
    <3> QED
      BY <1>2, <3>1
  <2>4. ASSUME NEW p \in Priorities, NEW u \in Threads, Create(t, u, p)
        PROVE  AsleepFrame
    <3>1. /\ cur = t /\ pc[t] = "run" /\ pc' = [pc EXCEPT ![u] = "run"]
          /\ UNCHANGED <<waiters, cv>>
      BY <2>4 DEF Create, sema_vars
    <3> QED
      BY <1>0, <3>1 DEF AsleepFrame, Acquiring, ReleasedPcs
  <2> QED
    BY <1>4, <2>1, <2>2, <2>3, <2>4 DEF ThreadStep
<1>5. ASSUME NEW s \in Semas, SemaDown(t, s) \/ SemaTryDown(t, s) \/ SemaUp(t, s)
      PROVE  AsleepFrame
  <2>1. CASE SemaDown(t, s)
    <3>1. Moves("run", "down")
      BY <2>1 DEF SemaDown, Moves, sema_vars, sched_vars, Acquiring
    <3> QED
      BY <1>2, <3>1
  <2>2. CASE SemaTryDown(t, s)
    BY <1>1, <2>2 DEF SemaTryDown, sched_vars
  <2>3. CASE SemaUp(t, s)
    <3>1. SameLists
      BY <2>3, UpAsleep DEF SemaUp
    <3> QED
      BY <1>1, <2>3, <3>1 DEF SemaUp, Acquiring
  <2> QED
    BY <1>5, <2>1, <2>2, <2>3
<1>6. CASE RecomputePriority(t)
  <2>1. /\ cur = t /\ pc[t] \in {"donate", "recompute"} /\ UNCHANGED <<waiters, cv>>
        /\ pc[t] = "donate" => cur' = cur
        /\ \E a \in {"donate", "recompute", "down", "run", "wait_down"} :
             pc' = [pc EXCEPT ![t] = a]
    <3>1. pc = [pc EXCEPT ![t] = pc[t]]
      BY <1>0
    <3> QED
      BY <1>6, <3>1 DEF RecomputePriority, sema_vars, sched_vars
  <2> QED
    BY <1>0, <2>1 DEF AsleepFrame, Acquiring, ReleasedPcs
<1>7. CASE DownBlock(t)
  <2>1. /\ cur = t /\ UNCHANGED <<pc, at, cv>> /\ pc[t] = "down" /\ at[t] \in AllSemas
        /\ waiters' = [waiters EXCEPT ![at[t]] = Append(@, t)]
    BY <1>7 DEF DownBlock, TypeInv, Control
  <2>2. \A l \in AllSemas : ToSet(waiters[l]) \subseteq ToSet(waiters'[l])
    <3>1. SUFFICES ASSUME NEW l \in AllSemas
                   PROVE  ToSet(waiters[l]) \subseteq ToSet(waiters'[l])
      OBVIOUS
    <3>2. waiters[l] \in Seq(Threads) /\ waiters'[l] \in {waiters[l], Append(waiters[l], t)}
      BY <1>0, <2>1
    <3>3. ToSet(Append(waiters[l], t)) = ToSet(waiters[l]) \cup {t}
      BY <3>2, ToSetAppend
    <3> QED
      BY <3>2, <3>3
  <2>3. status'[t] = "blocked"
    <3>1. Schedule(ready_list, [status EXCEPT ![t] = "blocked"], priority)
      BY <1>7 DEF DownBlock
    <3>2. /\ [status EXCEPT ![t] = "blocked"] \in [Threads -> Statuses]
          /\ ready_list \in Seq(Threads) /\ status[t] = "running"
          /\ \A u \in Threads : [status EXCEPT ![t] = "blocked"][u] =
                                IF u = t THEN "blocked" ELSE status[u]
      BY <1>0, <2>1 DEF TypeInv, TypeOK, Statuses, ListsOK, SchedLists
    <3>3. /\ IsInjective(ready_list)
          /\ ToSet(ready_list) = ReadyIn([status EXCEPT ![t] = "blocked"])
          /\ \A u \in Threads : [status EXCEPT ![t] = "blocked"][u] # "running"
      BY <2>1, <3>2 DEF ListsOK, SchedLists, ReadyIn
    <3>4. Settled([status EXCEPT ![t] = "blocked"])
      BY <3>1, <3>2, <3>3, ScheduleLists
    <3> QED
      BY <3>2, <3>4 DEF Settled
  <2> QED
    BY <1>0, <2>1, <2>2, <2>3 DEF AsleepFrame
<1>8. ASSUME NEW l \in Locks, LockTryAcquire(t, l)
      PROVE  AsleepFrame
  <2>1. Moves("run", "tried")
    BY <1>8 DEF LockTryAcquire, Moves, sched_vars, Acquiring
  <2> QED
    BY <1>2, <2>1
<1>9. ASSUME NEW c \in Conds, Signal(t, c), UNCHANGED <<pc, cv>>, cur = t, pc[t] \notin Acquiring
      PROVE  AsleepFrame
  <2>1. PICK i \in DOMAIN cond_waiters[c] :
          \E w \in Woken(cond_waiters[c][i]) : waiters' = w.ws
    BY <1>9 DEF Signal, Highest
  <2>2. cond_waiters[c][i] \in Threads
    BY <1>0
  <2>3. SameLists
    BY <2>1, <2>2, UpAsleep
  <2> QED
    BY <1>1, <1>9, <2>3
<1>10. CASE CondStep(t)
  <2>1. CASE CondDown(t)
    <3>1. Moves("wait_down", "down")
      BY <2>1 DEF CondDown, Moves, sema_vars, sched_vars, Acquiring, ReleasedPcs
    <3> QED
      BY <1>2, <3>1
  <2>2. CASE BroadcastStep(t)
    <3>1. CASE cond_waiters[cv[t]] # << >>
      BY <1>9, <2>2, <3>1 DEF BroadcastStep, TypeInv, Control, Acquiring
    <3>2. CASE cond_waiters[cv[t]] = << >>
      <4>1. /\ UNCHANGED <<cur, waiters>> /\ pc' = [pc EXCEPT ![t] = "run"]
            /\ cv' = [cv EXCEPT ![t] = None]
        BY <2>2, <3>2 DEF BroadcastStep, sema_vars, sched_vars
      <4> QED
        BY <1>0, <4>1 DEF AsleepFrame
    <3> QED
      BY <3>1, <3>2
  <2>3. ASSUME NEW c \in Conds, CondWait(t, c)
        PROVE  AsleepFrame
    <3>1. /\ UNCHANGED cur /\ pc' = [pc EXCEPT ![t] = "wait_release"]
          /\ cv' = [cv EXCEPT ![t] = c] /\ waiters' = [waiters EXCEPT ![t] = << >>]
      BY <2>3 DEF CondWait, sched_vars
    <3> QED
      BY <1>0, <3>1 DEF AsleepFrame, ReleasedPcs
  <2>4. ASSUME NEW c \in Conds, CondSignal(t, c)
        PROVE  AsleepFrame
    BY <1>9, <2>4 DEF CondSignal, Acquiring
  <2>5. ASSUME NEW c \in Conds, CondBroadcast(t, c)
        PROVE  AsleepFrame
    <3>1. /\ UNCHANGED <<cur, waiters>> /\ pc' = [pc EXCEPT ![t] = "broadcast"]
          /\ cv' = [cv EXCEPT ![t] = c]
      BY <2>5 DEF CondBroadcast, sema_vars, sched_vars
    <3> QED
      BY <1>0, <3>1 DEF AsleepFrame, ReleasedPcs
  <2> QED
    BY <1>10, <2>1, <2>2, <2>3, <2>4, <2>5 DEF CondStep
<1> QED
  BY <1>3, <1>4, <1>5, <1>6, <1>7, <1>8, <1>10 DEF SemaStep

\* lock_acquire: the new donor runs, and is not the holder.
LEMMA AcquireAsleep ==
  ASSUME TypeInv, SignalInv, AsleepOK, NEW t \in Threads, NEW l \in Locks, LockAcquire(t, l)
  PROVE  AsleepOK'
<1>0. /\ pc \in [Threads -> OnPcs \cup OffPcs \cup {"new", "dead"}]
      /\ donee \in [Threads -> Threads \cup {None}] /\ None \notin Threads
  BY SynchConstants DEF TypeInv, TypeOK
<1>1. /\ cur = t /\ UNCHANGED <<cur, status, holder, cv>> /\ holder[l] # t
      /\ donee' = donee \/ (donee' = [donee EXCEPT ![t] = holder[l]])
      /\ \E a \in {"donate", "down"} : pc' = [pc EXCEPT ![t] = a]
  <2>1. holder[l] # t
    <3>1. CASE pc[t] = "run"
      BY <3>1 DEF LockAcquire
    <3>2. CASE pc[t] # "run"
      <4>1. pc[t] = "wait_lock" /\ l = CondLock[cv[t]] /\ cv[t] \in Conds
        BY <3>2 DEF LockAcquire, TypeInv, Control
      <4> QED
        BY <4>1, SynchConstants DEF AsleepOK, ReleasedPcs
    <3> QED
      BY <3>1, <3>2
  <2> QED
    BY <2>1 DEF LockAcquire, sched_vars, sema_vars
<1>2. ASSUME NEW d \in Threads, donee'[d] # None
      PROVE  donee'[d] # d /\ (status'[d] = "blocked" \/ cur' = d)
  BY <1>0, <1>1, <1>2 DEF AsleepOK
<1>3. pc[t] \in {"run", "wait_lock"} /\ (pc[t] = "run" => cv[t] = None)
  BY DEF LockAcquire, SignalInv, CondIdle
<1>4. \A d \in Threads :
        /\ cv'[d] # None /\ pc'[d] \in ReleasedPcs => holder'[CondLock[cv'[d]]] # d
        /\ pc'[d] = "new" => \A k \in Locks : holder'[k] # d
  BY <1>0, <1>1, <1>3 DEF AsleepOK, ReleasedPcs
<1> QED
  BY <1>2, <1>4 DEF AsleepOK

\* A thread gets a lock: it is the running one, no donor, and done with any
\* cond_wait.
LEMMA TakeAsleep ==
  ASSUME TypeInv, SignalInv, AsleepOK, NEW t \in Threads, DownTake(t) \/ SetHolder(t)
  PROVE  AsleepOK'
<1>0. /\ pc \in [Threads -> OnPcs \cup OffPcs \cup {"new", "dead"}]
      /\ cv \in [Threads -> Conds \cup {None}] /\ None \notin Conds
      /\ holder \in [Locks -> Threads \cup {None}]
      /\ \A c \in Conds : CondLock[c] \in Locks
  BY SynchConstants DEF TypeInv, TypeOK
<1>1. UNCHANGED <<cur, status, donee>>
  BY DEF DownTake, SetHolder, sched_vars, pri_vars
<1>2. \/ \E l \in Locks : /\ holder' = [holder EXCEPT ![l] = t]
                          /\ pc' = [pc EXCEPT ![t] = "run"] /\ cv'[t] = None
      \/ /\ holder' = holder /\ pc[t] = "down"
         /\ \E a \in {"run", "wait_lock"} : pc' = [pc EXCEPT ![t] = a]
  <2>1. CASE DownTake(t)
    BY <1>0, <2>1 DEF DownTake
  <2>2. CASE SetHolder(t)
    BY <1>0, <2>2 DEF SetHolder, TypeInv, Control, SignalInv, CondIdle
  <2> QED
    BY <2>1, <2>2
<1>3. \A u \in Threads : u # t => cv'[u] = cv[u]
  BY <1>0 DEF DownTake, SetHolder
<1>4. cv'[t] # None => cv'[t] = cv[t]
  BY <1>0 DEF DownTake, SetHolder
<1>5. ASSUME NEW d \in Threads
      PROVE  /\ cv'[d] # None /\ pc'[d] \in ReleasedPcs => holder'[CondLock[cv'[d]]] # d
             /\ pc'[d] = "new" => \A k \in Locks : holder'[k] # d
  <2>1. CASE d = t
    BY <1>0, <1>2, <1>4, <2>1 DEF AsleepOK, ReleasedPcs
  <2>2. CASE d # t
    <3>1. pc'[d] = pc[d] /\ cv'[d] = cv[d] /\ \A k \in Locks : holder'[k] = d => holder[k] = d
      BY <1>0, <1>2, <1>3, <2>2
    <3>2. cv[d] # None => CondLock[cv[d]] \in Locks
      BY <1>0
    <3> QED
      BY <3>1, <3>2 DEF AsleepOK
  <2> QED
    BY <2>1, <2>2
<1> QED
  BY <1>1, <1>5 DEF AsleepOK

\* lock_release: the thread it wakes was a donor for this lock only.
LEMMA ReleaseAsleep ==
  ASSUME TypeInv, ListsOK, ListsOK', SignalInv, DonorsOK, AsleepOK,
         NEW t \in Threads, NEW l \in Locks, LockRelease(t, l)
  PROVE  AsleepOK'
<1>0. /\ pc \in [Threads -> OnPcs \cup OffPcs \cup {"new", "dead"}]
      /\ cv \in [Threads -> Conds \cup {None}] /\ None \notin Conds \cup Threads
      /\ holder \in [Locks -> Threads \cup {None}] /\ Locks \subseteq AllSemas
      /\ waiters \in [AllSemas -> Seq(Threads)]
      /\ \A c \in Conds : CondLock[c] \in Locks
  BY SynchConstants DEF TypeInv, TypeOK, AllSemas
<1>1. /\ cur = t /\ holder[l] = t /\ UNCHANGED <<cur, cv, at>>
      /\ holder' = [holder EXCEPT ![l] = None] /\ pc' = [pc EXCEPT ![t] = "recompute"]
      /\ donee' = [d \in Threads |-> IF d \in Returned(t, l) THEN None ELSE donee[d]]
      /\ pc[t] = "run" \/ (pc[t] = "wait_release" /\ l = CondLock[cv[t]])
  BY DEF LockRelease, Unheld
<1>2. ASSUME NEW d \in Threads, donee'[d] # None
      PROVE  donee'[d] # d /\ (status'[d] = "blocked" \/ cur' = d)
  <2>1. donee'[d] = donee[d] /\ d \notin Returned(t, l)
    BY <1>1, <1>2
  <2>2. at[d] \in Locks /\ want_lock[d] = at[d] /\ holder[at[d]] = donee[d]
        /\ d \in donors[donee[d]]
    BY <1>2, <2>1 DEF DonorsOK
  <2>3. at[d] # l
    BY <1>1, <2>1, <2>2 DEF Returned
  <2>4. waiters'[at[d]] = waiters[at[d]]
    BY <1>0, <2>2, <2>3 DEF LockRelease, Woken
  <2>5. CASE status[d] = "blocked"
    <3>1. d \in ToSet(waiters'[at[d]])
      BY <1>0, <2>2, <2>4, <2>5 DEF ListsOK, WaitLists
    <3>2. status'[d] = "blocked"
      BY <1>0, <2>2, <3>1 DEF ListsOK, WaitLists
    <3> QED
      BY <1>2, <2>1, <3>2 DEF AsleepOK
  <2>6. CASE cur = d
    BY <1>1, <1>2, <2>1, <2>6 DEF AsleepOK
  <2> QED
    BY <1>2, <2>1, <2>5, <2>6 DEF AsleepOK
<1>3. ASSUME NEW d \in Threads
      PROVE  /\ cv'[d] # None /\ pc'[d] \in ReleasedPcs => holder'[CondLock[cv'[d]]] # d
             /\ pc'[d] = "new" => \A k \in Locks : holder'[k] # d
  <2>1. CASE d = t
    <3>1. pc'[d] = "recompute"
      BY <1>0, <1>1, <2>1
    <3>2. cv'[d] # None => l = CondLock[cv'[d]]
      BY <1>1, <2>1 DEF SignalInv, CondIdle
    <3> QED
      BY <1>0, <1>1, <2>1, <3>1, <3>2
  <2>2. CASE d # t
    <3>1. pc'[d] = pc[d] /\ cv'[d] = cv[d] /\ \A k \in Locks : holder'[k] = d => holder[k] = d
      BY <1>0, <1>1, <2>2
    <3>2. cv[d] # None => CondLock[cv[d]] \in Locks
      BY <1>0
    <3> QED
      BY <3>1, <3>2 DEF AsleepOK
  <2> QED
    BY <2>1, <2>2
<1> QED
  BY <1>2, <1>3 DEF AsleepOK

\* Every step keeps the donors asleep.
LEMMA NextAsleep ==
  ASSUME TypeInv, ListsOK, ListsOK', SignalInv, DonorsOK, AsleepOK, [Next]_vars
  PROVE  AsleepOK'
<1>0. Main \in Threads
  BY SynchConstants
<1>1. CASE UNCHANGED vars
  BY <1>1 DEF vars, sched_vars, pri_vars, sema_vars, AsleepOK
<1>2. CASE Interrupt
  BY <1>0, <1>2, OtherStepsAsleep, OtherStepsDonors, FrameAsleep
<1>3. ASSUME NEW t \in Threads, Step(t)
      PROVE  AsleepOK'
  <2>1. CASE ThreadStep(t) \/ SemaStep(t) \/ CondStep(t)
    BY <2>1, OtherStepsAsleep, OtherStepsDonors, FrameAsleep
  <2>2. CASE LockStep(t)
    <3>1. CASE RecomputePriority(t) \/ DownBlock(t) \/ \E l \in Locks : LockTryAcquire(t, l)
      BY <3>1, OtherStepsAsleep, OtherStepsDonors, FrameAsleep
    <3>2. CASE DownTake(t) \/ SetHolder(t)
      BY <3>2, TakeAsleep
    <3>3. ASSUME NEW l \in Locks, LockAcquire(t, l) \/ LockRelease(t, l)
          PROVE  AsleepOK'
      BY <3>3, AcquireAsleep, ReleaseAsleep
    <3> QED
      BY <2>2, <3>1, <3>2, <3>3 DEF LockStep
  <2> QED
    BY <1>3, <2>1, <2>2 DEF Step
<1> QED
  BY <1>1, <1>2, <1>3 DEF Next

\* A thread that donates waits for the lock of its donee.
LEMMA DonorsHold == Spec => [](DonorsOK /\ AsleepOK)
<1>1. Init => DonorsOK /\ AsleepOK
  BY SynchConstants DEF Init, DonorsOK, AsleepOK
<1>2. TypeInv /\ LockExclusive /\ DonorsOK /\ [Next]_vars => DonorsOK'
  BY NextDonors
<1>3. TypeInv /\ ListsOK /\ ListsOK' /\ SignalInv /\ DonorsOK /\ AsleepOK /\ [Next]_vars
        => AsleepOK'
  BY NextAsleep
<1> QED
  BY <1>1, <1>2, <1>3, TypeCorrect, ListsHold, MutualExclusion, SignalInvHolds, PTL DEF Spec

\* lock_acquire and lock_release keep the donations consistent: a donor sleeps
\* on the lock it wants and gives to the holder of that lock.
THEOREM DonationsConsistent == Spec => []DonationGraph
<1>1. TypeInv /\ DonorsOK /\ AsleepOK => DonationGraph
  BY SynchConstants DEF TypeInv, TypeOK, DonorsOK, AsleepOK, DonationGraph, Acquiring
<1> QED
  BY <1>1, TypeCorrect, DonorsHold, PTL

----------------------------------------------------------------------------
(***************************************************************************)
(* Priorities.  Only the thread in chain may have a priority that is not   *)
(* the highest of its own and its donors', and in the middle of a donation *)
(* that thread has only to rise, to at most the priority of the donating   *)
(* one.                                                                    *)
(***************************************************************************)

Candidates(t) == {normal_priority[t]} \cup {priority[d] : d \in donors[t]}

Exact(t) == priority[t] \in Candidates(t) /\ \A p \in Candidates(t) : priority[t] >= p

\* chain, reached from the thread cur that donates.
Rises ==
  /\ \E p \in Candidates(chain) : priority[chain] =< p
  /\ priority[chain] >= normal_priority[chain]
  /\ \A d \in donors[chain] :
       priority[chain] >= priority[d] \/ priority[cur] >= priority[d]

ChainOK ==
  chain # None =>
    /\ cur \in Threads /\ pc[cur] \in {"donate", "recompute"}
    /\ pc[cur] = "recompute" => chain = cur
    /\ pc[cur] = "donate" => Rises

PriInv == (\A t \in Threads : t # chain => Exact(t)) /\ ChainOK

\* The priorities recompute_priority chooses from are integers.
LEMMA CandidatesInt ==
  ASSUME TypeInv, NEW t \in Threads
  PROVE  /\ priority[t] \in Int /\ normal_priority[t] \in Int /\ donors[t] \subseteq Threads
         /\ Candidates(t) \subseteq Int
<1>1. /\ priority \in [Threads -> Priorities] /\ normal_priority \in [Threads -> Priorities]
      /\ donors \in [Threads -> SUBSET Threads] /\ Priorities \subseteq Int
  BY SynchConstants DEF TypeInv, TypeOK
<1>2. \A u \in Threads : priority[u] \in Int /\ normal_priority[u] \in Int
  BY <1>1
<1>3. donors[t] \subseteq Threads
  BY <1>1
<1> QED
  BY <1>2, <1>3 DEF Candidates

\* A step outside any recomputation that leaves priorities and donations alone.
LEMMA KeepPriorities ==
  ASSUME PriInv, chain = None, UNCHANGED <<priority, normal_priority, donors, chain>>
  PROVE  PriInv'
  BY DEF PriInv, ChainOK, Exact, Candidates

\* Interrupts, semaphores, condition variables, the scheduler's operations and
\* the ends of the lock operations.
LEMMA OtherStepsPriorities ==
  ASSUME TypeInv, PriInv, NEW t \in Threads,
         \/ Interrupt \/ Yield(t) \/ Exit(t) \/ SemaStep(t) \/ CondStep(t)
         \/ DownBlock(t) \/ DownTake(t) \/ SetHolder(t)
         \/ \E l \in Locks : LockTryAcquire(t, l)
  PROVE  PriInv'
<1>1. chain = None
  <2>1. cur \notin Threads \/ pc[cur] \notin {"donate", "recompute"}
    <3>1. CASE Interrupt
      BY <3>1, SynchConstants DEF Interrupt, Preempt, IdleBlock, IntrSemaUp, InterruptsOn, OnPcs
    <3>2. CASE ~Interrupt
      BY <3>2 DEF Yield, Exit, SemaStep, SemaDown, SemaTryDown, SemaUp, CondStep, CondDown,
                  BroadcastStep, CondWait, CondSignal, CondBroadcast, DownBlock, DownTake,
                  SetHolder, LockTryAcquire
    <3> QED
      BY <3>1, <3>2
  <2> QED
    BY <2>1 DEF PriInv, ChainOK
<1>2. ASSUME NEW c \in Conds, Signal(t, c)
      PROVE  UNCHANGED <<priority, normal_priority, donors, chain>>
  BY <1>2 DEF Signal, pri_vars
<1>3. UNCHANGED <<priority, normal_priority, donors, chain>>
  <2>1. CASE Interrupt
    BY <2>1 DEF Interrupt, Preempt, IdleBlock, IntrSemaUp, pri_vars
  <2>2. CASE Yield(t) \/ Exit(t) \/ SemaStep(t)
    BY <2>2 DEF Yield, Exit, SemaStep, SemaDown, SemaTryDown, SemaUp, pri_vars
  <2>3. CASE CondStep(t)
    <3>1. CASE CondDown(t) \/ \E c \in Conds : CondWait(t, c) \/ CondBroadcast(t, c)
      BY <3>1 DEF CondDown, CondWait, CondBroadcast, pri_vars
    <3>2. CASE \E c \in Conds : CondSignal(t, c)
      BY <1>2, <3>2 DEF CondSignal
    <3>3. CASE BroadcastStep(t)
      BY <1>2, <3>3 DEF BroadcastStep, pri_vars, TypeInv, Control
    <3> QED
      BY <2>3, <3>1, <3>2, <3>3 DEF CondStep
  <2>4. CASE \/ DownBlock(t) \/ DownTake(t) \/ SetHolder(t)
             \/ \E l \in Locks : LockTryAcquire(t, l)
    BY <2>4 DEF DownBlock, DownTake, SetHolder, LockTryAcquire, pri_vars
  <2> QED
    BY <2>1, <2>2, <2>3, <2>4
<1> QED
  BY <1>1, <1>3, KeepPriorities

\* thread_set_priority and lock_release leave the priority of their thread to
\* the recomputation that follows.
LEMMA StartRecompute ==
  ASSUME TypeInv, PriInv, NEW t \in Threads,
         (\E p \in Priorities : SetPriority(t, p)) \/ \E l \in Locks : LockRelease(t, l)
  PROVE  PriInv'
<1>1. /\ cur = t /\ pc[t] \notin {"donate", "recompute"} /\ chain' = t
      /\ UNCHANGED <<cur, priority>> /\ pc' = [pc EXCEPT ![t] = "recompute"]
      /\ \A u \in Threads : u # t => normal_priority'[u] = normal_priority[u]
                                     /\ donors'[u] = donors[u]
  <2>1. CASE \E p \in Priorities : SetPriority(t, p)
    BY <2>1 DEF SetPriority, sched_vars, TypeInv, TypeOK
  <2>2. CASE \E l \in Locks : LockRelease(t, l)
    BY <2>2 DEF LockRelease, TypeInv, TypeOK
  <2> QED
    BY <2>1, <2>2
<1>2. chain = None /\ None \notin Threads
  BY <1>1, SynchConstants DEF PriInv, ChainOK
<1>3. \A u \in Threads : u # t => Exact(u)'
  BY <1>1, <1>2 DEF PriInv, Exact, Candidates
<1>4. pc'[t] = "recompute"
  BY <1>1 DEF TypeInv, TypeOK
<1> QED
  BY <1>1, <1>3, <1>4 DEF PriInv, ChainOK

\* thread_create: nobody donates to a thread that does not exist yet, and it
\* donates to nobody.
LEMMA CreatePriorities ==
  ASSUME TypeInv, PriInv, DonorsOK, AsleepOK, NEW t \in Threads, NEW u \in Threads,
         NEW p \in Priorities, Create(t, u, p)
  PROVE  PriInv'
<1>0. None \notin Threads /\ priority \in [Threads -> Priorities]
      /\ normal_priority \in [Threads -> Priorities] /\ donors \in [Threads -> SUBSET Threads]
      /\ p \in Int
  BY SynchConstants DEF TypeInv, TypeOK
<1>1. /\ cur = t /\ pc[t] = "run" /\ pc[u] = "new" /\ UNCHANGED <<donors, chain>>
      /\ priority' = [priority EXCEPT ![u] = p]
      /\ normal_priority' = [normal_priority EXCEPT ![u] = p]
  BY DEF Create
<1>2. chain = None
  BY <1>1 DEF PriInv, ChainOK
<1>3. donee[u] = None /\ donors[u] = {}
  BY <1>0, <1>1 DEF DonorsOK, AsleepOK, Acquiring
<1>4. \A v \in Threads : u \notin donors[v]
  BY <1>0, <1>3 DEF DonorsOK
<1>5. ASSUME NEW v \in Threads
      PROVE  Exact(v)'
  <2>1. CASE v = u
    BY <1>0, <1>1, <1>3, <2>1 DEF Exact, Candidates
  <2>2. CASE v # u
    <3>1. Candidates(v)' = Candidates(v) /\ priority'[v] = priority[v]
      BY <1>0, <1>1, <1>4, <2>2 DEF Candidates
    <3> QED
      BY <1>0, <1>2, <3>1 DEF PriInv, Exact
  <2> QED
    BY <2>1, <2>2
<1> QED
  BY <1>1, <1>2, <1>5 DEF PriInv, ChainOK

\* lock_acquire: the holder gets one more donor, the running thread.
LEMMA AcquirePriorities ==
  ASSUME TypeInv, PriInv, NEW t \in Threads, NEW l \in Locks, LockAcquire(t, l)
  PROVE  PriInv'
<1>0. None \notin Threads
  BY SynchConstants
<1>1. chain = None
  BY DEF LockAcquire, PriInv, ChainOK
<1>2. CASE ~Contended(l)
  BY <1>1, <1>2, KeepPriorities DEF LockAcquire
<1>3. CASE Contended(l)
  <2>0. PICK h \in Threads : h = holder[l]
    BY <1>3 DEF Contended, TypeInv, TypeOK
  <2>1. /\ h \in Threads /\ chain' = h /\ UNCHANGED <<cur, priority, normal_priority>>
        /\ cur = t /\ pc' = [pc EXCEPT ![t] = "donate"]
        /\ donors' = [donors EXCEPT ![h] = @ \cup {t}]
    BY <1>3, <2>0 DEF LockAcquire, sched_vars
  <2>2. donors'[h] = donors[h] \cup {t} /\ pc'[t] = "donate"
        /\ \A u \in Threads : u # h => donors'[u] = donors[u]
    BY <2>1 DEF TypeInv, TypeOK
  <2>3. \A u \in Threads : u # h => Exact(u)'
    BY <1>0, <1>1, <2>1, <2>2 DEF PriInv, Exact, Candidates
  <2>4. Exact(h) /\ Candidates(h) \subseteq Candidates(h)'
    BY <1>0, <1>1, <2>1, <2>2 DEF PriInv, Candidates
  <2>5. priority[h] \in Int /\ priority[t] \in Int
    BY <2>1, CandidatesInt
  <2>6. Rises'
    BY <2>1, <2>2, <2>4, <2>5 DEF Rises, Exact, Candidates
  <2> QED
    BY <2>1, <2>2, <2>3, <2>6 DEF PriInv, ChainOK
<1> QED
  BY <1>2, <1>3

\* thread_recompute_priority: its thread becomes exact, and a rise leaves its
\* donee, and nobody else, to be recomputed next.
LEMMA RecomputePriorities ==
  ASSUME TypeInv, DonorsOK, AsleepOK, PriInv, NEW t \in Threads, RecomputePriority(t)
  PROVE  PriInv'
<1>0. PICK c \in Threads : c = chain
  BY DEF RecomputePriority, Control, TypeInv
<1>1. /\ c = chain /\ cur = t /\ None \notin Threads /\ pc[t] \in {"donate", "recompute"}
      /\ priority \in [Threads -> Priorities] /\ donors \in [Threads -> SUBSET Threads]
      /\ donee \in [Threads -> Threads \cup {None}]
  BY <1>0, SynchConstants DEF RecomputePriority, TypeInv, TypeOK, Control
<1>2. PICK p \in Candidates(c) :
        /\ \A q \in Candidates(c) : p >= q
        /\ priority' = [priority EXCEPT ![c] = p]
        /\ Cascades(p) => chain' = donee[c] /\ UNCHANGED <<cur, pc>>
        /\ ~Cascades(p) => chain' = None
  BY <1>0 DEF RecomputePriority, Candidates, sched_vars
<1>3. UNCHANGED <<normal_priority, donors, donee>>
  BY DEF RecomputePriority
<1>4. \A u \in Threads : u # c => Exact(u)
  BY <1>1 DEF PriInv
<1>5. \A u \in Threads : c \in donors[u] => donee[c] = u
  BY DEF DonorsOK
<1>6. donee[c] # c
  BY <1>1 DEF AsleepOK
<1>7. \A u \in Threads : c \notin donors[u] => Candidates(u)' = Candidates(u)
  BY <1>1, <1>2, <1>3 DEF Candidates
<1>8. p \in Int /\ \A u \in Threads : priority[u] \in Int /\ Candidates(u) \subseteq Int
  BY <1>1, <1>2, CandidatesInt
<1>9. Exact(c)'
  <2>1. c \notin donors[c]
    BY <1>1, <1>5, <1>6
  <2>2. Candidates(c)' = Candidates(c) /\ priority'[c] = p
    BY <1>1, <1>2, <1>7, <2>1
  <2> QED
    BY <1>2, <2>2 DEF Exact
<1>10. p >= priority[c] \/ pc[t] # "donate"
  <2>1. pc[t] = "donate" => \E q \in Candidates(c) : priority[c] =< q
    BY <1>1 DEF PriInv, ChainOK, Rises
  <2> QED
    BY <1>1, <1>2, <1>8, <2>1
<1>11. ASSUME NEW u \in Threads, u # c, u # donee[c] \/ p = priority[c]
       PROVE  Exact(u)'
  <2>1. Candidates(u)' = Candidates(u)
    <3>1. CASE c \notin donors[u]
      BY <1>7, <3>1
    <3>2. CASE p = priority[c]
      <4>1. priority' = priority
        BY <1>1, <1>2, <3>2
      <4> QED
        BY <1>3, <4>1 DEF Candidates
    <3> QED
      BY <1>5, <1>11, <3>1, <3>2
  <2>2. priority'[u] = priority[u]
    BY <1>1, <1>2, <1>11
  <2> QED
    BY <1>4, <1>11, <2>1, <2>2 DEF Exact
<1>12. CASE ~Cascades(p)
  <2>1. p = priority[c] \/ donee[c] = None
    <3>1. CASE pc[t] = "donate"
      BY <1>1, <1>8, <1>10, <1>12, <3>1 DEF Cascades
    <3>2. CASE pc[t] = "recompute"
      BY <1>1, <3>2 DEF PriInv, ChainOK, DonorsOK, Acquiring
    <3> QED
      BY <1>1, <3>1, <3>2
  <2>2. \A u \in Threads : Exact(u)'
    BY <1>1, <1>9, <1>11, <2>1
  <2> QED
    BY <1>2, <1>12, <2>2 DEF PriInv, ChainOK
<1>13. CASE Cascades(p)
  <2>0. PICK e \in Threads : e = donee[c]
    BY <1>1, <1>13 DEF Cascades
  <2>1. /\ e \in Threads /\ e # c /\ p > priority[c] /\ chain' = e
        /\ UNCHANGED <<cur, pc>>
    BY <1>1, <1>2, <1>6, <1>13, <2>0 DEF Cascades
  <2>2. pc[t] = "donate" /\ Rises
    <3>1. pc[t] = "recompute" => donee[c] = None
      BY <1>1 DEF PriInv, ChainOK, DonorsOK, Acquiring
    <3> QED
      BY <1>1, <1>13, <3>1 DEF Cascades, PriInv, ChainOK
  <2>3. \A u \in Threads : u # e => Exact(u)'
    BY <1>9, <1>11, <2>0
  <2>4. Exact(e) /\ c \in donors[e] /\ priority'[e] = priority[e] /\ priority'[c] = p
    BY <1>1, <1>2, <1>4, <2>0, <2>1 DEF DonorsOK
  <2>5. p =< priority[t] /\ t # c
    <3>1. p # normal_priority[c]
      BY <1>1, <1>8, <2>1, <2>2, CandidatesInt DEF Rises
    <3>2. PICK d \in donors[c] : p = priority[d]
      BY <1>2, <3>1 DEF Candidates
    <3>3. priority[t] >= priority[d]
      BY <1>1, <1>8, <2>1, <2>2, <3>2 DEF Rises
    <3> QED
      BY <1>1, <1>8, <2>1, <3>2, <3>3
  <2>6. priority'[t] = priority[t]
    BY <1>1, <1>2, <2>5
  <2>7. \A d \in donors[e] : priority'[d] = IF d = c THEN p ELSE priority[d]
    BY <1>1, <1>2, <2>1
  <2>8. \E q \in Candidates(e)' : priority'[e] =< q
    <3>1. CASE priority[e] = normal_priority[e]
      BY <1>3, <1>8, <2>1, <2>4, <3>1 DEF Candidates
    <3>2. CASE priority[e] # normal_priority[e]
      <4>1. PICK d \in donors[e] : priority[e] = priority[d]
        BY <2>4, <3>2 DEF Exact, Candidates
      <4>2. priority'[d] \in Candidates(e)'
        BY <1>3 DEF Candidates
      <4>3. priority[e] =< priority'[d]
        BY <1>1, <1>8, <2>1, <2>7, <4>1
      <4> QED
        BY <2>4, <4>2, <4>3
    <3> QED
      BY <3>1, <3>2
  <2>9. priority'[e] >= normal_priority'[e]
    BY <1>3, <2>4 DEF Exact, Candidates
  <2>10. ASSUME NEW d \in donors'[e]
         PROVE  priority'[e] >= priority'[d] \/ priority'[t] >= priority'[d]
    <3>1. CASE d = c
      BY <1>1, <1>3, <1>8, <2>4, <2>5, <2>6, <3>1
    <3>2. CASE d # c
      <4>1. d \in donors[e] /\ priority'[d] = priority[d]
        BY <1>3, <2>7, <2>10, <3>2
      <4> QED
        BY <2>4, <4>1 DEF Exact, Candidates
    <3> QED
      BY <3>1, <3>2
  <2>11. Rises'
    BY <1>1, <2>1, <2>8, <2>9, <2>10 DEF Rises
  <2> QED
    BY <1>1, <2>1, <2>2, <2>3, <2>11 DEF PriInv, ChainOK
<1> QED
  BY <1>12, <1>13

\* Every step keeps a thread's priority that of its best candidate.
LEMMA NextPriorities ==
  ASSUME TypeInv, DonorsOK, AsleepOK, PriInv, [Next]_vars
  PROVE  PriInv'
<1>0. Main \in Threads
  BY SynchConstants
<1>1. CASE UNCHANGED vars
  BY <1>1 DEF vars, sched_vars, pri_vars, PriInv, ChainOK, Rises, Exact, Candidates
<1>2. CASE Interrupt
  BY <1>0, <1>2, OtherStepsPriorities
<1>3. ASSUME NEW t \in Threads, Step(t)
      PROVE  PriInv'
  <2>1. CASE LockStep(t)
    BY <2>1, OtherStepsPriorities, StartRecompute, AcquirePriorities, RecomputePriorities
       DEF LockStep
  <2>2. CASE SemaStep(t) \/ CondStep(t)
    BY <2>2, OtherStepsPriorities
  <2>3. CASE ThreadStep(t)
    BY <2>3, OtherStepsPriorities, StartRecompute, CreatePriorities DEF ThreadStep
  <2> QED
    BY <1>3, <2>1, <2>2, <2>3 DEF Step
<1> QED
  BY <1>1, <1>2, <1>3 DEF Next

\* A thread's priority is the greatest of its own and its donors', except
\* while it is recomputed.
LEMMA PrioritiesHold == Spec => []PriInv
<1>1. Init => PriInv
  <2> SUFFICES ASSUME Init PROVE PriInv
    OBVIOUS
  <2>1. \A t \in Threads : /\ priority[t] = DefaultPri /\ normal_priority[t] = DefaultPri
                           /\ donors[t] = {}
    BY DEF Init
  <2>2. DefaultPri >= DefaultPri
    BY SynchConstants
  <2>3. chain = None
    BY DEF Init
  <2> QED
    BY <2>1, <2>2, <2>3 DEF PriInv, ChainOK, Exact, Candidates
<1>2. TypeInv /\ DonorsOK /\ AsleepOK /\ PriInv /\ [Next]_vars => PriInv'
  BY NextPriorities
<1> QED
  BY <1>1, <1>2, TypeCorrect, DonorsHold, PTL DEF Spec

\* Who donates to whom agrees with who waits for what, and outside a
\* recomputation every priority is what its donors give, at any depth of
\* nesting, and nothing more.
THEOREM DonationHolds == Spec => []DonationRight
<1>1. PriInv => DonationExact
  <2> SUFFICES ASSUME PriInv, chain = None, NEW t \in Threads
               PROVE  /\ priority[t] \in {normal_priority[t]} \cup {priority[d] : d \in donors[t]}
                      /\ priority[t] >= normal_priority[t]
                      /\ \A d \in donors[t] : priority[t] >= priority[d]
    BY DEF DonationExact
  <2>1. Exact(t)
    BY SynchConstants DEF PriInv
  <2> QED
    BY <2>1 DEF Exact, Candidates
<1>2. TypeInv /\ DonorsOK /\ DonationExact => NoLockNoDonation
  <2> SUFFICES ASSUME TypeInv, DonorsOK, DonationExact, chain = None, NEW t \in Threads,
                      \A l \in Locks : holder[l] # t
               PROVE  priority[t] = normal_priority[t]
    BY DEF NoLockNoDonation
  <2>1. ASSUME NEW d \in donors[t]
        PROVE  FALSE
    <3>1. d \in Threads /\ donee[d] = t /\ t # None
      BY SynchConstants DEF TypeInv, TypeOK, DonorsOK
    <3>2. at[d] \in Locks /\ holder[at[d]] = t
      BY <3>1 DEF DonorsOK
    <3> QED
      BY <3>2
  <2> QED
    BY <2>1 DEF DonationExact
<1>3. DonationGraph /\ DonationExact /\ NoLockNoDonation => DonationRight
  BY DEF DonationRight
<1> QED
  BY <1>1, <1>2, <1>3, TypeCorrect, DonorsHold, PrioritiesHold, DonationsConsistent, PTL

----------------------------------------------------------------------------
(***************************************************************************)
(* The thread of the highest priority runs, when no interrupt handler ups  *)
(* a semaphore (sema_up yields to the thread it wakes only outside of an   *)
(* interrupt).  TopRuns is inductive: the running thread is only outranked *)
(* between a loss of priority and the yield that follows it.               *)
(***************************************************************************)

TopRuns ==
  cur \in Threads /\ pc[cur] # "recompute" =>
    \A u \in ToSet(ready_list) : priority[u] =< priority[cur]

\* Whatever schedule chooses outranks the rest of the run queue.
LEMMA ScheduleTop ==
  ASSUME NEW rl \in Seq(Threads), NEW st, NEW pri \in [Threads -> Priorities],
         Schedule(rl, st, pri), cur' \in Threads
  PROVE  \A u \in ToSet(ready_list') : pri[u] =< pri[cur']
<1>1. CASE rl = << >>
  BY <1>1, SynchConstants DEF Schedule
<1>2. CASE rl # << >>
  <2>1. PICK i \in Highest(rl, pri) : cur' = rl[i] /\ ready_list' = RemoveAt(rl, i)
    BY <1>2 DEF Schedule
  <2>2. i \in DOMAIN rl /\ \A j \in DOMAIN rl : pri[rl[j]] =< pri[rl[i]]
    BY DEF Highest
  <2>3. ToSet(ready_list') \subseteq ToSet(rl)
    BY <2>1, <2>2, ToSetRemoveAt
  <2> QED
    BY <2>1, <2>2, <2>3 DEF ToSet
<1> QED
  BY <1>1, <1>2

\* After thread_yield the running thread has the greatest priority of all
\* that are ready.
LEMMA YieldTop ==
  ASSUME NEW rl \in Seq(Threads), NEW st, NEW pri \in [Threads -> Priorities],
         NEW t \in Threads, ThreadYield(t, rl, st, pri), cur' \in Threads
  PROVE  \A u \in ToSet(ready_list') : pri[u] =< pri[cur']
<1>1. Append(rl, t) \in Seq(Threads)
  OBVIOUS
<1> QED
  BY <1>1, ScheduleTop DEF ThreadYield

\* So it has after a yield to a thread of higher priority only.
LEMMA YieldToHigherTop ==
  ASSUME NEW rl \in Seq(Threads), NEW st, NEW pri \in [Threads -> Priorities],
         NEW t \in Threads, YieldToHigher(t, rl, st, pri), cur' \in Threads
  PROVE  \A u \in ToSet(ready_list') : pri[u] =< pri[cur']
<1>1. CASE HigherReady(t, rl, pri)
  BY <1>1, YieldTop DEF YieldToHigher
<1>2. CASE ~HigherReady(t, rl, pri)
  <2>1. cur' = t /\ ready_list' = rl
    BY <1>2 DEF YieldToHigher
  <2>2. \A i \in DOMAIN rl : ~(pri[rl[i]] > pri[t]) /\ rl[i] \in Threads
    BY <1>2 DEF HigherReady
  <2>3. \A u \in Threads : pri[u] \in Int
    BY SynchConstants
  <2>4. \A i \in DOMAIN rl : pri[rl[i]] =< pri[t]
    BY <2>2, <2>3
  <2> QED
    BY <2>1, <2>4 DEF ToSet
<1> QED
  BY <1>1, <1>2

\* A step that leaves the scheduler and priorities alone, by a thread that is
\* not in thread_recompute_priority.
LEMMA KeepTop ==
  ASSUME TopRuns, NEW t \in Threads, cur = t, pc[t] # "recompute",
         UNCHANGED <<sched_vars, priority>>
  PROVE  TopRuns'
  BY DEF TopRuns, sched_vars

\* The callers' operations end with the thread of the greatest priority
\* running.
LEMMA ThreadStepTop ==
  ASSUME TypeInv, TopRuns, NEW t \in Threads, ThreadStep(t)
  PROVE  TopRuns'
<1>0. ready_list \in Seq(Threads) /\ priority \in [Threads -> Priorities]
      /\ Priorities \subseteq Int /\ pc \in [Threads -> OnPcs \cup OffPcs \cup {"new", "dead"}]
  BY SynchConstants DEF TypeInv, TypeOK
<1>1. CASE Yield(t)
  BY <1>0, <1>1, YieldTop DEF Yield, TopRuns, pri_vars
<1>2. CASE Exit(t)
  BY <1>0, <1>2, ScheduleTop DEF Exit, TopRuns, pri_vars
<1>3. ASSUME NEW p \in Priorities, SetPriority(t, p)
      PROVE  TopRuns'
  BY <1>0, <1>3 DEF SetPriority, TopRuns, sched_vars
<1>4. ASSUME NEW p \in Priorities, NEW u \in Threads, Create(t, u, p)
      PROVE  TopRuns'
  <2>1. /\ cur = t /\ pc[t] = "run" /\ pc[u] = "new" /\ priority' = [priority EXCEPT ![u] = p]
        /\ priority' \in [Threads -> Priorities]
        /\ Append(ready_list, u) \in Seq(Threads)
    BY <1>0, <1>4 DEF Create
  <2>2. CASE p > priority[t]
    <3>1. ThreadYield(t, Append(ready_list, u), [status EXCEPT ![u] = "ready"], priority')
      BY <1>4, <2>2 DEF Create
    <3> QED
      BY <2>1, <3>1, YieldTop DEF TopRuns
  <2>3. CASE ~(p > priority[t])
    <3>1. cur' = t /\ ready_list' = Append(ready_list, u)
      BY <1>4, <2>3 DEF Create
    <3>2. ToSet(ready_list') = ToSet(ready_list) \cup {u} /\ ToSet(ready_list) \subseteq Threads
      BY <1>0, <3>1, ToSetAppend, ToSetMembers
    <3>3. \A v \in Threads : priority'[v] = IF v = u THEN p ELSE priority[v]
      BY <1>0, <2>1
    <3>4. \A v \in ToSet(ready_list) : priority[v] =< priority[t]
      BY <2>1 DEF TopRuns
    <3>5. p \in Int /\ priority[t] \in Int /\ u # t
      BY <1>0, <2>1
    <3>6. p =< priority[t]
      BY <2>3, <3>5
    <3> QED
      BY <3>1, <3>2, <3>3, <3>4, <3>5, <3>6 DEF TopRuns
  <2> QED
    BY <2>2, <2>3
<1> QED
  BY <1>1, <1>2, <1>3, <1>4 DEF ThreadStep

\* A rise that a donation passes on stays below the priority of the running
\* thread that donates; any other recomputation ends with a yield.
LEMMA RecomputeTop ==
  ASSUME TypeInv, DonorsOK, PriInv, TopRuns, NEW t \in Threads, RecomputePriority(t)
  PROVE  TopRuns'
<1>0. PICK c \in Threads : c = chain
  BY DEF RecomputePriority, Control, TypeInv
<1>1. /\ c = chain /\ cur = t /\ None \notin Threads /\ pc[t] \in {"donate", "recompute"}
      /\ priority \in [Threads -> Priorities] /\ Priorities \subseteq Int
      /\ ready_list \in Seq(Threads)
  BY <1>0, SynchConstants DEF RecomputePriority, TypeInv, TypeOK
<1>2. PICK p \in {normal_priority[chain]} \cup {priority[d] : d \in donors[chain]} :
        /\ p >= normal_priority[chain]
        /\ \A d \in donors[chain] : p >= priority[d]
        /\ priority' = [priority EXCEPT ![chain] = p]
        /\ IF Cascades(p)
           THEN UNCHANGED sched_vars
           ELSE IF pc[t] = "donate" THEN UNCHANGED sched_vars
                ELSE YieldToHigher(t, ready_list, status, priority')
  BY DEF RecomputePriority
<1>3. p \in Candidates(c) /\ priority' = [priority EXCEPT ![c] = p]
      /\ \A q \in Candidates(c) : p >= q
  BY <1>0, <1>2 DEF Candidates
<1>4. priority' \in [Threads -> Priorities] /\ p \in Int
  <2>1. Candidates(c) \subseteq Int
    BY CandidatesInt
  <2>2. priority' \in [Threads -> Priorities]
    BY RecomputeType DEF TypeInv, TypeOK
  <2> QED
    BY <1>3, <2>1, <2>2
<1>5. CASE pc[t] = "recompute"
  <2>1. c = t /\ donee[t] = None
    BY <1>1, <1>5 DEF PriInv, ChainOK, DonorsOK, Acquiring
  <2>2. YieldToHigher(t, ready_list, status, priority')
    BY <1>1, <1>2, <1>5, <2>1 DEF Cascades
  <2> QED
    BY <1>1, <1>4, <2>2, YieldToHigherTop DEF TopRuns
<1>6. CASE pc[t] = "donate"
  <2>1. UNCHANGED sched_vars /\ Rises
    BY <1>1, <1>2, <1>6 DEF PriInv, ChainOK
  <2>2. \A u \in Threads : priority[u] \in Int
    BY <1>1
  <2>3. normal_priority[c] \in Int /\ donors[c] \subseteq Threads
    BY CandidatesInt
  <2>4. p >= priority[c]
    BY <1>1, <1>3, <1>4, <2>1, <2>2, CandidatesInt DEF Rises
  <2>5. p = priority[c] \/ p =< priority[t]
    <3>1. CASE p = normal_priority[c]
      BY <1>1, <1>4, <2>1, <2>2, <2>3, <2>4, <3>1 DEF Rises
    <3>2. CASE p # normal_priority[c]
      <4>1. PICK d \in donors[c] : p = priority[d]
        BY <1>3, <3>2 DEF Candidates
      <4>2. priority[c] >= priority[d] \/ priority[t] >= priority[d]
        BY <1>1, <2>1 DEF Rises
      <4> QED
        BY <1>4, <2>2, <2>4, <4>1, <4>2
    <3> QED
      BY <3>1, <3>2
  <2>6. \A u \in Threads : priority'[u] = IF u = c THEN p ELSE priority[u]
    BY <1>1, <1>3
  <2>7. priority'[t] >= priority[t]
    BY <2>2, <2>4, <2>6
  <2>8. ASSUME NEW u \in ToSet(ready_list)
        PROVE  priority'[u] =< priority'[t]
    <3>1. u \in Threads /\ priority[u] =< priority[t]
      BY <1>1, <1>6, ToSetMembers DEF TopRuns
    <3>2. CASE u # c \/ p = priority[c]
      BY <1>4, <2>2, <2>6, <2>7, <3>1, <3>2
    <3>3. CASE u = c /\ p =< priority[t]
      BY <1>4, <2>2, <2>6, <2>7, <3>3
    <3> QED
      BY <2>5, <3>2, <3>3
  <2> QED
    BY <1>1, <2>1, <2>8 DEF TopRuns, sched_vars
<1> QED
  BY <1>1, <1>5, <1>6

\* cond_signal and sema_up outside of an interrupt yield to whom they wake.
LEMMA UpTop ==
  ASSUME TypeInv, TopRuns, NEW t \in Threads, cur = t, pc[t] # "recompute",
         NEW s \in AllSemas, NEW w \in Woken(s), UNCHANGED priority,
         IF waiters[s] = << >> THEN UNCHANGED sched_vars
         ELSE YieldToHigher(t, w.rl, w.st, priority)
  PROVE  TopRuns'
<1>1. CASE waiters[s] = << >>
  BY <1>1, KeepTop
<1>2. CASE waiters[s] # << >>
  <2>1. YieldToHigher(t, w.rl, w.st, priority) /\ w.rl \in Seq(Threads)
        /\ priority \in [Threads -> Priorities]
    BY <1>2, WokenType DEF TypeInv, TypeOK
  <2> QED
    BY <2>1, YieldToHigherTop DEF TopRuns
<1> QED
  BY <1>1, <1>2

\* Every step that is not an interrupt's keeps the greatest priority
\* running.
LEMMA NextTop ==
  ASSUME IntrSemas = {}, TypeInv, DonorsOK, PriInv, TopRuns, [Next]_vars
  PROVE  TopRuns'
<1>0. ready_list \in Seq(Threads) /\ priority \in [Threads -> Priorities]
      /\ Idle \notin Threads /\ Semas \subseteq AllSemas /\ Threads \subseteq AllSemas
      /\ cond_waiters \in [Conds -> Seq(Threads)]
      /\ pc \in [Threads -> OnPcs \cup OffPcs \cup {"new", "dead"}]
  BY SynchConstants DEF TypeInv, TypeOK, AllSemas
<1>1. CASE UNCHANGED vars
  BY <1>1 DEF vars, sched_vars, pri_vars, TopRuns
<1>2. CASE Interrupt
  <2>1. CASE Preempt
    <3>1. cur \in Threads
      BY <2>1 DEF Preempt, TypeInv, TypeOK
    <3> QED
      BY <1>0, <2>1, <3>1, YieldTop DEF Preempt, TopRuns, pri_vars
  <2>2. CASE IdleBlock
    BY <1>0, <2>2, ScheduleTop DEF IdleBlock, TopRuns, pri_vars
  <2>3. \A s \in Semas : ~IntrSemaUp(s)
    BY DEF IntrSemaUp
  <2> QED
    BY <1>2, <2>1, <2>2, <2>3 DEF Interrupt
<1>3. ASSUME NEW t \in Threads, SemaStep(t)
      PROVE  TopRuns'
  <2>1. ASSUME NEW s \in Semas, SemaDown(t, s) \/ SemaTryDown(t, s)
        PROVE  TopRuns'
    BY <2>1, KeepTop DEF SemaDown, SemaTryDown, pri_vars
  <2>2. ASSUME NEW s \in Semas, SemaUp(t, s)
        PROVE  TopRuns'
    BY <1>0, <2>2, UpTop DEF SemaUp, pri_vars
  <2> QED
    BY <1>3, <2>1, <2>2 DEF SemaStep
<1>4. ASSUME NEW t \in Threads, LockStep(t)
      PROVE  TopRuns'
  <2>1. CASE DownBlock(t)
    BY <1>0, <2>1, ScheduleTop DEF DownBlock, TopRuns, pri_vars
  <2>2. CASE DownTake(t) \/ SetHolder(t)
    BY <2>2, KeepTop DEF DownTake, SetHolder, pri_vars
  <2>3. ASSUME NEW l \in Locks, LockAcquire(t, l) \/ LockTryAcquire(t, l)
        PROVE  TopRuns'
    BY <2>3, KeepTop DEF LockAcquire, LockTryAcquire, pri_vars
  <2>4. ASSUME NEW l \in Locks, LockRelease(t, l)
        PROVE  TopRuns'
    <3>1. cur' = t /\ pc' = [pc EXCEPT ![t] = "recompute"]
      BY <2>4 DEF LockRelease
    <3> QED
      BY <1>0, <3>1 DEF TopRuns
  <2> QED
    BY <1>4, <2>1, <2>2, <2>3, <2>4, RecomputeTop DEF LockStep
<1>5. ASSUME NEW t \in Threads, NEW c \in Conds, Signal(t, c), cur = t, pc[t] # "recompute"
      PROVE  TopRuns'
  <2>1. PICK i \in DOMAIN cond_waiters[c] :
          \E w \in Woken(cond_waiters[c][i]) :
            IF waiters[cond_waiters[c][i]] = << >> THEN UNCHANGED sched_vars
            ELSE YieldToHigher(t, w.rl, w.st, priority)
    BY <1>5 DEF Signal, Highest
  <2>2. cond_waiters[c][i] \in AllSemas /\ UNCHANGED priority
    BY <1>0, <1>5 DEF Signal, pri_vars
  <2> QED
    BY <1>5, <2>1, <2>2, UpTop
<1>6. ASSUME NEW t \in Threads, CondStep(t)
      PROVE  TopRuns'
  <2>1. CASE CondDown(t)
    BY <2>1, KeepTop DEF CondDown, pri_vars
  <2>2. CASE BroadcastStep(t)
    <3>1. CASE cond_waiters[cv[t]] # << >>
      BY <1>5, <2>2, <3>1 DEF BroadcastStep, TypeInv, Control
    <3>2. CASE cond_waiters[cv[t]] = << >>
      BY <2>2, <3>2, KeepTop DEF BroadcastStep, pri_vars
    <3> QED
      BY <3>1, <3>2
  <2>3. ASSUME NEW c \in Conds, CondWait(t, c) \/ CondBroadcast(t, c)
        PROVE  TopRuns'
    BY <2>3, KeepTop DEF CondWait, CondBroadcast, pri_vars
  <2>4. ASSUME NEW c \in Conds, CondSignal(t, c)
        PROVE  TopRuns'
    BY <1>5, <2>4 DEF CondSignal
  <2> QED
    BY <1>6, <2>1, <2>2, <2>3, <2>4 DEF CondStep
<1> QED
  BY <1>1, <1>2, <1>3, <1>4, <1>6, ThreadStepTop DEF Next, Step

\* If only threads up semaphores, no ready thread has a higher priority than
\* the one that runs a caller's code.
THEOREM HighestRunsHolds == IntrSemas = {} /\ Spec => []HighestRuns
<1> SUFFICES ASSUME IntrSemas = {} PROVE Spec => []HighestRuns
  OBVIOUS
<1>1. Init => TopRuns
  BY DEF Init, TopRuns, ToSet
<1>2. TypeInv /\ DonorsOK /\ PriInv /\ TopRuns /\ [Next]_vars => TopRuns'
  BY NextTop
<1>3. TypeInv /\ TopRuns => HighestRuns
  <2> SUFFICES ASSUME TypeInv, TopRuns, InterruptsOn, cur # Idle, NEW i \in DOMAIN ready_list
               PROVE  priority[ready_list[i]] =< priority[cur]
    BY DEF HighestRuns
  <2>1. cur \in Threads /\ pc[cur] # "recompute"
    BY DEF TypeInv, TypeOK, InterruptsOn, OnPcs
  <2> QED
    BY <2>1 DEF TopRuns, ToSet
<1> QED
  BY <1>1, <1>2, <1>3, TypeCorrect, DonorsHold, PrioritiesHold, PTL DEF Spec
=============================================================================
