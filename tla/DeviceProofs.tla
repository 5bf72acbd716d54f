---------------------------- MODULE DeviceProofs ----------------------------
(***************************************************************************)
(* Proofs about IntQueue and Ide, as MCProgress runs them: for every set   *)
(* of threads, size of the ring, set of sectors and number of interrupts   *)
(* that no command caused.                                                 *)
(***************************************************************************)
EXTENDS MCProgress, Sequences, TLAPS

Wrap(a) == IF a < BufSize THEN a ELSE a - BufSize

\* A position of the ring, computed modulo its size, is the number itself or
\* one round less.
LEMMA ModWrap ==
  ASSUME BufSize \in Nat \ {0, 1}, NEW a \in 0..(2 * BufSize - 1)
  PROVE  a % BufSize = Wrap(a) /\ Wrap(a) \in 0..(BufSize - 1)
<1>1. CASE a < BufSize
  BY <1>1, SMTT(30) DEF Wrap
<1>2. CASE ~(a < BufSize)
  BY <1>2, SMTT(30) DEF Wrap
<1> QED BY <1>1, <1>2

----------------------------------------------------------------------------
\* RingIsFifo without the operator %.
Ring ==
  /\ queued \in Seq(Bytes)
  /\ Len(queued) = Wrap(head - tail + BufSize)
  /\ \A i \in 1..Len(queued) : queued[i] = buf[Wrap(tail + i - 1)]

\* A thread that was woken and has not released the lock is its holder.
WokenHolds == \A t \in Users : user[t] = "woken" => queueLock = t

\* The inductive invariant of the interrupt queue.
QueueHolds ==
  /\ Queue!TypeOK /\ Ring
  /\ Queue!NoSleepOnBytes /\ Queue!CrowdedByTwo /\ WokenHolds

\* The position after one of the ring.
LEMMA FollowingWraps ==
  ASSUME NEW pos \in 0..(BufSize - 1)
  PROVE  Queue!Following(pos) = Wrap(pos + 1) /\ Wrap(pos + 1) \in 0..(BufSize - 1)
<1>1. BufSize \in Nat \ {0, 1}
  BY DevicesAssumption DEF Queue!IntQueueAssumption
<1>2. pos + 1 \in 0..(2 * BufSize - 1)
  BY <1>1
<1> QED BY <1>1, <1>2, ModWrap DEF Queue!Following

\* Where the queue is full and where it is empty, by the bytes in it.
LEMMA FullByLength ==
  ASSUME Queue!TypeOK, Ring
  PROVE  /\ Queue!Empty <=> Len(queued) = 0
         /\ Queue!Full <=> Len(queued) = BufSize - 1
         /\ Len(queued) \in 0..(BufSize - 1)
<1>1. BufSize \in Nat \ {0, 1}
  BY DevicesAssumption DEF Queue!IntQueueAssumption
<1>2. head \in 0..(BufSize - 1) /\ tail \in 0..(BufSize - 1)
  BY DEF Queue!TypeOK
<1>3. Queue!Following(head) = Wrap(head + 1)
  BY <1>2, FollowingWraps
<1> QED BY <1>1, <1>2, <1>3 DEF Ring, Wrap, Queue!Empty, Queue!Full

\* intq_putc's store keeps the ring, also where its positions wrap.
LEMMA PutKeepsRing ==
  ASSUME Queue!TypeOK, Ring, ~Queue!Full, NEW b \in Bytes, Queue!PutByte(b)
  PROVE  /\ Ring'
         /\ buf' \in [0..(BufSize - 1) -> Bytes] /\ tail' = tail
         /\ head' \in 0..(BufSize - 1)
<1>1. BufSize \in Nat \ {0, 1}
  BY DevicesAssumption DEF Queue!IntQueueAssumption
<1>2. head \in 0..(BufSize - 1) /\ tail \in 0..(BufSize - 1) /\ buf \in [0..(BufSize - 1) -> Bytes]
  BY DEF Queue!TypeOK
<1>3. head' = Wrap(head + 1) /\ head' \in 0..(BufSize - 1) /\ tail' = tail
  BY <1>2, FollowingWraps DEF Queue!PutByte
<1>4. buf' = [buf EXCEPT ![head] = b] /\ queued' = Append(queued, b)
  BY DEF Queue!PutByte
<1>5. Len(queued) \in 0..(BufSize - 2)
  BY <1>1, FullByLength
<1>6. queued' \in Seq(Bytes) /\ Len(queued') = Len(queued) + 1
  BY <1>4 DEF Ring
<1>7. Len(queued') = Wrap(head' - tail' + BufSize)
  BY <1>1, <1>2, <1>3, <1>5, <1>6 DEF Ring, Wrap
<1>8. ASSUME NEW i \in 1..Len(queued')
      PROVE  queued'[i] = buf'[Wrap(tail' + i - 1)]
  <2>1. CASE i = Len(queued) + 1
    <3>1. Wrap(tail + i - 1) = head
      BY <1>1, <1>2, <1>5, <2>1 DEF Ring, Wrap
    <3> QED BY <1>2, <1>3, <1>4, <2>1, <3>1 DEF Ring
  <2>2. CASE i # Len(queued) + 1
    <3>1. i \in 1..Len(queued)
      BY <1>5, <1>6, <2>2
    <3>2. Wrap(tail + i - 1) # head /\ Wrap(tail + i - 1) \in 0..(BufSize - 1)
      BY <1>1, <1>2, <1>5, <3>1 DEF Ring, Wrap
    <3>3. queued'[i] = queued[i]
      BY <1>4, <3>1 DEF Ring
    <3>4. queued[i] = buf[Wrap(tail + i - 1)]
      BY <3>1 DEF Ring
    <3> QED BY <1>2, <1>3, <1>4, <3>2, <3>3, <3>4
  <2> QED BY <2>1, <2>2
<1> QED BY <1>2, <1>3, <1>4, <1>6, <1>7, <1>8 DEF Ring

\* intq_getc's takes the oldest byte off it.
LEMMA GetKeepsRing ==
  ASSUME Queue!TypeOK, Ring, ~Queue!Empty, Queue!GetByte
  PROVE  Ring' /\ tail' \in 0..(BufSize - 1) /\ UNCHANGED <<buf, head>>
<1>1. BufSize \in Nat \ {0, 1}
  BY DevicesAssumption DEF Queue!IntQueueAssumption
<1>2. head \in 0..(BufSize - 1) /\ tail \in 0..(BufSize - 1)
  BY DEF Queue!TypeOK
<1>3. tail' = Wrap(tail + 1) /\ tail' \in 0..(BufSize - 1) /\ UNCHANGED <<buf, head>>
  BY <1>2, FollowingWraps DEF Queue!GetByte
<1>4. Len(queued) \in 1..(BufSize - 1)
  BY <1>1, FullByLength
<1>5. queued' = Tail(queued) /\ queued # <<>>
  BY <1>4 DEF Queue!GetByte
<1>6. /\ queued' \in Seq(Bytes) /\ Len(queued') = Len(queued) - 1
      /\ \A i \in 1..Len(queued') : queued'[i] = queued[i + 1]
  BY <1>5 DEF Ring
<1>7. Len(queued') = Wrap(head' - tail' + BufSize)
  BY <1>1, <1>2, <1>3, <1>4, <1>6 DEF Ring, Wrap
<1>8. ASSUME NEW i \in 1..Len(queued')
      PROVE  queued'[i] = buf'[Wrap(tail' + i - 1)]
  <2>1. i + 1 \in 1..Len(queued)
    BY <1>4, <1>6
  <2>2. queued[i + 1] = buf[Wrap(tail + (i + 1) - 1)]
    BY <2>1 DEF Ring
  <2>3. Wrap(tail + (i + 1) - 1) = Wrap(tail' + i - 1)
    BY <1>1, <1>2, <1>3, <1>4, <2>1 DEF Wrap
  <2> QED BY <1>3, <1>6, <2>2, <2>3
<1> QED BY <1>3, <1>6, <1>7, <1>8 DEF Ring

\* serial_putc's way out of a full queue does both at once.
LEMMA PollKeepsRing ==
  ASSUME Queue!TypeOK, Ring, Queue!PutPolled
  PROVE  /\ Ring' /\ buf' \in [0..(BufSize - 1) -> Bytes]
         /\ head' \in 0..(BufSize - 1) /\ tail' \in 0..(BufSize - 1)
<1>1. BufSize \in Nat \ {0, 1}
  BY DevicesAssumption DEF Queue!IntQueueAssumption
<1>2. head \in 0..(BufSize - 1) /\ tail \in 0..(BufSize - 1) /\ buf \in [0..(BufSize - 1) -> Bytes]
  BY DEF Queue!TypeOK
<1>3. head' = Wrap(head + 1) /\ head' \in 0..(BufSize - 1)
  BY <1>2, FollowingWraps DEF Queue!PutPolled
<1>4. tail' = Wrap(tail + 1) /\ tail' \in 0..(BufSize - 1) /\ Wrap(head + 1) = tail
  BY <1>2, FollowingWraps DEF Queue!PutPolled, Queue!Full
<1>5. Len(queued) = BufSize - 1
  BY <1>1, FullByLength DEF Queue!PutPolled
<1>6. PICK b \in Bytes : buf' = [buf EXCEPT ![head] = b] /\ queued' = Append(Tail(queued), b)
  BY DEF Queue!PutPolled
<1>7. /\ Tail(queued) \in Seq(Bytes) /\ Len(Tail(queued)) = BufSize - 2
      /\ \A i \in 1..(BufSize - 2) : Tail(queued)[i] = queued[i + 1]
  BY <1>1, <1>5 DEF Ring
<1>8. /\ queued' \in Seq(Bytes) /\ Len(queued') = BufSize - 1
      /\ \A i \in 1..(BufSize - 2) : queued'[i] = queued[i + 1]
      /\ queued'[BufSize - 1] = b
  BY <1>1, <1>6, <1>7
<1>9. Len(queued') = Wrap(head' - tail' + BufSize)
  BY <1>1, <1>2, <1>3, <1>4, <1>8 DEF Wrap
<1>10. ASSUME NEW i \in 1..Len(queued')
       PROVE  queued'[i] = buf'[Wrap(tail' + i - 1)]
  <2>1. CASE i = BufSize - 1
    <3>1. Wrap(tail' + i - 1) = head
      BY <1>1, <1>2, <1>4, <2>1 DEF Wrap
    <3> QED BY <1>2, <1>6, <1>8, <2>1, <3>1
  <2>2. CASE i # BufSize - 1
    <3>1. i \in 1..(BufSize - 2) /\ i + 1 \in 1..Len(queued)
      BY <1>1, <1>5, <1>8, <2>2
    <3>2. /\ Wrap(tail' + i - 1) = Wrap(tail + (i + 1) - 1)
          /\ Wrap(tail' + i - 1) # head /\ Wrap(tail' + i - 1) \in 0..(BufSize - 1)
      BY <1>1, <1>2, <1>4, <3>1 DEF Wrap
    <3>3. queued[i + 1] = buf[Wrap(tail + (i + 1) - 1)]
      BY <3>1 DEF Ring
    <3> QED BY <1>2, <1>6, <1>8, <3>1, <3>2, <3>3
  <2> QED BY <2>1, <2>2
<1> QED BY <1>2, <1>3, <1>4, <1>6, <1>8, <1>9, <1>10 DEF Ring
----------------------------------------------------------------------------
LEMMA QueueInit == Init => QueueHolds
<1> SUFFICES ASSUME Init PROVE QueueHolds
  OBVIOUS
<1>1. BufSize \in Nat \ {0, 1} /\ Nobody \notin Users
  BY DevicesAssumption DEF Queue!IntQueueAssumption
<1>2. Queue!Init
  BY DEF Init
<1>3. /\ head = 0 /\ tail = 0 /\ queued = <<>> /\ waiter = Nobody /\ queueLock = Nobody
      /\ crowded = FALSE /\ side \in {"input", "output"} /\ user = [t \in Users |-> "out"]
  BY <1>2 DEF Queue!Init
<1>4. buf \in [0..(BufSize - 1) -> Bytes]
  BY <1>2 DEF Queue!Init
<1>5. Queue!TypeOK
  BY <1>1, <1>3, <1>4 DEF Queue!TypeOK, Queue!Stages
<1>6. Ring
  BY <1>1, <1>3 DEF Ring, Wrap
<1> QED BY <1>1, <1>3, <1>5, <1>6
        DEF QueueHolds, WokenHolds, Queue!NoSleepOnBytes, Queue!CrowdedByTwo

\* What the handler, serial_flush and the poll do to the waiting thread.
Wake == IF waiter = Nobody THEN UNCHANGED <<user, waiter>>
        ELSE user' = [user EXCEPT ![waiter] = "woken"] /\ waiter' = Nobody

\* A wake-up keeps the lock with the thread that is woken.
LEMMA WakeKeepsThreads ==
  ASSUME QueueHolds, Wake, UNCHANGED <<side, queueLock, crowded>>
  PROVE  /\ user' \in [Users -> Queue!Stages] /\ waiter' \in Users \cup {Nobody}
         /\ Queue!NoSleepOnBytes' /\ Queue!CrowdedByTwo' /\ WokenHolds'
<1>1. Nobody \notin Users
  BY DevicesAssumption DEF Queue!IntQueueAssumption
<1>2. waiter' = Nobody
  BY DEF Wake
<1>3. user \in [Users -> Queue!Stages] /\ waiter \in Users \cup {Nobody}
  BY DEF QueueHolds, Queue!TypeOK
<1>4. \A t \in Users : user[t] = "blocked" <=> waiter = t
  BY DEF QueueHolds, Queue!NoSleepOnBytes
<1>5. waiter # Nobody => queueLock = waiter
  BY DEF QueueHolds, Queue!NoSleepOnBytes
<1>6. user' \in [Users -> Queue!Stages]
  BY <1>3 DEF Wake, Queue!Stages
<1>7. \A t \in Users : user'[t] # "blocked"
  BY <1>1, <1>3, <1>4 DEF Wake
<1>8. \A t \in Users : user[t] = "locking" => user'[t] = "locking"
  BY <1>3, <1>4 DEF Wake
<1>9. WokenHolds'
  BY <1>3, <1>5 DEF Wake, QueueHolds, WokenHolds
<1> QED BY <1>1, <1>2, <1>6, <1>7, <1>8, <1>9
        DEF QueueHolds, Queue!NoSleepOnBytes, Queue!CrowdedByTwo

\* A thread that gets the lock to wait with.
LEMMA BlockKeeps ==
  ASSUME QueueHolds, NEW t \in Users, user[t] \in {"out", "released", "locking"},
         ~crowded, queueLock = Nobody, Queue!Stuck \/ user[t] = "locking", Queue!Block(t)
  PROVE  QueueHolds'
<1>1. Nobody \notin Users
  BY DevicesAssumption DEF Queue!IntQueueAssumption
<1>2. Queue!TypeOK /\ Ring /\ UNCHANGED <<side, buf, head, tail, queued>> /\ queueLock' = t
  BY DEF QueueHolds, Queue!Block
<1>3. Ring' /\ (Queue!Stuck' <=> Queue!Stuck)
  BY <1>2 DEF Ring, Queue!Stuck, Queue!Empty, Queue!Full
<1>4. /\ waiter = Nobody
      /\ \A u \in Users : user[u] # "blocked" /\ user[u] # "woken"
  BY <1>1 DEF QueueHolds, Queue!NoSleepOnBytes, WokenHolds
<1>5. CASE Queue!Stuck
  <2>1. waiter' = t /\ user' = [user EXCEPT ![t] = "blocked"] /\ crowded' = crowded
    BY <1>5 DEF Queue!Block
  <2>2. Queue!TypeOK'
    BY <1>2, <2>1 DEF Queue!TypeOK, Queue!Stages
  <2>3. \A u \in Users : user'[u] = IF u = t THEN "blocked" ELSE user[u]
    BY <1>2, <2>1 DEF Queue!TypeOK
  <2>4. Queue!NoSleepOnBytes' /\ WokenHolds'
    BY <1>2, <1>3, <1>4, <1>5, <2>1, <2>3 DEF Queue!NoSleepOnBytes, WokenHolds
  <2>5. Queue!CrowdedByTwo'
    BY <2>1 DEF Queue!CrowdedByTwo
  <2> QED BY <1>3, <2>2, <2>4, <2>5 DEF QueueHolds
<1>6. CASE ~Queue!Stuck
  <2>1. crowded' = TRUE /\ UNCHANGED <<waiter, user>> /\ user[t] = "locking"
    BY <1>6 DEF Queue!Block
  <2>2. Queue!TypeOK'
    BY <1>2, <2>1 DEF Queue!TypeOK
  <2>3. Queue!NoSleepOnBytes' /\ WokenHolds' /\ Queue!CrowdedByTwo'
    BY <1>1, <1>4, <2>1 DEF QueueHolds, Queue!NoSleepOnBytes, WokenHolds, Queue!CrowdedByTwo
  <2> QED BY <1>3, <2>2, <2>3 DEF QueueHolds
<1> QED BY <1>5, <1>6

\* Every step of a user, of the handler and of the serial driver keeps it.
LEMMA QueueStep ==
  ASSUME QueueHolds, Queue!Next
  PROVE  QueueHolds'
<1>1. Nobody \notin Users
  BY DevicesAssumption DEF Queue!IntQueueAssumption
<1>2. Queue!TypeOK /\ Ring /\ ~crowded
  BY DEF QueueHolds, Queue!Next
<1>3. ASSUME NEW t \in Users, Queue!Finish(t) PROVE QueueHolds'
  <2>1. /\ user[t] \in {"out", "released"} /\ ~Queue!Stuck /\ Queue!Move
        /\ user' = [user EXCEPT ![t] = "out"]
        /\ UNCHANGED <<side, queueLock, waiter, crowded>>
    BY <1>3 DEF Queue!Finish
  <2>2. Ring' /\ Queue!TypeOK'
    <3>1. CASE side = "input"
      <4>1. Queue!GetByte /\ ~Queue!Empty
        BY <2>1, <3>1 DEF Queue!Move, Queue!Stuck
      <4> QED BY <1>2, <2>1, <4>1, GetKeepsRing DEF Queue!TypeOK, Queue!Stages
    <3>2. CASE side # "input"
      <4>1. ~Queue!Full /\ \E b \in Bytes : Queue!PutByte(b)
        BY <2>1, <3>2 DEF Queue!Move, Queue!Stuck
      <4> QED BY <1>2, <2>1, <4>1, PutKeepsRing DEF Queue!TypeOK, Queue!Stages
    <3> QED BY <3>1, <3>2
  <2>3. waiter = Nobody
    BY <2>1 DEF QueueHolds, Queue!NoSleepOnBytes
  <2>4. \A u \in Users : user'[u] = IF u = t THEN "out" ELSE user[u]
    BY <1>2, <2>1 DEF Queue!TypeOK
  <2>5. Queue!NoSleepOnBytes' /\ WokenHolds' /\ Queue!CrowdedByTwo'
    BY <1>2, <2>1, <2>3, <2>4
    DEF QueueHolds, Queue!NoSleepOnBytes, WokenHolds, Queue!CrowdedByTwo
  <2> QED BY <2>2, <2>5 DEF QueueHolds
<1>4. ASSUME NEW t \in Users, Queue!Wait(t) PROVE QueueHolds'
  BY <1>2, <1>4, BlockKeeps DEF Queue!Wait
<1>5. ASSUME NEW t \in Users, Queue!GetLock(t) PROVE QueueHolds'
  BY <1>2, <1>5, BlockKeeps DEF Queue!GetLock
<1>6. ASSUME NEW t \in Users, NEW s \in {"locking", "released"},
             user[t] # "blocked", user' = [user EXCEPT ![t] = s],
             queueLock' = queueLock \/ (user[t] = "woken" /\ queueLock' = Nobody),
             UNCHANGED <<side, buf, head, tail, waiter, crowded, queued>>
      PROVE  QueueHolds'
  <2>1. Ring' /\ (Queue!Stuck' <=> Queue!Stuck)
    BY <1>2, <1>6 DEF Ring, Queue!Stuck, Queue!Empty, Queue!Full
  <2>2. Queue!TypeOK'
    BY <1>2, <1>6 DEF Queue!TypeOK, Queue!Stages
  <2>3. \A u \in Users : user'[u] = IF u = t THEN s ELSE user[u]
    BY <1>2, <1>6 DEF Queue!TypeOK
  <2>4. user[t] = "woken" => queueLock = t /\ waiter = Nobody
    BY <1>6 DEF QueueHolds, WokenHolds, Queue!NoSleepOnBytes, Queue!TypeOK
  <2>5. Queue!NoSleepOnBytes'
    BY <1>6, <2>1, <2>3, <2>4 DEF QueueHolds, Queue!NoSleepOnBytes
  <2>6. WokenHolds' /\ Queue!CrowdedByTwo'
    BY <1>2, <1>6, <2>3, <2>4 DEF QueueHolds, WokenHolds, Queue!CrowdedByTwo
  <2> QED BY <2>1, <2>2, <2>5, <2>6 DEF QueueHolds
<1>7. ASSUME NEW t \in Users, Queue!WaitForLock(t) PROVE QueueHolds'
  BY <1>6, <1>7 DEF Queue!WaitForLock
<1>8. ASSUME NEW t \in Users, Queue!Leave(t) PROVE QueueHolds'
  BY <1>6, <1>8 DEF Queue!Leave
<1>9. CASE Queue!PutPolled
  <2>1. Wake /\ UNCHANGED <<side, queueLock, crowded>>
    BY <1>9 DEF Queue!PutPolled, Wake
  <2> QED BY <1>2, <1>9, <2>1, WakeKeepsThreads, PollKeepsRing DEF QueueHolds, Queue!TypeOK
<1>10. CASE Queue!Handler
  <2>1. Wake /\ UNCHANGED <<side, queueLock, crowded>> /\ ~Queue!Unserved /\ Queue!MoveBack
    BY <1>10 DEF Queue!Handler, Wake
  <2>2. CASE side = "input"
    <3>1. ~Queue!Full /\ \E b \in Bytes : Queue!PutByte(b)
      BY <2>1, <2>2 DEF Queue!MoveBack, Queue!Unserved
    <3> QED BY <1>2, <2>1, <3>1, WakeKeepsThreads, PutKeepsRing DEF QueueHolds, Queue!TypeOK
  <2>3. CASE side # "input"
    <3>1. ~Queue!Empty /\ Queue!GetByte
      BY <2>1, <2>3 DEF Queue!MoveBack, Queue!Unserved
    <3> QED BY <1>2, <2>1, <3>1, WakeKeepsThreads, GetKeepsRing DEF QueueHolds, Queue!TypeOK
  <2> QED BY <2>2, <2>3
<1>11. CASE Queue!Flush
  <2>1. /\ Wake /\ UNCHANGED <<side, queueLock, crowded, buf, head>>
        /\ tail' = head /\ queued' = <<>>
    BY <1>11 DEF Queue!Flush, Wake
  <2>2. BufSize \in Nat \ {0, 1} /\ head \in 0..(BufSize - 1)
    BY <1>2, DevicesAssumption DEF Queue!IntQueueAssumption, Queue!TypeOK
  <2>3. Ring'
    BY <2>1, <2>2 DEF Ring, Wrap
  <2> QED BY <1>2, <2>1, <2>3, WakeKeepsThreads DEF QueueHolds, Queue!TypeOK
<1> QED BY <1>3, <1>4, <1>5, <1>7, <1>8, <1>9, <1>10, <1>11 DEF Queue!Next

LEMMA QueueUnchanged ==
  ASSUME QueueHolds, UNCHANGED intqVars
  PROVE  QueueHolds'
BY DEF QueueHolds, intqVars, Queue!TypeOK, Ring, Queue!NoSleepOnBytes, Queue!CrowdedByTwo,
       WokenHolds, Queue!Stuck, Queue!Empty, Queue!Full

\* The invariant holds of the initial states and of every step, also of the
\* other parts of MCProgress, which leave the queue alone.
THEOREM QueueInvariant == Spec => []QueueHolds
<1>1. ASSUME QueueHolds, [Next]_vars PROVE QueueHolds'
  BY <1>1, QueueStep, QueueUnchanged DEF Next, vars, OnAlarm, OnQueue, OnDisk, OnLock
<1> QED BY <1>1, QueueInit, PTL DEF Spec

\* intq_getc and intq_putc: for every size of the ring the bytes come out in
\* the order in which they went in, no thread sleeps on a byte or on room,
\* and the assertion of wait fails only where two threads use one side.
THEOREM RingServesInOrder == Spec => []QueueRight
<1>1. ASSUME QueueHolds PROVE QueueRight
  <2>1. BufSize \in Nat \ {0, 1}
    BY DevicesAssumption DEF Queue!IntQueueAssumption
  <2>2. Queue!TypeOK /\ Ring
    BY <1>1 DEF QueueHolds
  <2>3. head \in 0..(BufSize - 1) /\ tail \in 0..(BufSize - 1)
    BY <2>2 DEF Queue!TypeOK
  <2>4. Len(queued) = (head - tail + BufSize) % BufSize
    <3>1. head - tail + BufSize \in 0..(2 * BufSize - 1)
      BY <2>1, <2>3
    <3> QED BY <2>1, <2>2, <3>1, ModWrap DEF Ring
  <2>5. ASSUME NEW i \in 1..Len(queued)
        PROVE  queued[i] = buf[(tail + i - 1) % BufSize]
    <3>1. Len(queued) \in 0..(BufSize - 1)
      BY <2>2, FullByLength
    <3>2. tail + i - 1 \in 0..(2 * BufSize - 1)
      BY <2>1, <2>3, <3>1
    <3>3. (tail + i - 1) % BufSize = Wrap(tail + i - 1)
      BY <2>1, <3>2, ModWrap
    <3> QED BY <2>2, <3>3 DEF Ring
  <2>6. Queue!RingIsFifo
    BY <2>4, <2>5 DEF Queue!RingIsFifo
  <2> QED BY <1>1, <2>6 DEF QueueHolds, QueueRight
<1> QED BY <1>1, QueueInvariant, PTL
----------------------------------------------------------------------------
(* The disk: one request at a time has the channel, and what the device is   *)
(* doing follows from how far that request is.                               *)

Holding == {"select", "command", "down", "poll", "leave"}

\* The thread with the channel is the one inside the critical section.
OneHolder ==
  \A t \in Requesters : phase[t] \in Holding <=> channelLock = t

\* What the disk may be doing while the request of t is where it is.  A
\* write may be over for its thread before the disk has written the data.
DeviceFollows ==
  /\ channelLock = Unowned => status \in {"idle", "commit"}
  /\ \A t \in Requesters : channelLock = t =>
       /\ phase[t] \in {"select", "leave"} => status \in {"idle", "commit"}
       /\ phase[t] = "leave" /\ request[t].op = "read" => status = "idle"
       /\ phase[t] = "command" => status = "idle"
       /\ phase[t] \in {"down", "poll"} /\ request[t].op = "read" => status \in {"fetch", "ready"}
       /\ phase[t] = "down" /\ request[t].op = "write" => status \in {"idle", "commit"}
       /\ phase[t] = "poll" /\ request[t].op = "write" => status \in {"accept", "ready"}
       /\ phase[t] \in Holding \ {"select"} => selected = request[t].at

\* The contents of the disks once the data on its way is written.
Committed == IF status = "commit" THEN [disk EXCEPT ![selected] = transfer] ELSE disk

\* The request of t is a write whose data the disk has.
Sent(t) == channelLock = t /\ phase[t] \in {"down", "leave"} /\ request[t].op = "write"

\* The disks have what the writes that returned have written, and the data
\* of the write that is about to return.
ContentsRight ==
  /\ (\A t \in Requesters : ~Sent(t)) => Committed = written
  /\ \A t \in Requesters : Sent(t) =>
       Committed = [written EXCEPT ![request[t].at] = request[t].data]

\* How far the request that has the channel is.
Where == IF channelLock \in Requesters THEN phase[channelLock] ELSE "away"

\* The completions that the disk has sent and the request that has the
\* channel has not yet consumed, or, below zero, that it still owes after a
\* request went on without them.
Balance ==
  IF status = "commit" /\ Where # "down" THEN -1
  ELSE IF status = "fetch" /\ Where = "poll" THEN -1
  ELSE IF status \in {"ready", "idle"} /\ Where = "down" THEN 1
  ELSE 0

\* Completions come from commands or from interrupts that no command caused.
\* An interrupt may be lost in another one or in Select, never made.
Balanced == completionWait + (IF irq THEN 1 ELSE 0) <= spurious + Balance

\* Types, without the bound on completionWait that Balanced gives.
DiskTypes ==
  /\ channelLock \in Requesters \cup {Unowned}
  /\ request \in [Requesters -> Disk!Requests] /\ phase \in [Requesters -> Disk!Phases]
  /\ selected \in Places /\ status \in Disk!Statuses /\ transfer \in Data
  /\ disk \in [Places -> Data] /\ written \in [Places -> Data]
  /\ irq \in BOOLEAN /\ completionWait \in Nat /\ spurious \in 0..MaxSpurious

\* The inductive invariant of ide_read and ide_write.
DiskHolds ==
  DiskTypes /\ OneHolder /\ DeviceFollows /\ ContentsRight /\ Balanced /\ Disk!ReadsRight
----------------------------------------------------------------------------
LEMMA DiskInit == Init => DiskHolds
<1> SUFFICES ASSUME Init PROVE DiskHolds
  OBVIOUS
<1>1. Unowned \notin Requesters /\ Places # {} /\ Data # {} /\ MaxSpurious \in Nat
  BY DevicesAssumption DEF Disk!IdeAssumption
<1>2. Disk!Init
  BY DEF Init
<1>3. Disk!Blank \in Data /\ (CHOOSE p \in Places : TRUE) \in Places
  BY <1>1 DEF Disk!Blank
<1>4. DiskTypes
  <2>1. \A t \in Requesters : request[t] \in Disk!Requests
    BY <1>2, <1>3 DEF Disk!Init, Disk!Requests
  <2>2. request \in [Requesters -> Disk!Requests]
    BY <1>2, <2>1 DEF Disk!Init
  <2>3. phase \in [Requesters -> Disk!Phases] /\ status \in Disk!Statuses
    BY <1>2 DEF Disk!Init, Disk!Phases, Disk!Statuses
  <2>4. selected \in Places /\ transfer \in Data /\ disk \in [Places -> Data] /\ written = disk
    BY <1>2, <1>3 DEF Disk!Init
  <2>5. channelLock = Unowned /\ irq = FALSE /\ completionWait = 0 /\ spurious = 0
    BY <1>2 DEF Disk!Init
  <2>6. 0 \in Nat /\ 0 \in 0..MaxSpurious
    BY <1>1
  <2> QED BY <2>2, <2>3, <2>4, <2>5, <2>6, Zenon DEF DiskTypes
<1>5. OneHolder /\ DeviceFollows /\ Disk!ReadsRight
  BY <1>1, <1>2 DEF Disk!Init, OneHolder, DeviceFollows, Disk!ReadsRight, Holding
<1>6. ContentsRight
  BY <1>1, <1>2 DEF Disk!Init, ContentsRight, Sent, Committed
<1>7. Balanced
  BY <1>1, <1>2 DEF Disk!Init, Balanced, Balance, Where
<1> QED BY <1>4, <1>5, <1>6, <1>7 DEF DiskHolds

\* What a thread does to its own phase.
LEMMA GotoMoves ==
  ASSUME DiskTypes, NEW t \in Requesters, NEW p \in Disk!Phases, Disk!Goto(t, p)
  PROVE  /\ phase' \in [Requesters -> Disk!Phases] /\ phase'[t] = p
         /\ \A u \in Requesters \ {t} : phase'[u] = phase[u]
BY DEF DiskTypes, Disk!Goto

\* While t has the channel no other thread is in the critical section.
LEMMA Alone ==
  ASSUME OneHolder, NEW t \in Requesters, phase[t] \in Holding
  PROVE  channelLock = t /\ Where = phase[t]
         /\ \A u \in Requesters : phase[u] \in Holding => u = t
BY DEF OneHolder, Where

\* A thread that calls or takes the channel.
LEMMA EnteringKeeps ==
  ASSUME DiskHolds, NEW t \in Requesters, Disk!Call(t) \/ Disk!Enter(t)
  PROVE  DiskHolds'
<1>0. Unowned \notin Requesters
  BY DevicesAssumption DEF Disk!IdeAssumption
<1>1. DiskTypes /\ OneHolder
  BY DEF DiskHolds
<1>2. /\ UNCHANGED <<selected, completionWait, written, status, transfer, disk, irq, spurious>>
      /\ Committed' = Committed
  BY DEF Disk!Call, Disk!Enter, Disk!deviceVars, Committed
<1>3. CASE Disk!Call(t)
  <2>1. /\ phase[t] = "away" /\ channelLock' = channelLock /\ channelLock # t
        /\ \E r \in Disk!Requests : request' = [request EXCEPT ![t] = r]
        /\ Disk!Goto(t, "enter")
    BY <1>1, <1>3 DEF Disk!Call, OneHolder, Holding
  <2>2. /\ phase' \in [Requesters -> Disk!Phases] /\ phase'[t] = "enter"
        /\ \A u \in Requesters \ {t} : phase'[u] = phase[u] /\ request'[u] = request[u]
    BY <1>1, <2>1, GotoMoves DEF Disk!Phases, DiskTypes
  <2>3. DiskTypes'
    BY <1>1, <1>2, <2>1, <2>2 DEF DiskTypes
  <2>4. OneHolder'
    BY <1>1, <2>1, <2>2 DEF OneHolder, Holding
  <2>5. DeviceFollows'
    BY <1>2, <2>1, <2>2 DEF DiskHolds, DeviceFollows
  <2>6. ContentsRight'
    BY <1>2, <2>1, <2>2 DEF DiskHolds, ContentsRight, Sent
  <2>7. Balanced'
    <3>1. Where' = Where
      BY <2>1, <2>2 DEF Where
    <3> QED BY <1>2, <3>1 DEF DiskHolds, Balanced, Balance
  <2>8. Disk!ReadsRight'
    BY <1>2, <2>1, <2>2 DEF DiskHolds, Disk!ReadsRight
  <2> QED BY <2>3, <2>4, <2>5, <2>6, <2>7, <2>8 DEF DiskHolds
<1>4. CASE Disk!Enter(t)
  <2>1. /\ phase[t] = "enter" /\ channelLock = Unowned /\ channelLock' = t
        /\ request' = request /\ Disk!Goto(t, "select")
    BY <1>4 DEF Disk!Enter
  <2>2. /\ phase' \in [Requesters -> Disk!Phases] /\ phase'[t] = "select"
        /\ \A u \in Requesters \ {t} : phase'[u] = phase[u]
    BY <1>1, <2>1, GotoMoves DEF Disk!Phases
  <2>3. DiskTypes'
    BY <1>1, <1>2, <2>1, <2>2 DEF DiskTypes
  <2>4. OneHolder'
    BY <1>0, <1>1, <2>1, <2>2 DEF OneHolder, Holding
  <2>5. DeviceFollows'
    BY <1>0, <1>2, <2>1, <2>2 DEF DiskHolds, DeviceFollows, Holding
  <2>6. ContentsRight'
    BY <1>0, <1>2, <2>1, <2>2 DEF DiskHolds, ContentsRight, Sent
  <2>7. Balanced'
    <3>1. Where = "away" /\ Where' = "select"
      BY <1>0, <2>1, <2>2 DEF Where
    <3> QED BY <1>2, <3>1 DEF DiskHolds, Balanced, Balance
  <2>8. Disk!ReadsRight'
    BY <1>2, <2>1, <2>2 DEF DiskHolds, Disk!ReadsRight
  <2> QED BY <2>3, <2>4, <2>5, <2>6, <2>7, <2>8 DEF DiskHolds
<1> QED BY <1>3, <1>4

\* ReadsRight after a step of the thread with the channel: no other thread is
\* about to return.
LEMMA OthersRead ==
  ASSUME DiskHolds, NEW t \in Requesters, phase[t] \in Holding,
         \A u \in Requesters \ {t} : phase'[u] = phase[u],
         phase'[t] = "leave" /\ request'[t].op = "read" =>
           request'[t].data = written'[request'[t].at]
  PROVE  Disk!ReadsRight'
BY Alone DEF DiskHolds, Disk!ReadsRight, Holding

LEMMA SelectKeeps ==
  ASSUME DiskHolds, NEW t \in Requesters, Disk!Select(t)
  PROVE  DiskHolds'
<1>1. /\ phase[t] = "select" /\ status = "idle" /\ selected' = request[t].at /\ irq' = FALSE
      /\ UNCHANGED <<channelLock, request, completionWait, written, status, transfer, disk, spurious>>
      /\ DiskTypes /\ OneHolder
  BY DEF Disk!Select, DiskHolds
<1>2. channelLock = t /\ Where = "select"
  BY <1>1, Alone DEF Holding
<1>3. /\ phase' \in [Requesters -> Disk!Phases] /\ phase'[t] = "command"
      /\ \A u \in Requesters \ {t} : phase'[u] = phase[u]
  BY <1>1, GotoMoves DEF Disk!Select, Disk!Phases
<1>4. request[t] \in Disk!Requests
  BY <1>1 DEF DiskTypes
<1>5. DiskTypes'
  BY <1>1, <1>3, <1>4 DEF DiskTypes, Disk!Requests
<1>6. OneHolder' /\ DeviceFollows'
  BY <1>1, <1>2, <1>3 DEF OneHolder, Holding, DiskHolds, DeviceFollows
<1>7. ContentsRight'
  <2>1. Committed' = Committed
    BY <1>1 DEF Committed
  <2>2. \A u \in Requesters : ~Sent(u) /\ ~Sent(u)'
    BY <1>1, <1>2, <1>3 DEF Sent
  <2> QED BY <1>1, <2>1, <2>2 DEF DiskHolds, ContentsRight
<1>8. Balanced'
  <2>1. Where' = "command"
    BY <1>1, <1>2, <1>3 DEF Where
  <2> QED BY <1>1, <1>2, <2>1 DEF DiskHolds, DiskTypes, Balanced, Balance
<1>9. Disk!ReadsRight'
  BY <1>1, <1>3, OthersRead DEF Holding
<1> QED BY <1>5, <1>6, <1>7, <1>8, <1>9 DEF DiskHolds

LEMMA IssueKeeps ==
  ASSUME DiskHolds, NEW t \in Requesters, Disk!Issue(t)
  PROVE  DiskHolds'
<1>1. /\ phase[t] = "command" /\ DiskTypes /\ OneHolder
      /\ UNCHANGED <<channelLock, request, selected, completionWait, written, transfer, disk, irq,
                     spurious>>
  BY DEF Disk!Issue, DiskHolds
<1>2. channelLock = t /\ Where = "command" /\ status = "idle" /\ selected = request[t].at
  BY <1>1, Alone DEF Holding, DiskHolds, DeviceFollows
<1>3. \/ request[t].op = "read" /\ status' = "fetch" /\ Disk!Goto(t, "down")
      \/ request[t].op = "write" /\ status' = "accept" /\ Disk!Goto(t, "poll")
  BY DEF Disk!Issue
<1>4. /\ phase' \in [Requesters -> Disk!Phases]
      /\ \A u \in Requesters \ {t} : phase'[u] = phase[u]
      /\ \/ request[t].op = "read" /\ status' = "fetch" /\ phase'[t] = "down"
         \/ request[t].op = "write" /\ status' = "accept" /\ phase'[t] = "poll"
  BY <1>1, <1>3, GotoMoves DEF Disk!Phases
<1>5. DiskTypes'
  BY <1>1, <1>4 DEF DiskTypes, Disk!Statuses
<1>6. OneHolder' /\ DeviceFollows'
  <2>1. OneHolder'
    BY <1>1, <1>2, <1>4 DEF OneHolder, Holding
  <2>2. DeviceFollows'
    <3>1. channelLock' = t /\ phase'[t] \in {"down", "poll"}
      BY <1>1, <1>2, <1>4
    <3>2. t # Unowned
      BY DevicesAssumption DEF Disk!IdeAssumption
    <3> QED BY <1>1, <1>2, <1>4, <3>1, <3>2 DEF DeviceFollows
  <2> QED BY <2>1, <2>2
<1>7. ContentsRight'
  <2>1. Committed' = Committed
    BY <1>1, <1>2, <1>4 DEF Committed
  <2>2. \A u \in Requesters : ~Sent(u) /\ ~Sent(u)'
    BY <1>1, <1>2, <1>4 DEF Sent
  <2> QED BY <1>1, <2>1, <2>2 DEF DiskHolds, ContentsRight
<1>8. Balanced'
  <2>1. Where' = phase'[t]
    BY <1>1, <1>2 DEF Where
  <2> QED BY <1>1, <1>2, <1>4, <2>1 DEF DiskHolds, DiskTypes, Balanced, Balance
<1>9. Disk!ReadsRight'
  BY <1>1, <1>4, OthersRead DEF Holding
<1> QED BY <1>5, <1>6, <1>7, <1>8, <1>9 DEF DiskHolds

\* sema_down: a request that goes on without its own completion leaves one
\* owed, which Balance counts.
LEMMA DownKeeps ==
  ASSUME DiskHolds, NEW t \in Requesters, Disk!Down(t)
  PROVE  DiskHolds'
<1>1. /\ phase[t] = "down" /\ completionWait > 0 /\ completionWait' = completionWait - 1
      /\ DiskTypes /\ OneHolder
      /\ UNCHANGED <<channelLock, request, selected, written, status, transfer, disk, irq, spurious>>
  BY DEF Disk!Down, Disk!deviceVars, DiskHolds
<1>2. channelLock = t /\ Where = "down" /\ selected = request[t].at
  BY <1>1, Alone DEF Holding, DiskHolds, DeviceFollows
<1>3. request[t].op \in {"read", "write"}
  BY <1>1 DEF DiskTypes, Disk!Requests
<1>4. /\ phase' \in [Requesters -> Disk!Phases]
      /\ \A u \in Requesters \ {t} : phase'[u] = phase[u]
      /\ phase'[t] = IF request[t].op = "read" THEN "poll" ELSE "leave"
  BY <1>1, GotoMoves DEF Disk!Down, Disk!Phases
<1>5. \/ request[t].op = "read" /\ status \in {"fetch", "ready"}
      \/ request[t].op = "write" /\ status \in {"idle", "commit"}
  BY <1>1, <1>2, <1>3 DEF DiskHolds, DeviceFollows
<1>6. DiskTypes'
  BY <1>1, <1>4 DEF DiskTypes
<1>7. OneHolder' /\ DeviceFollows'
  BY <1>1, <1>2, <1>3, <1>4, <1>5 DEF OneHolder, Holding, DiskHolds, DeviceFollows
<1>8. ContentsRight'
  <2>1. Committed' = Committed
    BY <1>1 DEF Committed
  <2>2. \A u \in Requesters : Sent(u)' <=> Sent(u)
    BY <1>1, <1>2, <1>3, <1>4 DEF Sent
  <2> QED BY <1>1, <2>1, <2>2 DEF DiskHolds, ContentsRight
<1>9. Balanced'
  <2>1. Where' = phase'[t]
    BY <1>1, <1>2 DEF Where
  <2> QED BY <1>1, <1>2, <1>4, <1>5, <2>1 DEF DiskHolds, DiskTypes, Balanced, Balance
<1>10. Disk!ReadsRight'
  BY <1>1, <1>3, <1>4, OthersRead DEF Holding
<1> QED BY <1>6, <1>7, <1>8, <1>9, <1>10 DEF DiskHolds

\* input_sector: the data of the sector is what was written, since a read is
\* polled only when no write is on its way.
LEMMA InputKeeps ==
  ASSUME DiskHolds, NEW t \in Requesters, Disk!Input(t)
  PROVE  DiskHolds'
<1>1. /\ phase[t] = "poll" /\ status = "ready" /\ request[t].op = "read" /\ status' = "idle"
      /\ request' = [request EXCEPT ![t].data = disk[selected]] /\ DiskTypes /\ OneHolder
      /\ UNCHANGED <<channelLock, selected, completionWait, written, transfer, disk, irq, spurious>>
  BY DEF Disk!Input, Disk!Polled, DiskHolds
<1>2. channelLock = t /\ Where = "poll" /\ selected = request[t].at
  BY <1>1, Alone DEF Holding, DiskHolds, DeviceFollows
<1>3. /\ phase' \in [Requesters -> Disk!Phases] /\ phase'[t] = "leave"
      /\ \A u \in Requesters \ {t} : phase'[u] = phase[u]
  BY <1>1, GotoMoves DEF Disk!Input, Disk!Phases
<1>4. /\ request' \in [Requesters -> Disk!Requests]
      /\ request'[t].at = request[t].at /\ request'[t].op = "read"
      /\ request'[t].data = disk[selected]
      /\ \A u \in Requesters \ {t} : request'[u] = request[u]
  BY <1>1 DEF DiskTypes, Disk!Requests
<1>5. DiskTypes'
  BY <1>1, <1>3, <1>4 DEF DiskTypes, Disk!Statuses
<1>6. OneHolder' /\ DeviceFollows'
  BY <1>1, <1>2, <1>3, <1>4 DEF OneHolder, Holding, DiskHolds, DeviceFollows
<1>7. Committed' = Committed /\ Committed = disk
  BY <1>1 DEF Committed
<1>8. \A u \in Requesters : ~Sent(u) /\ ~Sent(u)'
  BY <1>1, <1>2, <1>3, <1>4 DEF Sent
<1>9. disk = written /\ ContentsRight'
  BY <1>1, <1>7, <1>8 DEF DiskHolds, ContentsRight
<1>10. Balanced'
  <2>1. Where' = "leave"
    BY <1>1, <1>2, <1>3 DEF Where
  <2> QED BY <1>1, <1>2, <2>1 DEF DiskHolds, DiskTypes, Balanced, Balance
<1>11. Disk!ReadsRight'
  <2>1. \A u \in Requesters \ {t} : phase'[u] # "leave"
    BY <1>1, <1>3, Alone DEF DiskHolds, Holding
  <2> QED BY <1>1, <1>2, <1>4, <1>9, <2>1 DEF Disk!ReadsRight
<1> QED BY <1>5, <1>6, <1>9, <1>10, <1>11 DEF DiskHolds

LEMMA OutputKeeps ==
  ASSUME DiskHolds, NEW t \in Requesters, Disk!Output(t)
  PROVE  DiskHolds'
<1>1. /\ phase[t] = "poll" /\ status = "ready" /\ request[t].op = "write"
      /\ status' = "commit" /\ transfer' = request[t].data /\ DiskTypes /\ OneHolder
      /\ UNCHANGED <<channelLock, request, selected, completionWait, written, disk, irq, spurious>>
  BY DEF Disk!Output, Disk!Polled, DiskHolds
<1>2. channelLock = t /\ Where = "poll" /\ selected = request[t].at
  BY <1>1, Alone DEF Holding, DiskHolds, DeviceFollows
<1>3. /\ phase' \in [Requesters -> Disk!Phases] /\ phase'[t] = "down"
      /\ \A u \in Requesters \ {t} : phase'[u] = phase[u]
  BY <1>1, GotoMoves DEF Disk!Output, Disk!Phases
<1>4. request[t].data \in Data
  BY <1>1 DEF DiskTypes, Disk!Requests
<1>5. DiskTypes'
  BY <1>1, <1>3, <1>4 DEF DiskTypes, Disk!Statuses
<1>6. OneHolder' /\ DeviceFollows'
  BY <1>1, <1>2, <1>3 DEF OneHolder, Holding, DiskHolds, DeviceFollows
<1>7. ContentsRight'
  <2>1. Committed' = [Committed EXCEPT ![request[t].at] = request[t].data]
    BY <1>1, <1>2 DEF Committed
  <2>2. /\ \A u \in Requesters : ~Sent(u)
        /\ Sent(t)' /\ \A u \in Requesters : Sent(u)' => u = t
    BY <1>1, <1>2, <1>3 DEF Sent
  <2> QED BY <1>1, <2>1, <2>2 DEF DiskHolds, ContentsRight
<1>8. Balanced'
  <2>1. Where' = "down"
    BY <1>1, <1>2, <1>3 DEF Where
  <2> QED BY <1>1, <1>2, <2>1 DEF DiskHolds, DiskTypes, Balanced, Balance
<1>9. Disk!ReadsRight'
  BY <1>1, <1>3, OthersRead DEF Holding
<1> QED BY <1>5, <1>6, <1>7, <1>8, <1>9 DEF DiskHolds

LEMMA LeaveKeeps ==
  ASSUME DiskHolds, NEW t \in Requesters, Disk!Leave(t)
  PROVE  DiskHolds'
<1>0. Unowned \notin Requesters
  BY DevicesAssumption DEF Disk!IdeAssumption
<1>1. /\ phase[t] = "leave" /\ channelLock' = Unowned /\ DiskTypes /\ OneHolder
      /\ written' = IF request[t].op = "read" THEN written
                    ELSE [written EXCEPT ![request[t].at] = request[t].data]
      /\ UNCHANGED <<request, selected, completionWait, status, transfer, disk, irq, spurious>>
  BY DEF Disk!Leave, Disk!deviceVars, DiskHolds
<1>2. channelLock = t /\ Where = "leave" /\ status \in {"idle", "commit"}
  BY <1>1, Alone DEF Holding, DiskHolds, DeviceFollows
<1>3. /\ phase' \in [Requesters -> Disk!Phases] /\ phase'[t] = "away"
      /\ \A u \in Requesters \ {t} : phase'[u] = phase[u]
  BY <1>1, GotoMoves DEF Disk!Leave, Disk!Phases
<1>4. request[t].op \in {"read", "write"} /\ request[t].data \in Data
  BY <1>1 DEF DiskTypes, Disk!Requests
<1>5. DiskTypes'
  BY <1>1, <1>3, <1>4 DEF DiskTypes
<1>6. OneHolder' /\ DeviceFollows'
  BY <1>0, <1>1, <1>2, <1>3 DEF OneHolder, Holding, DiskHolds, DeviceFollows
<1>7. ContentsRight'
  <2>1. Committed' = Committed
    BY <1>1 DEF Committed
  <2>2. Sent(t) <=> request[t].op = "write"
    BY <1>1, <1>2 DEF Sent
  <2>3. \A u \in Requesters : (Sent(u) => u = t) /\ ~Sent(u)'
    BY <1>0, <1>1, <1>2 DEF Sent
  <2> QED BY <1>1, <1>4, <2>1, <2>2, <2>3 DEF DiskHolds, ContentsRight
<1>8. Balanced'
  <2>1. Where' = "away"
    BY <1>0, <1>1 DEF Where
  <2> QED BY <1>1, <1>2, <2>1 DEF DiskHolds, DiskTypes, Balanced, Balance
<1>9. Disk!ReadsRight'
  BY <1>1, <1>3, OthersRead DEF Holding
<1> QED BY <1>5, <1>6, <1>7, <1>8, <1>9 DEF DiskHolds

\* The interrupt handler turns a pending interrupt into a completion.
LEMMA HandleKeeps ==
  ASSUME DiskHolds, Disk!Handle
  PROVE  DiskHolds'
<1>1. /\ irq = TRUE /\ irq' = FALSE /\ completionWait' = completionWait + 1 /\ DiskTypes
      /\ UNCHANGED <<channelLock, request, phase, selected, written, status, transfer, disk, spurious>>
  BY DEF Disk!Handle, DiskHolds, DiskTypes
<1>2. DiskTypes'
  <2>1. completionWait \in Nat
    BY <1>1, Zenon DEF DiskTypes
  <2>2. completionWait' \in Nat
    BY <1>1, <2>1
  <2>3. irq' \in BOOLEAN
    BY <1>1, Zenon
  <2> QED BY <1>1, <2>2, <2>3, Zenon DEF DiskTypes
<1>3. OneHolder' /\ DeviceFollows' /\ ContentsRight' /\ Disk!ReadsRight'
  BY <1>1 DEF DiskHolds, OneHolder, DeviceFollows, ContentsRight, Sent, Committed, Disk!ReadsRight
<1>4. Balance' = Balance
  BY <1>1 DEF Balance, Where
<1>5. Balanced'
  BY <1>1, <1>4 DEF DiskHolds, DiskTypes, Balanced, Balance
<1> QED BY <1>2, <1>3, <1>5 DEF DiskHolds

\* A completion that meets an interrupt that is still pending is lost in it.
LEMMA DeviceKeeps ==
  ASSUME DiskHolds, Disk!Device
  PROVE  DiskHolds'
<1>1. /\ DiskTypes /\ OneHolder
      /\ UNCHANGED <<channelLock, request, phase, selected, completionWait, written, transfer, spurious>>
      /\ \/ status = "fetch" /\ status' = "ready" /\ irq' = TRUE /\ disk' = disk
         \/ status = "accept" /\ status' = "ready" /\ irq' = irq /\ disk' = disk
         \/ /\ status = "commit" /\ status' = "idle" /\ irq' = TRUE
            /\ disk' = [disk EXCEPT ![selected] = transfer]
  BY DEF Disk!Device, Disk!threadVars, DiskHolds
<1>2. DiskTypes'
  BY <1>1 DEF DiskTypes, Disk!Statuses
<1>3. OneHolder' /\ Disk!ReadsRight'
  BY <1>1 DEF DiskHolds, OneHolder, Disk!ReadsRight
<1>4. DeviceFollows'
  BY <1>1 DEF DiskHolds, DeviceFollows
<1>5. ContentsRight'
  <2>1. Committed' = Committed /\ \A t \in Requesters : Sent(t)' <=> Sent(t)
    BY <1>1 DEF Committed, Sent
  <2> QED BY <1>1, <2>1 DEF DiskHolds, ContentsRight
<1>6. Balanced'
  <2>1. Where' = Where
    BY <1>1 DEF Where
  <2>2. Where \in {"down", "poll"} => status \in {"fetch", "ready", "idle", "commit", "accept"}
    BY <1>1 DEF DiskTypes, Disk!Statuses
  <2>3. status = "fetch" => Where \in {"down", "poll"}
    BY <1>1 DEF DiskHolds, DiskTypes, DeviceFollows, Where, OneHolder, Holding
  <2>4. status = "accept" => Where = "poll"
    BY <1>1 DEF DiskHolds, DiskTypes, DeviceFollows, Where, OneHolder, Holding, Disk!Requests
  <2> QED BY <1>1, <2>1, <2>3, <2>4 DEF DiskHolds, DiskTypes, Balanced, Balance
<1> QED BY <1>2, <1>3, <1>4, <1>5, <1>6 DEF DiskHolds

LEMMA GlitchKeeps ==
  ASSUME DiskHolds, Disk!Glitch
  PROVE  DiskHolds'
<1>0. MaxSpurious \in Nat
  BY DevicesAssumption DEF Disk!IdeAssumption
<1>1. /\ ~irq /\ irq' = TRUE /\ spurious < MaxSpurious /\ spurious' = spurious + 1 /\ DiskTypes
      /\ UNCHANGED <<channelLock, request, phase, selected, completionWait, written, status,
                     transfer, disk>>
  BY DEF Disk!Glitch, Disk!threadVars, DiskHolds
<1>2. DiskTypes'
  BY <1>0, <1>1 DEF DiskTypes
<1>3. OneHolder' /\ DeviceFollows' /\ ContentsRight' /\ Disk!ReadsRight'
  BY <1>1 DEF DiskHolds, OneHolder, DeviceFollows, ContentsRight, Sent, Committed, Disk!ReadsRight
<1>4. Balance' = Balance
  BY <1>1 DEF Balance, Where
<1>5. Balanced'
  BY <1>0, <1>1, <1>4 DEF DiskHolds, DiskTypes, Balanced, Balance
<1> QED BY <1>2, <1>3, <1>5 DEF DiskHolds

LEMMA DiskUnchanged ==
  ASSUME DiskHolds, UNCHANGED ideVars
  PROVE  DiskHolds'
BY DEF DiskHolds, ideVars, DiskTypes, OneHolder, DeviceFollows, ContentsRight, Sent, Committed,
       Balanced, Balance, Where, Disk!ReadsRight

\* The invariant holds of the initial states and of every step, also of the
\* other parts of MCProgress, which leave the disk alone.
THEOREM DiskInvariant == Spec => []DiskHolds
<1>1. ASSUME DiskHolds, Disk!Next PROVE DiskHolds'
  BY <1>1, EnteringKeeps, SelectKeeps, IssueKeeps, DownKeeps, InputKeeps, OutputKeeps, LeaveKeeps,
     HandleKeeps, DeviceKeeps, GlitchKeeps DEF Disk!Next, Disk!Step
<1>2. ASSUME DiskHolds, [Next]_vars PROVE DiskHolds'
  BY <1>1, <1>2, DiskUnchanged DEF Next, vars, OnAlarm, OnQueue, OnDisk, OnLock
<1> QED BY <1>2, DiskInit, PTL DEF Spec

\* ide_read, ide_write and interrupt_handler: for every set of threads and
\* sectors and every number of interrupts that no command caused, a read
\* returns what the last write of its sector has written, the polls end with
\* the data bit set, and without such interrupts every completion is matched.
THEOREM RequestsRight == Spec => []DiskRight
<1>1. ASSUME DiskHolds PROVE DiskRight
  <2>1. DiskTypes /\ Balanced /\ OneHolder /\ DeviceFollows
    BY <1>1 DEF DiskHolds
  <2>2. Unowned \notin Requesters /\ MaxSpurious \in Nat
    BY DevicesAssumption DEF Disk!IdeAssumption
  <2>3. Disk!TypeOK
    <3>1. completionWait <= spurious + 1
      BY <2>1 DEF DiskTypes, Balanced, Balance
    <3> QED BY <2>1, <2>2, <3>1 DEF DiskTypes, Disk!TypeOK
  <2>4. Disk!CompletionMatched
    <3>1. SUFFICES ASSUME spurious = 0, channelLock = Unowned
                   PROVE  completionWait = 0 /\ ~irq /\ status = "idle"
      BY DEF Disk!CompletionMatched
    <3>2. status \in {"idle", "commit"} /\ Where = "away"
      BY <2>1, <2>2, <3>1 DEF DeviceFollows, Where
    <3> QED BY <2>1, <3>1, <3>2 DEF DiskTypes, Balanced, Balance
  <2>5. Disk!NoPanic
    <3>1. ASSUME NEW t \in Requesters, Disk!Polled(t) PROVE status = "ready"
      <4>1. phase[t] = "poll" /\ channelLock = t /\ request[t].op \in {"read", "write"}
        BY <2>1, <3>1 DEF Disk!Polled, OneHolder, Holding, DiskTypes, Disk!Requests
      <4> QED BY <2>1, <3>1, <4>1 DEF DeviceFollows, Disk!Polled, Disk!Busy
    <3> QED BY <3>1 DEF Disk!NoPanic
  <2> QED BY <1>1, <2>3, <2>4, <2>5 DEF DiskHolds, DiskRight
<1> QED BY <1>1, DiskInvariant, PTL
=============================================================================
