----------------------------- MODULE IntQueue -----------------------------
(***************************************************************************)
(* The interrupt queue: a ring of bytes between kernel threads and an      *)
(* interrupt handler.  In the keyboard buffer threads get what the handler *)
(* puts, in the transmit queue of the serial port it is the other way      *)
(* round; side says which one the queue is.                                *)
(*                                                                         *)
(* Threads call it with interrupts off, so a step is what a thread does    *)
(* until it blocks on the lock or on the condition, and the handler comes  *)
(* in while all of them are blocked or before one starts.  Lock_release    *)
(* may hand the CPU to the thread that it wakes.                           *)
(***************************************************************************)
EXTENDS Integers, Sequences, FiniteSets

CONSTANTS
  Users,    \* threads that use the queue
  BufSize,  \* INTQ_BUFSIZE; the ring holds one byte less
  Bytes,    \* bytes that are sent
  Nobody    \* null thread

IntQueueAssumption == BufSize \in Nat \ {0, 1} /\ Nobody \notin Users /\ Bytes # {}

VARIABLES
  side,       \* "input": threads get; "output": threads put
  buf,        \* bytes of the ring
  head,       \* where the next byte is put
  tail,       \* where the next byte is taken
  queueLock,  \* holder of the lock, or Nobody
  waiter,     \* not_empty (input) or not_full (output)
  user,       \* where each thread is
  crowded,    \* history: a thread got the lock when the queue had changed
  queued      \* history: the bytes in the queue, oldest first

intqVars == <<side, buf, head, tail, queueLock, waiter, user, crowded, queued>>

\* "locking": blocked on the lock; "blocked": on the condition, with the
\* lock; "woken": ready to go on from thread_block; "released": past
\* lock_release, about to test the queue again.
Stages == {"out", "locking", "blocked", "woken", "released"}

Init ==
  /\ side \in {"input", "output"}
  /\ buf \in {[i \in 0..(BufSize-1) |-> b] : b \in Bytes}
  /\ head = 0 /\ tail = 0
  /\ queueLock = Nobody /\ waiter = Nobody
  /\ user = [t \in Users |-> "out"]
  /\ crowded = FALSE /\ queued = <<>>
----------------------------------------------------------------------------
Following(pos) == (pos + 1) % BufSize

Empty == head = tail
Full == Following(head) = tail

\* The thread must wait; the handler has nothing to do.
Stuck == IF side = "input" THEN Empty ELSE Full
Unserved == IF side = "input" THEN Full ELSE Empty

PutByte(b) ==
  /\ buf' = [buf EXCEPT ![head] = b]
  /\ head' = Following(head)
  /\ queued' = Append(queued, b)
  /\ UNCHANGED tail

\* Mutant of GetByte: the byte before the head is taken, not the one at the tail.
GetByteLast ==
  /\ buf' = buf
  /\ head' = (head + BufSize - 1) % BufSize
  /\ queued' = Tail(queued)
  /\ UNCHANGED tail

GetByte ==
  /\ tail' = Following(tail)
  /\ queued' = Tail(queued)
  /\ UNCHANGED <<buf, head>>

Move == IF side = "input" THEN GetByte ELSE \E b \in Bytes : PutByte(b)
MoveBack == IF side = "input" THEN \E b \in Bytes : PutByte(b) ELSE GetByte
----------------------------------------------------------------------------
\* wait: the condition was tested before lock_acquire and only its ASSERT
\* looks at it again.
Block(t) ==
  /\ queueLock' = t
  /\ IF Stuck
     THEN waiter' = t /\ user' = [user EXCEPT ![t] = "blocked"] /\ UNCHANGED crowded
     ELSE crowded' = TRUE /\ UNCHANGED <<waiter, user>>
  /\ UNCHANGED <<side, buf, head, tail, queued>>

\* intq_getc or intq_putc finds the queue as it needs it.  The signal at
\* the end is for the handler's side, where no thread waits.
Finish(t) ==
  /\ user[t] \in {"out", "released"} /\ ~Stuck
  /\ Move
  /\ user' = [user EXCEPT ![t] = "out"]
  /\ UNCHANGED <<side, queueLock, waiter, crowded>>

\* It does not, and the lock is free.
Wait(t) ==
  /\ user[t] \in {"out", "released"} /\ Stuck /\ queueLock = Nobody
  /\ Block(t)

\* It does not, and another thread waits already.
WaitForLock(t) ==
  /\ user[t] \in {"out", "released"} /\ Stuck /\ queueLock # Nobody
  /\ user' = [user EXCEPT ![t] = "locking"]
  /\ UNCHANGED <<side, buf, head, tail, queueLock, waiter, crowded, queued>>

\* A thread that lock_release woke goes straight on to wait.
GetLock(t) ==
  /\ user[t] = "locking" /\ queueLock = Nobody
  /\ Block(t)

\* The woken thread releases the lock.
Leave(t) ==
  /\ user[t] = "woken"
  /\ queueLock' = Nobody
  /\ user' = [user EXCEPT ![t] = "released"]
  /\ UNCHANGED <<side, buf, head, tail, waiter, crowded, queued>>

\* serial_putc with interrupts off: it polls the oldest byte out of a full
\* queue instead of waiting.
PutPolled ==
  /\ side = "output" /\ Full
  /\ \E b \in Bytes :
       /\ buf' = [buf EXCEPT ![head] = b]
       /\ queued' = Append(Tail(queued), b)
  /\ head' = Following(head) /\ tail' = Following(tail)
  /\ IF waiter = Nobody THEN UNCHANGED <<user, waiter>>
     ELSE user' = [user EXCEPT ![waiter] = "woken"] /\ waiter' = Nobody
  /\ UNCHANGED <<side, queueLock, crowded>>

\* Mutant of Handler: nobody is woken.
HandlerSilent ==
  /\ ~Unserved
  /\ MoveBack
  /\ UNCHANGED <<side, queueLock, crowded, waiter, user>>

\* The interrupt handler moves one byte and wakes the waiting thread.
Handler ==
  /\ ~Unserved
  /\ MoveBack
  /\ IF waiter = Nobody THEN UNCHANGED <<user, waiter>>
     ELSE user' = [user EXCEPT ![waiter] = "woken"] /\ waiter' = Nobody
  /\ UNCHANGED <<side, queueLock, crowded>>

\* serial_flush: every byte is polled out.
Flush ==
  /\ side = "output" /\ ~Empty
  /\ tail' = head /\ queued' = <<>>
  /\ IF waiter = Nobody THEN UNCHANGED <<user, waiter>>
     ELSE user' = [user EXCEPT ![waiter] = "woken"] /\ waiter' = Nobody
  /\ UNCHANGED <<side, buf, head, queueLock, crowded>>

Next ==
  /\ ~crowded
  /\ \/ \E t \in Users : Finish(t) \/ Wait(t) \/ WaitForLock(t) \/ GetLock(t) \/ Leave(t)
     \/ PutPolled \/ Handler \/ Flush

\* The device interrupts again and again, and a thread that is awake runs on.
Fairness ==
  /\ WF_intqVars(~crowded /\ Handler)
  /\ \A t \in Users : WF_intqVars(~crowded /\ (Leave(t) \/ Finish(t)))

Spec == Init /\ [][Next]_intqVars /\ Fairness
----------------------------------------------------------------------------
\* Every part is of its type.
TypeOK ==
  /\ side \in {"input", "output"} /\ buf \in [0..(BufSize-1) -> Bytes]
  /\ head \in 0..(BufSize-1) /\ tail \in 0..(BufSize-1)
  /\ queueLock \in Users \cup {Nobody} /\ waiter \in Users \cup {Nobody}
  /\ user \in [Users -> Stages] /\ crowded \in BOOLEAN

\* The ring holds the bytes that were put and not yet taken, in order and
\* across the wrap of its positions, and never runs over.
RingIsFifo ==
  /\ Len(queued) = (head - tail + BufSize) % BufSize
  /\ \A i \in 1..Len(queued) : queued[i] = buf[(tail + i - 1) % BufSize]

\* A thread blocks only while the queue is as it fears, it is the only one
\* that waits and it has the lock: no byte passes a sleeping thread.
NoSleepOnBytes ==
  /\ \A t \in Users : user[t] = "blocked" <=> waiter = t
  /\ waiter # Nobody => Stuck /\ queueLock = waiter

\* The assertion in wait fails only for a thread that waited for the lock
\* behind another one: whoever comes alone uses the queue safely.
CrowdedByTwo == crowded => \E t \in Users : user[t] = "locking"

\* While interrupts keep coming, a thread that waits gets its byte through,
\* unless other threads take its turn for ever or the assertion fails.
Served ==
  \A t \in Users :
    \/ []<><<PutPolled \/ \E u \in Users \ {t} : Finish(u)>>_intqVars
    \/ user[t] = "blocked" ~> (user[t] = "out" \/ crowded)
=============================================================================
