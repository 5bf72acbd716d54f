---------------------------- MODULE AbstractLock ----------------------------
(***************************************************************************)
(* What synch.h promises of struct lock: each lock is had by at most one   *)
(* thread, a thread gets it only when nobody has it and only that thread   *)
(* gives it back.                                                          *)
(***************************************************************************)
CONSTANTS Threads, Locks
VARIABLE owners  \* the threads that have each lock

Init == owners = [l \in Locks |-> {}]

Acquire(t, l) == owners[l] = {} /\ owners' = [owners EXCEPT ![l] = {t}]

Release(t, l) == owners[l] = {t} /\ owners' = [owners EXCEPT ![l] = {}]

Next == \E t \in Threads, l \in Locks : Acquire(t, l) \/ Release(t, l)

Spec == Init /\ [][Next]_owners
=============================================================================
