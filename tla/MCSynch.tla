------------------------------ MODULE MCSynch ------------------------------
(* Small instances of Synch for TLC. *)
EXTENDS Synch

\* Every condition is used with the same lock.
MCCondLock == [c \in Conds |-> CHOOSE l \in Locks : TRUE]
\* Semaphores start at 0, as those a thread waits on for an event do.
MCInitValue == [s \in Semas |-> 0]
\* Locks are interchangeable.
MCSymmetry == Permutations(Locks)
=============================================================================
