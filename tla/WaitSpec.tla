------------------------------ MODULE WaitSpec ------------------------------
(***************************************************************************)
(* What userprog.texi promises of exec, exit and wait: a process that was  *)
(* started ends once, with one exit code, and the process that started it  *)
(* may learn that code once, after the end, by waiting.                    *)
(***************************************************************************)
EXTENDS Integers

CONSTANTS Procs, Codes, None

VARIABLES
  starter,  \* the process whose exec started a process, or None
  fate,     \* the exit code a process ended with, or None
  answer    \* what wait returned to the starter, or None

Init ==
  /\ starter = [c \in Procs |-> None]
  /\ fate = [c \in Procs |-> None]
  /\ answer = [c \in Procs |-> None]

Start(p, c) ==
  /\ fate[p] = None /\ starter[c] = None
  /\ starter' = [starter EXCEPT ![c] = p]
  /\ UNCHANGED <<fate, answer>>

End(c, k) ==
  /\ starter[c] # None /\ fate[c] = None
  /\ fate' = [fate EXCEPT ![c] = k]
  /\ UNCHANGED <<starter, answer>>

Answer(c) ==
  /\ fate[c] # None /\ answer[c] = None /\ fate[starter[c]] = None
  /\ answer' = [answer EXCEPT ![c] = fate[c]]
  /\ UNCHANGED <<starter, fate>>

Next ==
  \E c \in Procs :
    Answer(c) \/ (\E p \in Procs : Start(p, c)) \/ \E k \in Codes \cup {-1} : End(c, k)

Spec == Init /\ [][Next]_<<starter, fate, answer>>
=============================================================================
