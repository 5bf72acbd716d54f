----------------------------- MODULE MCProcess -----------------------------
(* A small instance of Process for TLC. *)
EXTENDS Process

\* process_wait and process_execute: a wait for a process that ends returns,
\* and so does exec, whether the program can be loaded or not.
CallsReturn == WaitReturns /\ ExecReturns
=============================================================================
