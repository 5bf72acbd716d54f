----------------------------- MODULE ExecWait -----------------------------
(***************************************************************************)
(* exec, wait and exit of prj2.  process_execute cuts the command line     *)
(* into the global array args, creates the thread of the child and waits   *)
(* until the child has loaded its program; the child copies args to its    *)
(* stack.  Parent and child share a child_process record in the child_list *)
(* of the parent, which process_wait polls and the parent's exit frees.    *)
(*                                                                         *)
(* A step ends where the thread blocks, may be preempted between two       *)
(* accesses of shared state, or returns to the user program.  Programs can *)
(* be loaded (of one that cannot, args_passing writes to an unset stack    *)
(* pointer and the kernel panics) and memory suffices.                     *)
(***************************************************************************)
EXTENDS Integers, FiniteSets

CONSTANTS
  Procs,   \* processes; a process is created once
  Main,    \* the main thread, which runs the first program
  NoTid    \* the thread id -1

ExecWaitAssumption == Main \in Procs /\ NoTid \notin Procs

VARIABLES
  state,        \* where each process is
  child,        \* the child that a parsed, executing or waiting process means
  record,       \* the child_process record of each process
  args,         \* whose command line argc and args hold
  page,         \* processes whose copy of the command line is allocated
  startedWith,  \* history: whose command line was on the stack at the start
  overlapped    \* history: processes created while another exec was going on

execVars == <<state, child, record, args, page, startedWith, overlapped>>

States == {"none", "user", "parsed", "executing", "loading", "started", "waiting", "dead"}
\* held: in the list of that process, or freed (NoTid).
Records == [held : Procs \cup {NoTid}, waited : BOOLEAN, exited : BOOLEAN, loaded : BOOLEAN, up : 0..1]

Init ==
  /\ state = [p \in Procs |-> IF p = Main THEN "user" ELSE "none"]
  /\ child = [p \in Procs |-> NoTid]
  /\ record = [p \in Procs |->
                 [held |-> NoTid, waited |-> FALSE, exited |-> FALSE, loaded |-> FALSE, up |-> 0]]
  /\ args = NoTid /\ page = {}
  /\ startedWith = [p \in Procs |-> NoTid] /\ overlapped = {}

\* init_thread sets it, and nothing else does.
Parent(p) == NoTid

\* thread_alive: some thread has the id.
ThreadAlive(tid) == \E p \in Procs : p = tid /\ state[p] \notin {"none", "dead"}

\* Processes between the cut of the command line and its copy by the child.
Underway == {p \in Procs : state[p] \in {"parsed", "executing"} /\ startedWith[child[p]] = NoTid}
----------------------------------------------------------------------------
\* process_execute copies the command line and cuts it up.
Parse(p, c) ==
  /\ state[p] = "user" /\ state[c] = "none" /\ \A q \in Procs : child[q] # c
  /\ state' = [state EXCEPT ![p] = "parsed"]
  /\ child' = [child EXCEPT ![p] = c]
  /\ args' = c /\ page' = page \cup {c}
  /\ overlapped' = overlapped \cup (IF Underway = {} THEN {} ELSE {c} \cup {child[q] : q \in Underway})
  /\ UNCHANGED <<record, startedWith>>

\* thread_create.  add_child_process leaves wait as malloc returned it.
Create(p) ==
  /\ state[p] = "parsed"
  /\ LET c == child[p] IN
     /\ state' = [state EXCEPT ![p] = "executing", ![c] = "loading"]
     /\ \E w \in BOOLEAN :
          record' = [record EXCEPT ![c] =
                       [held |-> p, waited |-> w, exited |-> FALSE, loaded |-> FALSE, up |-> 0]]
  /\ UNCHANGED <<child, args, page, startedWith, overlapped>>

\* Mutant of Load: the child reports before it has loaded its program.
LoadLate(c) ==
  /\ state[c] = "loading"
  /\ startedWith' = [startedWith EXCEPT ![c] = IF args \in page THEN args ELSE NoTid]
  /\ record' = [record EXCEPT ![c].up = 1]
  /\ state' = [state EXCEPT ![c] = "started"]
  /\ UNCHANGED <<child, args, page, overlapped>>

\* start_process: load, args_passing, and the report to the parent.  The
\* page args points to may be another program's by now, or freed.
Load(c) ==
  /\ state[c] = "loading"
  /\ startedWith' = [startedWith EXCEPT ![c] = IF args \in page THEN args ELSE NoTid]
  /\ record' = [record EXCEPT ![c].loaded = TRUE, ![c].up = 1]
  /\ state' = [state EXCEPT ![c] = "started"]
  /\ UNCHANGED <<child, args, page, overlapped>>

\* start_process frees the copy of its own command line.
FreePage(c) ==
  /\ state[c] = "started"
  /\ page' = page \ {c}
  /\ state' = [state EXCEPT ![c] = "user"]
  /\ UNCHANGED <<child, record, args, startedWith, overlapped>>

\* process_execute goes on and the system call reads load.
Executed(p) ==
  /\ state[p] = "executing" /\ record[child[p]].up > 0
  /\ record' = [record EXCEPT ![child[p]].up = @ - 1]
  /\ state' = [state EXCEPT ![p] = "user"] /\ child' = [child EXCEPT ![p] = NoTid]
  /\ UNCHANGED <<args, page, startedWith, overlapped>>

\* process_wait.  Of another's child, or one waited for, it returns -1.
Wait(p, c) ==
  /\ state[p] = "user" /\ record[c].held = p /\ ~record[c].waited
  /\ record' = [record EXCEPT ![c].waited = TRUE]
  /\ state' = [state EXCEPT ![p] = "waiting"] /\ child' = [child EXCEPT ![p] = c]
  /\ UNCHANGED <<args, page, startedWith, overlapped>>

\* The loop of process_wait: it spins, or ends and frees the record.
Poll(p) ==
  /\ state[p] = "waiting"
  /\ IF record[child[p]].exited
     THEN /\ record' = [record EXCEPT ![child[p]].held = NoTid]
          /\ state' = [state EXCEPT ![p] = "user"] /\ child' = [child EXCEPT ![p] = NoTid]
     ELSE UNCHANGED <<record, state, child>>
  /\ UNCHANGED <<args, page, startedWith, overlapped>>

\* exit and process_exit: the status goes to a live parent; the records of
\* the children are freed.
Exit(p) ==
  /\ state[p] = "user" /\ p # Main
  /\ state' = [state EXCEPT ![p] = "dead"]
  /\ record' = [c \in Procs |->
       IF record[c].held = p THEN [record[c] EXCEPT !.held = NoTid]
       ELSE IF c = p /\ ThreadAlive(Parent(p)) THEN [record[c] EXCEPT !.exited = TRUE]
       ELSE record[c]]
  /\ UNCHANGED <<child, args, page, startedWith, overlapped>>

Step(p) == Create(p) \/ Load(p) \/ FreePage(p) \/ Executed(p) \/ Poll(p)

Next ==
  \/ \E p, c \in Procs : Parse(p, c) \/ Wait(p, c)
  \/ \E p \in Procs : Step(p) \/ Exit(p)

Spec == Init /\ [][Next]_execVars

\* Every process runs on.
Fairness == \A p \in Procs : WF_execVars(Step(p))
LiveSpec == Spec /\ Fairness
----------------------------------------------------------------------------
\* Every part is of its type; a record that is in a list is a live process's.
TypeOK ==
  /\ state \in [Procs -> States] /\ child \in [Procs -> Procs \cup {NoTid}]
  /\ record \in [Procs -> Records] /\ args \in Procs \cup {NoTid} /\ page \subseteq Procs
  /\ startedWith \in [Procs -> Procs \cup {NoTid}] /\ overlapped \subseteq Procs
  /\ \A c \in Procs : record[c].held # NoTid => state[record[c].held] # "dead"

\* The parent's exit frees no record that the child has yet to write to:
\* exec returns, and the record may go, only when the child has reported.
RecordOutlivesLoad ==
  \A c \in Procs :
    /\ state[c] = "loading" => record[c].held # NoTid
    /\ state[c] \in {"user", "dead"} /\ c # Main => record[c].loaded

\* A program starts with its own command line if no other process_execute
\* began between the cut of its command line and its start.
OwnArguments ==
  \A c \in Procs : state[c] \in {"started", "user", "dead"} /\ c \notin overlapped =>
    c = Main \/ startedWith[c] = c

\* process_wait returns once the child is dead.
WaitReturns ==
  \A p, c \in Procs :
    state[p] = "waiting" /\ child[p] = c /\ state[c] = "dead" ~> state[p] # "waiting"
=============================================================================
