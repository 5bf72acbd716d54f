--------------------------- MODULE ExecWaitProofs ---------------------------
(***************************************************************************)
(* Proofs about ExecWait, as MCPaging runs it: for every set of processes, *)
(* the record of a child outlives its load, and a program whose start no   *)
(* other process_execute overlapped has its own command line.              *)
(***************************************************************************)
EXTENDS MCPaging, TLAPS

LEMMA TreeConstants == Main \in Tasks /\ None \notin Tasks
BY PartsAssumption DEF Tree!ExecWaitAssumption

TreeTypes ==
  /\ state \in [Tasks -> Tree!States] /\ child \in [Tasks -> Tasks \cup {None}]
  /\ record \in [Tasks -> Tree!Records] /\ args \in Tasks \cup {None} /\ page \subseteq Tasks
  /\ startedWith \in [Tasks -> Tasks \cup {None}] /\ overlapped \subseteq Tasks

\* A process that is not created yet, and one whose program is not loaded yet.
Fresh(c) == state[c] \in {"none", "loading"}

\* A record in a list is in that of a process that has not ended.
HeldByLiving == \A c \in Tasks : record[c].held # None => state[record[c].held] # "dead"

\* No record ever says that its process has exited: the parent that exit looks
\* for does not exist, and the loop of process_wait does not end.
NoneExited == \A c \in Tasks : ~ record[c].exited

\* What is not created has no record.
Uncreated == \A c \in Tasks : state[c] = "none" => c # Main /\ record[c].held = None

\* A process between the cut of a command line and thread_create is the only
\* one that means the child it is going to create.
Expecting ==
  \A p \in Tasks : state[p] = "parsed" =>
    /\ child[p] \in Tasks /\ state[child[p]] = "none"
    /\ \A q \in Tasks : child[q] = child[p] => q = p

\* A process in process_execute has the record of its child, who has not
\* reported as long as it loads.
Executing ==
  \A p \in Tasks : state[p] = "executing" =>
    /\ child[p] \in Tasks \ {Main} /\ record[child[p]].held = p
    /\ state[child[p]] = "loading" => record[child[p]].up = 0

\* A process in process_wait means a child.
Waits == \A p \in Tasks : state[p] = "waiting" => child[p] \in Tasks

\* A process that loads its program has a parent that waits for it to.
LoadAwaited ==
  \A c \in Tasks : state[c] = "loading" =>
    /\ c # Main
    /\ record[c].held \in Tasks
    /\ state[record[c].held] = "executing" /\ child[record[c].held] = c

\* Every program that runs was loaded.
Loaded == \A c \in Tasks : ~ Fresh(c) /\ c # Main => record[c].loaded

\* A command line is on a stack from the load on, and it is the program's own
\* unless another process_execute came between.
OwnLine ==
  \A c \in Tasks :
    /\ Fresh(c) => startedWith[c] = None
    /\ ~ Fresh(c) /\ c \notin overlapped => c = Main \/ startedWith[c] = c

\* args still has the command line that was cut for a child, and the page it
\* is in is allocated, if no other process_execute began since.
LineKept ==
  \A p \in Tree!Underway : child[p] \notin overlapped => args = child[p] /\ child[p] \in page

TreeHolds ==
  /\ TreeTypes /\ HeldByLiving /\ NoneExited /\ Uncreated /\ Expecting /\ Executing /\ Waits
  /\ LoadAwaited /\ Loaded /\ OwnLine /\ LineKept

LEMMA TreeInit == Tree!Init => TreeHolds
BY TreeConstants DEF Tree!Init, TreeHolds, TreeTypes, Tree!States, Tree!Records, HeldByLiving, NoneExited,
     Uncreated, Expecting, Executing, Waits, LoadAwaited, Loaded, OwnLine, Fresh, LineKept,
     Tree!Underway

\* A record is one of Records if its fields are.
LEMMA RecordsMade ==
  ASSUME NEW r \in Tree!Records
  PROVE  /\ [r EXCEPT !.held = None] \in Tree!Records
         /\ [r EXCEPT !.waited = TRUE] \in Tree!Records
         /\ \A u \in 0..1 : [r EXCEPT !.up = u] \in Tree!Records
         /\ [r EXCEPT !.loaded = TRUE, !.up = 1] \in Tree!Records
<1>1. /\ r = [held |-> r.held, waited |-> r.waited, exited |-> r.exited, loaded |-> r.loaded, up |-> r.up]
      /\ r.held \in Tasks \cup {None} /\ r.up \in 0..1
      /\ r.waited \in BOOLEAN /\ r.exited \in BOOLEAN /\ r.loaded \in BOOLEAN
  BY DEF Tree!Records
<1>2. [r EXCEPT !.held = None] \in Tree!Records
  BY <1>1 DEF Tree!Records
<1>3. [r EXCEPT !.waited = TRUE] \in Tree!Records
  BY <1>1 DEF Tree!Records
<1>4. ASSUME NEW u \in 0..1 PROVE [r EXCEPT !.up = u] \in Tree!Records
  BY <1>1 DEF Tree!Records
<1>5. [r EXCEPT !.loaded = TRUE, !.up = 1] \in Tree!Records
  <2> DEFINE s == [r EXCEPT !.loaded = TRUE]
             t == [s EXCEPT !.up = 1]
  <2>1. s \in Tree!Records
    BY <1>1 DEF Tree!Records
  <2>2. /\ s = [held |-> s.held, waited |-> s.waited, exited |-> s.exited, loaded |-> s.loaded,
                up |-> s.up]
        /\ s.held \in Tasks \cup {None} /\ s.up \in 0..1
        /\ s.waited \in BOOLEAN /\ s.exited \in BOOLEAN /\ s.loaded \in BOOLEAN
    <3> HIDE DEF s
    <3> QED BY <2>1 DEF Tree!Records
  <2>3. t = [r EXCEPT !.loaded = TRUE, !.up = 1]
    BY <1>1
  <2> HIDE DEF s
  <2>4. t \in Tree!Records
    BY <2>2 DEF Tree!Records
  <2> QED BY <2>3, <2>4
<1> QED BY <1>2, <1>3, <1>4, <1>5

----------------------------------------------------------------------------
\* One lemma for each action.

\* process_execute up to thread_create: the child is nobody else's, and its
\* command line is alone or marked.
LEMMA ParseKeeps ==
  ASSUME TreeHolds, NEW p \in Tasks, NEW c \in Tasks, Tree!Parse(p, c)
  PROVE  TreeHolds'
<1> USE TreeConstants DEF TreeHolds, TreeTypes, Tree!States, Tree!Parse
<1>1. TreeTypes'
  BY DEF Tree!Underway, Expecting, Executing
<1>2. HeldByLiving' /\ NoneExited' /\ Uncreated' /\ Waits' /\ Loaded'
  BY DEF HeldByLiving, NoneExited, Uncreated, Waits, Loaded, Fresh
<1>3. Expecting'
  BY DEF Expecting
<1>4. Executing' /\ LoadAwaited'
  BY DEF Executing, LoadAwaited
<1>5. OwnLine'
  BY DEF OwnLine, Fresh
<1>6. LineKept'
  <2>1. ASSUME NEW q \in Tree!Underway', child'[q] \notin overlapped'
        PROVE  child'[q] = c
    BY <2>1 DEF Tree!Underway
  <2> QED BY <2>1 DEF LineKept
<1> QED BY <1>1, <1>2, <1>3, <1>4, <1>5, <1>6

\* thread_create: the child has its record before it runs.
LEMMA CreateKeeps ==
  ASSUME TreeHolds, NEW p \in Tasks, Tree!Create(p)
  PROVE  TreeHolds'
<1> USE TreeConstants DEF TreeHolds, TreeTypes, Tree!States, Tree!Create
<1> DEFINE c == child[p]
<1>1. /\ c \in Tasks \ {Main} /\ state[c] = "none" /\ state[p] = "parsed"
      /\ \A q \in Tasks : child[q] = c => q = p
  BY DEF Expecting, Uncreated
<1>2. /\ state' = [state EXCEPT ![p] = "executing", ![c] = "loading"]
      /\ \E w \in BOOLEAN :
           record' = [record EXCEPT ![c] =
             [held |-> p, waited |-> w, exited |-> FALSE, loaded |-> FALSE, up |-> 0]]
      /\ UNCHANGED <<child, args, page, startedWith, overlapped>>
  OBVIOUS
<1>3. /\ record'[c] \in Tree!Records /\ record'[c].held = p /\ ~ record'[c].exited
      /\ record'[c].up = 0
      /\ \A d \in Tasks \ {c} : record'[d] = record[d]
      /\ record' \in [Tasks -> Tree!Records]
  <2>1. PICK w \in BOOLEAN :
          record' = [record EXCEPT ![c] =
            [held |-> p, waited |-> w, exited |-> FALSE, loaded |-> FALSE, up |-> 0]]
    BY <1>2
  <2>2. [held |-> p, waited |-> w, exited |-> FALSE, loaded |-> FALSE, up |-> 0] \in Tree!Records
    BY DEF Tree!Records
  <2> QED BY <1>1, <2>1, <2>2
<1>4. \A d \in Tasks : state'[d] = IF d = p THEN "executing" ELSE IF d = c THEN "loading" ELSE state[d]
  BY <1>1, <1>2
<1> HIDE DEF c
<1>5. TreeTypes'
  BY <1>1, <1>2, <1>3
<1>6. HeldByLiving'
  <2>1. ASSUME NEW d \in Tasks \ {c}, record[d].held # None
        PROVE  state'[record[d].held] # "dead"
    <3>1. record[d].held \in Tasks
      BY <2>1 DEF Tree!Records
    <3> QED BY <1>4, <2>1, <3>1 DEF HeldByLiving
  <2>2. record'[c].held = p /\ state'[p] = "executing"
    BY <1>1, <1>3, <1>4
  <2>3. \A d \in Tasks \ {c} : record'[d] = record[d]
    BY <1>3
  <2> QED BY ONLY <2>1, <2>2, <2>3 DEF HeldByLiving
<1>7. NoneExited'
  BY <1>1, <1>3 DEF NoneExited
<1>8. Uncreated'
  BY <1>1, <1>3, <1>4 DEF Uncreated
<1>9. Waits'
  BY <1>2, <1>4 DEF Waits
<1>10. Expecting'
  BY <1>1, <1>2, <1>4 DEF Expecting
<1>11. Executing'
  BY <1>1, <1>2, <1>3, <1>4 DEF Executing, c
<1>12. LoadAwaited'
  BY <1>1, <1>2, <1>3, <1>4 DEF LoadAwaited, c
<1>13. Loaded' /\ OwnLine'
  BY <1>1, <1>2, <1>3, <1>4 DEF Loaded, OwnLine, Fresh
<1>14. LineKept'
  BY <1>1, <1>2, <1>4 DEF LineKept, Tree!Underway
<1> QED
  BY <1>5, <1>6, <1>7, <1>8, <1>9, <1>10, <1>11, <1>12, <1>13, <1>14

\* start_process up to the report: what it copies to the stack is its own if
\* nobody has cut another command line.
LEMMA LoadKeeps ==
  ASSUME TreeHolds, NEW c \in Tasks, Tree!Load(c)
  PROVE  TreeHolds'
<1> USE TreeConstants DEF TreeHolds, TreeTypes, Tree!States, Tree!Load
<1>1. /\ record[c] \in Tree!Records
      /\ record' = [record EXCEPT ![c] = [record[c] EXCEPT !.loaded = TRUE, !.up = 1]]
  OBVIOUS
<1>2. /\ record' \in [Tasks -> Tree!Records]
      /\ record'[c].loaded /\ record'[c].held = record[c].held
      /\ record'[c].exited = record[c].exited
      /\ \A d \in Tasks \ {c} : record'[d] = record[d]
  <2> DEFINE r == [record[c] EXCEPT !.loaded = TRUE, !.up = 1]
  <2>1. r \in Tree!Records /\ record' = [record EXCEPT ![c] = r]
    BY <1>1, RecordsMade
  <2>2. r.loaded /\ r.held = record[c].held /\ r.exited = record[c].exited
    BY <1>1 DEF Tree!Records
  <2>3. record \in [Tasks -> Tree!Records]
    OBVIOUS
  <2> HIDE DEF r
  <2> QED BY ONLY <2>1, <2>2, <2>3
<1>3. \A d \in Tasks : state'[d] = IF d = c THEN "started" ELSE state[d]
  OBVIOUS
<1>4. c \notin overlapped => startedWith'[c] = c
  <2>1. SUFFICES ASSUME c \notin overlapped PROVE args = c /\ c \in page
    OBVIOUS
  <2>2. PICK p \in Tasks : state[p] = "executing" /\ child[p] = c
    BY DEF LoadAwaited
  <2>3. p \in Tree!Underway
    BY <2>2 DEF OwnLine, Fresh, Tree!Underway
  <2> QED BY <2>1, <2>2, <2>3 DEF LineKept
<1>5. TreeTypes'
  BY <1>2
<1>6. HeldByLiving' /\ NoneExited' /\ Uncreated' /\ Waits'
  BY <1>2, <1>3 DEF HeldByLiving, NoneExited, Uncreated, Waits
<1>7. Expecting' /\ Executing' /\ LoadAwaited'
  BY <1>2, <1>3 DEF Expecting, Executing, LoadAwaited
<1>8. Loaded' /\ OwnLine'
  BY <1>2, <1>3, <1>4 DEF Loaded, OwnLine, Fresh
<1>9. LineKept'
  BY <1>3 DEF LineKept, Tree!Underway, OwnLine, Fresh
<1> QED BY <1>5, <1>6, <1>7, <1>8, <1>9

\* The rest of start_process: the page it frees is not that of a command line
\* that somebody is still going to copy.
LEMMA FreePageKeeps ==
  ASSUME TreeHolds, NEW c \in Tasks, Tree!FreePage(c)
  PROVE  TreeHolds'
<1> USE TreeConstants DEF TreeHolds, TreeTypes, Tree!States, Tree!FreePage
<1>1. TreeTypes' /\ HeldByLiving' /\ NoneExited' /\ Uncreated' /\ Waits'
  BY DEF HeldByLiving, NoneExited, Uncreated, Waits
<1>2. Expecting' /\ Executing' /\ LoadAwaited'
  BY DEF Expecting, Executing, LoadAwaited
<1>3. Loaded' /\ OwnLine'
  BY DEF Loaded, OwnLine, Fresh
<1>4. LineKept'
  <2>1. ASSUME NEW p \in Tree!Underway', child'[p] \notin overlapped'
        PROVE  child[p] # c
    <3>1. startedWith[child[p]] = None /\ child[p] \in Tasks \ {Main}
      BY <2>1 DEF Tree!Underway, Expecting, Executing, Uncreated
    <3> QED BY <2>1, <3>1 DEF OwnLine, Fresh
  <2> QED BY <2>1 DEF LineKept, Tree!Underway
<1> QED BY <1>1, <1>2, <1>3, <1>4

\* process_execute returns: the child has reported.
LEMMA ExecutedKeeps ==
  ASSUME TreeHolds, NEW p \in Tasks, Tree!Executed(p)
  PROVE  TreeHolds'
<1> USE TreeConstants DEF TreeHolds, TreeTypes, Tree!States, Tree!Executed
<1> DEFINE c == child[p]
<1>1. c \in Tasks /\ record[c] \in Tree!Records /\ record[c].up = 1 /\ state[c] # "loading"
  BY DEF Executing, Tree!Records
<1>2. record' = [record EXCEPT ![c] = [record[c] EXCEPT !.up = 0]]
  BY <1>1
<1>3. /\ record' \in [Tasks -> Tree!Records]
      /\ record'[c] = [record[c] EXCEPT !.up = 0]
      /\ \A d \in Tasks \ {c} : record'[d] = record[d]
  <2> DEFINE r == [record[c] EXCEPT !.up = 0]
  <2>1. r \in Tree!Records
    <3>1. 0 \in 0..1 /\ record[c] \in Tree!Records
      BY <1>1
    <3> QED BY ONLY <3>1, RecordsMade
  <2>2. record' = [record EXCEPT ![c] = r]
    BY <1>2
  <2> HIDE DEF r
  <2> QED BY <1>1, <2>1, <2>2 DEF r
<1>4. \A d \in Tasks : /\ record'[d].held = record[d].held /\ record'[d].exited = record[d].exited
                       /\ record'[d].loaded = record[d].loaded
                       /\ state[d] = "loading" => record'[d].up = record[d].up
  BY <1>1, <1>3 DEF Tree!Records
<1>5. /\ state[p] = "executing"
      /\ \A q \in Tasks : /\ state'[q] = IF q = p THEN "user" ELSE state[q]
                          /\ child'[q] = IF q = p THEN None ELSE child[q]
  OBVIOUS
<1>6. TreeTypes'
  BY <1>3
<1> HIDE DEF c
<1>7. HeldByLiving' /\ NoneExited' /\ Uncreated' /\ Waits'
  BY <1>4, <1>5 DEF HeldByLiving, NoneExited, Uncreated, Waits
<1>8. Expecting' /\ Executing'
  BY <1>4, <1>5 DEF Expecting, Executing
<1>9. LoadAwaited'
  BY <1>1, <1>4, <1>5 DEF LoadAwaited, c
<1>10. Loaded' /\ OwnLine' /\ LineKept'
  BY <1>4, <1>5 DEF Loaded, OwnLine, Fresh, LineKept, Tree!Underway
<1> QED BY <1>6, <1>7, <1>8, <1>9, <1>10

\* process_wait up to its loop.
LEMMA WaitKeeps ==
  ASSUME TreeHolds, NEW p \in Tasks, NEW c \in Tasks, Tree!Wait(p, c)
  PROVE  TreeHolds'
<1> USE TreeConstants DEF TreeHolds, TreeTypes, Tree!States, Tree!Wait
<1>1. /\ record[c] \in Tree!Records
      /\ record' = [record EXCEPT ![c] = [record[c] EXCEPT !.waited = TRUE]]
  OBVIOUS
<1>2. record' \in [Tasks -> Tree!Records]
  BY <1>1, RecordsMade
<1>3. \A d \in Tasks : /\ record'[d].held = record[d].held /\ record'[d].exited = record[d].exited
                       /\ record'[d].loaded = record[d].loaded /\ record'[d].up = record[d].up
  BY <1>1 DEF Tree!Records
<1>4. /\ state[p] = "user" /\ state[c] # "none"
      /\ \A q \in Tasks : /\ state'[q] = IF q = p THEN "waiting" ELSE state[q]
                          /\ child'[q] = IF q = p THEN c ELSE child[q]
  BY DEF Uncreated
<1>5. TreeTypes'
  BY <1>2
<1>6. HeldByLiving' /\ NoneExited' /\ Uncreated' /\ Waits'
  BY <1>3, <1>4 DEF HeldByLiving, NoneExited, Uncreated, Waits
<1>7. Expecting' /\ Executing' /\ LoadAwaited'
  BY <1>3, <1>4 DEF Expecting, Executing, LoadAwaited
<1>8. Loaded' /\ OwnLine' /\ LineKept'
  BY <1>3, <1>4 DEF Loaded, OwnLine, Fresh, LineKept, Tree!Underway
<1> QED BY <1>5, <1>6, <1>7, <1>8

\* The loop of process_wait only spins.
LEMMA PollSpins ==
  ASSUME TreeHolds, NEW p \in Tasks, Tree!Poll(p)
  PROVE  UNCHANGED Tree!execVars
<1>1. child[p] \in Tasks /\ ~ record[child[p]].exited
  BY DEF TreeHolds, TreeTypes, NoneExited, Waits, Tree!Poll
<1> QED BY <1>1 DEF Tree!Poll, Tree!execVars

\* process_exit frees the records of the children, whose loads are over, and
\* finds no parent to report to.
LEMMA ExitKeeps ==
  ASSUME TreeHolds, NEW p \in Tasks, Tree!Exit(p)
  PROVE  TreeHolds'
<1> USE TreeConstants DEF TreeHolds, TreeTypes, Tree!States, Tree!Exit
<1>1. ~ Tree!ThreadAlive(Tree!Parent(p))
  BY DEF Tree!ThreadAlive, Tree!Parent
<1>2. record' = [c \in Tasks |-> IF record[c].held = p THEN [record[c] EXCEPT !.held = None]
                                ELSE record[c]]
  BY <1>1
<1>3. record' \in [Tasks -> Tree!Records]
  <2>1. ASSUME NEW c \in Tasks
        PROVE  [record[c] EXCEPT !.held = None] \in Tree!Records
    <3>1. record[c] \in Tree!Records
      OBVIOUS
    <3> QED BY ONLY <3>1, RecordsMade
  <2>2. \A c \in Tasks : record[c] \in Tree!Records
    OBVIOUS
  <2> QED BY ONLY <1>2, <2>1, <2>2
<1>4. ASSUME NEW c \in Tasks
      PROVE  /\ record'[c].held = IF record[c].held = p THEN None ELSE record[c].held
             /\ record'[c].exited = record[c].exited /\ record'[c].loaded = record[c].loaded
             /\ record'[c].up = record[c].up
  <2>1. record[c] \in Tree!Records
    OBVIOUS
  <2>2. record'[c] = IF record[c].held = p THEN [record[c] EXCEPT !.held = None] ELSE record[c]
    BY <1>2
  <2> QED BY ONLY <2>1, <2>2 DEF Tree!Records
<1>5. /\ state[p] = "user" /\ p # Main
      /\ \A q \in Tasks : state'[q] = IF q = p THEN "dead" ELSE state[q]
      /\ UNCHANGED <<child, args, page, startedWith, overlapped>>
  OBVIOUS
<1>6. TreeTypes'
  BY <1>3, <1>5
<1>7. HeldByLiving'
  <2>1. ASSUME NEW c \in Tasks, record'[c].held # None
        PROVE  state'[record'[c].held] # "dead"
    <3>1. record[c].held \in Tasks \ {p} /\ record'[c].held = record[c].held
      BY <1>4, <2>1 DEF Tree!Records
    <3> QED BY <1>5, <3>1 DEF HeldByLiving
  <2> QED BY <2>1 DEF HeldByLiving
<1>8. NoneExited' /\ Uncreated' /\ Waits'
  <2>1. NoneExited'
    BY <1>4 DEF NoneExited
  <2>2. Uncreated' /\ Waits'
    BY <1>4, <1>5 DEF Uncreated, Waits
  <2> QED BY <2>1, <2>2
<1>9. Expecting' /\ Executing' /\ LoadAwaited'
  BY <1>4, <1>5 DEF Expecting, Executing, LoadAwaited
<1>10. Loaded' /\ OwnLine' /\ LineKept'
  BY <1>4, <1>5 DEF Loaded, OwnLine, Fresh, LineKept, Tree!Underway
<1> QED BY <1>6, <1>7, <1>8, <1>9, <1>10

LEMMA TreeUnchanged ==
  ASSUME TreeHolds, UNCHANGED execVars
  PROVE  TreeHolds'
BY DEF execVars, TreeHolds, TreeTypes, HeldByLiving, NoneExited, Uncreated, Expecting, Executing,
       Waits, LoadAwaited, Loaded, OwnLine, Fresh, LineKept, Tree!Underway

\* The invariant holds of the initial states and of every step, also of the
\* other parts of MCPaging, which leave the processes of prj2 alone.
THEOREM TreeInvariant == SpecOne => []TreeHolds
<1>1. ASSUME TreeHolds, Tree!Next PROVE TreeHolds'
  <2>1. CASE \E p \in Tasks : Tree!Poll(p)
    <3>1. UNCHANGED execVars
      BY <1>1, <2>1, PollSpins DEF Tree!execVars, execVars
    <3> QED BY <1>1, <3>1, TreeUnchanged
  <2>2. CASE ~ \E p \in Tasks : Tree!Poll(p)
    BY <1>1, <2>2, ParseKeeps, CreateKeeps, LoadKeeps, FreePageKeeps, ExecutedKeeps, WaitKeeps,
       ExitKeeps DEF Tree!Next, Tree!Step
  <2> QED BY <2>1, <2>2
<1>2. ASSUME TreeHolds, [NextOne]_<<part, vars, execVars, mallocVars, hashVars>> PROVE TreeHolds'
  BY <1>1, <1>2, TreeUnchanged DEF NextOne
<1>3. InitOne => TreeHolds
  BY TreeInit DEF InitOne
<1> QED BY <1>2, <1>3, PTL DEF SpecOne

\* process_execute, start_process and process_exit, for every set of
\* processes: the record that a child reports to is freed only after it has
\* reported, and a program whose start no other process_execute overlapped
\* finds its own command line on its stack.
THEOREM ExecHolds == SpecOne => []ExecRight
<1>1. TreeHolds => ExecRight
  BY TreeConstants DEF TreeHolds, TreeTypes, HeldByLiving, LoadAwaited, Loaded, OwnLine, Fresh,
     Tree!TypeOK, Tree!RecordOutlivesLoad, Tree!OwnArguments, ExecRight
<1> QED BY <1>1, TreeInvariant, PTL
=============================================================================
