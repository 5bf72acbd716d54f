------------------------------ MODULE MCPaging ------------------------------
(* Small instances of Paging, ExecWait, Malloc and HashTable for TLC.  They   *)
(* share nothing: a behaviour is one of the part that InitOne chooses, and    *)
(* the others stay in an initial state.                                       *)
(*                                                                            *)
(* Paging: two processes, p1 with a stack page s1 and a page x1 of any kind,  *)
(* p2, which p1 executes, with a stack page s2.                               *)
EXTENDS Paging, TLC

CONSTANTS
    p1, p2, s1, x1, s2,
    Tasks, Main,                                        \* ExecWait
    Callers, PageCnt, Descs, BigPages, MaxHeld,         \* Malloc
    Keys, Copies, MinBuckets, BestElems                 \* HashTable

VARIABLES
    part,
    state, child, record, args, page, startedWith, overlapped,
    usedMap, arena, freeList, descLock, held, call,
    buckets, elemCnt, stored

MCOwner == (s1 :> p1) @@ (x1 :> p1) @@ (s2 :> p2)
MCKinds == (s1 :> {"stack"}) @@ (x1 :> {"data", "bss", "stack", "mmap"}) @@ (s2 :> {"stack"})
MCStart == (p1 :> s1) @@ (p2 :> s2)
MCCalls == {<<p1, "exec", x1>>, <<p1, "mmap", x1>>, <<p1, "munmap", x1>>,
            <<p1, "read", x1>>, <<p2, "write", s2>>}
MCSymmetry == Permutations(Frames) \cup Permutations(Slots)

\* The descriptors' arenas hold two and three blocks.
MCPerArena == CHOOSE f \in [Descs -> 2..3] : \A c, e \in Descs : f[c] = f[e] => c = e
\* Hashes that meet in one bucket and part when the table grows.
MCHashOf == [k \in Keys |-> k * 3]

Tree  == INSTANCE ExecWait WITH Procs <- Tasks, NoTid <- None
Heap  == INSTANCE Malloc WITH PerArena <- MCPerArena, Null <- None
Table == INSTANCE HashTable WITH HashOf <- MCHashOf

ASSUME PartsAssumption == Tree!ExecWaitAssumption /\ Heap!MallocAssumption /\ Table!HashAssumption

execVars == <<state, child, record, args, page, startedWith, overlapped>>
mallocVars == <<usedMap, arena, freeList, descLock, held, call>>
hashVars == <<buckets, elemCnt, stored>>

InitOne ==
    /\ part \in {"paging", "exec", "heap", "table"}
    /\ Init /\ Tree!Init /\ Heap!Init /\ Table!Init
    /\ part # "paging" => kind[x1] = "data"

NextOne ==
    \/ part = "paging" /\ Next /\ UNCHANGED <<part, execVars, mallocVars, hashVars>>
    \/ part = "exec" /\ Tree!Next /\ UNCHANGED <<part, vars, mallocVars, hashVars>>
    \/ part = "heap" /\ Heap!Next /\ UNCHANGED <<part, vars, execVars, hashVars>>
    \/ part = "table" /\ Table!Next /\ UNCHANGED <<part, vars, execVars, mallocVars>>

SpecOne == InitOne /\ [][NextOne]_<<part, vars, execVars, mallocVars, hashVars>>
-----------------------------------------------------------------------------
\* process_execute, args_passing and process_exit of prj2: a child's record
\* outlives its load, and a command line that nobody else parses over is the
\* program's own.
ExecRight == Tree!TypeOK /\ Tree!RecordOutlivesLoad /\ Tree!OwnArguments

\* malloc, free, palloc_get_multiple and palloc_free_multiple: no page and no
\* block has two users, and what is free is counted.
HeapRight == Heap!TypeOK /\ Heap!PagesExact /\ Heap!BlocksExclusive /\ Heap!FreeCntExact

\* hash_insert, hash_replace, hash_delete and rehash: the table holds what was
\* put in, once.
TableRight == Table!TypeOK /\ Table!FindsAll /\ Table!KeysUnique
=============================================================================
