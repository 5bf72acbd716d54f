----------------------------- MODULE MCDonation -----------------------------
(* Small instances of Donation, Mlfqs, Algorithms and Loader for TLC.  They   *)
(* share nothing: a behaviour is one of the part that InitOne chooses, and    *)
(* the others stay in an initial state.                                       *)
EXTENDS Donation, TLC

CONSTANTS
    MlfqsThreads, NiceVals, F, PriMax, NiceMax, Slice, Freq, MaxTicks, MaxCalls,
    KeySet, MaxLen, W, WordBits, PgSize, PhysBase, FileLen, NameMax, StackSizes

VARIABLES
    part,
    running, readyList, recent, nice, pri, loadAvg, calcTicks, threadTicks, now, niceCalls, outranked,
    keys, n, d,
    phdrs

Mlfq == INSTANCE Mlfqs WITH Threads <- MlfqsThreads
Algo == INSTANCE Algorithms
Load == INSTANCE Loader WITH cmdLine <- keys, stackSize <- n

ASSUME PartsAssumption == Mlfq!MlfqsAssumption /\ Algo!AlgorithmsAssumption /\ Load!LoaderAssumption

mlfqsVars == <<running, readyList, recent, nice, pri, loadAvg, calcTicks, threadTicks, now,
               niceCalls, outranked>>
algoVars == <<keys, n, d, phdrs>>

InitOne ==
    /\ part \in {"donation", "mlfqs", "algorithm", "load"}
    /\ Init /\ Mlfq!Init
    /\ part # "donation" => allowed = CHOOSE a \in Allowed : TRUE
    /\ part # "mlfqs" => running = CHOOSE t \in MlfqsThreads : TRUE
    /\ CASE part = "algorithm" -> Algo!Init /\ phdrs = <<>>
         [] part = "load" -> Load!Init /\ d = 1
         [] OTHER -> keys = <<>> /\ n = 0 /\ d = 1 /\ phdrs = <<>>

NextOne ==
    \/ part = "donation" /\ Next /\ UNCHANGED <<part, mlfqsVars, algoVars>>
    \/ part = "mlfqs" /\ Mlfq!Next /\ UNCHANGED <<part, vars, algoVars>>

SpecOne == InitOne /\ [][NextOne]_<<part, vars, mlfqsVars, algoVars>>

MCSymmetry == Permutations(Locks) \cup Permutations(Threads \ {Main})
-----------------------------------------------------------------------------
\* thread_tick of prj1 with mlfqs: a ready thread of higher priority than the
\* running one waits for a slice at most.
OutrankedBriefly == Mlfq!TypeOK /\ Mlfq!OutrankedBriefly

\* schedule and thread_unblock with mlfqs: whoever is given the CPU has the
\* highest priority, and a woken thread of higher priority is not left behind.
HighestDispatched == Mlfq!HighestNext /\ Mlfq!WokenRuns

\* list_sort, sort, binary_search, memmove, strtok_r and the 64-bit division
\* compute what they promise, and load what the program's headers and its
\* command line ask for, for every input of the bounds.
AlgorithmsRight ==
    /\ part = "algorithm" =>
         /\ Algo!ListsRight /\ Algo!HeapSortRight /\ Algo!SearchRight
         /\ Algo!StringsRight /\ Algo!QuotientRight /\ Algo!SignedQuotientRight
    /\ part = "load" => Load!SegmentsRight /\ Load!StackRight
=============================================================================
