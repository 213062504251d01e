------------------------------ MODULE WorkQueue ------------------------------
(***************************************************************************)
(* What server/thread/ThreadPool promises its client, whatever its threads *)
(* do: work is started in the order it was queued, each piece at most      *)
(* once, at most one piece per thread at a time, and once the pool is      *)
(* destroyed nothing runs and nothing starts.                              *)
(***************************************************************************)
EXTENDS Naturals, FiniteSets

CONSTANT Capacity   \* the number of threads

VARIABLES
    queued,     \* how many pieces of work were queued; they are numbered 1..queued
    started,    \* how many were started: 1..started
    finished,   \* the set of those that were run to their end
    open        \* the pool exists
vars == <<queued, started, finished, open>>

Init == queued = 0 /\ started = 0 /\ finished = {} /\ open = TRUE

InProgress == (1..started) \ finished

Queue == open /\ queued' = queued + 1 /\ UNCHANGED <<started, finished, open>>

Start ==
    /\ open /\ started < queued
    /\ Cardinality(InProgress) < Capacity
    /\ started' = started + 1
    /\ UNCHANGED <<queued, finished, open>>

Finish ==
    /\ open
    /\ \E t \in InProgress : finished' = finished \cup {t}
    /\ UNCHANGED <<queued, started, open>>

\* Work still queued is dropped.
Destroy ==
    /\ open /\ InProgress = {}
    /\ open' = FALSE
    /\ UNCHANGED <<queued, started, finished>>

Next == Queue \/ Start \/ Finish \/ Destroy

Spec == Init /\ [][Next]_vars
=============================================================================
