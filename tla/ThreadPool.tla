----------------------------- MODULE ThreadPool -----------------------------
(***************************************************************************)
(* server/thread/ThreadPool: a queue of work served by threads that sleep  *)
(* on a condition variable (ThreadConditionUnix.hpp) while it is empty.    *)
(* One step of this specification is what a thread does between two points *)
(* where another thread can be seen: a critical section of                 *)
(* _pending_tasks_mutex, a read or write of _running, a call on the        *)
(* condition variable.                                                     *)
(*                                                                         *)
(* A piece of work is known by its place in the order of queueing (the     *)
(* same ITask may be queued many times).                                   *)
(***************************************************************************)
EXTENDS Integers, Sequences, FiniteSets

CONSTANTS
    Workers,    \* the threads of the pool
    MaxTasks    \* bound of this model: queueTask is called at most so often

ASSUME ThreadPoolAssumption ==
    /\ IsFiniteSet(Workers) /\ Workers # {}
    /\ MaxTasks \in Nat

VARIABLES
    running,    \* _running
    pending,    \* _pending_tasks
    queued,     \* how many pieces of work were queued
    pc,         \* where each worker is (WorkerPlaces)
    held,       \* the work a worker popped, 0 if none
    done,       \* the work whose run() was left, normally or by an exception
    client      \* where the owner of the pool is (ClientPlaces)
vars == <<running, pending, queued, pc, held, done, client>>

\* The head of the while loop; the call of checkCondition; the condition was
\* false but cond_wait is not entered yet; in cond_wait; wait() returned; about
\* to lock the queue; in work->run(); out of the loop.
WorkerPlaces == {"loop", "check", "drowsy", "asleep", "awake", "take", "run", "exited"}

\* Between calls; the task is pushed and not yet announced; in the destructor
\* before its broadcast, and joining; the destructor returned.
ClientPlaces == {"idle", "announce", "stopping", "joining", "destroyed"}

Init ==
    /\ running = TRUE
    /\ pending = <<>>
    /\ queued = 0
    /\ pc = [w \in Workers |-> "loop"]
    /\ held = [w \in Workers |-> 0]
    /\ done = {}
    /\ client = "idle"

-----------------------------------------------------------------------------
(* The client. *)

\* pthread_cond_broadcast wakes those that are in cond_wait, and no other.
Broadcast == pc' = [w \in Workers |-> IF pc[w] = "asleep" THEN "check" ELSE pc[w]]

\* Mutant: work is numbered before it is counted.
QueueTaskMiscounts ==
    /\ client = "idle" /\ queued < MaxTasks
    /\ queued' = queued + 1
    /\ pending' = Append(pending, queued' + 1)
    /\ client' = "announce"
    /\ UNCHANGED <<running, pc, held, done>>

\* Mutant: the last work queued is the first to be popped.
QueueTaskOnTop ==
    /\ client = "idle" /\ queued < MaxTasks
    /\ queued' = queued + 1
    /\ pending' = <<queued'>> \o pending
    /\ client' = "announce"
    /\ UNCHANGED <<running, pc, held, done>>

\* queueTask pushes inside the queue's mutex ...
QueueTask ==
    /\ client = "idle" /\ queued < MaxTasks
    /\ queued' = queued + 1
    /\ pending' = Append(pending, queued')
    /\ client' = "announce"
    /\ UNCHANGED <<running, pc, held, done>>

\* ... and broadcasts outside, without the condition variable's mutex.
WakeAll ==
    /\ client = "announce"
    /\ Broadcast
    /\ client' = "idle"
    /\ UNCHANGED <<running, pending, queued, held, done>>

\* The destructor: clear _running, broadcast, join every thread.
Stop ==
    /\ client = "idle"
    /\ running' = FALSE
    /\ client' = "stopping"
    /\ UNCHANGED <<pending, queued, pc, held, done>>

StopWakeAll ==
    /\ client = "stopping"
    /\ Broadcast
    /\ client' = "joining"
    /\ UNCHANGED <<running, pending, queued, held, done>>

\* Mutant: the destructor does not wait for the threads.
JoinTooEarly ==
    /\ client = "joining"
    /\ \E w \in Workers : pc[w] = "exited"
    /\ client' = "destroyed"
    /\ UNCHANGED <<running, pending, queued, pc, held, done>>

Join ==
    /\ client = "joining"
    /\ \A w \in Workers : pc[w] = "exited"
    /\ client' = "destroyed"
    /\ UNCHANGED <<running, pending, queued, pc, held, done>>

-----------------------------------------------------------------------------
(* A worker: ThreadTask::run and ThreadCondition::wait. *)

Goto(w, from, to) == pc[w] = from /\ pc' = [pc EXCEPT ![w] = to]

Loop(w) ==
    /\ Goto(w, "loop", IF running THEN "check" ELSE "exited")
    /\ UNCHANGED <<running, pending, queued, held, done, client>>

CheckCondition(w) ==
    /\ Goto(w, "check", IF ~running \/ pending # <<>> THEN "awake" ELSE "drowsy")
    /\ UNCHANGED <<running, pending, queued, held, done, client>>

\* The condition is not tested again under the condition variable's mutex.
Sleep(w) ==
    /\ Goto(w, "drowsy", "asleep")
    /\ UNCHANGED <<running, pending, queued, held, done, client>>

\* POSIX lets cond_wait return for no reason.
SpuriousWakeup(w) ==
    /\ Goto(w, "asleep", "check")
    /\ UNCHANGED <<running, pending, queued, held, done, client>>

Awake(w) ==
    /\ Goto(w, "awake", IF running THEN "take" ELSE "exited")
    /\ UNCHANGED <<running, pending, queued, held, done, client>>

\* Another worker may have emptied the queue since the condition was true.
TakeNothing(w) ==
    /\ pending = <<>>
    /\ Goto(w, "take", "loop")
    /\ UNCHANGED <<running, pending, queued, held, done, client>>

\* Mutant: front() and pop() are not in one critical section.
TakeTaskTwice(w) ==
    /\ pending # <<>>
    /\ Goto(w, "take", "run")
    /\ held' = [held EXCEPT ![w] = Head(pending)]
    /\ pending' = IF \E v \in Workers : pc[v] = "take" /\ v # w THEN pending ELSE Tail(pending)
    /\ UNCHANGED <<running, queued, done, client>>

TakeTask(w) ==
    /\ pending # <<>>
    /\ Goto(w, "take", "run")
    /\ held' = [held EXCEPT ![w] = Head(pending)]
    /\ pending' = Tail(pending)
    /\ UNCHANGED <<running, queued, done, client>>

\* Mutant: an exception of the work leaves the thread's loop.
FinishTaskDies(w) ==
    /\ pc[w] = "run"
    /\ \E next \in {"loop", "exited"} : pc' = [pc EXCEPT ![w] = next]
    /\ done' = done \cup {held[w]}
    /\ held' = [held EXCEPT ![w] = 0]
    /\ UNCHANGED <<running, pending, queued, client>>

\* run() returns, or throws and the exception is caught inside the loop.
FinishTask(w) ==
    /\ Goto(w, "run", "loop")
    /\ done' = done \cup {held[w]}
    /\ held' = [held EXCEPT ![w] = 0]
    /\ UNCHANGED <<running, pending, queued, client>>

WorkerStep(w) ==
    \/ Loop(w) \/ CheckCondition(w) \/ Sleep(w) \/ Awake(w)
    \/ TakeNothing(w) \/ TakeTask(w) \/ FinishTask(w)

\* The pool is gone, or everyone sleeps and the client asks for nothing more.
Quiet ==
    /\ \A w \in Workers : pc[w] \in {"asleep", "exited"}
    /\ client \in {"idle", "joining", "destroyed"}
    /\ UNCHANGED vars

Next ==
    \/ QueueTask \/ WakeAll \/ Stop \/ StopWakeAll \/ Join \/ Quiet
    \/ \E w \in Workers : WorkerStep(w) \/ SpuriousWakeup(w)

Spec == Init /\ [][Next]_vars

\* The operating system runs every thread that can run; nobody is obliged to
\* queue work or to destroy the pool, and no wakeup has to be spurious.
Fairness ==
    /\ WF_vars(WakeAll) /\ WF_vars(StopWakeAll) /\ WF_vars(Join)
    /\ \A w \in Workers : WF_vars(WorkerStep(w))

FairSpec == Spec /\ Fairness

-----------------------------------------------------------------------------
(* Properties. *)

TypeOK ==
    /\ running \in BOOLEAN
    /\ queued \in Nat
    /\ pending \in Seq(1..queued)
    /\ pc \in [Workers -> WorkerPlaces]
    /\ held \in [Workers -> 0..queued]
    /\ done \subseteq 1..queued
    /\ client \in ClientPlaces

Busy == {w \in Workers : held[w] # 0}
Taken == queued - Len(pending)

\* No work is lost, run twice or run out of turn: what is still queued are the
\* last pieces queued, in order, and each earlier one is finished or in the
\* hands of exactly one worker.
EachTaskOnce ==
    /\ \A i \in 1..Len(pending) : pending[i] = Taken + i
    /\ \A w, v \in Busy : held[w] = held[v] => w = v
    /\ {held[w] : w \in Busy} \cap done = {}
    /\ {held[w] : w \in Busy} \cup done = 1..Taken

\* When the destructor returns no thread of the pool touches it any more.
DestroyedIsQuiet == client = "destroyed" => \A w \in Workers : pc[w] = "exited"

\* Each piece of work is in one place, and none in the hands of a thread that the
\* destructor has left behind.
WorkIsHandedOut == TypeOK /\ EachTaskOnce /\ DestroyedIsQuiet

\* The pool as its client sees it.
Client == INSTANCE WorkQueue WITH
    Capacity <- Cardinality(Workers),
    started <- Taken,
    finished <- done,
    open <- client # "destroyed"
ImplementsWorkQueue == Client!Spec

\* A worker that is not asleep does not rest before the queue is empty.
Active(w) == pc[w] \in {"loop", "awake", "take", "run"}
ActiveWorkerDrains ==
    (pending # <<>> /\ \E w \in Workers : Active(w)) ~> (pending = <<>> \/ ~running)

\* TestThreadPool.hpp:63-69: tasks that were queued are run without any further
\* call on the pool.
QueuedTasksAreRun ==
    \A t \in 1..MaxTasks : (queued >= t) ~> (t \in done \/ ~running)
=============================================================================
