-------------------------- MODULE TaskManagerProofs ---------------------------
(***************************************************************************)
(* Proofs about the parts of Ends.                                         *)
(*                                                                         *)
(* TaskManager, for any number of requests, connections, workers and       *)
(* attempts: its types; a request has one task at a time, and none when    *)
(* the task manager ends it; no two requests share a buffer manager or a   *)
(* connection; the sets of the task manager hold all that lives.           *)
(*                                                                         *)
(* _queued is a plain flag.  That it is enough follows from who writes it: *)
(* the task manager's thread raises it for a request that is neither       *)
(* queued nor at work, and the one worker that has the request lowers it.  *)
(* That a manager may be on the stack while its request is being deleted   *)
(* is sound because who may take it is not given work before the deletion  *)
(* is over.  IInv says so, and holds what it rests on.                     *)
(*                                                                         *)
(* CgiProcess, in the last section: the answer is what the child wrote.    *)
(***************************************************************************)
EXTENDS Ends, FiniteSetTheorems, SequenceTheorems, WellFoundedInduction, TLAPS

\* The places of the threads, and what a request may be.
WorkerPlaces == {"idle", "run", "notify", "thrown", "drop"}
Giving == {"give", "mark", "queue", "pending", "keep"}
TmPlaces == Giving \cup {"loop", "delete", "release", "add", "down"}
Serving == {"serving", "listeners"}
MainPlaces == Serving \cup {"waiting", "ending", "release", "pool", "finished"}
AnyRequest ==
    [stage : {"none", "alive", "gone"}, status : {"waits", "ready", "done", "error"},
     closing : BOOLEAN, queued : BOOLEAN, manager : Nat, socket : Connections \cup {NoOne}]

\* The types; Bounds has the number of buffer managers.
Types ==
    /\ running \in BOOLEAN
    /\ request \in [Requests -> AnyRequest]
    /\ stack \in Seq(Nat) /\ managers \in Nat
    /\ requests \subseteq Requests /\ pending_add \subseteq Requests /\ pending_del \subseteq Requests
    /\ queue \in Seq(Requests)
    /\ worker \in [Workers -> [at : WorkerPlaces, r : Requests \cup {NoOne}]]
    /\ tm \in [at : TmPlaces, r : Requests \cup {NoOne}, todo : SUBSET Requests]
    /\ listener \in [at : {"loop", "accept", "check", "handle", "stopped"},
                     last : Connections \cup {NoOne}, handed : BOOLEAN]
    /\ main \in [at : MainPlaces, r : Requests \cup {NoOne}, todo : SUBSET Requests, attempts : Nat]

\* A worker that has a request, until notifyEndTask.
Busy(w) == worker[w].at \in {"run", "notify", "thrown"}
\* A request that a worker has, or that is in the queue.
HasTask(r) == (\E w \in Workers : Busy(w) /\ worker[w].r = r) \/ (\E i \in 1..Len(queue) : queue[i] = r)

\* The queue and the busy workers have different requests, all of them queued.
Tasks ==
    /\ \A w \in Workers : Busy(w) => worker[w].r \in Requests
    /\ \A r \in Requests : HasTask(r) => request[r].queued /\ request[r].stage = "alive"
    /\ \A v, w \in Workers : Busy(v) /\ Busy(w) /\ worker[v].r = worker[w].r => v = w
    /\ \A i, j \in 1..Len(queue) : queue[i] = queue[j] => i = j
    /\ \A w \in Workers, i \in 1..Len(queue) : Busy(w) => worker[w].r # queue[i]

\* The task manager's thread: the request it polls, and those it is to delete.
Managing ==
    /\ tm.at \in {"mark", "pending", "keep"} => tm.r \in requests /\ ~request[tm.r].queued
    /\ tm.at = "queue" => tm.r \in requests /\ request[tm.r].queued /\ ~HasTask(tm.r)
    /\ tm.at \in Giving =>
           /\ tm.todo \subseteq requests /\ pending_del \subseteq requests
           /\ \A r \in pending_del : r \notin tm.todo /\ ~request[r].queued
           /\ tm.at # "give" => tm.r \in tm.todo
    /\ tm.at \in {"delete", "release"} => tm.todo \subseteq requests /\ \A r \in tm.todo : ~request[r].queued
    /\ tm.at = "release" =>
           /\ tm.r \in Requests /\ tm.r \notin requests /\ tm.r \notin pending_add
           /\ request[tm.r].stage = "alive" /\ ~request[tm.r].queued
    /\ tm.at \in {"add", "loop"} => pending_del = {}

\* The sets of the task manager, while it runs.
Living ==
    /\ \A r \in requests : r \notin pending_add
    /\ main.at \in Serving \cup {"waiting"} =>
           \A r \in Requests : request[r].stage = "alive" <=>
               r \in requests \/ r \in pending_add \/ (tm.at = "release" /\ r = tm.r)

\* Server::run and ~TaskManager.
Shutdown ==
    /\ main.at \notin Serving => tm.at = "down" /\ listener.at = "stopped"
    /\ main.at \in {"ending", "release"} =>
           main.attempts > Attempts \/ \A r \in main.todo : ~request[r].queued
    /\ main.at = "release" => main.r \in Requests /\ request[main.r].stage = "alive" /\ ~request[main.r].queued

\* Each connection has one owner: a request, or the listener that has just accepted it.
Sockets ==
    /\ closed \subseteq Connections
    /\ \A r \in Requests : request[r].socket \notin closed
    /\ \A q, r \in Requests : request[q].socket = request[r].socket => q = r \/ request[q].socket = NoOne
    /\ listener.at \in {"check", "handle"} => ~listener.handed
    /\ ~listener.handed =>
           /\ listener.last \notin closed
           /\ \A r \in Requests : request[r].socket = listener.last => listener.last = NoOne

\* Each buffer manager is on the stack or with one request, but for the request that is
\* being deleted: its manager is on the stack again, or with a request that waits to be added.
Holding == {r \in Requests : request[r].stage = "alive" /\ r \notin Releasing}
Managers ==
    /\ \A r \in Holding : request[r].manager \in 1..managers
    /\ \A i \in 1..Len(stack) : stack[i] \in 1..managers
    /\ \A i, j \in 1..Len(stack) : stack[i] = stack[j] => i = j
    /\ \A r \in Holding, i \in 1..Len(stack) : request[r].manager # stack[i]
    /\ \A q, r \in Holding : request[q].manager = request[r].manager => q = r
    /\ \A r \in Releasing, q \in Holding : request[q].manager = request[r].manager => q \notin requests
    /\ \A r \in Requests : HasTask(r) => r \in requests
    /\ main.at \in {"ending", "release"} => main.todo \subseteq Holding

\* A buffer manager is made for a new request only.
Born == {r \in Requests : request[r].stage # "none"}
Bounds ==
    /\ managers <= Cardinality(Born)
    /\ \A r \in Requests : request[r].manager <= managers
    /\ \A i \in 1..Len(stack) : stack[i] \in 1..managers
    /\ closed \subseteq Connections
    /\ main.attempts <= Attempts + 1
    /\ failed \in {"no", "assertion", "deleted twice", "used after deletion"}

\* The inductive invariant.
IInv ==
    /\ Types
    /\ failed = "no" => Tasks /\ Managing /\ Living /\ Shutdown /\ Sockets /\ Managers
    /\ Bounds /\ AssertionOnlyAfterGivingUp

\* What each step starts from.
Sound == Types /\ failed = "no" /\ Tasks /\ Managing /\ Living /\ Shutdown /\ Sockets /\ Managers /\ Bounds
StillSound ==
    /\ Types'
    /\ failed' = "no" => (Tasks /\ Managing /\ Living /\ Shutdown /\ Sockets /\ Managers)'
    /\ Bounds' /\ AssertionOnlyAfterGivingUp'

USE TaskManagerAssumption

\* At the start nothing is asked of anybody.
LEMMA InitIInv == Init => IInv
<1> SUFFICES ASSUME Init PROVE IInv
    OBVIOUS
<1>1. Types
    BY DEF Init, Types, AnyRequest, NoRequest, Idle, WorkerPlaces, TmPlaces, MainPlaces, Serving
<1>2. Bounds
    <2>1. Born = {} /\ managers = 0 /\ Cardinality({}) = 0
        BY FS_EmptySet DEF Init, Born, NoRequest
    <2> QED BY <2>1 DEF Init, Bounds, NoRequest
<1>3. Tasks /\ Managing /\ Living /\ Shutdown
    BY DEF Init, NoRequest, Idle, Serving, Tasks, Busy, HasTask, Managing, Giving, Living, Shutdown
<1>4. Sockets /\ Managers
    BY DEF Init, NoRequest, Idle, Sockets, Managers, Holding, Releasing, Busy, HasTask
<1> QED BY <1>1, <1>2, <1>3, <1>4 DEF Init, IInv, AssertionOnlyAfterGivingUp

\* What a step does to the tasks that leaves the workers, the queue and their requests alone.
LEMMA SameTasks ==
    ASSUME Tasks, UNCHANGED <<worker, queue>>,
           \A r \in Requests :
               HasTask(r) => request'[r].queued = request[r].queued /\ request'[r].stage = request[r].stage
    PROVE  Tasks' /\ \A r \in Requests : HasTask(r)' = HasTask(r)
BY DEF Tasks, Busy, HasTask

\* A step that moves no buffer manager and ends no request.
LEMMA SameManagers ==
    ASSUME Managers, UNCHANGED <<stack, managers>>, Releasing' = Releasing,
           requests' \subseteq requests \/ Releasing = {},
           \A r \in Requests : request'[r].manager = request[r].manager /\ request'[r].stage = request[r].stage,
           \A r \in Requests : HasTask(r)' => r \in requests',
           main'.at \in {"ending", "release"} => main'.todo \subseteq Holding,
           \A r \in Releasing : r \in Requests
    PROVE  Managers'
<1>1. Holding' = Holding /\ \A r \in Holding : r \in Requests /\ request'[r].manager = request[r].manager
    BY DEF Holding
<1>2. /\ \A r \in Holding' : request'[r].manager \in 1..managers'
      /\ \A i \in 1..Len(stack') : stack'[i] \in 1..managers'
      /\ \A i, j \in 1..Len(stack') : stack'[i] = stack'[j] => i = j
      /\ \A r \in Holding', i \in 1..Len(stack') : request'[r].manager # stack'[i]
      /\ \A q, r \in Holding' : request'[q].manager = request'[r].manager => q = r
    BY <1>1 DEF Managers
<1>3. \A r \in Releasing', q \in Holding' : request'[q].manager = request'[r].manager => q \notin requests'
    <2>1. \A r \in Releasing, q \in Holding : request[q].manager = request[r].manager => q \notin requests
        BY DEF Managers
    <2> QED BY <1>1, <2>1
<1> QED BY <1>1, <1>2, <1>3 DEF Managers

\* Nobody works for a request that is being deleted.
LEMMA ReleasingIsIdle == ASSUME Sound PROVE \A r \in Releasing : r \in Requests /\ ~HasTask(r)
BY DEF Sound, Releasing, Managing, Shutdown, Tasks

\* endRequest puts the manager of a request on the stack before the request is deleted.
LEMMA PushedManager ==
    ASSUME Types, Managers, NEW r \in Holding, Releasing = {}, Releasing' = {r},
           stack' = Append(stack, request[r].manager), UNCHANGED <<request, managers>>,
           \A q \in Requests : HasTask(q)' => q \in requests',
           main'.at \in {"ending", "release"} => main'.todo \subseteq Holding \ {r}
    PROVE  Managers'
<1>1. /\ r \in Requests /\ Holding' = Holding \ {r} /\ \A q \in Holding : q \in Requests
      /\ request' = request /\ managers' = managers
    BY DEF Holding
<1>2. /\ Len(stack') = Len(stack) + 1 /\ Len(stack) \in Nat /\ stack'[Len(stack) + 1] = request[r].manager
      /\ \A i \in 1..Len(stack) : stack'[i] = stack[i]
    <2>1. request[r].manager \in Nat /\ stack \in Seq(Nat)
        BY <1>1 DEF Types, AnyRequest
    <2> QED BY <2>1, AppendProperties
<1>3. \A i \in 1..Len(stack') : i = Len(stack) + 1 \/ i \in 1..Len(stack)
    BY <1>2
<1>4. request[r].manager \in 1..managers /\ \A i \in 1..Len(stack) : request[r].manager # stack[i]
    BY DEF Managers
<1>5. /\ \A q \in Holding' : request'[q].manager \in 1..managers'
      /\ \A p, q \in Holding' : request'[p].manager = request'[q].manager => p = q
    BY <1>1 DEF Managers
<1>6. \A i \in 1..Len(stack') : stack'[i] \in 1..managers'
    BY <1>1, <1>2, <1>3, <1>4 DEF Managers
<1>7. \A i, j \in 1..Len(stack') : stack'[i] = stack'[j] => i = j
    BY <1>2, <1>3, <1>4 DEF Managers
<1>8. \A q \in Holding', i \in 1..Len(stack') : request'[q].manager # stack'[i]
    BY <1>1, <1>2, <1>3 DEF Managers
<1>9. \A p \in Releasing', q \in Holding' : request'[q].manager = request'[p].manager => q \notin requests'
    BY <1>1 DEF Managers
<1> QED BY <1>1, <1>5, <1>6, <1>7, <1>8, <1>9 DEF Managers

\* The deletion itself leaves the managers where they are.
LEMMA ReleasedManager ==
    ASSUME Managers, NEW r, Releasing = {r}, Releasing' = {}, UNCHANGED <<stack, managers>>,
           request'[r].stage = "gone", \A q \in Requests : q # r => request'[q] = request[q],
           \A q \in Requests : HasTask(q)' => q \in requests',
           main'.at \in {"ending", "release"} => main'.todo \subseteq Holding
    PROVE  Managers'
<1>1. Holding' = Holding /\ \A q \in Holding : q \in Requests /\ request'[q] = request[q]
    BY DEF Holding
<1> QED BY <1>1 DEF Managers

\* A new request gets a manager that nobody has.
LEMMA NewManager ==
    ASSUME Types, Managers, NEW r \in Requests, request[r].stage = "none", Releasing \subseteq Requests,
           \A q \in Releasing : request[q].stage = "alive",
           request'[r].manager = Pop.manager, request'[r].stage = "alive", stack' = Pop.stack, managers' = Pop.managers,
           \A q \in Requests : q # r => request'[q].manager = request[q].manager
                                             /\ request'[q].stage = request[q].stage,
           Releasing' = Releasing, UNCHANGED requests, r \notin requests,
           \A q \in Requests : HasTask(q)' => q \in requests',
           main'.at \notin {"ending", "release"}
    PROVE  Managers'
<1> DEFINE m == Pop.manager
<1>1. /\ Holding' = Holding \cup {r} /\ r \notin Holding /\ r \notin Releasing
      /\ \A q \in Holding : q \in Requests /\ request'[q].manager = request[q].manager
    BY DEF Holding
<1>2. /\ m \in 1..managers' /\ managers' \in Nat /\ managers' >= managers /\ managers \in Nat
      /\ \A q \in Holding : request[q].manager # m
      /\ Len(stack') \in Nat /\ \A i \in 1..Len(stack') : i \in 1..Len(stack) /\ stack'[i] = stack[i] /\ stack[i] # m
    <2>1. CASE stack = <<>>
        <3>1. m = managers + 1 /\ managers' = managers + 1 /\ stack' = <<>> /\ Len(stack') = 0 /\ managers \in Nat
            BY <2>1, EmptySeq DEF Pop, Types
        <3>2. \A q \in Holding : request[q].manager \in 1..managers
            BY DEF Managers
        <3> HIDE DEF m
        <3> QED BY <3>1, <3>2
    <2>2. CASE stack # <<>>
        <3>1. Len(stack) \in Nat /\ Len(stack) >= 1 /\ \A i \in 1..Len(stack) : stack[i] \in Nat
            BY <2>2, EmptySeq, ElementOfSeq, LenProperties DEF Types
        <3>2. m = stack[Len(stack)] /\ managers' = managers /\ managers \in Nat
            BY <2>2 DEF Pop, Types
        <3>3. stack' = SubSeq(stack, 1, Len(stack) - 1)
            BY <2>2 DEF Pop
        <3> HIDE DEF m
        <3>4. /\ Len(stack) - 1 \in Int /\ 1 \in Int
              /\ \A i \in 1..(Len(stack) - 1) : i \in 1..Len(stack) /\ stack[i] \in Nat
            BY <3>1
        <3>5. /\ Len(stack') = IF 1 <= Len(stack) - 1 THEN Len(stack) - 1 - 1 + 1 ELSE 0
              /\ \A i \in 1..(Len(stack) - 1 - 1 + 1) : stack'[i] = stack[1 + i - 1]
            BY <3>3, <3>4, SubSeqProperties
        <3>6. Len(stack') = Len(stack) - 1 /\ \A i \in 1..Len(stack') : i \in 1..Len(stack) /\ stack'[i] = stack[i]
            <4>1. Len(stack') = Len(stack) - 1
                <5>1. CASE 1 <= Len(stack) - 1
                    BY <3>1, <3>5, <5>1
                <5>2. CASE Len(stack) = 1
                    BY <3>5, <5>2
                <5>3. \A n \in Nat : n >= 1 => 1 <= n - 1 \/ n = 1
                    OBVIOUS
                <5>4. 1 <= Len(stack) - 1 \/ Len(stack) = 1
                    BY <3>1, <5>3
                <5> QED BY <5>1, <5>2, <5>4
            <4>2. \A i \in 1..Len(stack') : i \in 1..(Len(stack) - 1 - 1 + 1) /\ 1 + i - 1 = i /\ i \in 1..Len(stack)
                BY <3>1, <4>1
            <4> QED BY <3>5, <4>1, <4>2
        <3>7. Len(stack) \in 1..Len(stack) /\ \A i \in 1..Len(stack') : i # Len(stack)
            BY <3>1, <3>6
        <3>8. m \in 1..managers /\ \A q \in Holding : request[q].manager # m
            BY <3>2, <3>7 DEF Managers
        <3>9. \A i \in 1..Len(stack') : stack[i] # m
            BY <3>2, <3>6, <3>7 DEF Managers
        <3> QED BY <3>1, <3>2, <3>6, <3>8, <3>9
    <2> QED BY <2>1, <2>2
<1> HIDE DEF m
<1>3. request'[r].manager = m
    BY DEF m
<1>4. /\ \A q \in Holding' : request'[q].manager \in 1..managers'
      /\ \A i \in 1..Len(stack') : stack'[i] \in 1..managers'
    <2>1. \A k \in 1..managers : k \in 1..managers'
        BY <1>2
    <2>2. \A q \in Holding' : q # r => request'[q].manager \in 1..managers
        BY <1>1 DEF Managers
    <2>3. \A i \in 1..Len(stack') : stack'[i] \in 1..managers
        BY <1>2 DEF Managers
    <2> QED BY <1>2, <1>3, <2>1, <2>2, <2>3
<1>5. \A i, j \in 1..Len(stack') : stack'[i] = stack'[j] => i = j
    BY <1>2 DEF Managers
<1>6. \A q \in Holding', i \in 1..Len(stack') : request'[q].manager # stack'[i]
    BY <1>1, <1>2, <1>3 DEF Managers
<1>7. \A p, q \in Holding' : request'[p].manager = request'[q].manager => p = q
    BY <1>1, <1>2, <1>3 DEF Managers
<1>8. \A p \in Releasing', q \in Holding' : request'[q].manager = request'[p].manager => q \notin requests'
    BY <1>1 DEF Managers
<1> QED BY <1>4, <1>5, <1>6, <1>7, <1>8 DEF Managers

\* A step that makes neither a request nor a buffer manager.
LEMMA SameBounds ==
    ASSUME Bounds, UNCHANGED managers, main'.attempts = main.attempts,
           \A r \in Requests : /\ request'[r].manager = request[r].manager
                               /\ request'[r].stage = "none" <=> request[r].stage = "none",
           closed' \subseteq Connections, Managers',
           failed' \in {"no", "assertion", "deleted twice", "used after deletion"}
    PROVE  Bounds'
<1>1. Born' = Born
    BY DEF Born
<1> QED BY <1>1 DEF Bounds, Managers

\* At most one buffer manager is made for a new request.
LEMMA NewBounds ==
    ASSUME Types, Bounds, NEW r \in Requests, request[r].stage = "none", request'[r].stage = "alive",
           request'[r].manager = Pop.manager, managers' = Pop.managers, Pop.manager <= Pop.managers,
           \A q \in Requests : q # r => request'[q].manager = request[q].manager
                                             /\ request'[q].stage = request[q].stage,
           main'.attempts = main.attempts, failed' = failed, closed' = closed, Managers'
    PROVE  Bounds'
<1>1. Born' = Born \cup {r} /\ r \notin Born
    BY DEF Born
<1>2. IsFiniteSet(Born)
    BY FS_Subset DEF Born, TaskManagerAssumption
<1>3. Cardinality(Born') = Cardinality(Born) + 1 /\ Cardinality(Born) \in Nat
    BY <1>1, <1>2, FS_AddElement, FS_CardinalityType
<1>4. managers' \in {managers, managers + 1} /\ managers \in Nat
    BY DEF Pop, Types
<1>5. \A q \in Requests : request[q].manager \in Nat /\ request[q].manager <= managers
    BY DEF Types, AnyRequest, Bounds
<1>6. \A q \in Requests : request'[q].manager <= managers'
    BY <1>4, <1>5
<1>7. managers' <= Cardinality(Born')
    <2>1. managers <= Cardinality(Born)
        BY DEF Bounds
    <2>2. \A c, m \in Nat : m <= c => m <= c + 1 /\ m + 1 <= c + 1
        OBVIOUS
    <2> QED BY <1>3, <1>4, <2>1, <2>2
<1> QED BY <1>6, <1>7 DEF Bounds, Managers

\* The steps of the task manager's thread, in the order of TaskManager::run.  The first
\* looks at the state of the server.
LEMMA RunLoopKeeps == ASSUME Sound, RunLoop PROVE StillSound
<1>1. Types'
    BY DEF Sound, RunLoop, Manage, sets, Types, TmPlaces, Giving
<1>2. Tasks' /\ \A q \in Requests : HasTask(q)' = HasTask(q)
    BY SameTasks DEF Sound, RunLoop, Manage, sets
<1>3. Managing'
    BY <1>2 DEF Sound, RunLoop, Manage, sets, Types, Managing, Giving
<1>4. Living'
    BY DEF Sound, RunLoop, Manage, sets, Types, Living
<1>5. Shutdown'
    BY DEF Sound, RunLoop, Manage, sets, Shutdown
<1>6. Sockets'
    BY DEF Sound, RunLoop, Manage, sets, Types, Sockets
<1>7. Managers'
    BY <1>2 DEF Sound, RunLoop, Manage, sets, Types, Managers, Holding, Releasing
<1>8. Bounds'
    BY <1>7 DEF Sound, RunLoop, Manage, sets, Types, Bounds, Born, Managers
<1>9. AssertionOnlyAfterGivingUp'
    BY DEF Sound, RunLoop, Manage, sets, AssertionOnlyAfterGivingUp
<1> QED BY <1>1, <1>2, <1>3, <1>4, <1>5, <1>6, <1>7, <1>8, <1>9 DEF StillSound

\* _giveWork asks a request whether it is queued, then whether it has work.
LEMMA PollKeeps == ASSUME Sound, Poll PROVE StillSound
<1>1. Types'
    <2>1. PICK r \in tm.todo :
              tm' \in {Next1(r), [tm EXCEPT !.at = "mark", !.r = r], [tm EXCEPT !.at = "pending", !.r = r]}
        BY DEF Poll, Manage
    <2>2. r \in Requests
        BY DEF Sound, Types
    <2>3. tm' \in [at : TmPlaces, r : Requests \cup {NoOne}, todo : SUBSET Requests]
        <3>1. CASE tm' = Next1(r)
            BY <2>2, <3>1 DEF Sound, Types, Next1, TmPlaces, Giving
        <3>2. CASE tm' = [tm EXCEPT !.at = "mark", !.r = r]
            BY <2>2, <3>2 DEF Sound, Types, TmPlaces, Giving
        <3>3. CASE tm' = [tm EXCEPT !.at = "pending", !.r = r]
            BY <2>2, <3>3 DEF Sound, Types, TmPlaces, Giving
        <3> QED BY <2>1, <3>1, <3>2, <3>3
    <2> QED BY <2>3 DEF Sound, Poll, sets, Types
<1>2. Tasks' /\ \A q \in Requests : HasTask(q)' = HasTask(q)
    BY SameTasks DEF Sound, Poll, Next1, Manage, sets
<1>3. Managing'
    BY <1>2 DEF Sound, Poll, Next1, Manage, sets, Types, Managing, Giving
<1>4. Living'
    BY DEF Sound, Poll, Next1, Manage, sets, Types, Living
<1>5. Shutdown'
    BY DEF Sound, Poll, Next1, Manage, sets, Shutdown
<1>6. Sockets'
    BY DEF Sound, Poll, Next1, Manage, sets, Types, Sockets
<1>7. Managers'
    BY <1>2 DEF Sound, Poll, Next1, Manage, sets, Types, Managers, Holding, Releasing
<1>8. Bounds'
    BY <1>7 DEF Sound, Poll, Next1, Manage, sets, Types, Bounds, Born, Managers
<1>9. AssertionOnlyAfterGivingUp'
    BY DEF Sound, Poll, Next1, Manage, sets, AssertionOnlyAfterGivingUp
<1> QED BY <1>1, <1>2, <1>3, <1>4, <1>5, <1>6, <1>7, <1>8, <1>9 DEF StillSound

\* setQueued(true): the request that is polled was not queued, so it has no task.
LEMMA SetQueuedKeeps == ASSUME Sound, SetQueued PROVE StillSound
<1>1. Types'
    <2>1. tm.r \in Requests
        BY DEF Sound, SetQueued, Manage, Managing, Types
    <2>2. request' \in [Requests -> AnyRequest]
        <3>1. PICK s \in {"waits", "ready", "done"} :
                request' = [request EXCEPT ![tm.r].queued = TRUE, ![tm.r].status = IF @ = "ready" THEN s ELSE @]
            BY DEF SetQueued
        <3>2. request[tm.r] \in AnyRequest
            BY <2>1 DEF Sound, Types
        <3>3. [request[tm.r] EXCEPT !.queued = TRUE, !.status = IF @ = "ready" THEN s ELSE @] \in AnyRequest
            BY <3>2 DEF AnyRequest
        <3> QED BY <2>1, <3>1, <3>2, <3>3 DEF Sound, Types
    <2>3. tm' \in [at : TmPlaces, r : Requests \cup {NoOne}, todo : SUBSET Requests]
        BY DEF Sound, SetQueued, Manage, Types, TmPlaces, Giving
    <2> QED BY <2>2, <2>3 DEF Sound, SetQueued, sets, Types
<1>2. Tasks' /\ \A q \in Requests : HasTask(q)' = HasTask(q)
    BY DEF Sound, SetQueued, Manage, sets, Types, AnyRequest, Tasks, Busy, HasTask
<1>3. Managing'
    BY <1>2 DEF Sound, SetQueued, Manage, sets, Types, AnyRequest, Managing, Giving, Tasks
<1>4. Living'
    BY DEF Sound, SetQueued, Manage, sets, Types, AnyRequest, Living
<1>5. Shutdown'
    BY DEF Sound, SetQueued, Manage, sets, Types, AnyRequest, Shutdown, Serving
<1>6. Sockets'
    BY DEF Sound, SetQueued, Manage, sets, Types, Sockets
<1>7. Managers'
    <2>1. \A r \in Requests : request'[r].manager = request[r].manager /\ request'[r].stage = request[r].stage
        BY DEF Sound, SetQueued, Types, AnyRequest
    <2>2. Releasing' = Releasing /\ UNCHANGED <<stack, managers, requests, main>>
        BY DEF Sound, Types, SetQueued, Manage, sets, Releasing
    <2> QED BY <1>2, <2>1, <2>2, SameManagers, ReleasingIsIdle DEF Sound, Managers
<1>8. Bounds'
    <2>1. \A r \in Requests : request'[r].manager = request[r].manager /\ request'[r].stage = request[r].stage
        BY DEF Sound, SetQueued, Types, AnyRequest
    <2> QED BY <2>1, <1>7, SameBounds DEF Sound, Bounds, SetQueued
<1>9. AssertionOnlyAfterGivingUp'
    BY DEF Sound, SetQueued, Manage, sets, AssertionOnlyAfterGivingUp
<1> QED BY <1>1, <1>2, <1>3, <1>4, <1>5, <1>6, <1>7, <1>8, <1>9 DEF StillSound

\* The task is queued: the one task of its request.
LEMMA QueueTaskKeeps == ASSUME Sound, QueueTask PROVE StillSound
<1>1. Types'
    <2>1. tm.r \in Requests
        BY DEF Sound, QueueTask, Manage, Managing, Types
    <2> QED BY <2>1, AppendProperties DEF Sound, QueueTask, Next1, Manage, sets, Types, TmPlaces, Giving
<1>2. Tasks'
    <2>1. tm.r \in requests /\ request[tm.r].queued /\ ~HasTask(tm.r) /\ request[tm.r].stage = "alive"
        BY DEF Sound, QueueTask, Manage, Types, Managing, Living, Shutdown
    <2>2. /\ queue \in Seq(Requests) /\ Len(queue') = Len(queue) + 1 /\ queue'[Len(queue) + 1] = tm.r
          /\ \A i \in 1..Len(queue) : queue'[i] = queue[i]
        BY <2>1, AppendProperties DEF Sound, QueueTask, Types
    <2>3. UNCHANGED <<worker, request>>
        BY DEF QueueTask
    <2>4. \A i \in 1..Len(queue') : i \in 1..Len(queue) \/ i = Len(queue) + 1
        BY <2>2
    <2>5. \A r \in Requests : HasTask(r)' <=> HasTask(r) \/ r = tm.r
        BY <2>1, <2>2, <2>3, <2>4 DEF Busy, HasTask
    <2>6. \A i, j \in 1..Len(queue') : queue'[i] = queue'[j] => i = j
        BY <2>1, <2>2, <2>3, <2>4 DEF Sound, Tasks, HasTask
    <2>7. \A w \in Workers, i \in 1..Len(queue') : Busy(w)' => worker'[w].r # queue'[i]
        BY <2>1, <2>2, <2>3, <2>4 DEF Sound, Tasks, Busy, HasTask
    <2>8. \A r \in Requests : HasTask(r)' => request'[r].queued /\ request'[r].stage = "alive"
        BY <2>1, <2>3, <2>5 DEF Sound, Tasks
    <2>9. \A w \in Workers : Busy(w)' => worker'[w].r \in Requests
        BY <2>3 DEF Sound, Tasks, Busy
    <2>10. \A v, w \in Workers : Busy(v)' /\ Busy(w)' /\ worker'[v].r = worker'[w].r => v = w
        BY <2>3 DEF Sound, Tasks, Busy
    <2> QED BY <2>6, <2>7, <2>8, <2>9, <2>10, Zenon DEF Tasks
<1>3. Managing'
    BY <1>2 DEF Sound, QueueTask, Next1, Manage, sets, Types, Managing, Giving
<1>4. Living'
    BY DEF Sound, QueueTask, Next1, Manage, sets, Types, Living
<1>5. Shutdown'
    BY DEF Sound, QueueTask, Next1, Manage, sets, Shutdown
<1>6. Sockets'
    BY DEF Sound, QueueTask, Next1, Manage, sets, Types, Sockets
<1>7. Managers'
    <2>1. Releasing' = Releasing /\ UNCHANGED <<stack, managers, requests, main, request>>
        BY DEF Sound, Types, QueueTask, Manage, Next1, sets, Releasing
    <2>2. \A r \in Requests : HasTask(r)' => r \in requests
        <3>1. tm.r \in requests /\ queue \in Seq(Requests) /\ tm.r \in Requests
            BY DEF Sound, Types, QueueTask, Manage, Managing
        <3>2. \A i \in 1..Len(queue') : queue'[i] = tm.r \/ \E j \in 1..Len(queue) : queue'[i] = queue[j]
            BY <3>1, AppendProperties DEF QueueTask
        <3>3. worker' = worker
            BY DEF QueueTask
        <3>4. \A r \in Requests : HasTask(r)' => HasTask(r) \/ r = tm.r
            BY <3>2, <3>3 DEF HasTask, Busy
        <3> QED BY <3>1, <3>4 DEF Sound, Managers
    <2> QED BY <2>1, <2>2, SameManagers, ReleasingIsIdle DEF Sound, Managers
<1>8. Bounds'
    BY <1>7 DEF Sound, QueueTask, Next1, Manage, sets, Types, Bounds, Born, Managers
<1>9. AssertionOnlyAfterGivingUp'
    BY DEF Sound, QueueTask, Next1, Manage, sets, AssertionOnlyAfterGivingUp
<1> QED BY <1>1, <1>2, <1>3, <1>4, <1>5, <1>6, <1>7, <1>8, <1>9 DEF StillSound

\* hasPendingEvent changes nothing but the place of the thread.
LEMMA PendingKeeps == ASSUME Sound, HasPendingEvent PROVE StillSound
<1>1. Types'
    BY DEF Sound, HasPendingEvent, Next1, Manage, sets, Types, TmPlaces, Giving
<1>2. Tasks' /\ \A q \in Requests : HasTask(q)' = HasTask(q)
    BY SameTasks DEF Sound, HasPendingEvent, Next1, Manage, sets
<1>3. Managing'
    BY <1>2 DEF Sound, HasPendingEvent, Next1, Manage, sets, Types, Managing, Giving
<1>4. Living'
    BY DEF Sound, HasPendingEvent, Next1, Manage, sets, Types, Living
<1>5. Shutdown'
    BY DEF Sound, HasPendingEvent, Next1, Manage, sets, Shutdown
<1>6. Sockets'
    BY DEF Sound, HasPendingEvent, Next1, Manage, sets, Types, Sockets
<1>7. Managers'
    BY <1>2 DEF Sound, HasPendingEvent, Next1, Manage, sets, Types, Managers, Holding, Releasing
<1>8. Bounds'
    BY <1>7 DEF Sound, HasPendingEvent, Next1, Manage, sets, Types, Bounds, Born, Managers
<1>9. AssertionOnlyAfterGivingUp'
    BY DEF Sound, HasPendingEvent, Next1, Manage, sets, AssertionOnlyAfterGivingUp
<1> QED BY <1>1, <1>2, <1>3, <1>4, <1>5, <1>6, <1>7, <1>8, <1>9 DEF StillSound

\* A request that is over joins those to delete: it is not queued.
LEMMA GiveUpKeeps == ASSUME Sound, GiveUp PROVE StillSound
<1>1. Types'
    <2>1. tm.r \in Requests
        BY DEF Sound, GiveUp, Manage, Managing, Types
    <2> QED BY <2>1 DEF Sound, GiveUp, Next1, Manage, sets, Types, TmPlaces, Giving
<1>2. Tasks' /\ \A q \in Requests : HasTask(q)' = HasTask(q)
    BY SameTasks DEF Sound, GiveUp, Next1, Manage, sets
<1>3. Managing'
    BY <1>2 DEF Sound, GiveUp, Next1, Manage, sets, Types, Managing, Giving
<1>4. Living'
    BY DEF Sound, GiveUp, Next1, Manage, sets, Types, Living
<1>5. Shutdown'
    BY DEF Sound, GiveUp, Next1, Manage, sets, Shutdown
<1>6. Sockets'
    BY DEF Sound, GiveUp, Next1, Manage, sets, Types, Sockets
<1>7. Managers'
    BY <1>2 DEF Sound, GiveUp, Next1, Manage, sets, Types, Managers, Holding, Releasing
<1>8. Bounds'
    BY <1>7 DEF Sound, GiveUp, Next1, Manage, sets, Types, Bounds, Born, Managers
<1>9. AssertionOnlyAfterGivingUp'
    BY DEF Sound, GiveUp, Next1, Manage, sets, AssertionOnlyAfterGivingUp
<1> QED BY <1>1, <1>2, <1>3, <1>4, <1>5, <1>6, <1>7, <1>8, <1>9 DEF StillSound

\* The requests to delete are not queued.
LEMMA WorkGivenKeeps == ASSUME Sound, WorkGiven PROVE StillSound
<1>1. Types'
    BY DEF Sound, WorkGiven, Manage, sets, Types, TmPlaces, Giving
<1>2. Tasks' /\ \A q \in Requests : HasTask(q)' = HasTask(q)
    BY SameTasks DEF Sound, WorkGiven, Manage, sets
<1>3. Managing'
    BY <1>2 DEF Sound, WorkGiven, Manage, sets, Types, Managing, Giving
<1>4. Living'
    BY DEF Sound, WorkGiven, Manage, sets, Types, Living
<1>5. Shutdown'
    BY DEF Sound, WorkGiven, Manage, sets, Shutdown
<1>6. Sockets'
    BY DEF Sound, WorkGiven, Manage, sets, Types, Sockets
<1>7. Managers'
    BY <1>2 DEF Sound, WorkGiven, Manage, sets, Types, Managers, Holding, Releasing
<1>8. Bounds'
    BY <1>7 DEF Sound, WorkGiven, Manage, sets, Types, Bounds, Born, Managers
<1>9. AssertionOnlyAfterGivingUp'
    BY DEF Sound, WorkGiven, Manage, sets, AssertionOnlyAfterGivingUp
<1> QED BY <1>1, <1>2, <1>3, <1>4, <1>5, <1>6, <1>7, <1>8, <1>9 DEF StillSound

\* Nothing is left to delete.
LEMMA DeletedKeeps == ASSUME Sound, Deleted PROVE StillSound
<1>1. Types'
    BY DEF Sound, Deleted, Manage, sets, Types, TmPlaces, Giving
<1>2. Tasks' /\ \A q \in Requests : HasTask(q)' = HasTask(q)
    BY SameTasks DEF Sound, Deleted, Manage, sets
<1>3. Managing'
    BY <1>2 DEF Sound, Deleted, Manage, sets, Types, Managing, Giving
<1>4. Living'
    BY DEF Sound, Deleted, Manage, sets, Types, Living
<1>5. Shutdown'
    BY DEF Sound, Deleted, Manage, sets, Shutdown
<1>6. Sockets'
    BY DEF Sound, Deleted, Manage, sets, Types, Sockets
<1>7. Managers'
    BY <1>2 DEF Sound, Deleted, Manage, sets, Types, Managers, Holding, Releasing
<1>8. Bounds'
    BY <1>7 DEF Sound, Deleted, Manage, sets, Types, Bounds, Born, Managers
<1>9. AssertionOnlyAfterGivingUp'
    BY DEF Sound, Deleted, Manage, sets, AssertionOnlyAfterGivingUp
<1> QED BY <1>1, <1>2, <1>3, <1>4, <1>5, <1>6, <1>7, <1>8, <1>9 DEF StillSound

\* No request is being deleted when the new ones join.
LEMMA AddPendingKeeps == ASSUME Sound, AddPending PROVE StillSound
<1>1. Types'
    BY DEF Sound, AddPending, Manage, sets, Types, TmPlaces, Giving
<1>2. Tasks' /\ \A q \in Requests : HasTask(q)' = HasTask(q)
    BY SameTasks DEF Sound, AddPending, Manage, sets
<1>3. Managing'
    BY <1>2 DEF Sound, AddPending, Manage, sets, Types, Managing, Giving
<1>4. Living'
    BY DEF Sound, AddPending, Manage, sets, Types, Living
<1>5. Shutdown'
    BY DEF Sound, AddPending, Manage, sets, Shutdown
<1>6. Sockets'
    BY DEF Sound, AddPending, Manage, sets, Types, Sockets
<1>7. Managers'
    <2>1. Releasing' = {} /\ Releasing = {} /\ UNCHANGED <<stack, managers, main, request>>
        BY DEF Sound, Types, AddPending, Manage, sets, Releasing, Shutdown, Serving
    <2>2. \A r \in Requests : HasTask(r)' => r \in requests'
        BY <1>2 DEF Sound, Managers, AddPending
    <2> QED BY <2>1, <2>2, SameManagers DEF Sound, Managers
<1>8. Bounds'
    BY <1>7 DEF Sound, AddPending, Manage, sets, Types, Bounds, Born, Managers
<1>9. AssertionOnlyAfterGivingUp'
    BY DEF Sound, AddPending, Manage, sets, AssertionOnlyAfterGivingUp
<1> QED BY <1>1, <1>2, <1>3, <1>4, <1>5, <1>6, <1>7, <1>8, <1>9 DEF StillSound

\* endRequest: not queued, hence without a task, so the assertion holds.
LEMMA EndingKeeps == ASSUME Sound, DelPending PROVE StillSound
<1>1. Types'
    <2>1. PICK r \in tm.todo : /\ tm' = [tm EXCEPT !.at = "release", !.r = r, !.todo = tm.todo \ {r}]
                               /\ requests' = requests \ {r}
                               /\ stack' = IF request[r].queued THEN stack ELSE Append(stack, request[r].manager)
        BY DEF DelPending, Manage, PushManager
    <2>2. r \in Requests /\ request[r].manager \in Nat
        BY DEF Sound, Types, AnyRequest
    <2>3. stack' \in Seq(Nat)
        BY <2>1, <2>2, AppendProperties DEF Sound, Types
    <2>4. tm' \in [at : TmPlaces, r : Requests \cup {NoOne}, todo : SUBSET Requests]
        BY <2>1, <2>2 DEF Sound, Types, Manage, TmPlaces, Giving
    <2> QED BY <2>1, <2>3, <2>4 DEF Sound, DelPending, Types
<1>2. Tasks' /\ \A q \in Requests : HasTask(q)' = HasTask(q)
    BY SameTasks DEF Sound, DelPending, Manage, PushManager, sets
<1>3. Managing'
    BY <1>2 DEF Sound, DelPending, Manage, PushManager, sets, Types, Managing, Giving, Living, Shutdown
<1>4. Living'
    BY DEF Sound, DelPending, Manage, sets, Types, Managing, Living, Shutdown
<1>5. Shutdown'
    BY DEF Sound, DelPending, Manage, PushManager, sets, Shutdown
<1>6. Sockets'
    BY DEF Sound, DelPending, Manage, PushManager, sets, Types, Sockets
<1>7. Managers'
    <2>1. PICK r \in tm.todo :
              /\ tm.at = "delete" /\ tm' = [tm EXCEPT !.at = "release", !.r = r, !.todo = tm.todo \ {r}]
              /\ requests' = requests \ {r}
              /\ stack' = IF request[r].queued THEN stack ELSE Append(stack, request[r].manager)
        BY DEF DelPending, Manage, PushManager
    <2>2. r \in Requests /\ r \in requests /\ ~request[r].queued /\ main.at \in Serving
        BY <2>1 DEF Sound, Types, Managing, Shutdown
    <2>3. Releasing = {} /\ Releasing' = {r} /\ UNCHANGED <<request, managers, main>>
        BY <2>1, <2>2 DEF Sound, Types, DelPending, Releasing, Serving
    <2>4. r \in Holding
        BY <2>2, <2>3 DEF Sound, Living, Holding
    <2>5. stack' = Append(stack, request[r].manager)
        BY <2>1, <2>2
    <2>6. \A q \in Requests : HasTask(q)' => q \in requests'
        BY <1>2, <2>1, <2>2 DEF Sound, Managers, Tasks
    <2> QED BY <2>2, <2>3, <2>4, <2>5, <2>6, PushedManager DEF Sound, Serving
<1>8. Bounds'
    BY <1>7 DEF Sound, DelPending, Manage, PushManager, sets, Types, Bounds, Born, Managers
<1>9. AssertionOnlyAfterGivingUp'
    BY DEF Sound, DelPending, Manage, PushManager, Managing, AssertionOnlyAfterGivingUp
<1> QED BY <1>1, <1>2, <1>3, <1>4, <1>5, <1>6, <1>7, <1>8, <1>9 DEF StillSound

\* Deleting a request changes its stage and its socket, and nothing of others.
LEMMA DeletedOne ==
    ASSUME Types, NEW r \in Requests, DeleteRequest(r)
    PROVE  /\ request' \in [Requests -> AnyRequest] /\ request'[r].stage = "gone" /\ request'[r].socket = NoOne
           /\ request'[r].manager = request[r].manager
           /\ \A q \in Requests : request'[q].queued = request[q].queued /\ (q # r => request'[q] = request[q])
<1> DEFINE gone == [request[r] EXCEPT !.stage = "gone", !.socket = NoOne]
<1>1. /\ request[r] \in AnyRequest /\ gone \in AnyRequest
      /\ gone.queued = request[r].queued /\ gone.stage = "gone" /\ gone.socket = NoOne /\ gone.manager = request[r].manager
    <2>1. request[r] \in AnyRequest
        BY DEF Types
    <2>2. gone \in AnyRequest
        BY <2>1 DEF AnyRequest
    <2>3. /\ gone.queued = request[r].queued /\ gone.stage = "gone"
          /\ gone.socket = NoOne /\ gone.manager = request[r].manager
        BY <2>1 DEF AnyRequest
    <2> QED BY <2>1, <2>2, <2>3
<1>2. request' = [request EXCEPT ![r] = gone]
    BY DEF DeleteRequest
<1> HIDE DEF gone
<1> QED BY <1>1, <1>2 DEF Types

\* No other request, and not the listener, has the Socket that is deleted with a request.
LEMMA DeletedSocket ==
    ASSUME Types, Sockets, NEW r \in Requests, DeleteRequest(r), UNCHANGED listener
    PROVE  Sockets'
<1>1. request'[r].socket = NoOne /\ \A q \in Requests : q # r => request'[q].socket = request[q].socket
    BY DeletedOne
<1>2. closed' = closed \cup ({request[r].socket} \ {NoOne}) /\ request[r].socket \in Connections \cup {NoOne}
    BY DEF DeleteRequest, Types, AnyRequest
<1>3. NoOne \notin closed' /\ closed' \subseteq Connections
    BY <1>2 DEF Sockets
<1> QED BY <1>1, <1>2, <1>3 DEF Sockets

\* The request is deleted, its manager being on the stack already.
LEMMA ReleaseKeeps == ASSUME Sound, Release PROVE StillSound
<1>1. Types'
    <2>1. tm.r \in Requests
        BY DEF Sound, Release, Manage, Managing
    <2>2. tm' \in [at : TmPlaces, r : Requests \cup {NoOne}, todo : SUBSET Requests]
        BY DEF Sound, Types, Release, Manage, TmPlaces, Giving
    <2> QED BY <2>1, <2>2, DeletedOne DEF Sound, Release, sets, Types
<1>2. Tasks' /\ \A q \in Requests : HasTask(q)' = HasTask(q)
    <2>1. tm.r \in Requests /\ ~HasTask(tm.r)
        BY DEF Sound, Release, Manage, Managing, Tasks
    <2>2. \A r \in Requests : request'[r].queued = request[r].queued /\ (r # tm.r => request'[r] = request[r])
        BY <2>1, DeletedOne DEF Sound, Release
    <2>3. UNCHANGED <<worker, queue>>
        BY DEF Release
    <2> QED BY <2>1, <2>2, <2>3 DEF Sound, Tasks, Busy, HasTask
<1>3. Managing'
    <2>1. tm.at = "release" /\ tm' = [tm EXCEPT !.at = "delete", !.r = NoOne] /\ tm.r \in Requests
        BY DEF Sound, Release, Manage, Managing
    <2>2. tm'.at = "delete" /\ tm'.todo = tm.todo /\ tm.todo \subseteq Requests /\ requests' = requests
        BY <2>1 DEF Sound, Types, Release, sets
    <2>3. \A q \in Requests : request'[q].queued = request[q].queued
        BY <2>1, DeletedOne DEF Sound, Release
    <2> QED BY <2>1, <2>2, <2>3 DEF Sound, Managing, Giving
<1>4. Living'
    <2>1. /\ tm.r \in Requests /\ tm.r \notin requests /\ tm.r \notin pending_add
          /\ requests \subseteq Requests /\ pending_add \subseteq Requests
        BY DEF Sound, Release, Manage, Managing, Types
    <2>2. request'[tm.r].stage = "gone" /\ \A r \in Requests : r # tm.r => request'[r] = request[r]
        BY <2>1, DeletedOne DEF Sound, Release
    <2> QED BY <2>1, <2>2 DEF Sound, Release, Manage, sets, Types, Living
<1>5. Shutdown'
    BY DEF Sound, Release, Manage, DeleteRequest, sets, Types, AnyRequest, Shutdown, Serving
<1>6. Sockets'
    BY DeletedSocket DEF Sound, Release, Manage, Managing
<1>7. Managers'
    <2>1. tm.r \in Requests /\ Releasing = {tm.r} /\ Releasing' = {} /\ main.at \in Serving
        BY DEF Sound, Types, Release, Manage, Managing, Shutdown, Serving, Releasing
    <2>2. request'[tm.r].stage = "gone" /\ \A q \in Requests : q # tm.r => request'[q] = request[q]
        BY <2>1, DeletedOne DEF Sound, Release
    <2> QED BY <1>2, <2>1, <2>2, ReleasedManager DEF Sound, Release, sets, Managers, Serving
<1>8. Bounds'
    <2>1. tm.r \in Requests /\ request[tm.r].stage = "alive"
        BY DEF Sound, Release, Manage, Managing
    <2>2. /\ request'[tm.r].stage = "gone" /\ request'[tm.r].manager = request[tm.r].manager
          /\ \A q \in Requests : q # tm.r => request'[q] = request[q]
        BY <2>1, DeletedOne DEF Sound, Release
    <2>3. failed' \in {"no", "deleted twice"} /\ main'.attempts = main.attempts
        BY DEF Sound, Types, Release, DeleteRequest
    <2>4. closed' \subseteq Connections
        BY <1>6 DEF Sockets
    <2> QED BY <2>1, <2>2, <2>3, <2>4, <1>7, SameBounds DEF Sound, Release
<1>9. AssertionOnlyAfterGivingUp'
    BY DEF Sound, Release, Manage, DeleteRequest, sets, AssertionOnlyAfterGivingUp
<1> QED BY <1>1, <1>2, <1>3, <1>4, <1>5, <1>6, <1>7, <1>8, <1>9 DEF StillSound

\* A new request waits, is not queued, and takes nothing from the others.
LEMMA NewOne ==
    ASSUME Types, NEW r \in Requests, NEW c \in Connections \cup {NoOne}, NEW old \in [Requests -> AnyRequest],
           NewSession(r, c, old)
    PROVE  /\ request' \in [Requests -> AnyRequest] /\ stack' \in Seq(Nat) /\ managers' \in Nat
           /\ request'[r].stage = "alive" /\ ~request'[r].queued /\ request'[r].socket = c
           /\ request'[r].manager = Pop.manager /\ stack' = Pop.stack /\ managers' = Pop.managers
           /\ \A q \in Requests : q # r => request'[q] = old[q]
<1> DEFINE new == [NoRequest EXCEPT !.stage = "alive", !.manager = Pop.manager, !.socket = c]
<1>1. Pop.manager \in Nat /\ Pop.stack \in Seq(Nat) /\ Pop.managers \in Nat
    <2>1. CASE stack = <<>>
        BY <2>1 DEF Types, Pop
    <2>2. CASE stack # <<>>
        <3>1. Len(stack) \in Nat /\ Len(stack) >= 1 /\ \A i \in 1..Len(stack) : stack[i] \in Nat
            BY <2>2, EmptySeq, ElementOfSeq, LenProperties DEF Types
        <3>2. SubSeq(stack, 1, Len(stack) - 1) \in Seq(Nat)
            BY <3>1, SubSeqProperties DEF Types
        <3> QED BY <2>2, <3>1, <3>2 DEF Types, Pop
    <2> QED BY <2>1, <2>2
<1> HIDE DEF new
<1>2. new \in AnyRequest /\ new.stage = "alive" /\ ~new.queued /\ new.socket = c /\ new.manager = Pop.manager
    BY <1>1 DEF new, NoRequest, AnyRequest
<1>3. request' = [old EXCEPT ![r] = new]
    BY DEF NewSession, new
<1> QED BY <1>1, <1>2, <1>3 DEF NewSession

\* The end of a wait changes a status only.
LEMMA SocketEventKeeps == ASSUME NEW r \in Requests, Sound, SocketEvent(r) PROVE StillSound
<1>1. Types'
    <2>1. \A s \in {"ready", "error"} : [request[r] EXCEPT !.status = s] \in AnyRequest
        <3>1. request[r] \in AnyRequest
            BY DEF Sound, Types
        <3> QED BY <3>1 DEF AnyRequest
    <2>2. PICK s \in {"ready", "error"} : request' = [request EXCEPT ![r].status = s]
        BY DEF SocketEvent
    <2>3. request' \in [Requests -> AnyRequest]
        BY <2>1, <2>2 DEF Sound, Types
    <2> QED BY <2>3 DEF Sound, SocketEvent, sets, Types
<1>2. Tasks' /\ \A q \in Requests : HasTask(q)' = HasTask(q)
    BY SameTasks DEF Sound, SocketEvent, Types, AnyRequest
<1>3. Managing'
    BY <1>2 DEF Sound, SocketEvent, sets, Types, AnyRequest, Managing, Giving
<1>4. Living'
    BY DEF Sound, SocketEvent, sets, Types, AnyRequest, Living
<1>5. Shutdown'
    BY DEF Sound, SocketEvent, sets, Types, AnyRequest, Shutdown
<1>6. Sockets'
    BY DEF Sound, SocketEvent, sets, Types, Sockets
<1>7. Managers'
    BY <1>2 DEF Sound, SocketEvent, sets, Types, Managers, Holding, Releasing
<1>8. Bounds'
    <2>1. \A q \in Requests : request'[q].manager = request[q].manager /\ request'[q].stage = request[q].stage
        BY DEF Sound, SocketEvent, Types, AnyRequest
    <2> QED BY <2>1, <1>7, SameBounds DEF Sound, Bounds, SocketEvent
<1>9. AssertionOnlyAfterGivingUp'
    BY DEF Sound, SocketEvent, sets, AssertionOnlyAfterGivingUp
<1> QED BY <1>1, <1>2, <1>3, <1>4, <1>5, <1>6, <1>7, <1>8, <1>9 DEF StillSound

\* A kept connection goes from the request that is over to a new one.
LEMMA HandOverKeeps == ASSUME Sound, HandOver PROVE StillSound
<1>0. PICK r \in Requests :
        /\ request[r].stage = "none" /\ r # tm.r /\ tm.r \in Requests
        /\ request' \in [Requests -> AnyRequest] /\ stack' \in Seq(Nat) /\ managers' \in Nat
        /\ request'[r].stage = "alive" /\ ~request'[r].queued /\ pending_add' = pending_add \cup {r}
        /\ \A q \in Requests : q # r => /\ request'[q].queued = request[q].queued
                                        /\ request'[q].stage = request[q].stage
                                        /\ request'[q].manager = request[q].manager
        /\ \A q \in Requests : request'[q].socket =
               (IF q = r THEN request[tm.r].socket ELSE IF q = tm.r THEN NoOne ELSE request[q].socket)
        /\ request'[r].manager = Pop.manager /\ stack' = Pop.stack /\ managers' = Pop.managers
    <2>1. tm.r \in Requests /\ request[tm.r].stage = "alive" /\ request[tm.r].socket \in Connections \cup {NoOne}
        BY DEF Sound, HandOver, Manage, Managing, Types, AnyRequest, Living, Shutdown
    <2> DEFINE old == [request EXCEPT ![tm.r].socket = NoOne]
    <2>2. /\ old \in [Requests -> AnyRequest]
          /\ \A q \in Requests : /\ old[q].queued = request[q].queued /\ old[q].stage = request[q].stage
                                 /\ old[q].manager = request[q].manager
                                 /\ old[q].socket = (IF q = tm.r THEN NoOne ELSE request[q].socket)
        <3>1. request[tm.r] \in AnyRequest /\ old = [request EXCEPT ![tm.r] = [request[tm.r] EXCEPT !.socket = NoOne]]
            BY <2>1 DEF Sound, Types
        <3>2. [request[tm.r] EXCEPT !.socket = NoOne] \in AnyRequest
            BY <3>1 DEF AnyRequest
        <3>3. old \in [Requests -> AnyRequest]
            BY <2>1, <3>1, <3>2 DEF Sound, Types
        <3>4. \A q \in Requests : /\ old[q].queued = request[q].queued /\ old[q].stage = request[q].stage
                                  /\ old[q].manager = request[q].manager
                                  /\ old[q].socket = (IF q = tm.r THEN NoOne ELSE request[q].socket)
            BY <2>1, <3>1 DEF Sound, Types, AnyRequest
        <3> QED BY <3>3, <3>4
    <2>3. PICK r \in Unborn : NewSession(r, request[tm.r].socket, old)
        BY DEF HandOver
    <2>4. r \in Requests /\ request[r].stage = "none"
        BY <2>3 DEF Unborn
    <2>5. pending_add' = pending_add \cup {r}
        BY <2>3 DEF NewSession
    <2> HIDE DEF old
    <2>6. /\ request' \in [Requests -> AnyRequest] /\ stack' \in Seq(Nat) /\ managers' \in Nat
          /\ request'[r].stage = "alive" /\ ~request'[r].queued /\ request'[r].socket = request[tm.r].socket
          /\ request'[r].manager = Pop.manager /\ stack' = Pop.stack /\ managers' = Pop.managers
          /\ \A q \in Requests : q # r => request'[q] = old[q]
        BY <2>1, <2>2, <2>3, <2>4, NewOne DEF Sound
    <2> QED BY <2>1, <2>2, <2>4, <2>5, <2>6
<1>1. Types'
    <2>1. tm' \in [at : TmPlaces, r : Requests \cup {NoOne}, todo : SUBSET Requests]
        BY DEF Sound, HandOver, Manage, Next1, Types, TmPlaces, Giving
    <2> QED BY <1>0, <2>1 DEF Sound, HandOver, Types
<1>2. Tasks' /\ \A q \in Requests : HasTask(q)' = HasTask(q)
    <2>1. UNCHANGED <<worker, queue>> /\ ~HasTask(r)
        BY <1>0 DEF Sound, HandOver, Tasks
    <2> QED BY <1>0, <2>1, SameTasks DEF Sound
<1>3. Managing'
    <2>1. tm.r \in Requests /\ tm.r \in requests /\ ~request[tm.r].queued
        BY <1>0 DEF Sound, HandOver, Manage, Managing
    <2>2. \A q \in Requests : q # r => request'[q].queued = request[q].queued
        BY <1>0
    <2>3. tm' = Next1(tm.r) /\ pending_del' = pending_del \cup {tm.r} /\ requests' = requests
        BY DEF HandOver, Manage
    <2>4. ~request'[r].queued
        BY <1>0
    <2> QED BY <2>1, <2>2, <2>3, <2>4 DEF Sound, HandOver, Manage, Next1, Types, Managing, Giving
<1>4. Living'
    <2>1. r \notin requests
        BY <1>0 DEF Sound, HandOver, Manage, Living, Shutdown
    <2>2. tm.at = "keep" /\ tm'.at = "give" /\ UNCHANGED <<requests, main>>
        BY DEF Sound, Types, HandOver, Manage, Next1
    <2> QED BY <1>0, <2>1, <2>2 DEF Sound, Types, Living
<1>5. Shutdown'
    BY DEF Sound, HandOver, Manage, sets, Shutdown, Serving
<1>6. Sockets'
    <2>1. closed' = closed /\ listener' = listener
        BY DEF HandOver
    <2>2. \A q \in Requests : request'[q].socket =
              (IF q = r THEN request[tm.r].socket ELSE IF q = tm.r THEN NoOne ELSE request[q].socket)
        BY <1>0
    <2>3. NoOne \notin closed
        BY DEF Sound, Sockets
    <2> QED BY <1>0, <2>1, <2>2, <2>3 DEF Sound, Sockets
<1>7. Managers'
    <2>1. /\ Releasing' = Releasing /\ r \notin requests /\ UNCHANGED requests /\ main'.at \in Serving
          /\ \A q \in Releasing : q \in Requests /\ request[q].stage = "alive"
        BY <1>0 DEF Sound, Types, HandOver, Manage, Next1, Releasing, Managing, Living, Shutdown, Serving
    <2>2. \A q \in Requests : HasTask(q)' => q \in requests
        BY <1>2 DEF Sound, Managers
    <2> QED BY <1>0, <2>1, <2>2, NewManager DEF Sound, Serving
<1>8. Bounds'
    <2>1. r \in Holding'
        BY <1>0 DEF Sound, HandOver, Manage, Next1, Types, Holding, Releasing, Managing, Shutdown, Serving, Living
    <2>2. Pop.manager <= Pop.managers
        BY <1>0, <1>7, <2>1 DEF Managers
    <2> QED BY <1>0, <1>7, <2>2, NewBounds DEF Sound, HandOver
<1>9. AssertionOnlyAfterGivingUp'
    BY DEF Sound, HandOver, Manage, sets, AssertionOnlyAfterGivingUp
<1> QED BY <1>1, <1>2, <1>3, <1>4, <1>5, <1>6, <1>7, <1>8, <1>9 DEF StillSound

\* The listener hands a connection to a new request.
LEMMA NewSessionKeeps == ASSUME Sound, HandleNewSession PROVE StillSound
<1>0. PICK r \in Requests :
        /\ request[r].stage = "none"
        /\ request' \in [Requests -> AnyRequest] /\ stack' \in Seq(Nat) /\ managers' \in Nat
        /\ request'[r].stage = "alive" /\ ~request'[r].queued /\ pending_add' = pending_add \cup {r}
        /\ request'[r].socket = listener.last
        /\ request'[r].manager = Pop.manager /\ stack' = Pop.stack /\ managers' = Pop.managers
        /\ \A q \in Requests : q # r => request'[q] = request[q]
    <2>1. PICK r \in Unborn : NewSession(r, listener.last, request)
        BY DEF HandleNewSession
    <2>2. r \in Requests /\ request[r].stage = "none" /\ pending_add' = pending_add \cup {r}
        BY <2>1 DEF Unborn, NewSession
    <2>3. listener.last \in Connections \cup {NoOne} /\ request \in [Requests -> AnyRequest]
        BY DEF Sound, Types
    <2> QED BY <2>1, <2>2, <2>3, NewOne DEF Sound
<1>1. Types'
    <2>1. listener' = [listener EXCEPT !.at = "loop", !.handed = TRUE]
        BY DEF HandleNewSession, Listen
    <2> QED BY <1>0, <2>1 DEF Sound, HandleNewSession, Types
<1>2. Tasks' /\ \A q \in Requests : HasTask(q)' = HasTask(q)
    <2>1. UNCHANGED <<worker, queue>> /\ ~HasTask(r)
        BY <1>0 DEF Sound, HandleNewSession, Tasks
    <2> QED BY <1>0, <2>1, SameTasks DEF Sound
<1>3. Managing'
    <2>1. UNCHANGED <<tm, requests, pending_del>>
        BY DEF HandleNewSession
    <2>2. \A q \in Requests : ~request[q].queued => ~request'[q].queued
        BY <1>0
    <2>3. \A q \in Requests : request[q].stage = "alive" => q # r /\ request'[q] = request[q]
        BY <1>0
    <2>4. tm.at = "queue" => request[tm.r].stage = "alive"
        BY DEF Sound, HandleNewSession, Listen, Types, Managing, Living, Shutdown, Serving
    <2> QED BY <1>0, <1>2, <2>1, <2>2, <2>3, <2>4 DEF Sound, Types, Managing, Giving
<1>4. Living'
    <2>1. r \notin requests
        BY <1>0 DEF Sound, HandleNewSession, Listen, Living, Shutdown
    <2> QED BY <1>0, <2>1 DEF Sound, HandleNewSession, Types, Living
<1>5. Shutdown'
    BY DEF Sound, HandleNewSession, Listen, sets, Shutdown, Serving
<1>6. Sockets'
    <2>1. closed' = closed /\ listener.at = "handle" /\ listener' = [listener EXCEPT !.at = "loop", !.handed = TRUE]
        BY DEF HandleNewSession, Listen
    <2>2. \A q \in Requests : request'[q].socket = (IF q = r THEN listener.last ELSE request[q].socket)
        BY <1>0
    <2>3. /\ listener'.handed /\ listener'.at = "loop" /\ ~listener.handed
          /\ listener.last \notin closed
          /\ \A q \in Requests : request[q].socket = listener.last => listener.last = NoOne
        BY <2>1 DEF Sound, Types, Sockets
    <2>4. \A q \in Requests : request'[q].socket \notin closed
        BY <2>2, <2>3 DEF Sound, Sockets
    <2>5. \A p, q \in Requests : request'[p].socket = request'[q].socket => p = q \/ request'[p].socket = NoOne
        BY <2>2, <2>3 DEF Sound, Sockets
    <2> QED BY <2>1, <2>3, <2>4, <2>5 DEF Sound, Sockets
<1>7. Managers'
    <2>1. /\ Releasing' = Releasing /\ r \notin requests /\ UNCHANGED requests /\ main'.at \in Serving
          /\ \A q \in Releasing : q \in Requests /\ request[q].stage = "alive"
        BY <1>0 DEF Sound, Types, HandleNewSession, Listen, Releasing, Managing, Living, Shutdown, Serving
    <2>2. \A q \in Requests : HasTask(q)' => q \in requests
        BY <1>2 DEF Sound, Managers
    <2> QED BY <1>0, <2>1, <2>2, NewManager DEF Sound, Serving
<1>8. Bounds'
    <2>1. r \in Holding'
        BY <1>0 DEF Sound, HandleNewSession, Listen, Types, Holding, Releasing, Managing, Shutdown, Serving, Living
    <2>2. Pop.manager <= Pop.managers
        BY <1>0, <1>7, <2>1 DEF Managers
    <2> QED BY <1>0, <1>7, <2>2, NewBounds DEF Sound, HandleNewSession
<1>9. AssertionOnlyAfterGivingUp'
    BY DEF Sound, HandleNewSession, Listen, sets, AssertionOnlyAfterGivingUp
<1> QED BY <1>1, <1>2, <1>3, <1>4, <1>5, <1>6, <1>7, <1>8, <1>9 DEF StillSound

\* The steps of the listener that make no request.
LEMMA ListenLoopKeeps == ASSUME Sound, ListenLoop PROVE StillSound
<1>1. Types'
    <2>1. listener' \in [at : {"loop", "accept", "check", "handle", "stopped"},
                         last : Connections \cup {NoOne}, handed : BOOLEAN]
        <3>1. CASE listener' = [listener EXCEPT !.at = "accept"]
            BY <3>1 DEF Sound, Types
        <3>2. CASE listener' = [at |-> "stopped", last |-> NoOne, handed |-> FALSE]
            BY <3>2
        <3> QED BY <3>1, <3>2 DEF ListenLoop, Listen
    <2> QED BY <2>1 DEF Sound, ListenLoop, KeepsListener, sets, Types
<1>2. Tasks' /\ \A q \in Requests : HasTask(q)' = HasTask(q)
    BY SameTasks DEF Sound, ListenLoop, Listen, DeleteLast, KeepsListener, sets
<1>3. Managing'
    BY <1>2 DEF Sound, ListenLoop, Listen, DeleteLast, KeepsListener, sets, Types, Managing, Giving
<1>4. Living'
    BY DEF Sound, ListenLoop, Listen, DeleteLast, KeepsListener, sets, Types, Living
<1>5. Shutdown'
    BY DEF Sound, ListenLoop, Listen, DeleteLast, KeepsListener, sets, Shutdown, Serving
<1>6. failed' = "no" => Sockets'
    <2>1. request' = request /\ NoOne \notin closed
        BY DEF Sound, Sockets, ListenLoop, KeepsListener
    <2>2. CASE DeleteLast /\ listener'.last = NoOne /\ ~listener'.handed /\ listener'.at \notin {"check", "handle"}
        <3>1. failed' = "no" => ~listener.handed
            BY <2>2 DEF DeleteLast
        <3>2. /\ closed' = closed \cup ({listener.last} \ {NoOne})
              /\ listener.last \in Connections \cup {NoOne}
              /\ \A r \in Requests : request[r].socket \in Connections \cup {NoOne}
            BY <2>2 DEF Sound, Types, AnyRequest, DeleteLast
        <3>3. NoOne \notin closed' /\ closed' \subseteq Connections
            BY <2>1, <3>2 DEF Sound, Sockets
        <3> QED BY <2>1, <2>2, <3>1, <3>2, <3>3 DEF Sound, Sockets
    <2>3. CASE listener' = [listener EXCEPT !.at = "accept"] /\ UNCHANGED closed
        BY <2>1, <2>3 DEF Sound, Types, Sockets
    <2> QED BY <2>2, <2>3 DEF ListenLoop, Listen
<1>7. Managers'
    <2>1. Releasing' = Releasing /\ UNCHANGED <<stack, managers, requests, main, request>>
        BY DEF ListenLoop, KeepsListener, sets, Releasing
    <2> QED BY <1>2, <2>1, SameManagers, ReleasingIsIdle DEF Sound, Managers
<1>8. Bounds'
    BY <1>7 DEF Sound, ListenLoop, Listen, DeleteLast, KeepsListener, sets, Types, Bounds, Born, Managers
<1>9. AssertionOnlyAfterGivingUp'
    BY DEF Sound, ListenLoop, Listen, DeleteLast, KeepsListener, sets, AssertionOnlyAfterGivingUp
<1> QED BY <1>1, <1>2, <1>3, <1>4, <1>5, <1>6, <1>7, <1>8, <1>9 DEF StillSound

LEMMA AcceptKeeps == ASSUME Sound, Accept PROVE StillSound
<1>1. Types'
    <2>1. listener' \in [at : {"loop", "accept", "check", "handle", "stopped"},
                         last : Connections \cup {NoOne}, handed : BOOLEAN]
        BY DEF Sound, Types, Accept, Listen
    <2> QED BY <2>1 DEF Sound, Accept, KeepsListener, sets, Types
<1>2. Tasks' /\ \A q \in Requests : HasTask(q)' = HasTask(q)
    BY SameTasks DEF Sound, Accept, Listen, DeleteLast, KeepsListener, sets
<1>3. Managing'
    BY <1>2 DEF Sound, Accept, Listen, DeleteLast, KeepsListener, sets, Types, Managing, Giving
<1>4. Living'
    BY DEF Sound, Accept, Listen, DeleteLast, KeepsListener, sets, Types, Living
<1>5. Shutdown'
    BY DEF Sound, Accept, Listen, DeleteLast, KeepsListener, sets, Shutdown, Serving
<1>6. failed' = "no" => Sockets'
    BY DEF Sound, Accept, Listen, KeepsListener, sets, Types, AnyRequest, Sockets
<1>7. Managers'
    <2>1. Releasing' = Releasing /\ UNCHANGED <<stack, managers, requests, main, request>>
        BY DEF Accept, KeepsListener, sets, Releasing
    <2> QED BY <1>2, <2>1, SameManagers, ReleasingIsIdle DEF Sound, Managers
<1>8. Bounds'
    BY <1>7 DEF Sound, Accept, Listen, DeleteLast, KeepsListener, sets, Types, Bounds, Born, Managers
<1>9. AssertionOnlyAfterGivingUp'
    BY DEF Sound, Accept, Listen, DeleteLast, KeepsListener, sets, AssertionOnlyAfterGivingUp
<1> QED BY <1>1, <1>2, <1>3, <1>4, <1>5, <1>6, <1>7, <1>8, <1>9 DEF StillSound

LEMMA AcceptThrowsKeeps == ASSUME Sound, AcceptThrows PROVE StillSound
<1>1. Types'
    <2>1. listener' \in [at : {"loop", "accept", "check", "handle", "stopped"},
                         last : Connections \cup {NoOne}, handed : BOOLEAN]
        BY DEF Sound, Types, AcceptThrows, Listen
    <2> QED BY <2>1 DEF Sound, AcceptThrows, KeepsListener, sets, Types
<1>2. Tasks' /\ \A q \in Requests : HasTask(q)' = HasTask(q)
    BY SameTasks DEF Sound, AcceptThrows, Listen, DeleteLast, KeepsListener, sets
<1>3. Managing'
    BY <1>2 DEF Sound, AcceptThrows, Listen, DeleteLast, KeepsListener, sets, Types, Managing, Giving
<1>4. Living'
    BY DEF Sound, AcceptThrows, Listen, DeleteLast, KeepsListener, sets, Types, Living
<1>5. Shutdown'
    BY DEF Sound, AcceptThrows, Listen, DeleteLast, KeepsListener, sets, Shutdown, Serving
<1>6. failed' = "no" => Sockets'
    <2>1. request' = request /\ NoOne \notin closed
        BY DEF Sound, Sockets, AcceptThrows, KeepsListener
    <2>2. CASE DeleteLast /\ listener'.last = NoOne /\ ~listener'.handed /\ listener'.at \notin {"check", "handle"}
        <3>1. failed' = "no" => ~listener.handed
            BY <2>2 DEF DeleteLast
        <3>2. /\ closed' = closed \cup ({listener.last} \ {NoOne})
              /\ listener.last \in Connections \cup {NoOne}
              /\ \A r \in Requests : request[r].socket \in Connections \cup {NoOne}
            BY <2>2 DEF Sound, Types, AnyRequest, DeleteLast
        <3>3. NoOne \notin closed' /\ closed' \subseteq Connections
            BY <2>1, <3>2 DEF Sound, Sockets
        <3> QED BY <2>1, <2>2, <3>1, <3>2, <3>3 DEF Sound, Sockets
    <2>3. DeleteLast /\ listener'.last = NoOne /\ ~listener'.handed /\ listener'.at \notin {"check", "handle"}
        BY DEF AcceptThrows, Listen
    <2> QED BY <2>2, <2>3
<1>7. Managers'
    <2>1. Releasing' = Releasing /\ UNCHANGED <<stack, managers, requests, main, request>>
        BY DEF AcceptThrows, KeepsListener, sets, Releasing
    <2> QED BY <1>2, <2>1, SameManagers, ReleasingIsIdle DEF Sound, Managers
<1>8. Bounds'
    BY <1>7 DEF Sound, AcceptThrows, Listen, DeleteLast, KeepsListener, sets, Types, Bounds, Born, Managers
<1>9. AssertionOnlyAfterGivingUp'
    BY DEF Sound, AcceptThrows, Listen, DeleteLast, KeepsListener, sets, AssertionOnlyAfterGivingUp
<1> QED BY <1>1, <1>2, <1>3, <1>4, <1>5, <1>6, <1>7, <1>8, <1>9 DEF StillSound

LEMMA ListenCheckKeeps == ASSUME Sound, ListenCheck PROVE StillSound
<1>1. Types'
    <2>1. listener' \in [at : {"loop", "accept", "check", "handle", "stopped"},
                         last : Connections \cup {NoOne}, handed : BOOLEAN]
        BY DEF Sound, Types, ListenCheck, Listen
    <2> QED BY <2>1 DEF Sound, ListenCheck, KeepsListener, sets, Types
<1>2. Tasks' /\ \A q \in Requests : HasTask(q)' = HasTask(q)
    BY SameTasks DEF Sound, ListenCheck, Listen, DeleteLast, KeepsListener, sets
<1>3. Managing'
    BY <1>2 DEF Sound, ListenCheck, Listen, DeleteLast, KeepsListener, sets, Types, Managing, Giving
<1>4. Living'
    BY DEF Sound, ListenCheck, Listen, DeleteLast, KeepsListener, sets, Types, Living
<1>5. Shutdown'
    BY DEF Sound, ListenCheck, Listen, DeleteLast, KeepsListener, sets, Shutdown, Serving
<1>6. failed' = "no" => Sockets'
    BY DEF Sound, ListenCheck, Listen, KeepsListener, sets, Types, AnyRequest, Sockets
<1>7. Managers'
    <2>1. Releasing' = Releasing /\ UNCHANGED <<stack, managers, requests, main, request>>
        BY DEF ListenCheck, KeepsListener, sets, Releasing
    <2> QED BY <1>2, <2>1, SameManagers, ReleasingIsIdle DEF Sound, Managers
<1>8. Bounds'
    BY <1>7 DEF Sound, ListenCheck, Listen, DeleteLast, KeepsListener, sets, Types, Bounds, Born, Managers
<1>9. AssertionOnlyAfterGivingUp'
    BY DEF Sound, ListenCheck, Listen, DeleteLast, KeepsListener, sets, AssertionOnlyAfterGivingUp
<1> QED BY <1>1, <1>2, <1>3, <1>4, <1>5, <1>6, <1>7, <1>8, <1>9 DEF StillSound

\* A worker takes the first task: its request is nobody else's.
LEMMA TakeKeeps == ASSUME NEW w \in Workers, Sound, Take(w) PROVE StillSound
<1>0. /\ worker[w].at = "idle" /\ worker' = [worker EXCEPT ![w] = [at |-> "run", r |-> queue[1]]]
      /\ worker'[w] = [at |-> "run", r |-> queue[1]] /\ \A v \in Workers \ {w} : worker'[v] = worker[v]
      /\ queue' = Tail(queue) /\ queue' \in Seq(Requests) /\ queue[1] \in Requests
      /\ Len(queue) \in Nat /\ Len(queue) >= 1 /\ Len(queue') = Len(queue) - 1
      /\ \A i \in 1..Len(queue') : queue'[i] = queue[i + 1]
    <2>1. queue \in Seq(Requests) /\ queue # <<>> /\ queue' = Tail(queue) /\ Head(queue) = queue[1]
        BY DEF Sound, Types, Take
    <2>2. /\ worker \in [Workers -> [at : WorkerPlaces, r : Requests \cup {NoOne}]] /\ worker[w].at = "idle"
          /\ worker' = [worker EXCEPT ![w] = [at |-> "run", r |-> queue[1]]]
        BY <2>1 DEF Sound, Types, Take, WorkerAt
    <2>3. /\ queue' \in Seq(Requests) /\ queue[1] \in Requests
          /\ Len(queue) \in Nat /\ Len(queue) >= 1 /\ Len(queue') = Len(queue) - 1
          /\ \A i \in 1..Len(queue') : queue'[i] = queue[i + 1]
        BY <2>1, EmptySeq, HeadTailProperties, LenProperties
    <2> QED BY <2>1, <2>2, <2>3
<1>1. Types'
    <2>1. worker' \in [Workers -> [at : WorkerPlaces, r : Requests \cup {NoOne}]]
        BY <1>0 DEF Sound, Types, WorkerPlaces
    <2> QED BY <1>0, <2>1 DEF Sound, Take, sets, Types
<1>2. Tasks' /\ \A q \in Requests : HasTask(q)' = HasTask(q)
    <2>1. \A v \in Workers \ {w} : worker'[v] = worker[v]
        BY <1>0
    <2>2. \A v \in Workers : Busy(v)' <=> Busy(v) \/ v = w
        BY <1>0, <2>1 DEF Busy
    <2>3. ~Busy(w) /\ worker'[w].r = queue[1] /\ queue[1] \in Requests /\ 1 \in 1..Len(queue)
        BY <1>0 DEF Busy
    <2>4. \A i \in 1..Len(queue') : i + 1 \in 1..Len(queue) /\ queue'[i] = queue[i + 1]
        BY <1>0
    <2>5. \A i \in 1..Len(queue) : i = 1 \/ (i - 1 \in 1..Len(queue') /\ queue'[i - 1] = queue[i])
        BY <1>0
    <2>6. \A r \in Requests : HasTask(r)' <=> HasTask(r)
        BY <2>1, <2>2, <2>3, <2>4, <2>5 DEF HasTask
    <2>7. request' = request
        BY DEF Take
    <2>8. \A v \in Workers : Busy(v)' => worker'[v].r \in Requests
        BY <2>1, <2>2, <2>3 DEF Sound, Tasks
    <2>9. \A u, v \in Workers : Busy(u)' /\ Busy(v)' /\ worker'[u].r = worker'[v].r => u = v
        BY <2>1, <2>2, <2>3 DEF Sound, Tasks
    <2>10. \A i, j \in 1..Len(queue') : queue'[i] = queue'[j] => i = j
        BY <1>0, <2>4 DEF Sound, Tasks
    <2>11. \A v \in Workers, i \in 1..Len(queue') : Busy(v)' => worker'[v].r # queue'[i]
        BY <1>0, <2>1, <2>2, <2>3, <2>4 DEF Sound, Tasks
    <2>12. \A r \in Requests : HasTask(r)' => request'[r].queued /\ request'[r].stage = "alive"
        BY <2>6, <2>7 DEF Sound, Tasks
    <2>13. Tasks'
        BY <2>8, <2>9, <2>10, <2>11, <2>12, Zenon DEF Tasks
    <2>14. \A r \in Requests : HasTask(r)' = HasTask(r)
        BY <2>6 DEF HasTask
    <2> QED BY <2>13, <2>14
<1>3. Managing'
    BY <1>2 DEF Sound, Take, WorkerAt, sets, Types, Managing, Giving
<1>4. Living'
    BY DEF Sound, Take, WorkerAt, sets, Types, Living
<1>5. Shutdown'
    BY DEF Sound, Take, WorkerAt, sets, Shutdown
<1>6. Sockets'
    BY DEF Sound, Take, WorkerAt, sets, Types, Sockets
<1>7. Managers'
    BY <1>2 DEF Sound, Take, WorkerAt, sets, Types, Managers, Holding, Releasing
<1>8. Bounds'
    BY <1>7 DEF Sound, Take, WorkerAt, sets, Types, Bounds, Born, Managers
<1>9. AssertionOnlyAfterGivingUp'
    BY DEF Sound, Take, WorkerAt, sets, AssertionOnlyAfterGivingUp
<1> QED BY <1>1, <1>2, <1>3, <1>4, <1>5, <1>6, <1>7, <1>8, <1>9 DEF StillSound

\* A worker runs its request, which stays its own.
LEMMA RunKeeps == ASSUME NEW w \in Workers, Sound, Run(w) PROVE StillSound
<1>0. /\ worker[w].at = "run" /\ worker[w].r \in Requests
      /\ worker'[w].at \in {"notify", "thrown"} /\ worker'[w].r = worker[w].r
      /\ worker' = [worker EXCEPT ![w] = worker'[w]] /\ \A v \in Workers \ {w} : worker'[v] = worker[v]
      /\ worker'[w] \in [at : WorkerPlaces, r : Requests \cup {NoOne}]
      /\ request' \in [Requests -> AnyRequest]
      /\ \A r \in Requests : /\ request'[r].queued = request[r].queued /\ request'[r].stage = request[r].stage
                             /\ request'[r].manager = request[r].manager /\ request'[r].socket = request[r].socket
    <2>1. PICK s \in {"waits", "ready", "done", "error"}, closing \in BOOLEAN :
              /\ worker[w].at = "run"
              /\ worker' = [worker EXCEPT ![w] = [at |-> IF s = "error" THEN "thrown" ELSE "notify", r |-> worker[w].r]]
              /\ request' = [request EXCEPT ![worker[w].r].status = IF @ = "error" THEN @ ELSE s,
                                            ![worker[w].r].closing = @ \/ closing]
        BY DEF Run, WorkerAt
    <2>2. worker[w].r \in Requests
        BY <2>1 DEF Sound, Tasks, Busy
    <2>3. request[worker[w].r] \in AnyRequest
        BY <2>2 DEF Sound, Types
    <2> DEFINE ran == [request[worker[w].r] EXCEPT !.status = IF @ = "error" THEN @ ELSE s, !.closing = @ \/ closing]
    <2>4. /\ ran \in AnyRequest /\ ran.queued = request[worker[w].r].queued /\ ran.stage = request[worker[w].r].stage
          /\ ran.manager = request[worker[w].r].manager /\ ran.socket = request[worker[w].r].socket
        BY <2>3 DEF AnyRequest
    <2>5. request' = [request EXCEPT ![worker[w].r] = ran]
        BY <2>1, <2>2, <2>3 DEF Sound, Types, AnyRequest
    <2> HIDE DEF ran
    <2>6. /\ request' \in [Requests -> AnyRequest]
          /\ \A r \in Requests : /\ request'[r].queued = request[r].queued /\ request'[r].stage = request[r].stage
                                 /\ request'[r].manager = request[r].manager /\ request'[r].socket = request[r].socket
        BY <2>2, <2>4, <2>5 DEF Sound, Types
    <2>7. /\ worker'[w] = [at |-> IF s = "error" THEN "thrown" ELSE "notify", r |-> worker[w].r]
          /\ worker' = [worker EXCEPT ![w] = worker'[w]] /\ \A v \in Workers \ {w} : worker'[v] = worker[v]
        BY <2>1 DEF Sound, Types
    <2>8. /\ worker'[w].at \in {"notify", "thrown"} /\ worker'[w].r = worker[w].r
          /\ worker'[w] \in [at : WorkerPlaces, r : Requests \cup {NoOne}]
        BY <2>2, <2>7 DEF WorkerPlaces
    <2> QED BY <2>1, <2>2, <2>6, <2>7, <2>8
<1>1. Types'
    <2>1. worker' \in [Workers -> [at : WorkerPlaces, r : Requests \cup {NoOne}]]
        BY <1>0 DEF Sound, Types, WorkerPlaces
    <2> QED BY <1>0, <2>1 DEF Sound, Run, sets, Types
<1>2. Tasks' /\ \A q \in Requests : HasTask(q)' = HasTask(q)
    <2>1. /\ \A v \in Workers : (Busy(v)' <=> Busy(v)) /\ worker'[v].r = worker[v].r
          /\ queue' = queue
        BY <1>0 DEF Run, Busy
    <2>2. \A r \in Requests : HasTask(r)' = HasTask(r)
        BY <2>1 DEF HasTask
    <2> QED BY <1>0, <2>1, <2>2 DEF Sound, Tasks
<1>3. Managing'
    BY <1>0, <1>2 DEF Sound, Run, sets, Types, Managing, Giving
<1>4. Living'
    <2>1. UNCHANGED <<requests, pending_add, tm, main>>
        BY DEF Run, sets
    <2> QED BY <1>0, <2>1 DEF Sound, Living
<1>5. Shutdown'
    BY <1>0 DEF Sound, Run, sets, Types, Shutdown
<1>6. Sockets'
    <2>1. UNCHANGED <<closed, listener>>
        BY DEF Run
    <2> QED BY <1>0, <2>1 DEF Sound, Sockets
<1>7. Managers'
    <2>1. Releasing' = Releasing /\ UNCHANGED <<stack, managers, requests, main>>
        BY DEF Run, sets, Releasing
    <2> QED BY <1>0, <1>2, <2>1, SameManagers, ReleasingIsIdle DEF Sound, Managers
<1>8. Bounds'
    BY <1>0, <1>7, SameBounds DEF Sound, Bounds, Run
<1>9. AssertionOnlyAfterGivingUp'
    BY DEF Sound, Run, WorkerAt, sets, AssertionOnlyAfterGivingUp
<1> QED BY <1>1, <1>2, <1>3, <1>4, <1>5, <1>6, <1>7, <1>8, <1>9 DEF StillSound

\* notifyEndTask lowers _queued: the worker is the last to have the request.
LEMMA NotifyKeeps == ASSUME NEW w \in Workers, Sound, Notify(w) PROVE StillSound
<1>0. /\ Busy(w) /\ worker[w].r \in Requests
      /\ worker'[w].at \in {"drop", "idle"} /\ worker'[w] \in [at : WorkerPlaces, r : Requests \cup {NoOne}]
      /\ worker' = [worker EXCEPT ![w] = worker'[w]] /\ \A v \in Workers \ {w} : worker'[v] = worker[v]
      /\ request' \in [Requests -> AnyRequest] /\ ~request'[worker[w].r].queued
      /\ \A r \in Requests : /\ request'[r].stage = request[r].stage /\ request'[r].socket = request[r].socket
                             /\ request'[r].manager = request[r].manager
                             /\ r # worker[w].r => request'[r].queued = request[r].queued
                             /\ ~request[r].queued => ~request'[r].queued
    <2>1. PICK from \in {"notify", "thrown"} :
              /\ worker[w].at = from
              /\ worker' = [worker EXCEPT ![w] = IF from = "thrown" THEN [worker[w] EXCEPT !.at = "drop"] ELSE Idle]
              /\ request' = [request EXCEPT ![worker[w].r].queued = FALSE]
        BY DEF Notify, WorkerAt
    <2>2. Busy(w) /\ worker[w].r \in Requests
        BY <2>1 DEF Sound, Tasks, Busy
    <2>3. request[worker[w].r] \in AnyRequest
        BY <2>2 DEF Sound, Types
    <2>4. /\ request' \in [Requests -> AnyRequest] /\ ~request'[worker[w].r].queued
          /\ \A r \in Requests : /\ request'[r].stage = request[r].stage /\ request'[r].socket = request[r].socket
                                 /\ request'[r].manager = request[r].manager
                                 /\ r # worker[w].r => request'[r].queued = request[r].queued
                                 /\ ~request[r].queued => ~request'[r].queued
        BY <2>1, <2>2, <2>3 DEF Sound, Types, AnyRequest
    <2>5. /\ worker'[w] \in {[worker[w] EXCEPT !.at = "drop"], Idle}
          /\ worker' = [worker EXCEPT ![w] = worker'[w]] /\ \A v \in Workers \ {w} : worker'[v] = worker[v]
        BY <2>1 DEF Sound, Types
    <2>6. worker'[w].at \in {"drop", "idle"} /\ worker'[w] \in [at : WorkerPlaces, r : Requests \cup {NoOne}]
        <3>1. worker[w] \in [at : WorkerPlaces, r : Requests \cup {NoOne}]
            BY DEF Sound, Types
        <3>2. CASE worker'[w] = Idle
            BY <3>2 DEF WorkerPlaces, Idle
        <3>3. CASE worker'[w] = [worker[w] EXCEPT !.at = "drop"]
            BY <3>1, <3>3 DEF WorkerPlaces
        <3> QED BY <2>5, <3>2, <3>3
    <2> QED BY <2>2, <2>4, <2>5, <2>6
<1>1. Types'
    <2>1. worker' \in [Workers -> [at : WorkerPlaces, r : Requests \cup {NoOne}]]
        BY <1>0 DEF Sound, Types, WorkerPlaces
    <2> QED BY <1>0, <2>1 DEF Sound, Notify, sets, Types
<1>2. Tasks' /\ \A r \in Requests : HasTask(r)' => HasTask(r)
    <2>1. /\ \A v \in Workers : Busy(v)' <=> Busy(v) /\ v # w
          /\ \A v \in Workers \ {w} : worker'[v].r = worker[v].r
          /\ queue' = queue
        BY <1>0 DEF Notify, Busy
    <2>2. \A r \in Requests : HasTask(r)' => HasTask(r) /\ r # worker[w].r
        BY <1>0, <2>1 DEF Sound, Tasks, HasTask
    <2>3. \A r \in Requests : HasTask(r)' => request'[r].queued /\ request'[r].stage = "alive"
        BY <1>0, <2>2 DEF Sound, Tasks
    <2>4. /\ \A v \in Workers : Busy(v)' => worker'[v].r \in Requests
          /\ \A u, v \in Workers : Busy(u)' /\ Busy(v)' /\ worker'[u].r = worker'[v].r => u = v
        BY <2>1 DEF Sound, Tasks
    <2>5. /\ \A i, j \in 1..Len(queue') : queue'[i] = queue'[j] => i = j
          /\ \A v \in Workers, i \in 1..Len(queue') : Busy(v)' => worker'[v].r # queue'[i]
        BY <2>1 DEF Sound, Tasks
    <2> QED BY <2>2, <2>3, <2>4, <2>5, Zenon DEF Tasks
<1>3. Managing'
    <2>1. \A r \in Requests : ~request[r].queued => ~request'[r].queued
        BY <1>0
    <2>2. tm.at = "queue" => tm.r # worker[w].r
        BY <1>0 DEF Sound, Managing, HasTask
    <2> QED BY <1>0, <1>2, <2>1, <2>2 DEF Sound, Notify, sets, Types, Managing, Giving
<1>4. Living'
    <2>1. UNCHANGED <<requests, pending_add, tm, main>>
        BY DEF Notify, sets
    <2> QED BY <1>0, <2>1 DEF Sound, Living
<1>5. Shutdown'
    BY <1>0 DEF Sound, Notify, sets, Types, Shutdown
<1>6. Sockets'
    BY <1>0 DEF Sound, Notify, Sockets
<1>7. Managers'
    <2>1. Releasing' = Releasing /\ UNCHANGED <<stack, managers, requests, main>>
        BY DEF Notify, sets, Releasing
    <2> QED BY <1>0, <1>2, <2>1, SameManagers, ReleasingIsIdle DEF Sound, Managers
<1>8. Bounds'
    BY <1>0, <1>7, SameBounds DEF Sound, Bounds, Notify
<1>9. AssertionOnlyAfterGivingUp'
    BY DEF Sound, Notify, WorkerAt, sets, AssertionOnlyAfterGivingUp
<1> QED BY <1>1, <1>2, <1>3, <1>4, <1>5, <1>6, <1>7, <1>8, <1>9 DEF StillSound

\* ~ModuleTask after an exception: the worker has let go of the request already.
LEMMA DropKeeps == ASSUME NEW w \in Workers, Sound, Drop(w) PROVE StillSound
<1>1. Types'
    <2>1. worker' \in [Workers -> [at : WorkerPlaces, r : Requests \cup {NoOne}]]
        BY DEF Sound, Types, WorkerPlaces, Drop, WorkerAt, Idle
    <2> QED BY <2>1 DEF Sound, Drop, sets, Types
<1>2. Tasks' /\ \A q \in Requests : HasTask(q)' = HasTask(q)
    <2>1. /\ \A v \in Workers : (Busy(v)' <=> Busy(v)) /\ (v # w => worker'[v].r = worker[v].r)
          /\ ~Busy(w) /\ UNCHANGED <<queue, request>>
        BY DEF Sound, Types, Drop, WorkerAt, Idle, Busy
    <2>2. \A r \in Requests : HasTask(r)' = HasTask(r)
        BY <2>1 DEF HasTask
    <2> QED BY <2>1, <2>2 DEF Sound, Tasks
<1>3. Managing'
    BY <1>2 DEF Sound, Drop, WorkerAt, sets, Types, Managing, Giving
<1>4. Living'
    BY DEF Sound, Drop, WorkerAt, sets, Types, Living
<1>5. Shutdown'
    BY DEF Sound, Drop, WorkerAt, sets, Shutdown
<1>6. Sockets'
    BY DEF Sound, Drop, WorkerAt, sets, Types, Sockets
<1>7. Managers'
    <2>1. Releasing' = Releasing /\ UNCHANGED <<stack, managers, requests, main, request>>
        BY DEF Drop, sets, Releasing
    <2> QED BY <1>2, <2>1, SameManagers, ReleasingIsIdle DEF Sound, Managers
<1>8. Bounds'
    BY <1>7 DEF Sound, Drop, WorkerAt, sets, Types, Bounds, Born, Managers
<1>9. AssertionOnlyAfterGivingUp'
    BY DEF Sound, Drop, AssertionOnlyAfterGivingUp
<1> QED BY <1>1, <1>2, <1>3, <1>4, <1>5, <1>6, <1>7, <1>8, <1>9 DEF StillSound

\* Server::run and ~TaskManager.
LEMMA StopKeeps == ASSUME Sound, Stop PROVE StillSound
<1>1. Types'
    <2>1. main' \in [at : MainPlaces, r : Requests \cup {NoOne}, todo : SUBSET Requests, attempts : Nat]
        BY DEF Sound, Types, Stop, Main, MainPlaces, Serving
    <2> QED BY <2>1 DEF Sound, Stop, KeepsMain, sets, Types
<1>2. Tasks' /\ \A q \in Requests : HasTask(q)' = HasTask(q)
    BY SameTasks DEF Sound, Stop, Main, KeepsMain, sets
<1>3. Managing'
    BY <1>2 DEF Sound, Stop, Main, KeepsMain, sets, Types, Managing, Giving
<1>4. Living'
    BY DEF Sound, Stop, Main, KeepsMain, sets, Types, Living, Serving
<1>5. Shutdown'
    BY DEF Sound, Stop, Main, KeepsMain, sets, Types, Shutdown, Serving
<1>6. Sockets'
    BY DEF Sound, Stop, Main, KeepsMain, sets, Types, Sockets
<1>7. Managers'
    BY <1>2 DEF Sound, Stop, Main, KeepsMain, sets, Types, Managers, Holding, Releasing
<1>8. Bounds'
    BY <1>7 DEF Sound, Stop, Main, KeepsMain, sets, Types, Bounds, Born, Managers
<1>9. AssertionOnlyAfterGivingUp'
    BY DEF Sound, Stop, Main, KeepsMain, sets, AssertionOnlyAfterGivingUp
<1> QED BY <1>1, <1>2, <1>3, <1>4, <1>5, <1>6, <1>7, <1>8, <1>9 DEF StillSound

LEMMA JoinedKeeps == ASSUME Sound, Joined PROVE StillSound
<1>1. Types'
    <2>1. main' \in [at : MainPlaces, r : Requests \cup {NoOne}, todo : SUBSET Requests, attempts : Nat]
        BY DEF Sound, Types, Joined, Main, MainPlaces, Serving
    <2> QED BY <2>1 DEF Sound, Joined, KeepsMain, sets, Types
<1>2. Tasks' /\ \A q \in Requests : HasTask(q)' = HasTask(q)
    BY SameTasks DEF Sound, Joined, Main, KeepsMain, sets
<1>3. Managing'
    BY <1>2 DEF Sound, Joined, Main, KeepsMain, sets, Types, Managing, Giving
<1>4. Living'
    BY DEF Sound, Joined, Main, KeepsMain, sets, Types, Living, Serving
<1>5. Shutdown'
    BY DEF Sound, Joined, Main, KeepsMain, sets, Types, Shutdown, Serving
<1>6. Sockets'
    BY DEF Sound, Joined, Main, KeepsMain, sets, Types, Sockets
<1>7. Managers'
    BY <1>2 DEF Sound, Joined, Main, KeepsMain, sets, Types, Managers, Holding, Releasing
<1>8. Bounds'
    BY <1>7 DEF Sound, Joined, Main, KeepsMain, sets, Types, Bounds, Born, Managers
<1>9. AssertionOnlyAfterGivingUp'
    BY DEF Sound, Joined, Main, KeepsMain, sets, AssertionOnlyAfterGivingUp
<1> QED BY <1>1, <1>2, <1>3, <1>4, <1>5, <1>6, <1>7, <1>8, <1>9 DEF StillSound

\* ~TaskManager ends the requests when none is queued, or after its last round.
LEMMA WaitTasksKeeps == ASSUME Sound, WaitTasks PROVE StillSound
<1>1. Types'
    <2>1. main' \in [at : MainPlaces, r : Requests \cup {NoOne}, todo : SUBSET Requests, attempts : Nat]
        <3>1. CASE main' = [main EXCEPT !.at = "ending", !.todo = requests]
            BY <3>1 DEF Sound, Types, MainPlaces
        <3>2. CASE main' = [main EXCEPT !.attempts = @ + 1]
            <4>1. /\ main.attempts + 1 \in Nat
                  /\ main \in [at : MainPlaces, r : Requests \cup {NoOne}, todo : SUBSET Requests,
                               attempts : Nat]
                BY DEF Sound, Types
            <4> QED BY <3>2, <4>1
        <3> QED BY <3>1, <3>2 DEF WaitTasks, Main
    <2> QED BY <2>1 DEF Sound, WaitTasks, KeepsMain, sets, Types
<1>2. Tasks' /\ \A q \in Requests : HasTask(q)' = HasTask(q)
    BY SameTasks DEF Sound, WaitTasks, Main, KeepsMain, sets
<1>3. Managing'
    BY <1>2 DEF Sound, WaitTasks, Main, KeepsMain, sets, Types, Managing, Giving
<1>4. Living'
    BY DEF Sound, WaitTasks, Main, KeepsMain, sets, Types, Living, Serving
<1>5. Shutdown'
    <2>1. CASE main' = [main EXCEPT !.at = "ending", !.todo = requests]
        <3>1. main.attempts > Attempts \/ \A r \in requests : ~request[r].queued
            BY <2>1 DEF Sound, Types, WaitTasks, Main
        <3> QED BY <2>1, <3>1 DEF Sound, WaitTasks, Main, KeepsMain, Types, Shutdown, Serving
    <2>2. CASE main' = [main EXCEPT !.attempts = @ + 1]
        BY <2>2 DEF Sound, WaitTasks, Main, KeepsMain, Types, Shutdown, Serving
    <2> QED BY <2>1, <2>2 DEF WaitTasks, Main
<1>6. Sockets'
    BY DEF Sound, WaitTasks, Main, KeepsMain, sets, Types, Sockets
<1>7. Managers'
    <2>1. /\ Releasing' = Releasing /\ UNCHANGED <<stack, managers, requests, request>>
          /\ main'.at \in {"ending", "release"} => main'.todo = requests
        BY DEF Sound, Types, WaitTasks, Main, KeepsMain, sets, Releasing
    <2>2. Releasing = {} /\ \A r \in requests : request[r].stage = "alive"
        BY DEF Sound, Types, WaitTasks, Main, Releasing, Shutdown, Serving, Living
    <2>3. main'.at \in {"ending", "release"} => main'.todo \subseteq Holding
        BY <2>1, <2>2 DEF Sound, Types, Holding
    <2> QED BY <1>2, <2>1, <2>2, <2>3, SameManagers, ReleasingIsIdle DEF Sound, Managers
<1>8. Bounds'
    BY <1>7 DEF Sound, WaitTasks, Main, KeepsMain, sets, Types, Bounds, Born, Managers
<1>9. AssertionOnlyAfterGivingUp'
    BY DEF Sound, WaitTasks, Main, KeepsMain, sets, AssertionOnlyAfterGivingUp
<1> QED BY <1>1, <1>2, <1>3, <1>4, <1>5, <1>6, <1>7, <1>8, <1>9 DEF StillSound

\* The assertion of endRequest may fail here, and only after the last round.
LEMMA EndRequestKeeps == ASSUME Sound, EndRequest PROVE StillSound
<1>0. PICK r \in main.todo :
        /\ r \in Requests /\ main.at = "ending" /\ stack' \in Seq(Nat) /\ request' = request
        /\ main' = [main EXCEPT !.at = "release", !.r = r, !.todo = main.todo \ {r}]
        /\ failed' = IF request[r].queued THEN "assertion" ELSE "no"
    <2>1. PICK r \in main.todo :
              /\ main.at = "ending" /\ main' = [main EXCEPT !.at = "release", !.r = r, !.todo = main.todo \ {r}]
              /\ failed' = IF request[r].queued THEN "assertion" ELSE "no"
              /\ stack' = IF request[r].queued THEN stack ELSE Append(stack, request[r].manager)
        BY DEF Sound, EndRequest, Main, PushManager
    <2>2. r \in Requests /\ request[r].manager \in Nat
        BY DEF Sound, Types, AnyRequest
    <2>3. stack' \in Seq(Nat)
        BY <2>1, <2>2, AppendProperties DEF Sound, Types
    <2> QED BY <2>1, <2>2, <2>3 DEF EndRequest, KeepsMain
<1>1. Types'
    <2>1. main' \in [at : MainPlaces, r : Requests \cup {NoOne}, todo : SUBSET Requests, attempts : Nat]
        BY <1>0 DEF Sound, Types, MainPlaces
    <2> QED BY <1>0, <2>1 DEF Sound, EndRequest, KeepsMain, sets, Types
<1>2. Tasks' /\ \A q \in Requests : HasTask(q)' = HasTask(q)
    BY SameTasks DEF Sound, EndRequest, Main, PushManager, KeepsMain, sets
<1>3. Managing'
    BY <1>2 DEF Sound, EndRequest, KeepsMain, sets, Types, Managing, Giving
<1>4. Living'
    BY <1>0 DEF Sound, EndRequest, KeepsMain, sets, Types, Living, Serving
<1>5. failed' = "no" => Shutdown'
    BY <1>0 DEF Sound, EndRequest, KeepsMain, Types, Shutdown, Serving, Managers, Holding
<1>6. Sockets'
    BY DEF Sound, EndRequest, Main, PushManager, KeepsMain, sets, Types, Sockets
<1>7. Managers'
    BY <1>2 DEF Sound, EndRequest, Main, PushManager, KeepsMain, sets, Types, Managers, Holding, Releasing
<1>8. Bounds'
    BY <1>7 DEF Sound, EndRequest, Main, PushManager, KeepsMain, sets, Types, Bounds, Born, Managers
<1>9. AssertionOnlyAfterGivingUp'
    BY <1>0 DEF Sound, Types, Shutdown, AssertionOnlyAfterGivingUp
<1> QED BY <1>1, <1>2, <1>3, <1>4, <1>5, <1>6, <1>7, <1>8, <1>9 DEF StillSound

LEMMA EndReleaseKeeps == ASSUME Sound, EndRelease PROVE StillSound
<1>0. /\ main.r \in Requests /\ ~HasTask(main.r) /\ tm.at = "down"
      /\ request' \in [Requests -> AnyRequest]
      /\ \A q \in Requests : request'[q].queued = request[q].queued /\ (q # main.r => request'[q] = request[q])
    <2>1. main.r \in Requests /\ ~HasTask(main.r) /\ tm.at = "down"
        BY DEF Sound, EndRelease, Main, Shutdown, Serving, Tasks
    <2> QED BY <2>1, DeletedOne DEF Sound, EndRelease
<1>1. Types'
    <2>1. main' \in [at : MainPlaces, r : Requests \cup {NoOne}, todo : SUBSET Requests, attempts : Nat]
        BY DEF Sound, Types, EndRelease, Main, MainPlaces
    <2> QED BY <1>0, <2>1 DEF Sound, EndRelease, sets, Types
<1>2. Tasks' /\ \A q \in Requests : HasTask(q)' = HasTask(q)
    BY <1>0, SameTasks DEF Sound, EndRelease, Tasks
<1>3. Managing'
    BY <1>0 DEF Sound, EndRelease, Managing, Giving
<1>4. Living'
    BY <1>0 DEF Sound, EndRelease, Main, sets, Types, Living, Serving
<1>5. Shutdown'
    BY <1>0 DEF Sound, EndRelease, Main, sets, Types, Shutdown, Serving
<1>6. Sockets'
    BY <1>0, DeletedSocket DEF Sound, EndRelease, Main
<1>7. Managers'
    <2>1. Releasing = {main.r} /\ Releasing' = {} /\ main.at = "release" /\ main'.todo = main.todo
        BY <1>0 DEF Sound, Types, EndRelease, Main, Releasing
    <2>2. request'[main.r].stage = "gone" /\ \A q \in Requests : q # main.r => request'[q] = request[q]
        BY <1>0, DeletedOne DEF Sound, EndRelease
    <2> QED BY <1>2, <2>1, <2>2, ReleasedManager DEF Sound, EndRelease, sets, Managers
<1>8. Bounds'
    <2>1. main.r \in Requests /\ request[main.r].stage = "alive"
        BY DEF Sound, EndRelease, Main, Shutdown, Bounds
    <2>2. /\ request'[main.r].stage = "gone" /\ request'[main.r].manager = request[main.r].manager
          /\ \A q \in Requests : q # main.r => request'[q] = request[q]
        BY <2>1, DeletedOne DEF Sound, EndRelease
    <2>3. failed' \in {"no", "deleted twice"} /\ main'.attempts = main.attempts
        BY DEF Sound, Types, EndRelease, DeleteRequest, Main
    <2>4. closed' \subseteq Connections
        BY <1>6 DEF Sockets
    <2> QED BY <2>1, <2>2, <2>3, <2>4, <1>7, SameBounds DEF Sound, EndRelease
<1>9. AssertionOnlyAfterGivingUp'
    BY DEF Sound, EndRelease, DeleteRequest, AssertionOnlyAfterGivingUp
<1> QED BY <1>1, <1>2, <1>3, <1>4, <1>5, <1>6, <1>7, <1>8, <1>9 DEF StillSound

LEMMA EndedKeeps == ASSUME Sound, Ended PROVE StillSound
<1>1. Types'
    <2>1. main' \in [at : MainPlaces, r : Requests \cup {NoOne}, todo : SUBSET Requests, attempts : Nat]
        BY DEF Sound, Types, Ended, Main, MainPlaces, Serving
    <2> QED BY <2>1 DEF Sound, Ended, KeepsMain, sets, Types
<1>2. Tasks' /\ \A q \in Requests : HasTask(q)' = HasTask(q)
    BY SameTasks DEF Sound, Ended, Main, KeepsMain, sets
<1>3. Managing'
    BY <1>2 DEF Sound, Ended, Main, KeepsMain, sets, Types, Managing, Giving
<1>4. Living'
    BY DEF Sound, Ended, Main, KeepsMain, sets, Types, Living, Serving
<1>5. Shutdown'
    BY DEF Sound, Ended, Main, KeepsMain, sets, Types, Shutdown, Serving
<1>6. Sockets'
    BY DEF Sound, Ended, Main, KeepsMain, sets, Types, Sockets
<1>7. Managers'
    BY <1>2 DEF Sound, Ended, Main, KeepsMain, sets, Types, Managers, Holding, Releasing
<1>8. Bounds'
    BY <1>7 DEF Sound, Ended, Main, KeepsMain, sets, Types, Bounds, Born, Managers
<1>9. AssertionOnlyAfterGivingUp'
    BY DEF Sound, Ended, Main, KeepsMain, sets, AssertionOnlyAfterGivingUp
<1> QED BY <1>1, <1>2, <1>3, <1>4, <1>5, <1>6, <1>7, <1>8, <1>9 DEF StillSound

\* The workers are idle and the tasks that are left are dropped.
LEMMA PoolJoinedKeeps == ASSUME Sound, PoolJoined PROVE StillSound
<1>1. Types'
    <2>1. main' \in [at : MainPlaces, r : Requests \cup {NoOne}, todo : SUBSET Requests, attempts : Nat]
        BY DEF Sound, Types, PoolJoined, Main, MainPlaces
    <2>2. queue' \in Seq(Requests)
        BY EmptySeq DEF PoolJoined
    <2> QED BY <2>1, <2>2 DEF Sound, PoolJoined, sets, Types
<1>2. Tasks'
    <2>1. queue' = <<>> /\ Len(queue') = 0 /\ UNCHANGED <<worker, request>>
        BY EmptySeq DEF PoolJoined
    <2> QED BY <2>1 DEF Sound, Tasks, Busy, HasTask
<1>3. Managing'
    BY DEF Sound, PoolJoined, Main, Shutdown, Serving, Managing, Giving
<1>4. Living'
    BY DEF Sound, PoolJoined, Main, sets, Types, Living, Serving
<1>5. Shutdown'
    BY DEF Sound, PoolJoined, Main, sets, Types, Shutdown, Serving
<1>6. Sockets'
    BY DEF Sound, PoolJoined, Main, sets, Types, Sockets
<1>7. Managers'
    <2>1. Releasing' = Releasing /\ UNCHANGED <<stack, managers, requests, request>> /\ main'.at = "finished"
        BY DEF Sound, Types, PoolJoined, Main, sets, Releasing
    <2>2. \A r \in Requests : HasTask(r)' => r \in requests'
        <3>1. queue' = <<>> /\ Len(queue') = 0 /\ worker' = worker /\ \A w \in Workers : worker[w].at = "idle"
            BY EmptySeq DEF PoolJoined
        <3> QED BY <3>1 DEF HasTask, Busy
    <2> QED BY <2>1, <2>2, SameManagers, ReleasingIsIdle DEF Sound
<1>8. Bounds'
    BY <1>7 DEF Sound, PoolJoined, Main, sets, Types, Bounds, Born, Managers
<1>9. AssertionOnlyAfterGivingUp'
    BY DEF Sound, PoolJoined, Main, sets, AssertionOnlyAfterGivingUp
<1> QED BY <1>1, <1>2, <1>3, <1>4, <1>5, <1>6, <1>7, <1>8, <1>9 DEF StillSound

\* IInv is inductive.
LEMMA NextKeeps == ASSUME IInv, [Next]_vars PROVE IInv'
<1>1. CASE failed # "no" \/ UNCHANGED vars
    <2>1. UNCHANGED vars
        BY <1>1 DEF Next, ListenerStep, TaskManagerStep, RunLoop, Poll, SetQueued, QueueTask, HasPendingEvent, HandOver,
           GiveUp, WorkGiven, DelPending, Release, Deleted, AddPending, Manage, MainStep, Stop, Joined, WaitTasks,
           EndRequest, EndRelease, Ended, PoolJoined, Main, Over, WorkerStep, Take, Run, Notify, Drop, WorkerAt
    <2>2. Types' /\ Bounds' /\ AssertionOnlyAfterGivingUp'
        BY <2>1 DEF vars, sets, IInv, Types, Bounds, Born, AssertionOnlyAfterGivingUp
    <2>3. failed' = "no" => failed = "no" /\ Tasks' /\ (\A r \in Requests : HasTask(r)' = HasTask(r))
        BY <2>1 DEF vars, IInv, Tasks, Busy, HasTask
    <2>4. failed' = "no" => (Managing /\ Living /\ Shutdown /\ Sockets)'
        BY <2>1, <2>3 DEF vars, sets, IInv, Types, Managing, Living, Shutdown, Sockets
    <2>5. failed' = "no" => Managers'
        BY <2>1, <2>3 DEF vars, sets, IInv, Managers, Holding, Releasing
    <2> QED BY <2>2, <2>3, <2>4, <2>5 DEF IInv
<1>2. CASE failed = "no" /\ Next /\ ~UNCHANGED vars
    <2>1. Sound
        BY <1>2 DEF IInv, Sound
    <2>2. ASSUME ListenerStep PROVE StillSound
        BY <2>1, <2>2, ListenLoopKeeps, AcceptKeeps, AcceptThrowsKeeps, ListenCheckKeeps, NewSessionKeeps
           DEF ListenerStep
    <2>3. ASSUME TaskManagerStep PROVE StillSound
        BY <2>1, <2>3, RunLoopKeeps, PollKeeps, SetQueuedKeeps, QueueTaskKeeps, PendingKeeps, HandOverKeeps,
           GiveUpKeeps, WorkGivenKeeps, EndingKeeps, ReleaseKeeps, DeletedKeeps, AddPendingKeeps DEF TaskManagerStep
    <2>4. ASSUME MainStep \/ Stop PROVE StillSound
        BY <2>1, <2>4, JoinedKeeps, WaitTasksKeeps, EndRequestKeeps, EndReleaseKeeps, EndedKeeps, PoolJoinedKeeps,
           StopKeeps DEF MainStep
    <2>5. ASSUME NEW w \in Workers, WorkerStep(w) PROVE StillSound
        BY <2>1, <2>5, TakeKeeps, RunKeeps, NotifyKeeps, DropKeeps DEF WorkerStep
    <2>6. ASSUME NEW r \in Requests, SocketEvent(r) PROVE StillSound
        BY <2>1, <2>6, SocketEventKeeps
    <2>7. StillSound
        BY <1>2, <2>2, <2>3, <2>4, <2>5, <2>6 DEF Next, Over
    <2> QED BY <2>7 DEF StillSound, IInv
<1> QED BY <1>1, <1>2

\* IInv holds in every state of every behaviour.
LEMMA AlwaysIInv == Spec => []IInv
<1>1. Init => IInv
    BY InitIInv
<1>2. IInv /\ [Next]_vars => IInv'
    BY NextKeeps
<1> QED BY <1>1, <1>2, PTL DEF Spec

\* A set whose elements are all equal has at most one.
LEMMA AtMostOne ==
    ASSUME NEW S, \A x, y \in S : x = y
    PROVE  Cardinality(S) \in {0, 1} /\ (Cardinality(S) = 1 => S # {})
<1>1. CASE S = {}
    BY <1>1, FS_EmptySet
<1>2. CASE S # {}
    <2>1. PICK x \in S : S = {x}
        BY <1>2
    <2> QED BY <1>2, <2>1, FS_Singleton
<1> QED BY <1>1, <1>2

\* TaskManager.TasksAreAlone: a request is in the hands of one worker or in one
\* task of the queue, not in two, is queued and lives as long; the thread of the
\* task manager ends no request that has a task, ~TaskManager only after it has
\* given up waiting.  For any number of requests, connections, workers and attempts.
THEOREM TasksStayAlone == Spec => []TasksAreAlone
<1>1. IInv => TasksAreAlone
    <2> SUFFICES ASSUME IInv, failed = "no", NEW r \in Requests
                 PROVE  /\ Cardinality(WorkersOf(r)) + Cardinality(TasksOf(r)) <= 1
                        /\ WorkersOf(r) # {} \/ TasksOf(r) # {} => request[r].queued /\ Alive(r)
        BY DEF IInv, TasksAreAlone, OneTaskAtATime
    <2>1. Tasks
        BY DEF IInv
    <2>2. \A v \in WorkersOf(r) : v \in Workers /\ Busy(v) /\ worker[v].r = r
        BY DEF WorkersOf, Busy
    <2>3. \A i \in TasksOf(r) : i \in 1..Len(queue) /\ queue[i] = r
        BY DEF TasksOf
    <2>4. Cardinality(WorkersOf(r)) \in {0, 1} /\ (Cardinality(WorkersOf(r)) = 1 => WorkersOf(r) # {})
        <3>1. \A v, w \in WorkersOf(r) : v = w
            BY <2>1, <2>2 DEF Tasks
        <3> QED BY <3>1, AtMostOne
    <2>5. Cardinality(TasksOf(r)) \in {0, 1} /\ (Cardinality(TasksOf(r)) = 1 => TasksOf(r) # {})
        <3>1. \A i, j \in TasksOf(r) : i = j
            BY <2>1, <2>3 DEF Tasks
        <3> QED BY <3>1, AtMostOne
    <2>6. WorkersOf(r) = {} \/ TasksOf(r) = {}
        BY <2>1, <2>2, <2>3 DEF Tasks
    <2>7. Cardinality(WorkersOf(r)) + Cardinality(TasksOf(r)) <= 1
        BY <2>4, <2>5, <2>6
    <2>8. WorkersOf(r) # {} \/ TasksOf(r) # {} => HasTask(r)
        BY <2>2, <2>3 DEF HasTask
    <2> QED BY <2>1, <2>7, <2>8 DEF Tasks, Alive
<1> QED BY <1>1, AlwaysIInv, PTL

\* TaskManager.OwnedOnce: no two running workers use one BufferManager, none uses
\* that of a request that is being deleted (BufferManager's ZHTTPD_ASSERT_LOCK), and
\* no connection has two requests, or is closed while one has it.
THEOREM OwnersStayAlone == Spec => []OwnedOnce
<1>1. ASSUME IInv PROVE ManagerAlone
    <2> SUFFICES ASSUME failed = "no" PROVE ManagerAlone
        BY DEF ManagerAlone
    <2>1. Sound
        BY <1>1 DEF IInv, Sound
    <2>2. \A w \in Workers : worker[w].at = "run" =>
              worker[w].r \in Holding /\ worker[w].r \in requests /\ worker[w].r \notin Releasing
        <3>1. \A w \in Workers : worker[w].at = "run" => worker[w].r \in Requests /\ HasTask(worker[w].r)
            BY <2>1 DEF Sound, Tasks, Busy, HasTask
        <3> QED BY <2>1, <3>1, ReleasingIsIdle DEF Sound, Tasks, Managers, Holding
    <2>3. \A v, w \in Workers : worker[v].at = "run" /\ worker[w].at = "run" /\ worker[v].r = worker[w].r => v = w
        BY <2>1 DEF Sound, Tasks, Busy
    <2>4. \A v, w \in Workers : v # w /\ worker[v].at = "run" /\ worker[w].at = "run" =>
              request[worker[v].r].manager # request[worker[w].r].manager
        BY <2>1, <2>2, <2>3 DEF Sound, Managers
    <2>5. \A w \in Workers, r \in Releasing :
              worker[w].at = "run" => request[worker[w].r].manager # request[r].manager
        BY <2>1, <2>2 DEF Sound, Managers
    <2> QED BY <2>4, <2>5 DEF ManagerAlone
<1>2. ASSUME IInv PROVE SocketsOwnedOnce
    BY <1>2 DEF IInv, Sockets, SocketsOwnedOnce
<1>3. IInv => OwnedOnce
    BY <1>1, <1>2 DEF OwnedOnce
<1> QED BY <1>3, AlwaysIInv, PTL

\* TaskManager.SetsHoldTheLiving: until ~TaskManager ends the requests, those that
\* live are those in its set, those waiting to be added, and the one it deletes.
THEOREM SetsStayComplete == Spec => []SetsHoldTheLiving
<1>1. IInv => SetsHoldTheLiving
    <2> SUFFICES ASSUME IInv, failed = "no", main.at \in {"serving", "listeners", "waiting"}
                 PROVE  {r \in Requests : Alive(r)} =
                            requests \cup pending_add \cup (IF tm.at = "release" THEN {tm.r} ELSE {})
        BY DEF SetsHoldTheLiving
    <2>1. \A r \in Requests : Alive(r) <=> r \in requests \/ r \in pending_add \/ (tm.at = "release" /\ r = tm.r)
        BY DEF IInv, Living, Serving, Alive
    <2>2. requests \subseteq Requests /\ pending_add \subseteq Requests /\ (tm.at = "release" => tm.r \in Requests)
        BY DEF IInv, Types, Managing
    <2> QED BY <2>1, <2>2
<1> QED BY <1>1, AlwaysIInv, PTL

\* TaskManager.TypeOK: the types, with no more buffer managers than requests and no
\* more rounds of ~TaskManager than Attempts allows.
THEOREM TypesStay == Spec => []TypeOK
<1>1. ASSUME IInv PROVE TypeOK
    <2>1. Cardinality(Born) \in Nat /\ Cardinality(Requests) \in Nat /\ Cardinality(Born) <= Cardinality(Requests)
        <3>1. Born \subseteq Requests
            BY DEF Born
        <3> QED BY <3>1, FS_Subset, FS_CardinalityType DEF TaskManagerAssumption
    <2>2. managers \in Nat /\ managers <= Cardinality(Requests)
        <3>1. managers \in Nat /\ managers <= Cardinality(Born)
            BY <1>1 DEF IInv, Types, Bounds
        <3>2. \A a, b, c \in Nat : a <= b /\ b <= c => a <= c
            OBVIOUS
        <3> QED BY <2>1, <3>1, <3>2
    <2>3. request \in [Requests -> Request]
        <3>1. \A r \in Requests : request[r].manager \in 0..Cardinality(Requests) /\ request[r] \in AnyRequest
            <4>1. \A r \in Requests : /\ request[r] \in AnyRequest
                                      /\ request[r].manager \in Nat /\ request[r].manager <= managers
                BY <1>1 DEF IInv, Types, AnyRequest, Bounds
            <4>2. \A a, b, c \in Nat : a <= b /\ b <= c => a \in 0..c
                OBVIOUS
            <4> QED BY <2>1, <2>2, <4>1, <4>2
        <3>2. \A r \in Requests : request[r] \in Request
            BY <3>1 DEF AnyRequest, Request
        <3> QED BY <1>1, <3>2 DEF IInv, Types
    <2>4. stack \in Seq(1..managers)
        <3>1. stack \in [1..Len(stack) -> Nat] /\ Len(stack) \in Nat
            BY <1>1, LenProperties DEF IInv, Types
        <3>2. stack \in [1..Len(stack) -> 1..managers]
            BY <1>1, <3>1 DEF IInv, Bounds
        <3> QED BY <3>1, <3>2, SeqDef
    <2>5. main.attempts \in 0..(Attempts + 1)
        <3>1. main.attempts \in Nat /\ main.attempts <= Attempts + 1
            BY <1>1 DEF IInv, Types, Bounds
        <3> QED BY <3>1 DEF TaskManagerAssumption
    <2> QED
        <3>1. main \in [at : {"serving", "listeners", "waiting", "ending", "release", "pool", "finished"},
                        r : Requests \cup {NoOne}, todo : SUBSET Requests, attempts : 0..(Attempts + 1)]
            BY <1>1, <2>5 DEF IInv, Types, MainPlaces, Serving
        <3>2. tm \in [at : {"loop", "give", "mark", "queue", "pending", "keep", "delete", "release", "add", "down"},
                      r : Requests \cup {NoOne}, todo : SUBSET Requests]
            BY <1>1 DEF IInv, Types, TmPlaces, Giving
        <3>3. closed \subseteq Connections /\ failed \in {"no", "assertion", "deleted twice", "used after deletion"}
            BY <1>1 DEF IInv, Bounds
        <3>4. Types
            BY <1>1 DEF IInv
        <3>5. managers \in 0..Cardinality(Requests)
            BY <2>1, <2>2
        <3> QED BY <2>3, <2>4, <3>1, <3>2, <3>3, <3>4, <3>5 DEF Types, WorkerPlaces, TypeOK
<1>2. IInv => TypeOK
    BY <1>1
<1> QED BY <1>2, AlwaysIInv, PTL

-----------------------------------------------------------------------------
(* CgiProcess, for any requests, whatever their children write, and any     *)
(* size of a buffer, of a pipe and of a read: the answer is the rest of     *)
(* what the child wrote after an empty line, to its end.                    *)
(*                                                                          *)
(* The pipe is what the child wrote and the module has not read (Piped);    *)
(* what the module has given is the part before it that begins after the    *)
(* line (Passed).  That a child is counted among those that hold the pipe   *)
(* as long as it lives (HasPipe) is why nothing comes any more when nobody  *)
(* alive holds it, and no child that is made later gets it (Closed, Ending). *)

CgiPlaces ==
    {"new", "piped", "forked", "idle", "writing", "reading", "polling", "ended", "broken",
     "waiting", "destroying", "gone"}
CgiStatuses == {"STARTED", "RUN", "FINISHED"}
CgiUnits == Seq(STRING)
AnyCgi ==
    [at : CgiPlaces, status : CgiStatuses, end : BOOLEAN, headers : BOOLEAN,
     given : CgiUnits, body : Nat, left : Nat, later : BOOLEAN, read : Nat]
ChildStates == {"none", "running", "exited", "killed"}
ChildKinds == {"none", "plain", "filter", "fails"}
AnyChild ==
    [state : ChildStates, kind : ChildKinds, wrote : Nat, reaped : BOOLEAN, stolen : BOOLEAN]
Holders == Processes \cup {Server}

CgiTypes ==
    /\ cgi \in [Processes -> AnyCgi] /\ child \in [Processes -> AnyChild]
    /\ stdin \in [Processes -> 0..InSize] /\ stdout \in [Processes -> CgiUnits]
    /\ serverEnds \in [Processes -> SUBSET Holders] /\ childEnds \in [Processes -> SUBSET Holders]

\* The bounds that TypeOK has besides.
CgiBounds ==
    /\ manager \in SUBSET Processes /\ \A r, t \in manager : r = t
    /\ \A r \in Processes :
          /\ Len(stdout[r]) <= PipeSize /\ cgi[r].left <= PartSize
          /\ cgi[r].at = "writing" => cgi[r].left # 0

\* units are those of out from a to b.
IsPart(units, out, a, b) ==
    /\ Len(units) + a = b + 1
    /\ \A j \in 1..Len(units) : units[j] = out[a + j - 1]
HasRead(r) == child[r].wrote - Len(stdout[r])

Piped(r) ==
    /\ child[r].wrote <= Len(CgiOutput[r]) /\ Len(stdout[r]) <= child[r].wrote
    /\ IsPart(stdout[r], CgiOutput[r], HasRead(r) + 1, child[r].wrote)

IsLine(out, i) == out[i] = "s1" /\ out[i + 1] = "s2"
\* m has given what comes after an empty line among the first h units of out.
GivenOf(out, m, h) ==
    IF m.headers THEN m.given = <<>>
    ELSE \E i \in 1 .. (h - 1) : IsLine(out, i) /\ IsPart(m.given, out, i + 2, h)
Passed(r) == GivenOf(CgiOutput[r], cgi[r], HasRead(r))

HasPipe(r) ==
    /\ cgi[r].at \in {"new", "piped"} => child[r].state = "none"
    /\ child[r].state = "none" => child[r].wrote = 0 /\ \A t \in Processes : r \notin childEnds[t]
    /\ cgi[r].at = "piped" => Server \in childEnds[r]
    /\ child[r].state = "running" => r \in childEnds[r]

\* Nothing is in the pipe, and nobody can write to it.
Closed(r) ==
    /\ stdout[r] = <<>> /\ Server \notin childEnds[r]
    /\ \A h \in childEnds[r] \cap Processes : child[h].state # "running"
Ending(r) ==
    /\ cgi[r].end => cgi[r].status = "FINISHED" /\ cgi[r].at \notin {"new", "piped", "forked"}
    /\ cgi[r].at = "polling" /\ cgi[r].status = "FINISHED" /\ cgi[r].read = 0 => Closed(r)
    /\ cgi[r].at = "ended" => Closed(r)

CgiInv == CgiTypes /\ CgiBounds /\ \A r \in Processes : Piped(r) /\ Passed(r) /\ HasPipe(r) /\ Ending(r)

-----------------------------------------------------------------------------
(* The steps that leave the pipe from the child as it is.                   *)

\* A process ends, or asks for no more; its module goes on or is done with.
LEMMA QuietStep ==
    ASSUME CgiInv, CgiTypes', CgiBounds', stdout' = stdout,
           \A t \in Processes :
              /\ child'[t].wrote = child[t].wrote
              /\ child'[t].state # child[t].state =>
                    child[t].state = "running" /\ child'[t].state \in {"exited", "killed"}
              /\ childEnds'[t] \subseteq childEnds[t] /\ childEnds[t] \ {Server} \subseteq childEnds'[t],
           \A t \in Processes :
              \/ cgi'[t] = cgi[t] /\ childEnds'[t] = childEnds[t]
              \/ /\ cgi'[t].at \in {"waiting", "destroying"} /\ ~cgi'[t].end
                 /\ cgi'[t].headers /\ cgi'[t].given = <<>>
              \/ /\ cgi'[t].at \in {"idle", "writing", "reading", "ended", "broken", "gone"}
                 /\ cgi'[t].headers = cgi[t].headers /\ cgi'[t].given = cgi[t].given
                 /\ cgi'[t].end => cgi'[t].status = "FINISHED"
                 /\ cgi'[t].at = "ended" => Closed(t)
    PROVE  CgiInv'
<1> SUFFICES ASSUME NEW t \in Processes PROVE (Piped(t) /\ Passed(t) /\ HasPipe(t) /\ Ending(t))'
    BY DEF CgiInv
<1>1. Piped(t) /\ Passed(t) /\ HasPipe(t) /\ Ending(t)
    BY DEF CgiInv
<1>2. Piped(t)'
    BY <1>1 DEF Piped, HasRead
<1>3. Passed(t)'
    BY <1>1 DEF Passed, GivenOf, HasRead
<1>4. HasPipe(t)'
    <2>1. t # Server
        BY EndsAssumption
    <2> QED BY <1>1, <2>1 DEF HasPipe
<1>5. Closed(t) => Closed(t)'
    BY DEF Closed
<1>6. Ending(t)'
    BY <1>1, <1>5 DEF Ending
<1> QED BY <1>2, <1>3, <1>4, <1>6


\* What the names of places are.
LEMMA CgiNames ==
    /\ {"new", "piped", "forked", "idle", "writing", "reading", "polling", "ended", "broken",
        "waiting", "destroying", "gone"} \subseteq CgiPlaces
    /\ {"STARTED", "RUN", "FINISHED"} \subseteq CgiStatuses
    /\ {"none", "running", "exited", "killed"} \subseteq ChildStates
    /\ {"none", "plain", "filter", "fails"} \subseteq ChildKinds
BY DEF CgiPlaces, CgiStatuses, ChildStates, ChildKinds

\* What a row of a module is made of, and what is made of such parts.
LEMMA RowParts ==
    ASSUME NEW m \in AnyCgi
    PROVE  /\ m.at \in CgiPlaces /\ m.status \in CgiStatuses /\ m.end \in BOOLEAN /\ m.headers \in BOOLEAN
           /\ m.given \in CgiUnits /\ m.body \in Nat /\ m.left \in Nat /\ m.later \in BOOLEAN /\ m.read \in Nat
BY DEF AnyCgi

LEMMA PlaceChanges ==
    ASSUME NEW m \in AnyCgi, NEW a \in CgiPlaces
    PROVE  /\ [m EXCEPT !.at = a] \in AnyCgi /\ [m EXCEPT !.at = a].at = a
           /\ [m EXCEPT !.at = a].status = m.status /\ [m EXCEPT !.at = a].end = m.end
           /\ [m EXCEPT !.at = a].headers = m.headers /\ [m EXCEPT !.at = a].given = m.given
           /\ [m EXCEPT !.at = a].left = m.left /\ [m EXCEPT !.at = a].read = m.read
BY DEF AnyCgi

LEMMA CgiRow ==
    ASSUME CgiTypes, NEW r \in Processes
    PROVE  /\ cgi[r] \in AnyCgi /\ child[r] \in AnyChild /\ stdout[r] \in CgiUnits
           /\ stdin[r] \in 0..InSize
           /\ childEnds[r] \subseteq Holders /\ serverEnds[r] \subseteq Holders
BY DEF CgiTypes

\* A row of a module is another one.
LEMMA CgiMoves ==
    ASSUME CgiTypes, NEW r \in Processes, NEW row \in AnyCgi, cgi' = [cgi EXCEPT ![r] = row]
    PROVE  cgi' \in [Processes -> AnyCgi] /\ cgi'[r] = row /\ \A t \in Processes \ {r} : cgi'[t] = cgi[t]
BY DEF CgiTypes

\* What the module of a request is before its process is made.
LEMMA NewModule ==
    ASSUME NEW r \in Processes
    PROVE  LET m == Cgi!Module(r)
           IN m \in AnyCgi /\ m.at = "new" /\ m.status = "STARTED" /\ ~m.end /\ m.headers /\ m.given = <<>> /\ m.left = 0
<1>1. CgiBody[r] \in Nat /\ "new" \in CgiPlaces /\ "STARTED" \in CgiStatuses
    BY EndsAssumption, CgiNames
<1>2. <<>> \in CgiUnits
    BY DEF CgiUnits
<1>3. Cgi!Module(r) \in AnyCgi
    BY <1>1, <1>2 DEF Cgi!Module, AnyCgi
<1>4. LET m == Cgi!Module(r)
      IN m.at = "new" /\ m.status = "STARTED" /\ ~m.end /\ m.headers /\ m.given = <<>> /\ m.left = 0
    BY DEF Cgi!Module
<1> QED BY <1>3, <1>4

LEMMA ModuleRow ==
    ASSUME NEW r \in Processes, NEW a \in CgiPlaces
    PROVE  LET m == [Cgi!Module(r) EXCEPT !.at = a]
           IN m \in AnyCgi /\ m.at = a /\ m.status = "STARTED" /\ ~m.end /\ m.headers /\ m.given = <<>> /\ m.left = 0
BY NewModule, PlaceChanges

\* A step of one module that leaves the pipe and its reading as they are.
LEMMA QuietMove ==
    ASSUME CgiInv, NEW r \in Processes, NEW row \in AnyCgi, cgi' = [cgi EXCEPT ![r] = row],
           row.left <= PartSize, row.at = "writing" => row.left # 0,
           stdin' \in [Processes -> 0..InSize], UNCHANGED <<stdout, childEnds>>,
           serverEnds' \in [Processes -> SUBSET Holders],
           manager' \in SUBSET Processes, \A t, u \in manager' : t = u,
           child' \in [Processes -> AnyChild],
           \A t \in Processes : child'[t].wrote = child[t].wrote /\ child'[t].state = child[t].state,
           \/ row.at \in {"waiting", "destroying"} /\ ~row.end /\ row.headers /\ row.given = <<>>
           \/ /\ row.at \in {"idle", "writing", "reading", "ended", "broken", "gone"}
              /\ row.headers = cgi[r].headers /\ row.given = cgi[r].given
              /\ row.end => row.status = "FINISHED"
              /\ row.at = "ended" => Closed(r)
    PROVE  CgiInv'
<1>1. CgiTypes /\ CgiBounds
    BY DEF CgiInv
<1>2. cgi' \in [Processes -> AnyCgi] /\ cgi'[r] = row /\ \A t \in Processes \ {r} : cgi'[t] = cgi[t]
    BY <1>1, CgiMoves
<1>3. CgiTypes'
    BY <1>1, <1>2 DEF CgiTypes
<1>4. CgiBounds'
    BY <1>1, <1>2 DEF CgiBounds
<1> QED BY <1>2, <1>3, <1>4, QuietStep

LEMMA ParentKeeps ==
    ASSUME CgiInv, NEW r \in Processes, Cgi!Parent(r)
    PROVE  CgiInv'
<1> DEFINE row == [cgi[r] EXCEPT !.at = "idle", !.status = "RUN"]
<1>0. CgiTypes /\ CgiBounds /\ Ending(r) /\ cgi[r] \in AnyCgi
    BY CgiRow DEF CgiInv
<1>1. /\ cgi' = [cgi EXCEPT ![r] = row] /\ cgi[r].at = "forked"
      /\ childEnds' = [childEnds EXCEPT ![r] = @ \ {Server}]
      /\ UNCHANGED <<child, stdin, stdout, serverEnds, manager>>
    BY <1>0 DEF Cgi!Parent, Cgi!At, CgiTypes
<1>2. row \in AnyCgi /\ row.at = "idle" /\ row.headers = cgi[r].headers /\ row.given = cgi[r].given
      /\ row.left = cgi[r].left /\ row.end = cgi[r].end
    <2>1. "idle" \in CgiPlaces /\ "RUN" \in CgiStatuses
        BY CgiNames
    <2> QED BY <1>0, <2>1 DEF AnyCgi
<1>3. cgi' \in [Processes -> AnyCgi] /\ cgi'[r] = row /\ \A t \in Processes \ {r} : cgi'[t] = cgi[t]
    BY <1>0, <1>1, <1>2, CgiMoves
<1>4. CgiTypes'
    BY <1>0, <1>1, <1>3 DEF CgiTypes
<1>5. CgiBounds' /\ ~cgi[r].end
    BY <1>0, <1>1, <1>2, <1>3 DEF CgiBounds, Ending
<1>6. \A t \in Processes : /\ childEnds'[t] \subseteq childEnds[t] /\ childEnds[t] \ {Server} \subseteq childEnds'[t]
                           /\ t # r => childEnds'[t] = childEnds[t]
    BY <1>0, <1>1 DEF CgiTypes
<1>7. \A t \in Processes : child'[t] = child[t]
    BY <1>1
<1>8. \A t \in Processes :
              \/ cgi'[t] = cgi[t] /\ childEnds'[t] = childEnds[t]
              \/ /\ cgi'[t].at \in {"idle", "writing", "reading", "ended", "broken", "gone"}
                 /\ cgi'[t].headers = cgi[t].headers /\ cgi'[t].given = cgi[t].given
                 /\ cgi'[t].end => cgi'[t].status = "FINISHED"
                 /\ cgi'[t].at = "ended" => Closed(t)
    BY <1>2, <1>3, <1>5, <1>6
<1>9. stdout' = stdout
    BY <1>1
<1> QED BY <1>4, <1>5, <1>6, <1>7, <1>8, <1>9, QuietStep

LEMMA DataKeeps ==
    ASSUME CgiInv, NEW r \in Processes, Cgi!Data(r)
    PROVE  CgiInv'
<1> DEFINE b == [cgi[r] EXCEPT !.body = @ - 1]
           w == [cgi[r] EXCEPT !.body = @ - 1, !.at = "writing", !.left = PartSize]
<1>0. CgiTypes /\ CgiBounds /\ Ending(r) /\ cgi[r] \in AnyCgi
    BY CgiRow DEF CgiInv
<1>1. /\ cgi[r].at = "idle" /\ cgi[r].body > 0
      /\ cgi' = [cgi EXCEPT ![r] = b] \/ cgi' = [cgi EXCEPT ![r] = w]
      /\ UNCHANGED <<child, stdin, stdout, serverEnds, childEnds, manager>>
    BY <1>0 DEF Cgi!Data, Cgi!At, Cgi!UnchangedPipes, CgiTypes
<1>2. PartSize \in Nat \ {0} /\ "writing" \in CgiPlaces /\ cgi[r].left <= PartSize
    BY <1>0, EndsAssumption, CgiNames DEF CgiBounds
<1>3. cgi[r].body - 1 \in Nat
    BY <1>0, <1>1, RowParts
<1>4. /\ b \in AnyCgi /\ b.at = cgi[r].at /\ b.headers = cgi[r].headers /\ b.given = cgi[r].given
      /\ b.left = cgi[r].left /\ b.end = cgi[r].end /\ b.status = cgi[r].status
    BY <1>0, <1>3 DEF AnyCgi
<1>5. /\ w \in AnyCgi /\ w.at = "writing" /\ w.headers = cgi[r].headers /\ w.given = cgi[r].given
      /\ w.left = PartSize /\ w.end = cgi[r].end /\ w.status = cgi[r].status
    BY <1>0, <1>2, <1>3 DEF AnyCgi
<1>6. PICK row \in {b, w} : cgi' = [cgi EXCEPT ![r] = row]
    BY <1>1
<1>7. /\ row \in AnyCgi /\ row.left <= PartSize /\ (row.at = "writing" => row.left # 0)
      /\ row.at \in {"idle", "writing"} /\ row.headers = cgi[r].headers /\ row.given = cgi[r].given
      /\ row.end = cgi[r].end /\ row.status = cgi[r].status
    <2>1. CASE row = b
        <3> HIDE DEF b, w
        <3> QED BY <1>1, <1>2, <1>4, <2>1
    <2>2. CASE row = w
        <3> HIDE DEF b, w
        <3> QED BY <1>2, <1>5, <2>2
    <2> QED BY <1>6, <2>1, <2>2
<1>8. row.end => row.status = "FINISHED"
    BY <1>0, <1>7 DEF Ending
<1> HIDE DEF b, w
<1> QED BY <1>0, <1>1, <1>6, <1>7, <1>8, QuietMove DEF CgiTypes, CgiBounds

LEMMA WriteKeeps ==
    ASSUME CgiInv, NEW r \in Processes, Cgi!Write(r)
    PROVE  CgiInv'
<1> DEFINE x == [cgi[r] EXCEPT !.at = "broken"]
           w == [cgi[r] EXCEPT !.left = @ - 1, !.at = IF cgi[r].left = 1 THEN "idle" ELSE @]
<1>0. CgiTypes /\ CgiBounds /\ Ending(r) /\ cgi[r] \in AnyCgi
    BY CgiRow DEF CgiInv
<1>1. /\ cgi[r].at = "writing"
      /\ \/ cgi' = [cgi EXCEPT ![r] = x] /\ stdin' = stdin
         \/ cgi' = [cgi EXCEPT ![r] = w] /\ stdin[r] < InSize /\ stdin' = [stdin EXCEPT ![r] = @ + 1]
      /\ UNCHANGED <<child, stdout, serverEnds, childEnds, manager>>
    BY <1>0 DEF Cgi!Write, Cgi!At, Cgi!Goes, CgiTypes
<1>2. PartSize \in Nat /\ cgi[r].left - 1 \in Nat /\ cgi[r].left <= PartSize /\ cgi[r].left \in Nat
    BY <1>0, <1>1, EndsAssumption, RowParts DEF CgiBounds
<1>3. "broken" \in CgiPlaces /\ "idle" \in CgiPlaces /\ cgi[r].at \in CgiPlaces
    BY <1>0, CgiNames, RowParts
<1>4. /\ x \in AnyCgi /\ x.at = "broken" /\ x.headers = cgi[r].headers /\ x.given = cgi[r].given
      /\ x.left = cgi[r].left /\ x.end = cgi[r].end /\ x.status = cgi[r].status
    BY <1>0, <1>3, PlaceChanges
<1>5. /\ w \in AnyCgi /\ w.at = (IF cgi[r].left = 1 THEN "idle" ELSE cgi[r].at)
      /\ w.headers = cgi[r].headers /\ w.given = cgi[r].given
      /\ w.left = cgi[r].left - 1 /\ w.end = cgi[r].end /\ w.status = cgi[r].status
    <2>1. PICK a \in CgiPlaces : a = IF cgi[r].left = 1 THEN "idle" ELSE cgi[r].at
        BY <1>3
    <2>2. w = [cgi[r] EXCEPT !.left = cgi[r].left - 1, !.at = a]
        BY <1>0, <2>1 DEF AnyCgi
    <2> QED BY <1>0, <1>2, <2>1, <2>2 DEF AnyCgi
<1>6. PICK row \in {x, w} : cgi' = [cgi EXCEPT ![r] = row]
    BY <1>1
<1>7. stdin' \in [Processes -> 0..InSize]
    <2>1. stdin \in [Processes -> 0..InSize] /\ InSize \in Nat
        BY <1>0, EndsAssumption DEF CgiTypes
    <2>2. stdin' = stdin \/ (stdin[r] < InSize /\ stdin' = [stdin EXCEPT ![r] = @ + 1])
        BY <1>1
    <2>3. stdin[r] < InSize => stdin[r] + 1 \in 0..InSize
        BY <2>1
    <2> QED BY <2>1, <2>2, <2>3
<1>8. /\ row \in AnyCgi /\ row.left <= PartSize /\ (row.at = "writing" => row.left # 0)
      /\ row.at \in {"idle", "writing", "broken"} /\ row.headers = cgi[r].headers /\ row.given = cgi[r].given
      /\ row.end = cgi[r].end /\ row.status = cgi[r].status
    <2>1. CASE row = x
        <3> HIDE DEF x, w
        <3> QED BY <1>2, <1>4, <2>1
    <2>2. CASE row = w
        <3> HIDE DEF x, w
        <3>1. row.left <= PartSize /\ (row.at = "writing" => row.left # 0) /\ row.at \in {"idle", "writing", "broken"}
            BY <1>1, <1>2, <1>5, <2>2
        <3> QED BY <3>1, <1>5, <2>2
    <2> QED BY <1>6, <2>1, <2>2
<1>9. row.end => row.status = "FINISHED"
    BY <1>0, <1>8 DEF Ending
<1> HIDE DEF x, w
<1> QED BY <1>0, <1>1, <1>6, <1>7, <1>8, <1>9, QuietMove DEF CgiTypes, CgiBounds

LEMMA EndKeeps ==
    ASSUME CgiInv, NEW r \in Processes, Cgi!End(r) \/ Cgi!Idle(r)
    PROVE  CgiInv'
<1>0. CgiTypes /\ CgiBounds /\ Ending(r) /\ cgi[r] \in AnyCgi
    BY CgiRow DEF CgiInv
<1>1. PICK row \in AnyCgi :
      /\ cgi' = [cgi EXCEPT ![r] = row] /\ row.at \in {"idle", "reading"} /\ row.left = cgi[r].left
      /\ row.headers = cgi[r].headers /\ row.given = cgi[r].given
      /\ row.end = cgi[r].end /\ row.status = cgi[r].status
    <2>1. CASE Cgi!End(r)
        <3> DEFINE x == [cgi[r] EXCEPT !.later = TRUE]
        <3>1. cgi[r].at = "idle" /\ cgi' = [cgi EXCEPT ![r] = x]
            BY <1>0, <2>1 DEF Cgi!End, Cgi!At, CgiTypes
        <3>2. /\ x \in AnyCgi /\ x.at = cgi[r].at /\ x.headers = cgi[r].headers /\ x.given = cgi[r].given
              /\ x.left = cgi[r].left /\ x.end = cgi[r].end /\ x.status = cgi[r].status
            BY <1>0 DEF AnyCgi
        <3> HIDE DEF x
        <3> QED BY <3>1, <3>2
    <2>2. CASE Cgi!Idle(r)
        <3> DEFINE x == [cgi[r] EXCEPT !.at = "reading"]
        <3>1. cgi' = [cgi EXCEPT ![r] = x] /\ "reading" \in CgiPlaces
            BY <1>0, <2>2, CgiNames DEF Cgi!Idle, Cgi!Goes, CgiTypes
        <3>2. /\ x \in AnyCgi /\ x.at = "reading" /\ x.headers = cgi[r].headers /\ x.given = cgi[r].given
              /\ x.left = cgi[r].left /\ x.end = cgi[r].end /\ x.status = cgi[r].status
            BY <1>0, <3>1, PlaceChanges
        <3> HIDE DEF x
        <3> QED BY <3>1, <3>2
    <2> QED BY <2>1, <2>2
<1>2. UNCHANGED <<child, stdin, stdout, serverEnds, childEnds, manager>>
    BY DEF Cgi!End, Cgi!Idle, Cgi!UnchangedPipes
<1>3. (row.end => row.status = "FINISHED") /\ row.left <= PartSize
    BY <1>0, <1>1 DEF Ending, CgiBounds
<1> QED BY <1>0, <1>1, <1>2, <1>3, QuietMove DEF CgiTypes, CgiBounds

\* What a row of a child is made of, and what it becomes.
LEMMA ChildParts ==
    ASSUME NEW c \in AnyChild
    PROVE  /\ c.state \in ChildStates /\ c.kind \in ChildKinds /\ c.wrote \in Nat
           /\ c.reaped \in BOOLEAN /\ c.stolen \in BOOLEAN
BY DEF AnyChild

LEMMA ReapedRow ==
    ASSUME NEW c \in AnyChild, NEW b \in BOOLEAN, NEW e \in BOOLEAN
    PROVE  /\ LET d == [c EXCEPT !.reaped = b]
              IN d \in AnyChild /\ d.state = c.state /\ d.wrote = c.wrote
           /\ LET d == [c EXCEPT !.reaped = b, !.stolen = e]
              IN d \in AnyChild /\ d.state = c.state /\ d.wrote = c.wrote
BY DEF AnyChild

LEMMA ChildMoves ==
    ASSUME CgiTypes, NEW r \in Processes, NEW row \in AnyChild, child' = [child EXCEPT ![r] = row]
    PROVE  child' \in [Processes -> AnyChild] /\ child'[r] = row
           /\ \A t \in Processes \ {r} : child'[t] = child[t]
BY DEF CgiTypes

LEMMA StatusPollKeeps ==
    ASSUME CgiInv, NEW r \in Processes, Cgi!Poll(r)
    PROVE  CgiInv'
<1>0. CgiTypes /\ CgiBounds /\ Ending(r) /\ cgi[r] \in AnyCgi /\ child[r] \in AnyChild
    <2>1. CgiTypes /\ CgiBounds /\ Ending(r)
        BY DEF CgiInv
    <2> QED BY <2>1, CgiRow
<1>1. cgi[r].at = "polling" /\ UNCHANGED <<stdin, stdout, serverEnds, childEnds, manager>>
    BY Zenon DEF Cgi!Poll, Cgi!At, Cgi!UnchangedPipes
<1>2. cgi[r].left <= PartSize
    BY <1>0 DEF CgiBounds
<1>3. CASE cgi[r].end /\ cgi[r].read = 0
    <2> DEFINE x == [cgi[r] EXCEPT !.at = "ended"]
    <2>1. cgi' = [cgi EXCEPT ![r] = x] /\ child' = child /\ "ended" \in CgiPlaces
        BY <1>0, <1>3, CgiNames DEF Cgi!Poll, Cgi!Goes, CgiTypes
    <2>2. /\ x \in AnyCgi /\ x.at = "ended" /\ x.headers = cgi[r].headers /\ x.given = cgi[r].given
          /\ x.left = cgi[r].left /\ x.end = cgi[r].end /\ x.status = cgi[r].status
        BY <1>0, <2>1, PlaceChanges
    <2>3. Closed(r) /\ cgi[r].status = "FINISHED"
        BY <1>0, <1>1, <1>3 DEF Ending
    <2> HIDE DEF x
    <2> QED BY <1>0, <1>1, <1>2, <2>1, <2>2, <2>3, QuietMove DEF CgiTypes, CgiBounds
<1>4. CASE ~(cgi[r].end /\ cgi[r].read = 0)
    <2>1. PICK status \in Cgi!Status(r) :
            cgi' = [cgi EXCEPT ![r].at = "idle", ![r].status = status, ![r].end = (status = "FINISHED")]
        BY <1>4, Zenon DEF Cgi!Poll
    <2>2. status \in CgiStatuses
        BY <2>1, CgiNames DEF Cgi!Status
    <2> DEFINE b == (status = "FINISHED")
               x == [cgi[r] EXCEPT !.at = "idle", !.status = status, !.end = b]
    <2>3. cgi' = [cgi EXCEPT ![r] = x]
        BY <1>0, <2>1 DEF CgiTypes
    <2>4. "idle" \in CgiPlaces /\ b \in BOOLEAN
        BY CgiNames
    <2>5. /\ x \in AnyCgi /\ x.at = "idle" /\ x.headers = cgi[r].headers /\ x.given = cgi[r].given
          /\ x.left = cgi[r].left /\ x.status = status /\ x.end = b
        <3> HIDE DEF b
        <3> QED BY <1>0, <2>2, <2>4 DEF AnyCgi
    <2>6. x.end => x.status = "FINISHED"
        <3> HIDE DEF x
        <3> QED BY <2>5
    <2>7. child[r].reaped \in BOOLEAN
        BY <1>0, ChildParts
    <2>8. PICK e \in BOOLEAN : child' = [child EXCEPT ![r] = [child[r] EXCEPT !.reaped = e]]
        <3>1. PICK e : child' = [child EXCEPT ![r].reaped = e]
                       /\ e = (child[r].reaped \/ (cgi[r].status # "FINISHED" /\ Cgi!Waitable(r)))
            <4> WITNESS child[r].reaped \/ (cgi[r].status # "FINISHED" /\ Cgi!Waitable(r))
            <4> QED BY <1>0, <1>4, Zenon DEF Cgi!Poll, CgiTypes
        <3>2. e \in BOOLEAN
            BY <2>7, <3>1, Zenon
        <3> QED BY <3>1, <3>2, Zenon
    <2> DEFINE c == [child[r] EXCEPT !.reaped = e]
    <2>9. c \in AnyChild /\ c.state = child[r].state /\ c.wrote = child[r].wrote
        BY <1>0, <2>8 DEF AnyChild
    <2> HIDE DEF x, c
    <2>10. child' \in [Processes -> AnyChild] /\ child'[r] = c /\ \A t \in Processes \ {r} : child'[t] = child[t]
        BY <1>0, <2>8, <2>9, ChildMoves DEF c
    <2> QED BY <1>0, <1>1, <1>2, <2>3, <2>5, <2>6, <2>9, <2>10, QuietMove DEF CgiTypes, CgiBounds
<1> QED BY <1>3, <1>4

LEMMA DestroyKeeps ==
    ASSUME CgiInv, NEW r \in Processes, Cgi!Destroy(r)
    PROVE  CgiInv'
<1>0. CgiTypes /\ PartSize \in Nat
    BY EndsAssumption DEF CgiInv
<1>1. PICK a \in {"waiting", "destroying"} : cgi' = [cgi EXCEPT ![r] = [Cgi!Module(r) EXCEPT !.at = a]]
    BY DEF Cgi!Destroy, Cgi!Leaves
<1> DEFINE x == [Cgi!Module(r) EXCEPT !.at = a]
<1>2. x \in AnyCgi /\ x.at = a /\ ~x.end /\ x.headers /\ x.given = <<>> /\ x.left = 0
    BY <1>1, CgiNames, ModuleRow
<1>3. UNCHANGED <<child, stdin, stdout, childEnds>> /\ serverEnds' = [serverEnds EXCEPT ![r] = @ \ {Server}]
      /\ manager' = {r}
    BY DEF Cgi!Destroy
<1>4. serverEnds' \in [Processes -> SUBSET Holders]
    BY <1>0, <1>3 DEF CgiTypes
<1>5. x.left <= PartSize
    <2> HIDE DEF x
    <2> QED BY <1>0, <1>2
<1>6. cgi' = [cgi EXCEPT ![r] = x]
    BY <1>1
<1>7. manager' \in SUBSET Processes /\ \A t, u \in manager' : t = u
    BY <1>3
<1>8. /\ child' \in [Processes -> AnyChild] /\ stdin' \in [Processes -> 0..InSize]
      /\ \A t \in Processes : child'[t].wrote = child[t].wrote /\ child'[t].state = child[t].state
    BY <1>0, <1>3 DEF CgiTypes
<1>9. x.at # "writing" /\ x.at \in {"waiting", "destroying"}
    <2> HIDE DEF x
    <2> QED BY <1>1, <1>2
<1> HIDE DEF x
<1> QED BY <1>2, <1>3, <1>4, <1>5, <1>6, <1>7, <1>8, <1>9, QuietMove

LEMMA WaitKeeps ==
    ASSUME CgiInv, NEW r \in Processes, Cgi!WaitOwn(r) \/ Cgi!WaitAny(r)
    PROVE  CgiInv'
<1> DEFINE x == [cgi[r] EXCEPT !.at = "gone"]
<1>0. CgiTypes /\ CgiBounds /\ Ending(r) /\ cgi[r] \in AnyCgi
    BY CgiRow DEF CgiInv
<1>1. /\ cgi' = [cgi EXCEPT ![r] = x] /\ "gone" \in CgiPlaces
      /\ manager' = {} /\ UNCHANGED <<stdin, stdout, serverEnds, childEnds>>
    BY <1>0, CgiNames DEF Cgi!WaitOwn, Cgi!WaitAny, Cgi!Gone, Cgi!Goes, Cgi!UnchangedPipes, CgiTypes
<1>2. /\ x \in AnyCgi /\ x.at = "gone" /\ x.headers = cgi[r].headers /\ x.given = cgi[r].given
      /\ x.left = cgi[r].left /\ x.end = cgi[r].end /\ x.status = cgi[r].status
    BY <1>0, <1>1, PlaceChanges
<1> DEFINE SameRuns ==
              /\ child' \in [Processes -> AnyChild]
              /\ \A t \in Processes : child'[t].wrote = child[t].wrote /\ child'[t].state = child[t].state
<1>3. SameRuns
    <2>1. CASE child' = child
        BY <1>0, <2>1 DEF CgiTypes
    <2>2. ASSUME NEW s \in Processes, child' = [child EXCEPT ![s] = [child[s] EXCEPT !.reaped = TRUE]]
          PROVE  SameRuns
        <3> DEFINE c == [child[s] EXCEPT !.reaped = TRUE]
        <3>1. c \in AnyChild /\ c.state = child[s].state /\ c.wrote = child[s].wrote
            <4>1. child[s] \in AnyChild
                BY <1>0, CgiRow
            <4> QED BY <4>1 DEF AnyChild
        <3> HIDE DEF c
        <3> QED BY <1>0, <2>2, <3>1, ChildMoves DEF c
    <2>3. ASSUME NEW s \in Processes,
                 child' = [child EXCEPT ![s] = [child[s] EXCEPT !.reaped = TRUE, !.stolen = TRUE]]
          PROVE  SameRuns
        <3> DEFINE c == [child[s] EXCEPT !.reaped = TRUE, !.stolen = TRUE]
        <3>1. c \in AnyChild /\ c.state = child[s].state /\ c.wrote = child[s].wrote
            <4>1. child[s] \in AnyChild
                BY <1>0, CgiRow
            <4> QED BY <4>1 DEF AnyChild
        <3> HIDE DEF c
        <3> QED BY <1>0, <2>3, <3>1, ChildMoves DEF c
    <2>4. CASE Cgi!WaitOwn(r)
        <3>1. child' = [child EXCEPT ![r] = [child[r] EXCEPT !.reaped = TRUE]]
            BY <2>4 DEF Cgi!WaitOwn
        <3> QED BY <2>2, <3>1
    <2>5. CASE Cgi!WaitAny(r)
        <3>1. CASE child' = child
            BY <2>1, <3>1
        <3>2. CASE child' # child
            <4>1. PICK s \in Processes : child' = [child EXCEPT ![s].reaped = TRUE, ![s].stolen = TRUE]
                BY <2>5, <3>2 DEF Cgi!WaitAny
            <4>2. child' = [child EXCEPT ![s] = [child[s] EXCEPT !.reaped = TRUE, !.stolen = TRUE]]
                BY <1>0, <4>1 DEF CgiTypes
            <4> HIDE DEF SameRuns
            <4> QED BY <2>3, <4>1, <4>2, Zenon
        <3> QED BY <3>1, <3>2
    <2> QED BY <2>4, <2>5
<1>4. (x.end => x.status = "FINISHED") /\ x.left <= PartSize
    <2> HIDE DEF x
    <2> QED BY <1>0, <1>2 DEF Ending, CgiBounds
<1> HIDE DEF x
<1> QED BY <1>0, <1>1, <1>2, <1>3, <1>4, QuietMove DEF CgiTypes

\* What a child does that writes nothing.
LEMMA ChildKeeps ==
    ASSUME CgiInv, NEW r \in Processes,
           \/ Cgi!ChildReads(r) \/ Cgi!ChildExits(r) \/ Cgi!ChildIsKilled(r)
           \/ Cgi!ChildWrites(r) /\ ~Cgi!Open(serverEnds[r])
    PROVE  CgiInv'
<1>0. CgiTypes /\ CgiBounds /\ child[r] \in AnyChild /\ stdin[r] \in 0..InSize /\ InSize \in Nat
    BY CgiRow, EndsAssumption DEF CgiInv
<1>1. UNCHANGED <<cgi, stdout, serverEnds, childEnds, manager>> /\ child[r].state = "running"
    BY DEF Cgi!ChildReads, Cgi!ChildExits, Cgi!ChildIsKilled, Cgi!ChildWrites, Cgi!UnchangedPipes, Cgi!Alive
<1>2. stdin' \in [Processes -> 0..InSize]
    <2>1. stdin' = stdin \/ (stdin[r] > 0 /\ stdin' = [stdin EXCEPT ![r] = @ - 1])
        BY DEF Cgi!ChildReads, Cgi!ChildExits, Cgi!ChildIsKilled, Cgi!ChildWrites, Cgi!UnchangedPipes
    <2>2. stdin[r] > 0 => stdin[r] - 1 \in 0..InSize
        BY <1>0
    <2>3. stdin \in [Processes -> 0..InSize]
        BY <1>0 DEF CgiTypes
    <2> QED BY <2>1, <2>2, <2>3
<1>3. /\ child' \in [Processes -> AnyChild]
      /\ \A t \in Processes :
            /\ child'[t].wrote = child[t].wrote
            /\ child'[t].state # child[t].state =>
                  child[t].state = "running" /\ child'[t].state \in {"exited", "killed"}
    <2>1. \/ child' = child
          \/ \E s \in {"exited", "killed"} : child' = [child EXCEPT ![r] = [child[r] EXCEPT !.state = s]]
        BY DEF Cgi!ChildReads, Cgi!ChildExits, Cgi!ChildIsKilled, Cgi!ChildWrites, Cgi!Becomes
    <2>2. CASE child' = child
        BY <1>0, <2>2 DEF CgiTypes
    <2>3. ASSUME NEW s \in {"exited", "killed"}, child' = [child EXCEPT ![r] = [child[r] EXCEPT !.state = s]]
          PROVE  <1>3!1 /\ <1>3!2
        <3> DEFINE c == [child[r] EXCEPT !.state = s]
        <3>1. s \in ChildStates
            BY CgiNames
        <3>2. c \in AnyChild /\ c.state = s /\ c.wrote = child[r].wrote
            BY <1>0, <3>1 DEF AnyChild
        <3>3. child' = [child EXCEPT ![r] = c]
            BY <2>3
        <3> HIDE DEF c
        <3> QED BY <1>0, <1>1, <3>2, <3>3, ChildMoves
    <2> QED BY <2>1, <2>2, <2>3
<1>4. CgiTypes' /\ CgiBounds'
    BY <1>0, <1>1, <1>2, <1>3 DEF CgiTypes, CgiBounds
<1> QED BY <1>1, <1>3, <1>4, QuietStep

-----------------------------------------------------------------------------
(* The steps that make the pipe, hand it on, write to it and read it.       *)

\* A part of a part, and two parts that follow each other.
LEMMA PartOfPart ==
    ASSUME NEW out \in Seq(STRING), NEW u \in Seq(STRING), NEW a \in Nat, NEW b \in Nat, IsPart(u, out, a, b),
           NEW x \in Nat, NEW y \in Nat, 1 <= x, x <= y + 1, y <= Len(u)
    PROVE  /\ SubSeq(u, x, y) \in Seq(STRING) /\ Len(SubSeq(u, x, y)) = y + 1 - x
           /\ IsPart(SubSeq(u, x, y), out, a + x - 1, a + y - 1)
<1>1. Len(u) \in Nat /\ DOMAIN u = 1..Len(u) /\ \A j \in 1..Len(u) : u[j] = out[a + j - 1]
    BY DEF IsPart
<1> DEFINE v == SubSeq(u, x, y)
<1>2. v \in Seq(STRING) /\ Len(v) = y + 1 - x
    <2>1. x \in 1 .. Len(u) + 1 /\ y \in x - 1 .. Len(u)
        BY <1>1
    <2> QED BY <2>1, SubSeqProperties
<1>3. \A j \in 1 .. Len(v) : v[j] = u[x + j - 1] /\ x + j - 1 \in 1..Len(u)
    <2>1. x \in 1 .. Len(u) + 1 /\ y \in x - 1 .. Len(u)
        BY <1>1
    <2>2. \A j \in 1 .. y + 1 - x : v[j] = u[x + j - 1]
        BY <2>1, SubSeqProperties
    <2> HIDE DEF v
    <2> QED BY <1>1, <1>2, <2>2
<1>4. \A j \in 1 .. Len(v) : v[j] = out[(a + x - 1) + j - 1]
    <2> SUFFICES ASSUME NEW j \in 1 .. Len(v) PROVE v[j] = out[(a + x - 1) + j - 1]
        OBVIOUS
    <2> HIDE DEF v
    <2>1. a + (x + j - 1) - 1 = (a + x - 1) + j - 1
        BY <1>2
    <2> QED BY <1>1, <1>3, <2>1
<1> HIDE DEF v
<1>5. Len(v) + (a + x - 1) = (a + y - 1) + 1
    BY <1>2
<1>6. IsPart(v, out, a + x - 1, a + y - 1)
    BY <1>4, <1>5 DEF IsPart
<1> QED BY <1>2, <1>6 DEF v

LEMMA PartsJoin ==
    ASSUME NEW out \in Seq(STRING), NEW u \in Seq(STRING), NEW v \in Seq(STRING),
           NEW a \in Nat, NEW b \in Nat, NEW c \in Nat, IsPart(u, out, a, b), IsPart(v, out, b + 1, c)
    PROVE  u \o v \in Seq(STRING) /\ IsPart(u \o v, out, a, c)
<1> DEFINE w == u \o v
<1>1. w \in Seq(STRING) /\ Len(w) = Len(u) + Len(v) /\ Len(u) \in Nat /\ Len(v) \in Nat
    BY ConcatProperties
<1>2. \A j \in 1 .. Len(w) : w[j] = IF j <= Len(u) THEN u[j] ELSE v[j - Len(u)]
    BY ConcatProperties
<1> HIDE DEF w
<1>3. PICK lu \in Nat, lv \in Nat : lu = Len(u) /\ lv = Len(v)
    BY <1>1
<1>4. lu + a = b + 1 /\ lv + (b + 1) = c + 1 /\ Len(w) = lu + lv
    BY <1>1, <1>3 DEF IsPart
<1>5. ASSUME NEW j \in 1 .. (lu + lv) PROVE w[j] = out[a + j - 1]
    <2>1. w[j] = IF j <= lu THEN u[j] ELSE v[j - lu]
        BY <1>2, <1>3, <1>4
    <2>2. CASE j <= lu
        <3>1. j \in 1 .. lu
            BY <2>2
        <3> QED BY <1>3, <2>1, <2>2, <3>1 DEF IsPart
    <2>3. CASE ~(j <= lu)
        <3>1. j - lu \in 1 .. lv
            BY <2>3
        <3>2. (b + 1) + (j - lu) - 1 = a + j - 1
            BY <1>4
        <3>3. v[j - lu] = out[(b + 1) + (j - lu) - 1]
            BY <1>3, <3>1 DEF IsPart
        <3> QED BY <2>1, <2>3, <3>2, <3>3
    <2> QED BY <2>2, <2>3
<1>6. (lu + lv) + a = c + 1
    BY <1>4
<1>7. IsPart(w, out, a, c)
    BY <1>4, <1>5, <1>6 DEF IsPart
<1> QED BY <1>1, <1>7 DEF w

LEMMA PartsAreEqual ==
    ASSUME NEW out, NEW u \in Seq(STRING), NEW v \in Seq(STRING), NEW a \in Nat, NEW b \in Nat,
           IsPart(u, out, a, b), IsPart(v, out, a, b)
    PROVE  u = v
<1>1. Len(u) \in Nat /\ Len(v) \in Nat /\ Len(u) + a = b + 1 /\ Len(v) + a = b + 1
    BY DEF IsPart
<1>2. Len(u) = Len(v)
    BY <1>1
<1>3. \A j \in 1 .. Len(u) : u[j] = v[j]
    BY <1>2 DEF IsPart
<1> QED BY <1>2, <1>3, SeqEqual

\* What Piped says is of numbers.
LEMMA PipedIsTyped ==
    ASSUME CgiTypes, NEW r \in Processes, Piped(r)
    PROVE  /\ CgiOutput[r] \in Seq(STRING) /\ stdout[r] \in Seq(STRING) /\ Len(stdout[r]) \in Nat
           /\ child[r].wrote \in Nat /\ HasRead(r) \in Nat /\ HasRead(r) + Len(stdout[r]) = child[r].wrote
           /\ cgi[r].given \in Seq(STRING)
<1>1. CgiOutput[r] \in Seq(STRING) /\ stdout[r] \in Seq(STRING) /\ child[r].wrote \in Nat
      /\ cgi[r].given \in Seq(STRING)
    BY EndsAssumption, CgiRow, ChildParts, RowParts DEF CgiUnits
<1>2. Len(stdout[r]) \in Nat
    BY <1>1
<1> QED BY <1>1, <1>2 DEF Piped, HasRead

\* What is of a request whose pipe and module stay.
LEMMA OtherPipe ==
    ASSUME NEW t \in Processes, Piped(t), Passed(t),
           cgi'[t].headers = cgi[t].headers, cgi'[t].given = cgi[t].given,
           child'[t].wrote = child[t].wrote, stdout'[t] = stdout[t]
    PROVE  (Piped(t) /\ Passed(t))'
BY DEF Piped, Passed, GivenOf, HasRead

LEMMA PipesKeeps ==
    ASSUME CgiInv, NEW r \in Processes, Cgi!Pipes(r)
    PROVE  CgiInv'
<1> DEFINE x == [cgi[r] EXCEPT !.at = "piped"]
<1>0. CgiTypes /\ CgiBounds /\ \A t \in Processes : Piped(t) /\ Passed(t) /\ HasPipe(t) /\ Ending(t)
    BY DEF CgiInv
<1>1. /\ cgi[r].at = "new" /\ cgi' = [cgi EXCEPT ![r] = x] /\ "piped" \in CgiPlaces
      /\ serverEnds' = [serverEnds EXCEPT ![r] = {Server}] /\ childEnds' = [childEnds EXCEPT ![r] = {Server}]
      /\ UNCHANGED <<child, stdin, stdout, manager>>
    BY <1>0, CgiNames DEF Cgi!Pipes, Cgi!At, Cgi!Goes, CgiTypes
<1>2. /\ x \in AnyCgi /\ x.at = "piped" /\ x.headers = cgi[r].headers /\ x.given = cgi[r].given
      /\ x.left = cgi[r].left /\ x.end = cgi[r].end
    BY <1>0, <1>1, CgiRow, PlaceChanges
<1> HIDE DEF x
<1>3. cgi' \in [Processes -> AnyCgi] /\ cgi'[r] = x /\ \A t \in Processes \ {r} : cgi'[t] = cgi[t]
    BY <1>0, <1>1, <1>2, CgiMoves
<1>4. CgiTypes'
    BY <1>0, <1>1, <1>3 DEF CgiTypes, Holders
<1>5. CgiBounds'
    BY <1>0, <1>1, <1>2, <1>3 DEF CgiBounds
<1>6. /\ childEnds'[r] = {Server} /\ \A t \in Processes \ {r} : childEnds'[t] = childEnds[t]
      /\ \A t \in Processes : t # Server
    BY <1>0, <1>1, EndsAssumption DEF CgiTypes
<1>7. ASSUME NEW t \in Processes PROVE (Piped(t) /\ Passed(t) /\ HasPipe(t) /\ Ending(t))'
    <2>1. (Piped(t) /\ Passed(t))'
        BY <1>0, <1>1, <1>2, <1>3, OtherPipe
    <2>2. HasPipe(t)'
        <3>1. HasPipe(t) /\ HasPipe(r)
            BY <1>0
        <3> QED BY <1>1, <1>2, <1>3, <1>6, <3>1 DEF HasPipe
    <2>3. Ending(t)'
        <3>1. Ending(t)
            BY <1>0
        <3>2. t # r => Closed(t)' = Closed(t)
            BY <1>1, <1>6 DEF Closed
        <3> QED BY <1>1, <1>2, <1>3, <3>1, <3>2 DEF Ending
    <2> QED BY <2>1, <2>2, <2>3
<1> QED BY <1>4, <1>5, <1>7 DEF CgiInv

LEMMA ForkKeeps ==
    ASSUME CgiInv, NEW r \in Processes, Cgi!Fork(r)
    PROVE  CgiInv'
<1> DEFINE x == [cgi[r] EXCEPT !.at = "forked"]
<1>0. CgiTypes /\ CgiBounds /\ \A t \in Processes : Piped(t) /\ Passed(t) /\ HasPipe(t) /\ Ending(t)
    BY DEF CgiInv
<1>1. /\ cgi[r].at = "piped" /\ cgi' = [cgi EXCEPT ![r] = x] /\ "forked" \in CgiPlaces
      /\ UNCHANGED <<stdin, stdout, manager>>
    BY <1>0, CgiNames DEF Cgi!Fork, Cgi!At, Cgi!Goes, CgiTypes
<1>2. /\ x \in AnyCgi /\ x.at = "forked" /\ x.headers = cgi[r].headers /\ x.given = cgi[r].given
      /\ x.left = cgi[r].left /\ x.end = cgi[r].end
    BY <1>0, <1>1, CgiRow, PlaceChanges
<1> HIDE DEF x
<1>3. cgi' \in [Processes -> AnyCgi] /\ cgi'[r] = x /\ \A t \in Processes \ {r} : cgi'[t] = cgi[t]
    BY <1>0, <1>1, <1>2, CgiMoves
<1>4. PICK kind \in {"plain", "filter", "fails"} :
         child' = [child EXCEPT ![r].state = "running", ![r].kind = kind]
    BY DEF Cgi!Fork
<1> DEFINE c == [child[r] EXCEPT !.state = "running", !.kind = kind]
<1>5. child' = [child EXCEPT ![r] = c]
    BY <1>0, <1>4 DEF CgiTypes
<1>6. c \in AnyChild /\ c.state = "running" /\ c.wrote = child[r].wrote
    <2>1. child[r] \in AnyChild /\ "running" \in ChildStates /\ kind \in ChildKinds
        BY <1>0, CgiRow, CgiNames
    <2> QED BY <2>1 DEF AnyChild
<1> HIDE DEF c
<1>7. child' \in [Processes -> AnyChild] /\ child'[r] = c /\ \A t \in Processes \ {r} : child'[t] = child[t]
    BY <1>0, <1>5, <1>6, ChildMoves
<1>8. /\ childEnds' = [t \in Processes |-> IF Server \in childEnds[t] THEN childEnds[t] \cup {r} ELSE childEnds[t]]
      /\ serverEnds' = [t \in Processes |-> IF t # r /\ Server \in serverEnds[t] THEN serverEnds[t] \cup {r} ELSE serverEnds[t]]
    BY DEF Cgi!Fork
<1>9. CgiTypes'
    <2>1. childEnds' \in [Processes -> SUBSET Holders] /\ serverEnds' \in [Processes -> SUBSET Holders]
        BY <1>0, <1>8 DEF CgiTypes, Holders
    <2> QED BY <1>0, <1>1, <1>3, <1>7, <2>1 DEF CgiTypes
<1>10. CgiBounds'
    BY <1>0, <1>1, <1>2, <1>3 DEF CgiBounds
<1>11. \A t \in Processes : /\ childEnds'[t] = IF Server \in childEnds[t] THEN childEnds[t] \cup {r} ELSE childEnds[t]
                            /\ t # Server
    BY <1>8, EndsAssumption
<1>12. child[r].state = "none" /\ Server \in childEnds[r] /\ ~cgi[r].end /\ child[r].wrote = 0
       /\ \A t \in Processes : r \notin childEnds[t]
    BY <1>0, <1>1 DEF HasPipe, Ending
<1>13. ASSUME NEW t \in Processes PROVE (Piped(t) /\ Passed(t) /\ HasPipe(t) /\ Ending(t))'
    <2>1. (Piped(t) /\ Passed(t))'
        BY <1>0, <1>1, <1>2, <1>3, <1>6, <1>7, OtherPipe
    <2>2. HasPipe(t)'
        <3>1. HasPipe(t)
            BY <1>0
        <3>2. CASE t = r
            BY <1>2, <1>3, <1>6, <1>7, <1>11, <1>12, <3>2 DEF HasPipe
        <3>3. CASE t # r
            <4>1. cgi'[t] = cgi[t] /\ child'[t] = child[t]
                BY <1>3, <1>7, <3>3
            <4>2. \A u \in Processes : t \in childEnds'[u] <=> t \in childEnds[u]
                BY <1>11, <3>3
            <4>3. Server \in childEnds[t] => Server \in childEnds'[t]
                BY <1>11
            <4> QED BY <3>1, <4>1, <4>2, <4>3 DEF HasPipe
        <3> QED BY <3>2, <3>3
    <2>3. Ending(t)'
        <3>1. Ending(t)
            BY <1>0
        <3>2. t # r /\ Closed(t) => Closed(t)'
            BY <1>1, <1>7, <1>11, <1>12 DEF Closed
        <3> QED BY <1>2, <1>3, <1>12, <3>1, <3>2 DEF Ending
    <2> QED BY <2>1, <2>2, <2>3
<1> QED BY <1>9, <1>10, <1>13 DEF CgiInv

\* The smallest of a set of numbers.
LEMMA SmallestPlace ==
    ASSUME NEW T \in SUBSET Nat, T # {}
    PROVE  Cgi!Min(T) \in T /\ \A y \in T : Cgi!Min(T) <= y
<1>1. \E x \in T : \A y \in T : ~(<<y, x>> \in OpToRel(<, Nat))
    BY NatLessThanWellFounded, WFMin
<1>2. PICK x \in T : \A y \in T : ~(<<y, x>> \in OpToRel(<, Nat))
    BY <1>1
<1>3. ASSUME NEW y \in T PROVE x <= y
    <2>1. ~(y < x)
        BY <1>2 DEF OpToRel
    <2> QED BY <2>1
<1> QED BY <1>3 DEF Cgi!Min

\* What is read is the beginning of the pipe, and nothing only when it is empty.
LEMMA ReadSizes ==
    ASSUME NEW k \in Nat
    PROVE  LET n == Cgi!Min({k, ReadSize}) IN n \in Nat /\ n <= k /\ (n = 0 => k = 0)
<1> DEFINE n == Cgi!Min({k, ReadSize})
<1>1. ReadSize \in Nat \ {0}
    BY EndsAssumption
<1>2. n \in {k, ReadSize} /\ \A y \in {k, ReadSize} : n <= y
    BY <1>1, SmallestPlace
<1> HIDE DEF n
<1>3. n \in Nat /\ n <= k /\ (n = 0 => k = 0)
    BY <1>1, <1>2
<1> QED BY <1>3 DEF n

\* What the module has given after it was handed units, the next of what the child
\* wrote: those after an empty line, or what it gave and they.
LEMMA ExtractPasses ==
    ASSUME NEW out \in Seq(STRING), NEW m \in AnyCgi, NEW units \in Seq(STRING),
           NEW h \in Nat, NEW n \in Nat, Len(units) = n, IsPart(units, out, h + 1, h + n),
           GivenOf(out, m, h)
    PROVE  LET e == Cgi!Extract(m, units)
           IN /\ e \in AnyCgi /\ e.at = m.at /\ e.status = m.status /\ e.end = m.end /\ e.left = m.left
              /\ GivenOf(out, e, h + n)
<1> DEFINE e == Cgi!Extract(m, units)
<1>0. m.given \in Seq(STRING) /\ m.headers \in BOOLEAN
    BY RowParts DEF CgiUnits
<1>1. CASE ~m.headers
    <2>1. PICK i \in 1 .. (h - 1) : IsLine(out, i) /\ IsPart(m.given, out, i + 2, h)
        BY <1>1 DEF GivenOf
    <2> DEFINE g == m.given \o units
    <2>2. g \in Seq(STRING) /\ IsPart(g, out, i + 2, h + n)
        <3>1. i + 2 \in Nat /\ h + n \in Nat
            BY <2>1
        <3> QED BY <1>0, <2>1, <3>1, PartsJoin
    <2>3. e = [m EXCEPT !.given = g]
        BY <1>1 DEF Cgi!Extract
    <2> HIDE DEF g
    <2>4. e \in AnyCgi /\ e.at = m.at /\ e.status = m.status /\ e.end = m.end /\ e.left = m.left
          /\ e.headers = m.headers /\ e.given = g
        <3>1. g \in CgiUnits
            BY <2>2 DEF CgiUnits
        <3> QED BY <2>3, <3>1 DEF AnyCgi
    <2>5. i \in 1 .. (h + n - 1)
        BY <2>1
    <2>6. GivenOf(out, e, h + n)
        <3> HIDE DEF e
        <3> QED BY <1>1, <2>1, <2>2, <2>4, <2>5 DEF GivenOf
    <2> HIDE DEF e
    <2> QED BY <2>4, <2>6 DEF e
<1>2. CASE m.headers /\ Cgi!Separator(units) = {}
    <2>1. e = m
        BY <1>2 DEF Cgi!Extract
    <2>2. GivenOf(out, m, h + n)
        BY <1>2 DEF GivenOf
    <2> QED BY <2>1, <2>2
<1>3. CASE m.headers /\ Cgi!Separator(units) # {}
    <2>0. m.given = <<>>
        BY <1>3 DEF GivenOf
    <2> DEFINE k == Cgi!Min(Cgi!Separator(units))
               v == SubSeq(units, k + 2, Len(units))
               g == <<>> \o v
    <2>1. k \in 1 .. (n - 1) /\ units[k] = "s1" /\ units[k + 1] = "s2"
        <3>1. Cgi!Separator(units) \in SUBSET Nat
            BY DEF Cgi!Separator
        <3>2. k \in Cgi!Separator(units)
            BY <1>3, <3>1, SmallestPlace
        <3> HIDE DEF k
        <3> QED BY <3>2 DEF Cgi!Separator
    <2>2. e = [m EXCEPT !.headers = FALSE, !.given = g]
        BY <1>3, <2>0 DEF Cgi!Extract
    <2> HIDE DEF k
    <2>3. v \in Seq(STRING) /\ IsPart(v, out, (h + 1) + (k + 2) - 1, (h + 1) + n - 1)
        <3>1. k + 2 \in Nat /\ 1 <= k + 2 /\ k + 2 <= n + 1 /\ h + 1 \in Nat /\ h + n \in Nat /\ n <= Len(units)
            BY <2>1
        <3>2. v = SubSeq(units, k + 2, n)
            OBVIOUS
        <3> HIDE DEF v
        <3> QED BY <3>1, <3>2, PartOfPart
    <2>4. g = v
        BY <2>3, ConcatEmptySeq
    <2> HIDE DEF g, v
    <2>5. (h + 1) + (k + 2) - 1 = (h + k) + 2 /\ (h + 1) + n - 1 = h + n
        BY <2>1
    <2>6. e \in AnyCgi /\ e.at = m.at /\ e.status = m.status /\ e.end = m.end /\ e.left = m.left
          /\ ~e.headers /\ e.given = g
        <3>1. g \in CgiUnits
            BY <2>3, <2>4 DEF CgiUnits
        <3> QED BY <2>2, <3>1 DEF AnyCgi
    <2>7. IsLine(out, h + k)
        <3>1. k \in 1 .. Len(units) /\ k + 1 \in 1 .. Len(units)
            BY <2>1
        <3>2. units[k] = out[(h + 1) + k - 1] /\ units[k + 1] = out[(h + 1) + (k + 1) - 1]
            BY <3>1 DEF IsPart
        <3>3. (h + 1) + k - 1 = h + k /\ (h + 1) + (k + 1) - 1 = (h + k) + 1
            BY <2>1
        <3> QED BY <2>1, <3>2, <3>3 DEF IsLine
    <2>8. h + k \in 1 .. (h + n - 1)
        BY <2>1
    <2>9. IsPart(e.given, out, (h + k) + 2, h + n)
        BY <2>3, <2>4, <2>5, <2>6
    <2> HIDE DEF e
    <2>10. GivenOf(out, e, h + n)
        BY <2>6, <2>7, <2>8, <2>9 DEF GivenOf
    <2> QED BY <2>6, <2>10 DEF e
<1> QED BY <1>0, <1>1, <1>2, <1>3

LEMMA ReadKeeps ==
    ASSUME CgiInv, NEW r \in Processes, Cgi!Read(r)
    PROVE  CgiInv'
<1> DEFINE s == stdout[r]
           n == Cgi!Min({Len(s), ReadSize})
           units == SubSeq(s, 1, n)
           e == Cgi!Extract(cgi[r], units)
           x == [e EXCEPT !.at = "polling", !.read = n]
           rest == SubSeq(s, n + 1, Len(s))
           out == CgiOutput[r]
           h == HasRead(r)
<1>0. CgiTypes /\ CgiBounds /\ \A t \in Processes : Piped(t) /\ Passed(t) /\ HasPipe(t) /\ Ending(t)
    BY DEF CgiInv
<1>1. /\ cgi[r].at = "reading" /\ (n > 0 \/ cgi[r].status # "FINISHED" \/ ~Cgi!Open(childEnds[r]))
      /\ cgi' = [cgi EXCEPT ![r] = x] /\ stdout' = [stdout EXCEPT ![r] = rest]
      /\ UNCHANGED <<child, stdin, serverEnds, childEnds, manager>>
    BY <1>0 DEF Cgi!Read, Cgi!At, CgiTypes
<1>2. /\ out \in Seq(STRING) /\ s \in Seq(STRING) /\ Len(s) \in Nat
      /\ child[r].wrote \in Nat /\ h \in Nat /\ h + Len(s) = child[r].wrote
      /\ IsPart(s, out, h + 1, child[r].wrote) /\ child[r].wrote <= Len(out)
    BY <1>0, PipedIsTyped DEF Piped
<1>3. n \in Nat /\ n <= Len(s) /\ (n = 0 => Len(s) = 0)
    BY <1>2, ReadSizes
<1> HIDE DEF n, h, s, out
<1>4. units \in Seq(STRING) /\ Len(units) = n /\ IsPart(units, out, h + 1, h + n)
    <2>1. /\ SubSeq(s, 1, n) \in Seq(STRING) /\ Len(SubSeq(s, 1, n)) = n + 1 - 1
          /\ IsPart(SubSeq(s, 1, n), out, (h + 1) + 1 - 1, (h + 1) + n - 1)
        <3>1. 1 \in Nat /\ 1 <= n + 1 /\ h + 1 \in Nat
            BY <1>2, <1>3
        <3> QED BY <1>2, <1>3, <3>1, PartOfPart
    <2>2. n + 1 - 1 = n /\ (h + 1) + 1 - 1 = h + 1 /\ (h + 1) + n - 1 = h + n
        BY <1>2, <1>3
    <2> QED BY <2>1, <2>2
<1>5. rest \in Seq(STRING) /\ Len(rest) = Len(s) - n /\ IsPart(rest, out, (h + n) + 1, child[r].wrote)
    <2>1. /\ SubSeq(s, n + 1, Len(s)) \in Seq(STRING) /\ Len(SubSeq(s, n + 1, Len(s))) = Len(s) + 1 - (n + 1)
          /\ IsPart(SubSeq(s, n + 1, Len(s)), out, (h + 1) + (n + 1) - 1, (h + 1) + Len(s) - 1)
        <3>1. n + 1 \in Nat /\ 1 <= n + 1 /\ n + 1 <= Len(s) + 1 /\ Len(s) <= Len(s) /\ h + 1 \in Nat
            BY <1>2, <1>3
        <3> QED BY <1>2, <3>1, PartOfPart
    <2>2. Len(s) + 1 - (n + 1) = Len(s) - n /\ (h + 1) + (n + 1) - 1 = (h + n) + 1
          /\ (h + 1) + Len(s) - 1 = child[r].wrote
        BY <1>2, <1>3
    <2> QED BY <2>1, <2>2
<1>6. /\ e \in AnyCgi /\ e.status = cgi[r].status /\ e.end = cgi[r].end /\ e.left = cgi[r].left
      /\ GivenOf(out, e, h + n)
    <2>1. cgi[r] \in AnyCgi /\ GivenOf(out, cgi[r], h)
        BY <1>0, CgiRow DEF Passed, h, out
    <2> HIDE DEF units
    <2> QED BY <1>2, <1>3, <1>4, <2>1, ExtractPasses
<1> HIDE DEF e, units, rest
<1>7. /\ x \in AnyCgi /\ x.at = "polling" /\ x.read = n /\ x.headers = e.headers /\ x.given = e.given
      /\ x.left = cgi[r].left /\ x.end = cgi[r].end /\ x.status = cgi[r].status
    <2>1. "polling" \in CgiPlaces
        BY CgiNames
    <2> QED BY <1>3, <1>6, <2>1 DEF AnyCgi
<1> HIDE DEF x
<1>8. cgi' \in [Processes -> AnyCgi] /\ cgi'[r] = x /\ \A t \in Processes \ {r} : cgi'[t] = cgi[t]
    BY <1>0, <1>1, <1>7, CgiMoves
<1>9. /\ stdout' \in [Processes -> CgiUnits] /\ stdout'[r] = rest
      /\ \A t \in Processes \ {r} : stdout'[t] = stdout[t]
    <2>1. rest \in CgiUnits
        BY <1>5 DEF CgiUnits
    <2> QED BY <1>0, <1>1, <2>1 DEF CgiTypes
<1>10. CgiTypes'
    BY <1>0, <1>1, <1>8, <1>9 DEF CgiTypes
<1>11. CgiBounds'
    <2>1. Len(rest) <= PipeSize
        <3>1. Len(s) <= PipeSize /\ PipeSize \in Nat
            BY <1>0, EndsAssumption DEF CgiBounds, s
        <3> QED BY <1>2, <1>3, <1>5, <3>1
    <2> QED BY <1>0, <1>1, <1>7, <1>8, <1>9, <2>1 DEF CgiBounds
<1>12. HasRead(r)' = h + n
    <2>1. HasRead(r)' = child[r].wrote - Len(rest)
        BY <1>1, <1>9 DEF HasRead
    <2> QED BY <1>2, <1>3, <1>5, <2>1
<1>13. Piped(r)'
    <2>1. Len(rest) <= child[r].wrote
        BY <1>2, <1>3, <1>5
    <2> QED BY <1>1, <1>2, <1>5, <1>9, <1>12, <2>1 DEF Piped, out
<1>14. Passed(r)'
    <2>1. cgi'[r].headers = e.headers /\ cgi'[r].given = e.given /\ HasRead(r)' = h + n
        BY <1>7, <1>8, <1>12
    <2> QED BY <1>6, <2>1 DEF Passed, GivenOf, out
<1>15. Ending(r)'
    <2>1. Ending(r)
        BY <1>0
    <2>2. ASSUME n = 0, cgi[r].status = "FINISHED" PROVE Closed(r)'
        <3>1. Len(rest) = 0
            BY <1>2, <1>3, <1>5, <2>2
        <3>2. rest = <<>>
            BY <1>5, <3>1
        <3>3. ~Cgi!Open(childEnds[r])
            BY <1>1, <2>2
        <3>4. Server \notin childEnds[r] /\ \A t \in childEnds[r] \cap Processes : child[t].state # "running"
            BY <3>3 DEF Cgi!Open, Cgi!Alive
        <3> QED BY <1>1, <1>9, <3>2, <3>4 DEF Closed
    <2> QED BY <1>1, <1>7, <1>8, <2>1, <2>2 DEF Ending
<1>16. ASSUME NEW t \in Processes PROVE (Piped(t) /\ Passed(t) /\ HasPipe(t) /\ Ending(t))'
    <2>1. HasPipe(t)'
        <3>1. HasPipe(t)
            BY <1>0
        <3> QED BY <1>1, <1>7, <1>8, <3>1 DEF HasPipe
    <2>2. CASE t = r
        BY <1>13, <1>14, <1>15, <2>1, <2>2
    <2>3. CASE t # r
        <3>1. cgi'[t] = cgi[t] /\ stdout'[t] = stdout[t] /\ child' = child /\ childEnds' = childEnds
            BY <1>1, <1>8, <1>9, <2>3
        <3>2. (Piped(t) /\ Passed(t))'
            BY <1>0, <3>1, OtherPipe
        <3>3. Closed(t)' <=> Closed(t)
            BY <3>1 DEF Closed
        <3>4. Ending(t)
            BY <1>0
        <3>5. Ending(t)'
            BY <3>1, <3>3, <3>4 DEF Ending
        <3> QED BY <2>1, <3>2, <3>5
    <2> QED BY <2>2, <2>3
<1> QED BY <1>10, <1>11, <1>16 DEF CgiInv

LEMMA ChildWritesKeeps ==
    ASSUME CgiInv, NEW r \in Processes, Cgi!ChildWrites(r), Cgi!Open(serverEnds[r])
    PROVE  CgiInv'
<1> DEFINE s == stdout[r]
           w == child[r].wrote
           out == CgiOutput[r]
           h == HasRead(r)
           u == <<out[w + 1]>>
           more == Append(s, out[w + 1])
           c == [child[r] EXCEPT !.wrote = w + 1]
<1>0. CgiTypes /\ CgiBounds /\ \A t \in Processes : Piped(t) /\ Passed(t) /\ HasPipe(t) /\ Ending(t)
    BY DEF CgiInv
<1>1. /\ child[r].state = "running" /\ w < Cgi!Target(r) /\ Len(s) < PipeSize
      /\ stdout' = [stdout EXCEPT ![r] = more] /\ child' = [child EXCEPT ![r] = c]
      /\ UNCHANGED <<cgi, stdin, serverEnds, childEnds, manager>>
    BY <1>0 DEF Cgi!ChildWrites, Cgi!Alive, CgiTypes
<1>2. /\ out \in Seq(STRING) /\ s \in Seq(STRING) /\ Len(s) \in Nat /\ w \in Nat /\ h \in Nat
      /\ h + Len(s) = w /\ IsPart(s, out, h + 1, w) /\ w <= Len(out)
    BY <1>0, PipedIsTyped DEF Piped
<1>3. w + 1 <= Len(out) /\ Len(out) \in Nat /\ w + 1 \in Nat
    <2>1. Cgi!Target(r) \in {0, Len(out)} /\ Len(out) \in Nat
        BY <1>2 DEF Cgi!Target
    <2> HIDE DEF w, out
    <2> QED BY <1>1, <1>2, <2>1
<1>4. c \in AnyChild /\ c.state = "running" /\ c.wrote = w + 1
    <2>1. child[r] \in AnyChild
        BY <1>0, CgiRow
    <2> QED BY <1>1, <1>3, <2>1 DEF AnyChild
<1> HIDE DEF c
<1>5. child' \in [Processes -> AnyChild] /\ child'[r] = c /\ \A t \in Processes \ {r} : child'[t] = child[t]
    BY <1>0, <1>1, <1>4, ChildMoves
<1>6. /\ \A t \in Processes : child'[t].state = child[t].state
      /\ \A t \in Processes \ {r} : child'[t].wrote = child[t].wrote
    BY <1>1, <1>4, <1>5
<1> HIDE DEF h, s, out, w
<1>7. out[w + 1] \in STRING
    BY <1>2, <1>3
<1>8. more \in Seq(STRING) /\ Len(more) = Len(s) + 1 /\ IsPart(more, out, h + 1, w + 1)
    <2>1. u \in Seq(STRING) /\ Len(u) = 1 /\ u[1] = out[w + 1]
        BY <1>7
    <2>2. IsPart(u, out, w + 1, w + 1)
        <3> HIDE DEF u
        <3>1. \A j \in 1 .. 1 : j = 1
            OBVIOUS
        <3>2. (w + 1) + 1 - 1 = w + 1 /\ 1 + (w + 1) = (w + 1) + 1
            BY <1>2
        <3> QED BY <2>1, <3>1, <3>2 DEF IsPart
    <2>3. s \o u \in Seq(STRING) /\ IsPart(s \o u, out, h + 1, w + 1)
        <3> HIDE DEF u
        <3>1. h + 1 \in Nat
            BY <1>2
        <3> QED BY <1>2, <1>3, <2>1, <2>2, <3>1, PartsJoin
    <2>4. more = s \o u
        BY <1>2, <1>7, AppendIsConcat
    <2>5. Len(more) = Len(s) + 1
        BY <1>2, <1>7, AppendProperties
    <2> QED BY <2>3, <2>4, <2>5
<1> HIDE DEF more, u
<1>9. /\ stdout' \in [Processes -> CgiUnits] /\ stdout'[r] = more
      /\ \A t \in Processes \ {r} : stdout'[t] = stdout[t]
    <2>1. more \in CgiUnits
        BY <1>8 DEF CgiUnits
    <2> QED BY <1>0, <1>1, <2>1 DEF CgiTypes
<1>10. CgiTypes'
    BY <1>0, <1>1, <1>5, <1>9 DEF CgiTypes
<1>11. CgiBounds'
    <2>1. Len(more) <= PipeSize
        <3>1. PipeSize \in Nat
            BY EndsAssumption
        <3> QED BY <1>1, <1>2, <1>8, <3>1
    <2> QED BY <1>0, <1>1, <1>9, <2>1 DEF CgiBounds
<1>12. HasRead(r)' = h
    <2>1. HasRead(r)' = (w + 1) - Len(more)
        BY <1>4, <1>5, <1>9 DEF HasRead
    <2> QED BY <1>2, <1>8, <2>1
<1>13. Piped(r)'
    <2>1. Len(more) <= w + 1
        BY <1>2, <1>8
    <2> QED BY <1>3, <1>4, <1>5, <1>8, <1>9, <1>12, <2>1 DEF Piped, out
<1>14. Passed(r)'
    <2>1. Passed(r)
        BY <1>0
    <2> QED BY <1>1, <1>12, <2>1 DEF Passed, GivenOf, h
<1>15. ASSUME NEW t \in Processes PROVE (Piped(t) /\ Passed(t) /\ HasPipe(t) /\ Ending(t))'
    <2>1. HasPipe(t) /\ Ending(t) /\ HasPipe(r)
        BY <1>0
    <2>2. HasPipe(t)'
        BY <1>1, <1>6, <2>1 DEF HasPipe
    <2>3. CASE t = r
        <3>1. ~Closed(r)
            BY <1>1, <2>1 DEF HasPipe, Closed
        <3>2. Ending(t)'
            BY <1>1, <2>1, <2>3, <3>1 DEF Ending
        <3> QED BY <1>13, <1>14, <2>2, <2>3, <3>2
    <2>4. CASE t # r
        <3>1. (Piped(t) /\ Passed(t))'
            BY <1>0, <1>1, <1>6, <1>9, <2>4, OtherPipe
        <3>2. Closed(t)' <=> Closed(t)
            BY <1>1, <1>6, <1>9, <2>4 DEF Closed
        <3>3. Ending(t)'
            BY <1>1, <2>1, <3>2 DEF Ending
        <3> QED BY <2>2, <3>1, <3>3
    <2> QED BY <2>3, <2>4
<1> QED BY <1>10, <1>11, <1>15 DEF CgiInv

-----------------------------------------------------------------------------
(* The processes of every behaviour of Ends.                                *)
LEMMA CgiBegins == EndsInit => CgiInv
<1> SUFFICES ASSUME EndsInit PROVE CgiInv
    OBVIOUS
<1>1. PICK present \in CgiTogether :
         cgi = [r \in Processes |-> IF r \in present THEN Cgi!Module(r) ELSE [Cgi!Module(r) EXCEPT !.at = "gone"]]
    BY DEF EndsInit, Cgi!Init
<1>2. /\ child = [r \in Processes |-> [state |-> "none", kind |-> "none", wrote |-> 0, reaped |-> FALSE, stolen |-> FALSE]]
      /\ stdin = [r \in Processes |-> 0] /\ stdout = [r \in Processes |-> <<>>]
      /\ serverEnds = [r \in Processes |-> {}] /\ childEnds = [r \in Processes |-> {}]
      /\ manager = {}
    BY DEF EndsInit, Cgi!Init
<1>3. \A r \in Processes :
         /\ cgi[r] \in AnyCgi /\ cgi[r].at \in {"new", "gone"} /\ ~cgi[r].end
         /\ cgi[r].headers /\ cgi[r].given = <<>> /\ cgi[r].left = 0
    <2> SUFFICES ASSUME NEW r \in Processes
                 PROVE  /\ cgi[r] \in AnyCgi /\ cgi[r].at \in {"new", "gone"} /\ ~cgi[r].end
                        /\ cgi[r].headers /\ cgi[r].given = <<>> /\ cgi[r].left = 0
        OBVIOUS
    <2> DEFINE n == Cgi!Module(r)
               g == [Cgi!Module(r) EXCEPT !.at = "gone"]
    <2>2. /\ n \in AnyCgi /\ n.at = "new" /\ ~n.end /\ n.headers /\ n.given = <<>> /\ n.left = 0
          /\ g \in AnyCgi /\ g.at = "gone" /\ ~g.end /\ g.headers /\ g.given = <<>> /\ g.left = 0
        BY CgiNames, NewModule, ModuleRow
    <2>3. cgi[r] \in {n, g}
        BY <1>1
    <2> HIDE DEF n, g
    <2> QED BY <2>2, <2>3
<1>4. cgi \in [Processes -> AnyCgi]
    <2>1. DOMAIN cgi = Processes /\ cgi = [r \in Processes |-> cgi[r]]
        BY <1>1
    <2> QED BY <1>3, <2>1
<1>5. child \in [Processes -> AnyChild]
    <2> DEFINE c == [state |-> "none", kind |-> "none", wrote |-> 0, reaped |-> FALSE, stolen |-> FALSE]
    <2>1. c \in AnyChild
        BY CgiNames DEF AnyChild
    <2> HIDE DEF c
    <2>2. child = [r \in Processes |-> c]
        BY <1>2 DEF c
    <2> QED BY <2>1, <2>2
<1>6. CgiTypes
    <2>1. <<>> \in CgiUnits
        BY DEF CgiUnits
    <2>2. stdin \in [Processes -> 0..InSize]
        BY <1>2, EndsAssumption
    <2> QED BY <1>2, <1>4, <1>5, <2>1, <2>2 DEF CgiTypes
<1>7. CgiBounds
    <2>1. PipeSize \in Nat /\ PartSize \in Nat /\ Len(<<>>) = 0
        BY EndsAssumption
    <2>2. \A r \in Processes : stdout[r] = <<>> /\ cgi[r].left = 0 /\ cgi[r].at # "writing"
        BY <1>2, <1>3
    <2>3. manager \in SUBSET Processes /\ \A r, t \in manager : r = t
        BY <1>2
    <2> QED BY <2>1, <2>2, <2>3 DEF CgiBounds
<1>8. ASSUME NEW r \in Processes PROVE Piped(r) /\ Passed(r) /\ HasPipe(r) /\ Ending(r)
    <2>1. stdout[r] = <<>> /\ child[r].wrote = 0 /\ child[r].state = "none" /\ \A t \in Processes : childEnds[t] = {}
        BY <1>2
    <2>2. Len(stdout[r]) = 0 /\ HasRead(r) = 0
        <3>1. Len(<<>>) = 0
            OBVIOUS
        <3>2. Len(stdout[r]) = 0
            BY <2>1, <3>1
        <3>3. child[r].wrote = 0
            BY <2>1
        <3>4. HasRead(r) = 0 - 0
            BY <3>2, <3>3, Zenon DEF HasRead
        <3> QED BY <3>2, <3>4
    <2>3. Len(CgiOutput[r]) \in Nat
        BY EndsAssumption
    <2>4. Piped(r)
        BY <2>1, <2>2, <2>3 DEF Piped, IsPart
    <2>5. Passed(r)
        BY <1>3 DEF Passed, GivenOf
    <2>6. HasPipe(r) /\ Ending(r)
        BY <1>3, <2>1 DEF HasPipe, Ending
    <2> QED BY <2>4, <2>5, <2>6
<1> QED BY <1>6, <1>7, <1>8 DEF CgiInv

LEMMA CgiStays ==
    ASSUME CgiInv, UNCHANGED cgiVars
    PROVE  CgiInv'
<1>1. /\ cgi' = cgi /\ child' = child /\ stdin' = stdin /\ stdout' = stdout
      /\ serverEnds' = serverEnds /\ childEnds' = childEnds /\ manager' = manager
    BY DEF cgiVars
<1>2. CgiTypes' /\ CgiBounds'
    BY <1>1 DEF CgiInv, CgiTypes, CgiBounds
<1>3. ASSUME NEW t \in Processes PROVE (Piped(t) /\ Passed(t) /\ HasPipe(t) /\ Ending(t))'
    <2>1. Piped(t) /\ Passed(t) /\ HasPipe(t) /\ Ending(t)
        BY DEF CgiInv
    <2> QED BY <1>1, <2>1 DEF Piped, Passed, GivenOf, HasPipe, Ending, Closed, HasRead
<1> QED BY <1>2, <1>3 DEF CgiInv

LEMMA CgiSteps == CgiInv /\ [EndsNext]_endsVars => CgiInv'
<1> SUFFICES ASSUME CgiInv, [EndsNext]_endsVars PROVE CgiInv'
    OBVIOUS
<1>1. ASSUME NEW r \in Processes,
             \/ Cgi!Pipes(r) \/ Cgi!Fork(r) \/ Cgi!Parent(r) \/ Cgi!Data(r) \/ Cgi!Write(r) \/ Cgi!End(r)
             \/ Cgi!Idle(r) \/ Cgi!Read(r) \/ Cgi!Poll(r) \/ Cgi!Destroy(r) \/ Cgi!WaitOwn(r) \/ Cgi!WaitAny(r)
             \/ Cgi!ChildReads(r) \/ Cgi!ChildWrites(r) \/ Cgi!ChildExits(r) \/ Cgi!ChildIsKilled(r)
      PROVE  CgiInv'
    <2>1. CASE Cgi!Pipes(r)
        BY <2>1, PipesKeeps
    <2>2. CASE Cgi!Fork(r)
        BY <2>2, ForkKeeps
    <2>3. CASE Cgi!Parent(r)
        BY <2>3, ParentKeeps
    <2>4. CASE Cgi!Data(r)
        BY <2>4, DataKeeps
    <2>5. CASE Cgi!Write(r)
        BY <2>5, WriteKeeps
    <2>6. CASE Cgi!End(r) \/ Cgi!Idle(r)
        BY <2>6, EndKeeps
    <2>7. CASE Cgi!Read(r)
        BY <2>7, ReadKeeps
    <2>8. CASE Cgi!Poll(r)
        BY <2>8, StatusPollKeeps
    <2>9. CASE Cgi!Destroy(r)
        BY <2>9, DestroyKeeps
    <2>10. CASE Cgi!WaitOwn(r) \/ Cgi!WaitAny(r)
        BY <2>10, WaitKeeps
    <2>11. CASE Cgi!ChildReads(r) \/ Cgi!ChildExits(r) \/ Cgi!ChildIsKilled(r)
        BY <2>11, ChildKeeps
    <2>12. CASE Cgi!ChildWrites(r)
        BY <2>12, ChildKeeps, ChildWritesKeeps
    <2> QED BY <1>1, <2>1, <2>2, <2>3, <2>4, <2>5, <2>6, <2>7, <2>8, <2>9, <2>10, <2>11, <2>12
<1>2. CASE UNCHANGED cgiVars
    BY <1>2, CgiStays
<1>3. CASE UNCHANGED endsVars
    BY <1>2, <1>3 DEF endsVars
<1>4. CASE EndsNext
    <2>1. InTasks \/ InForm => UNCHANGED cgiVars
        BY DEF InTasks, InForm
    <2>2. Cgi!Over => UNCHANGED cgiVars
        BY DEF Cgi!Over, Cgi!vars, cgiVars
    <2> QED BY <1>1, <1>2, <1>4, <2>1, <2>2 DEF EndsNext
<1> QED BY <1>3, <1>4

\* What the invariant says of a module that ends the answer.
LEMMA CgiInvSays == CgiInv => CgiAnswerIsWhole
<1> SUFFICES ASSUME CgiInv PROVE CgiAnswerIsWhole
    OBVIOUS
<1>1. Cgi!TypeOK
    <2>1. ASSUME NEW r \in Processes
          PROVE  /\ cgi[r].status \in {"STARTED", "RUN", "FINISHED"} /\ cgi[r].left \in 0..PartSize
                 /\ stdin[r] \in 0..InSize /\ Len(stdout[r]) \in 0..PipeSize
                 /\ childEnds[r] \cup serverEnds[r] \subseteq Processes \cup {Server}
        <3>1. CgiTypes /\ Len(stdout[r]) <= PipeSize /\ cgi[r].left <= PartSize
            BY DEF CgiInv, CgiBounds
        <3>2. cgi[r] \in AnyCgi /\ stdout[r] \in Seq(STRING) /\ stdin[r] \in 0..InSize
              /\ childEnds[r] \subseteq Holders /\ serverEnds[r] \subseteq Holders
            BY <3>1, CgiRow DEF CgiUnits
        <3>3. cgi[r].status \in CgiStatuses /\ cgi[r].left \in Nat /\ Len(stdout[r]) \in Nat
            BY <3>2, RowParts
        <3>4. cgi[r].left \in 0..PartSize /\ Len(stdout[r]) \in 0..PipeSize
            BY <3>1, <3>3, EndsAssumption
        <3> QED BY <3>2, <3>3, <3>4 DEF CgiStatuses, Holders
    <2>2. manager \subseteq Processes /\ Cgi!Cardinality(manager) <= 1
        <3>1. manager \subseteq Processes /\ \A r, t \in manager : r = t
            BY DEF CgiInv, CgiBounds
        <3>2. Cgi!Cardinality(manager) = Cardinality(manager)
            BY Zenon DEF Cgi!Cardinality, Cardinality
        <3>3. CASE manager = {}
            BY <3>2, <3>3, FS_EmptySet
        <3>4. CASE manager # {}
            <4>1. PICK r \in manager : TRUE
                BY <3>4
            <4>2. manager = {r}
                BY <3>1, <4>1
            <4>3. Cardinality({r}) = 1
                BY FS_Singleton
            <4>4. Cgi!Cardinality(manager) = 1
                BY <3>2, <4>2, <4>3, Zenon
            <4> QED BY <3>1, <4>4
        <3> QED BY <3>1, <3>3, <3>4
    <2> QED BY <2>1, <2>2 DEF Cgi!TypeOK
<1>2. Cgi!EndIsEndOfOutput
    <2> SUFFICES ASSUME NEW r \in Processes, cgi[r].at = "ended"
                 PROVE  stdout[r] = <<>> /\ ~Cgi!Open(childEnds[r])
        BY DEF Cgi!EndIsEndOfOutput, Cgi!At
    <2>1. Closed(r)
        BY DEF CgiInv, Ending
    <2> QED BY <2>1 DEF Closed, Cgi!Open, Cgi!Alive
<1>3. Cgi!GivenIsBody
    <2> SUFFICES ASSUME NEW r \in Processes, cgi[r].at = "ended",
                        NEW wrote, wrote = SubSeq(CgiOutput[r], 1, child[r].wrote)
                 PROVE  IF cgi[r].headers THEN cgi[r].given = <<>>
                        ELSE \E i \in Cgi!Separator(wrote) : cgi[r].given = SubSeq(wrote, i + 2, Len(wrote))
        BY DEF Cgi!GivenIsBody, Cgi!At
    <2> DEFINE out == CgiOutput[r]
               w == child[r].wrote
               given == cgi[r].given
    <2>1. CgiTypes /\ Piped(r) /\ Passed(r) /\ Closed(r)
        BY DEF CgiInv, Ending
    <2>2. out \in Seq(STRING) /\ w \in Nat /\ given \in Seq(STRING) /\ w <= Len(out) /\ HasRead(r) = w
        <3>1. Len(stdout[r]) = 0
            BY <2>1 DEF Closed
        <3> QED BY <2>1, <3>1, PipedIsTyped DEF Piped, HasRead
    <2>3. CASE cgi[r].headers
        BY <2>1, <2>3 DEF Passed, GivenOf
    <2>4. CASE ~cgi[r].headers
        <3>1. PICK i \in 1 .. (w - 1) : IsLine(out, i) /\ IsPart(given, out, i + 2, w)
            BY <2>1, <2>2, <2>4 DEF Passed, GivenOf
        <3> HIDE DEF out, w, given
        <3>2. /\ wrote \in Seq(STRING) /\ Len(wrote) = w /\ IsPart(wrote, out, 1, w)
              /\ \A j \in 1 .. w : wrote[j] = out[j]
            <4>1. IsPart(out, out, 1, Len(out)) /\ Len(out) \in Nat
                BY <2>2 DEF IsPart
            <4>2. wrote = SubSeq(out, 1, w)
                BY DEF out, w
            <4>3. /\ SubSeq(out, 1, w) \in Seq(STRING) /\ Len(SubSeq(out, 1, w)) = w + 1 - 1
                  /\ IsPart(SubSeq(out, 1, w), out, 1 + 1 - 1, 1 + w - 1)
                <5>1. 1 \in Nat /\ 1 <= 1 /\ 1 <= w + 1 /\ w \in Nat /\ w <= Len(out) /\ out \in Seq(STRING)
                    BY <2>2
                <5> QED BY <4>1, <5>1, PartOfPart
            <4>4. Len(wrote) = w /\ IsPart(wrote, out, 1, w)
                <5>1. w + 1 - 1 = w /\ 1 + 1 - 1 = 1 /\ 1 + w - 1 = w
                    BY <2>2
                <5> QED BY <4>2, <4>3, <5>1
            <4>5. \A j \in 1 .. w : 1 + j - 1 = j
                BY <2>2
            <4> QED BY <4>2, <4>3, <4>4, <4>5 DEF IsPart
        <3>3. i \in Cgi!Separator(wrote)
            <4>1. i \in 1 .. w /\ i + 1 \in 1 .. w /\ i \in 1 .. (Len(wrote) - 1)
                BY <3>1, <3>2
            <4> QED BY <3>1, <3>2, <4>1 DEF IsLine, Cgi!Separator
        <3>4. SubSeq(wrote, i + 2, w) \in Seq(STRING) /\ IsPart(SubSeq(wrote, i + 2, w), out, i + 2, w)
            <4>1. i + 2 \in Nat /\ 1 <= i + 2 /\ i + 2 <= w + 1 /\ w <= Len(wrote)
                  /\ 1 + (i + 2) - 1 = i + 2 /\ 1 + w - 1 = w
                BY <2>2, <3>1, <3>2
            <4>2. /\ SubSeq(wrote, i + 2, w) \in Seq(STRING)
                  /\ IsPart(SubSeq(wrote, i + 2, w), out, 1 + (i + 2) - 1, 1 + w - 1)
                BY <2>2, <3>2, <4>1, PartOfPart
            <4> QED BY <4>1, <4>2
        <3>5. given = SubSeq(wrote, i + 2, w)
            <4>1. i + 2 \in Nat
                BY <3>1
            <4> QED BY <2>2, <3>1, <3>4, <4>1, PartsAreEqual
        <3> QED BY <2>4, <3>2, <3>3, <3>5 DEF given
    <2> QED BY <2>3, <2>4
<1> QED BY <1>1, <1>2, <1>3 DEF CgiAnswerIsWhole, Cgi!CgiAnswerIsWhole

\* CgiAnswerIsWhole: the module ends the answer only when the pipe is empty and nobody
\* alive can write to it, and has then given the rest of what the child wrote after an
\* empty line; so whatever the children write, however they and the workers interleave,
\* and whatever waitpid leaves in a status that it does not write.
THEOREM CgiAnswerStaysWhole == EndsSpec => []CgiAnswerIsWhole
<1>1. EndsSpec => []CgiInv
    BY CgiBegins, CgiSteps, PTL DEF EndsSpec
<1> QED BY <1>1, CgiInvSays, PTL
===============================================================================
