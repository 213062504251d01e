----------------------------- MODULE TaskManager -----------------------------
(***************************************************************************)
(* server/core: TaskManager, RequestManager, SessionManager, Session,      *)
(* BufferManagerStack, Listener and the shutdown of Server.                *)
(*                                                                         *)
(* The listener makes a session and a request for each connection and      *)
(* queues it for the task manager's thread, which gives the work of each   *)
(* request to the thread pool, one task at a time, hands a kept connection *)
(* over to a new request and destroys the old one.  Server::run stops them *)
(* one after the other.                                                    *)
(*                                                                         *)
(* RequestTasks is reduced to a status (module RequestTasks has the rest), *)
(* the pool to its queue (WorkQueue) and the listeners to one.  An         *)
(* assertion that fails, an object deleted twice or used after its         *)
(* deletion ends the behaviour: failed says which.                         *)
(***************************************************************************)
EXTENDS Integers, Sequences, FiniteSets

CONSTANTS
    Requests,     \* bound of this model: a request is created at most once
    Connections,  \* bound of this model: connections the clients open
    NoOne,        \* no request, no connection
    Workers,
    Attempts      \* 10 in ~TaskManager

ASSUME TaskManagerAssumption ==
    /\ IsFiniteSet(Requests) /\ IsFiniteSet(Connections) /\ IsFiniteSet(Workers)
    /\ NoOne \notin Requests \cup Connections
    /\ Attempts \in Nat

VARIABLES
    running,      \* ServerState is RUNNING
    request,      \* the requests (Request)
    stack,        \* BufferManagerStack::_managers
    managers,     \* how many BufferManagers were made; they are numbered
    requests, pending_add, pending_del,   \* the sets of TaskManager
    queue,        \* the tasks of the thread pool, each by its request
    worker,       \* what each worker does
    tm,           \* where the thread of the task manager is, the rest of its loop
    listener,     \* where the listener is, new_connection, and if it was handed over
    main,         \* where Server::run is, and attempts of ~TaskManager
    closed,       \* the connections whose Socket is deleted
    failed        \* "no", "assertion", "deleted twice" or "used after deletion"
sets == <<requests, pending_add, pending_del>>
vars == <<running, request, stack, managers, sets, queue, worker, tm, listener,
          main, closed, failed>>

Request == [stage : {"none", "alive", "gone"}, status : {"waits", "ready", "done", "error"},
            closing : BOOLEAN, queued : BOOLEAN, manager : 0..Cardinality(Requests),
            socket : Connections \cup {NoOne}]
NoRequest == [stage |-> "none", status |-> "waits", closing |-> FALSE, queued |-> FALSE,
              manager |-> 0, socket |-> NoOne]
Idle == [at |-> "idle", r |-> NoOne]

Init ==
    /\ running = TRUE
    /\ request = [r \in Requests |-> NoRequest]
    /\ stack = <<>> /\ managers = 0
    /\ requests = {} /\ pending_add = {} /\ pending_del = {}
    /\ queue = <<>>
    /\ worker = [w \in Workers |-> Idle]
    /\ tm = [at |-> "loop", r |-> NoOne, todo |-> {}]
    /\ listener = [at |-> "loop", last |-> NoOne, handed |-> FALSE]
    /\ main = [at |-> "serving", r |-> NoOne, todo |-> {}, attempts |-> 0]
    /\ closed = {} /\ failed = "no"

Alive(r) == r \in Requests /\ request[r].stage = "alive"
Unborn == {r \in Requests : request[r].stage = "none"}

-----------------------------------------------------------------------------
(* A new session and its request.                                           *)

\* Mutant: an empty stack gives one and the same manager.
PopShared ==
    IF stack = <<>> THEN [manager |-> 1, stack |-> stack, managers |-> 1]
    ELSE [manager |-> stack[Len(stack)], stack |-> SubSeq(stack, 1, Len(stack) - 1), managers |-> managers]

\* BufferManagerStack::pop
Pop ==
    IF stack = <<>> THEN [manager |-> managers + 1, stack |-> stack, managers |-> managers + 1]
    ELSE [manager |-> stack[Len(stack)], stack |-> SubSeq(stack, 1, Len(stack) - 1), managers |-> managers]

\* handleNewSession, handleNewRequest and startRequest: the request waits to
\* read.  old is the value of request, changed by the caller.
NewSession(r, c, old) ==
    /\ request' = [old EXCEPT ![r] = [NoRequest EXCEPT !.stage = "alive", !.manager = Pop.manager, !.socket = c]]
    /\ stack' = Pop.stack /\ managers' = Pop.managers
    /\ pending_add' = pending_add \cup {r}

\* The pool of sockets, or the silence of the client, ends a wait.
SocketEvent(r) ==
    /\ Alive(r) /\ request[r].status = "waits"
    /\ \E s \in {"ready", "error"} : request' = [request EXCEPT ![r].status = s]
    /\ UNCHANGED <<running, stack, managers, sets, queue, worker, tm, listener, main, closed, failed>>

-----------------------------------------------------------------------------
(* Listener::run.                                                           *)

Listen(from, l) == listener.at = from /\ listener' = l
KeepsListener == UNCHANGED <<running, request, stack, managers, sets, queue, worker, tm, main>>

\* ZHTTPD_DELETE(new_connection): the session of a connection that was handed
\* over deletes its Socket again.
DeleteLast ==
    /\ closed' = closed \cup ({listener.last} \ {NoOne})
    /\ failed' = IF listener.handed THEN "deleted twice" ELSE failed

\* Mutant: the loop does not ask for the state of the server.
ListenForEver ==
    /\ Listen("loop", [listener EXCEPT !.at = "accept"])
    /\ UNCHANGED <<closed, failed>> /\ KeepsListener

ListenLoop ==
    /\ \/ running /\ Listen("loop", [listener EXCEPT !.at = "accept"]) /\ UNCHANGED <<closed, failed>>
       \/ ~running /\ Listen("loop", [at |-> "stopped", last |-> NoOne, handed |-> FALSE]) /\ DeleteLast
    /\ KeepsListener

\* A client connects, or stop() does (SelfConnector).
Accept ==
    /\ \E c \in Connections \cup {NoOne} :
          /\ IF c = NoOne THEN main.at = "listeners" ELSE Unborn # {}
          /\ c \notin closed /\ \A r \in Requests : c # NoOne => request[r].socket # c
          /\ Listen("accept", [at |-> "check", last |-> c, handed |-> FALSE])
    /\ UNCHANGED <<closed, failed>> /\ KeepsListener

AcceptThrows ==
    /\ Listen("accept", [at |-> "loop", last |-> NoOne, handed |-> FALSE]) /\ DeleteLast
    /\ KeepsListener

\* The state is asked for before the session is made.
ListenCheck ==
    /\ Listen("check", [listener EXCEPT !.at = IF running THEN "handle" ELSE "loop"])
    /\ UNCHANGED <<closed, failed>> /\ KeepsListener

HandleNewSession ==
    /\ Listen("handle", [listener EXCEPT !.at = "loop", !.handed = TRUE])
    /\ \E r \in Unborn : NewSession(r, listener.last, request)
    /\ UNCHANGED <<running, requests, pending_del, queue, worker, tm, main, closed, failed>>

-----------------------------------------------------------------------------
(* TaskManager::run.                                                        *)

Manage(from, t) == tm.at = from /\ failed = "no" /\ tm' = t
Next1(r) == [tm EXCEPT !.at = "give", !.r = NoOne, !.todo = @ \ {r}]

RunLoop ==
    /\ Manage("loop", IF running THEN [at |-> "give", r |-> NoOne, todo |-> requests]
                       ELSE [tm EXCEPT !.at = "down"])
    /\ UNCHANGED <<running, request, stack, managers, sets, queue, worker, listener, main, closed, failed>>

\* Mutant: isQueued is not asked.
PollBlindly ==
    \E r \in tm.todo :
        /\ Manage("give", IF request[r].status = "ready" THEN [tm EXCEPT !.at = "mark", !.r = r]
                          ELSE [tm EXCEPT !.at = "pending", !.r = r])
        /\ UNCHANGED <<running, request, stack, managers, sets, queue, worker, listener, main, closed, failed>>

\* _giveWork asks isQueued, then hasWork.
Poll ==
    \E r \in tm.todo :
        /\ Manage("give", CASE request[r].queued -> Next1(r)
                            [] ~request[r].queued /\ request[r].status = "ready" -> [tm EXCEPT !.at = "mark", !.r = r]
                            [] OTHER -> [tm EXCEPT !.at = "pending", !.r = r])
        /\ UNCHANGED <<running, request, stack, managers, sets, queue, worker, listener, main, closed, failed>>

\* setQueued(true); the dispatched event leaves others, a wait, or nothing.
SetQueued ==
    /\ Manage("mark", [tm EXCEPT !.at = "queue"])
    /\ \E s \in {"waits", "ready", "done"} :
          request' = [request EXCEPT ![tm.r].queued = TRUE,
                                     ![tm.r].status = IF @ = "ready" THEN s ELSE @]
    /\ UNCHANGED <<running, stack, managers, sets, queue, worker, listener, main, closed, failed>>

QueueTask ==
    /\ Manage("queue", Next1(tm.r))
    /\ queue' = Append(queue, tm.r)
    /\ UNCHANGED <<running, request, stack, managers, sets, worker, listener, main, closed, failed>>

\* hasPendingEvent, in a critical section of its own.
HasPendingEvent ==
    /\ Manage("pending", IF request[tm.r].status \in {"waits", "ready"} THEN Next1(tm.r)
                          ELSE [tm EXCEPT !.at = "keep"])
    /\ UNCHANGED <<running, request, stack, managers, sets, queue, worker, listener, main, closed, failed>>

\* hasError and the Connection headers: a kept connection gets a session and a
\* request.  Bound of this model: it is not kept if no request is left for it.
Kept == /\ request[tm.r].status # "error" /\ ~request[tm.r].closing
        /\ Cardinality(Unborn) > (IF listener.at \in {"check", "handle"} THEN 1 ELSE 0)

\* Mutant: the old session keeps its socket.
HandOverShared ==
    /\ Manage("keep", Next1(tm.r)) /\ Kept
    /\ \E r \in Unborn : NewSession(r, request[tm.r].socket, request)
    /\ pending_del' = pending_del \cup {tm.r}
    /\ UNCHANGED <<running, requests, queue, worker, listener, main, closed, failed>>

HandOver ==
    /\ Manage("keep", Next1(tm.r)) /\ Kept
    /\ \E r \in Unborn :
          NewSession(r, request[tm.r].socket, [request EXCEPT ![tm.r].socket = NoOne])
    /\ pending_del' = pending_del \cup {tm.r}
    /\ UNCHANGED <<running, requests, queue, worker, listener, main, closed, failed>>

GiveUp ==
    /\ Manage("keep", Next1(tm.r)) /\ ~Kept
    /\ pending_del' = pending_del \cup {tm.r}
    /\ UNCHANGED <<running, request, stack, managers, requests, pending_add, queue, worker, listener,
                   main, closed, failed>>

WorkGiven ==
    /\ tm.todo = {} /\ Manage("give", [tm EXCEPT !.at = "delete", !.todo = pending_del])
    /\ UNCHANGED <<running, request, stack, managers, sets, queue, worker, listener, main, closed, failed>>

\* RequestManager::endRequest gives the BufferManager back, then deletes the
\* request, which releases its buffers and deletes its session and socket.
PushManager(r) ==
    /\ failed' = IF request[r].queued THEN "assertion" ELSE failed
    /\ stack' = IF request[r].queued THEN stack ELSE Append(stack, request[r].manager)

DeleteRequest(r) ==
    /\ request' = [request EXCEPT ![r].stage = "gone", ![r].socket = NoOne]
    /\ closed' = closed \cup ({request[r].socket} \ {NoOne})
    /\ failed' = IF request[r].socket \in closed THEN "deleted twice" ELSE failed

\* Mutant: the request stays in the set of the task manager.
DelPendingKeeps ==
    \E r \in tm.todo :
        /\ Manage("delete", [tm EXCEPT !.at = "release", !.r = r, !.todo = @ \ {r}])
        /\ PushManager(r)
        /\ UNCHANGED <<running, request, managers, sets, queue, worker, listener, main, closed>>

DelPending ==
    \E r \in tm.todo :
        /\ Manage("delete", [tm EXCEPT !.at = "release", !.r = r, !.todo = @ \ {r}])
        /\ requests' = requests \ {r}
        /\ PushManager(r)
        /\ UNCHANGED <<running, request, managers, pending_add, pending_del, queue, worker, listener, main, closed>>

Release ==
    /\ Manage("release", [tm EXCEPT !.at = "delete", !.r = NoOne])
    /\ DeleteRequest(tm.r)
    /\ UNCHANGED <<running, stack, managers, sets, queue, worker, listener, main>>

Deleted ==
    /\ tm.todo = {} /\ Manage("delete", [tm EXCEPT !.at = "add"])
    /\ pending_del' = {}
    /\ UNCHANGED <<running, request, stack, managers, requests, pending_add, queue, worker, listener,
                   main, closed, failed>>

AddPending ==
    /\ Manage("add", [tm EXCEPT !.at = "loop"])
    /\ requests' = requests \cup pending_add /\ pending_add' = {}
    /\ UNCHANGED <<running, request, stack, managers, pending_del, queue, worker, listener, main, closed, failed>>

TaskManagerStep ==
    \/ RunLoop \/ Poll \/ SetQueued \/ QueueTask \/ HasPendingEvent \/ HandOver \/ GiveUp
    \/ WorkGiven \/ DelPending \/ Release \/ Deleted \/ AddPending

-----------------------------------------------------------------------------
(* The workers.                                                             *)

WorkerAt(w, from, to) == worker[w].at = from /\ failed = "no" /\ worker' = [worker EXCEPT ![w] = to]

Take(w) ==
    /\ queue # <<>> /\ main.at \notin {"pool", "finished"}
    /\ WorkerAt(w, "idle", [at |-> "run", r |-> Head(queue)]) /\ queue' = Tail(queue)
    /\ UNCHANGED <<running, request, stack, managers, sets, tm, listener, main, closed, failed>>

\* processTask: the module waits, has more to do, or is done; it may want the
\* connection closed.  An exception ends the request (notifyHasError).
Run(w) ==
    LET r == worker[w].r IN
    /\ \E s \in {"waits", "ready", "done", "error"}, closing \in BOOLEAN :
          /\ WorkerAt(w, "run", [at |-> IF s = "error" THEN "thrown" ELSE "notify", r |-> r])
          /\ request' = [request EXCEPT ![r].status = IF @ = "error" THEN @ ELSE s,
                                        ![r].closing = @ \/ closing]
    /\ UNCHANGED <<running, stack, managers, sets, queue, tm, listener, main, closed, failed>>

\* Mutant: the request of a task that threw stays queued.
NotifyReturned(w) ==
    \E from \in {"notify", "thrown"} :
        /\ WorkerAt(w, from, IF from = "thrown" THEN [worker[w] EXCEPT !.at = "drop"] ELSE Idle)
        /\ request' = [request EXCEPT ![worker[w].r].queued = from = "thrown"]
        /\ UNCHANGED <<running, stack, managers, sets, queue, tm, listener, main, closed, failed>>

\* notifyEndTask, from either branch.
Notify(w) ==
    \E from \in {"notify", "thrown"} :
        /\ WorkerAt(w, from, IF from = "thrown" THEN [worker[w] EXCEPT !.at = "drop"] ELSE Idle)
        /\ request' = [request EXCEPT ![worker[w].r].queued = FALSE]
        /\ UNCHANGED <<running, stack, managers, sets, queue, tm, listener, main, closed, failed>>

\* ~ModuleTask of a task that threw: releases its buffer, if it has one, through
\* the request.
Drop(w) ==
    /\ WorkerAt(w, "drop", Idle)
    /\ failed' \in {failed} \cup (IF Alive(worker[w].r) THEN {} ELSE {"used after deletion"})
    /\ UNCHANGED <<running, request, stack, managers, sets, queue, tm, listener, main, closed>>

WorkerStep(w) == Take(w) \/ Run(w) \/ Notify(w) \/ Drop(w)

-----------------------------------------------------------------------------
(* Server::run, from the end of the rcon's thread to the end of the program. *)

Main(from, m) == main.at = from /\ failed = "no" /\ main' = m
KeepsMain == UNCHANGED <<request, managers, sets, worker, tm, listener, queue>>

Stop ==
    /\ Main("serving", [main EXCEPT !.at = "listeners"]) /\ running' = FALSE
    /\ UNCHANGED <<stack, closed, failed>> /\ KeepsMain

Joined ==
    /\ listener.at = "stopped" /\ tm.at = "down"
    /\ Main("listeners", [main EXCEPT !.at = "waiting"])
    /\ UNCHANGED <<running, stack, closed, failed>> /\ KeepsMain

\* Mutant: ~TaskManager never gives up.
WaitForEver ==
    /\ Main("waiting", IF \A r \in requests : ~request[r].queued
                        THEN [main EXCEPT !.at = "ending", !.todo = requests]
                        ELSE [main EXCEPT !.attempts = @ + 1])
    /\ UNCHANGED <<running, stack, closed, failed>> /\ KeepsMain

\* ~TaskManager waits for the tasks left, up to Attempts + 1 times 500 ms.
WaitTasks ==
    /\ Main("waiting", IF (\A r \in requests : ~request[r].queued) \/ main.attempts > Attempts
                        THEN [main EXCEPT !.at = "ending", !.todo = requests]
                        ELSE [main EXCEPT !.attempts = @ + 1])
    /\ UNCHANGED <<running, stack, closed, failed>> /\ KeepsMain

EndRequest ==
    \E r \in main.todo :
        /\ Main("ending", [main EXCEPT !.at = "release", !.r = r, !.todo = @ \ {r}])
        /\ PushManager(r)
        /\ UNCHANGED <<running, closed>> /\ KeepsMain

EndRelease ==
    /\ Main("release", [main EXCEPT !.at = "ending", !.r = NoOne])
    /\ DeleteRequest(main.r)
    /\ UNCHANGED <<running, stack, managers, sets, worker, tm, listener, queue>>

Ended ==
    /\ main.todo = {} /\ Main("ending", [main EXCEPT !.at = "pool"])
    /\ UNCHANGED <<running, stack, closed, failed>> /\ KeepsMain

\* ~ThreadPool joins the workers and drops the tasks that are left.
PoolJoined ==
    /\ \A w \in Workers : worker[w].at = "idle"
    /\ Main("pool", [main EXCEPT !.at = "finished"]) /\ queue' = <<>>
    /\ UNCHANGED <<running, request, stack, managers, sets, worker, tm, listener, closed, failed>>

MainStep == Joined \/ WaitTasks \/ EndRequest \/ EndRelease \/ Ended \/ PoolJoined

Over == (main.at = "finished" \/ failed # "no") /\ UNCHANGED vars

ListenerStep == failed = "no" /\ (ListenLoop \/ Accept \/ AcceptThrows \/ ListenCheck \/ HandleNewSession)

Next ==
    \/ ListenerStep \/ TaskManagerStep \/ MainStep \/ Stop \/ Over
    \/ \E w \in Workers : WorkerStep(w)
    \/ failed = "no" /\ \E r \in Requests : SocketEvent(r)

Spec == Init /\ [][Next]_vars

\* Every thread runs, every module returns, and stop() connects to the listener.
\* Clients need not connect, sockets need not become ready, nobody need stop.
Fairness ==
    /\ WF_vars(TaskManagerStep) /\ WF_vars(MainStep)
    /\ WF_vars(failed = "no" /\ (ListenLoop \/ ListenCheck \/ HandleNewSession))
    /\ WF_vars(failed = "no" /\ Accept /\ listener'.last = NoOne)
    /\ \A w \in Workers : WF_vars(WorkerStep(w))

FairSpec == Spec /\ Fairness

-----------------------------------------------------------------------------
(* Properties.                                                              *)

WorkersOf(r) == {w \in Workers : worker[w].r = r /\ worker[w].at \in {"run", "notify", "thrown"}}
TasksOf(r) == {i \in 1..Len(queue) : queue[i] = r}

TypeOK ==
    /\ running \in BOOLEAN
    /\ request \in [Requests -> Request]
    /\ stack \in Seq(1..managers) /\ managers \in 0..Cardinality(Requests)
    /\ requests \subseteq Requests /\ pending_add \subseteq Requests /\ pending_del \subseteq Requests
    /\ queue \in Seq(Requests)
    /\ worker \in [Workers -> [at : {"idle", "run", "notify", "thrown", "drop"}, r : Requests \cup {NoOne}]]
    /\ tm \in [at : {"loop", "give", "mark", "queue", "pending", "keep", "delete", "release", "add", "down"},
               r : Requests \cup {NoOne}, todo : SUBSET Requests]
    /\ listener \in [at : {"loop", "accept", "check", "handle", "stopped"},
                     last : Connections \cup {NoOne}, handed : BOOLEAN]
    /\ main \in [at : {"serving", "listeners", "waiting", "ending", "release", "pool", "finished"},
                 r : Requests \cup {NoOne}, todo : SUBSET Requests, attempts : 0..(Attempts + 1)]
    /\ closed \subseteq Connections
    /\ failed \in {"no", "assertion", "deleted twice", "used after deletion"}

\* The modules of a request have no lock: _queued, a plain flag the task manager
\* raises and a worker lowers, keeps two workers from running one request, and
\* the request from being deleted under a worker.
OneTaskAtATime ==
    failed = "no" => \A r \in Requests :
        /\ Cardinality(WorkersOf(r)) + Cardinality(TasksOf(r)) <= 1
        /\ WorkersOf(r) # {} \/ TasksOf(r) # {} => request[r].queued /\ Alive(r)

\* ZHTTPD_ASSERT_LOCK of BufferManager: endRequest offers the manager of a
\* request to others before the request releases its buffers into it, yet no
\* worker uses it meanwhile, because the thread that deletes is the one that
\* gives work.
Releasing == (IF tm.at = "release" THEN {tm.r} ELSE {}) \cup (IF main.at = "release" THEN {main.r} ELSE {})
ManagerAlone ==
    failed = "no" =>
        /\ \A v, w \in Workers : v # w /\ worker[v].at = "run" /\ worker[w].at = "run" =>
               request[worker[v].r].manager # request[worker[w].r].manager
        /\ \A w \in Workers, r \in Releasing :
               worker[w].at = "run" => request[worker[w].r].manager # request[r].manager

\* A connection handed from request to request belongs to one of them, and its
\* Socket is not deleted while one has it.
SocketsOwnedOnce ==
    failed = "no" => \A q, r \in Requests :
        request[r].socket # NoOne =>
            request[r].socket \notin closed /\ (request[q].socket = request[r].socket => q = r)

\* Both: a request shares neither its buffer manager nor its connection with
\* another one.
OwnedOnce == ManagerAlone /\ SocketsOwnedOnce

\* The task manager knows every request, except one that is being deleted, and
\* while it runs none that is gone.
SetsHoldTheLiving ==
    (failed = "no" /\ main.at \in {"serving", "listeners", "waiting"}) =>
        {r \in Requests : Alive(r)} = requests \cup pending_add \cup (IF tm.at = "release" THEN {tm.r} ELSE {})

\* A request in error, and one with nothing to do, is deleted, until the server
\* stops.
RequestsEnd ==
    \A r \in Requests :
        (Alive(r) /\ (request[r].status = "error" \/ (request[r].status = "done" /\ ~request[r].queued)))
            ~> (~Alive(r) \/ ~running \/ failed # "no")

\* stop() ends the program: no thread of the shutdown waits for ever.
StopEnds == ~running ~> (main.at = "finished" \/ failed # "no")

\* Both: what is over is deleted, and stop() ends the program.
TasksEnd == RequestsEnd /\ StopEnds

\* The task manager's thread never ends a request that has a task: only
\* ~TaskManager does, when it has given up waiting (RequestManager::endRequest's
\* assertion).
AssertionOnlyAfterGivingUp == failed = "assertion" => main.at = "release" /\ main.attempts > Attempts

\* Both: a request has one task at a time, and none when the task manager ends it.
TasksAreAlone == OneTaskAtATime /\ AssertionOnlyAfterGivingUp

\* RequestManager.hpp:105, the assertion of endRequest.
NotQueuedWhenEnded == failed # "assertion"

\* A worker has let go of a request that is deleted, as the same assertion is
\* to make sure.
TaskUsesLiveRequest == failed # "used after deletion"

\* Listener.hpp:13-14: the listener gives the new socket away.
GivesSocketAway == failed # "deleted twice"

\* SafeAllocator.hpp: at the end all requests have been released.
AllReleased == main.at = "finished" => \A r \in Requests : ~Alive(r)
=============================================================================
