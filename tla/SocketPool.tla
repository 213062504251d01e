------------------------------ MODULE SocketPool ------------------------------
(***************************************************************************)
(* server/socket: SocketPool, SocketEvent and EpollSelector, and the       *)
(* requests that use them.                                                 *)
(*                                                                         *)
(* One thread, the pool, sits in epoll_wait and calls handleSocketEvent of *)
(* the handler registered for a descriptor.  The thread that works for the *)
(* current request of a descriptor (listener, task manager or worker, one  *)
(* at a time) registers and unregisters it, hands the connection over to   *)
(* the next request, or destroys the request and closes the descriptor,    *)
(* which the kernel then gives to a new connection.                        *)
(*                                                                         *)
(* _events_mutex, the _process_mutex of each SocketEvent and the _mutex of *)
(* each RequestTasks are modelled as locks, because the pool and the users *)
(* nest them differently.  _mutex of SocketEvent guards single statements  *)
(* and is left out: trigger reads _enabled and _object without it.         *)
(*                                                                         *)
(* A request waits for one event at a time, as the modules of the          *)
(* repository do.                                                          *)
(*                                                                         *)
(* When the server stops, the pool ends after its batch, the listeners and *)
(* the task manager's loop end, and ~TaskManager destroys the requests     *)
(* that are left, also those that wait and are registered, while the pool  *)
(* may be in the middle of its last batch.                                 *)
(***************************************************************************)
EXTENDS Integers, FiniteSets

CONSTANTS
    Fds,          \* descriptors
    NoFd,
    Generations,  \* bound of this model: requests served on one descriptor
    Awaited       \* bound of this model: the events a request of each descriptor waits for after its header

ASSUME SocketPoolAssumption ==
    /\ IsFiniteSet(Fds) /\ NoFd \notin Fds
    /\ Generations \in Nat \ {0}
    /\ Awaited \in [Fds -> SUBSET {"CAN_READ", "CAN_WRITE"}]

VARIABLES
    event,          \* _events: handler (0 is null), _enabled, pending flags
    watched,        \* the descriptors in the epoll set
    nfds,           \* EpollSelector::_nfds, the interruptor not counted
    events_mutex,   \* the descriptor whose user holds it, or NoFd
    process_mutex,  \* the pool holds the _process_mutex of a SocketEvent
    mutex,          \* the RequestTasks::_mutex of the current request is held
    request,        \* the requests of each descriptor, numbered
    current,        \* the number of the last one
    alive,          \* those not destroyed
    user,           \* where the user of each descriptor is (UserPlaces)
    pool,           \* where the pool is
    unread,         \* the connection holds bytes nobody has read
    server          \* ServerState, and whether ~TaskManager has begun
locks == <<events_mutex, process_mutex, mutex>>
vars == <<event, watched, nfds, events_mutex, process_mutex, mutex, request,
          current, alive, user, pool, unread, server>>

SocketEvents == {"CAN_READ", "CAN_WRITE", "HAS_ERROR"}
Numbers == 1..Generations

\* What counts of RequestTasks: the event it waits for, the events it was told
\* of, _has_error, _registered, and whether its connection will be closed.
Request == [wait : {"NONE", "CAN_READ", "CAN_WRITE"}, can : SUBSET {"CAN_READ", "CAN_WRITE"},
            has_error : BOOLEAN, registered : BOOLEAN, closing : BOOLEAN]
NewRequest == [wait |-> "CAN_READ", can |-> {}, has_error |-> FALSE,
               registered |-> TRUE, closing |-> FALSE]
Event == [handler : 0..Generations, enabled : BOOLEAN, flags : SUBSET SocketEvents, made : BOOLEAN]

UserPlaces == {"closed", "idle", "reading", "register", "enable", "watch",
               "unwatch", "disable", "forget", "destroy", "delete"}
PoolPlaces == {"wait", "batch", "trigger", "deliver", "load", "call", "unregister", "disable",
               "crashed", "gone"}
ServerPhases == {"RUNNING", "STOPPED", "ending"}

Wanted(r) == ~r.has_error /\ r.wait # "NONE" /\ r.wait \notin r.can

Init ==
    /\ event = [f \in Fds |-> [handler |-> 0, enabled |-> FALSE, flags |-> {}, made |-> FALSE]]
    /\ watched = {} /\ nfds = 0
    /\ events_mutex = NoFd
    /\ process_mutex = [f \in Fds |-> FALSE]
    /\ mutex = [f \in Fds |-> FALSE]
    /\ request = [f \in Fds |-> [n \in Numbers |-> NewRequest]]
    /\ current = [f \in Fds |-> 0]
    /\ alive = [f \in Fds |-> {}]
    /\ user = [f \in Fds |-> "closed"]
    /\ pool = [at |-> "wait", fd |-> NoFd, evt |-> "NONE", handler |-> 0, ready |-> [f \in Fds |-> {}]]
    /\ unread = [f \in Fds |-> FALSE]
    /\ server = "RUNNING"

-----------------------------------------------------------------------------
(* The users of the pool.                                                   *)

Mine(f) == request[f][current[f]]
SetMine(f, r) == request' = [request EXCEPT ![f][current[f]] = r]
Goto(f, from, to) == pool.at # "crashed" /\ user[f] = from /\ user' = [user EXCEPT ![f] = to]
SetEvent(f, e) == event' = [event EXCEPT ![f] = e]

\* A new connection, or a kept one whose request has ended: a request is made
\* for it and waits to read.  needRead takes its mutex and registers it.
NewRequestOn(f) ==
    /\ current[f] < Generations /\ server # "ending"
    /\ current' = [current EXCEPT ![f] = @ + 1]
    /\ alive' = [alive EXCEPT ![f] = @ \cup {current'[f]}]
    /\ mutex' = [mutex EXCEPT ![f] = TRUE]
    /\ UNCHANGED <<event, watched, nfds, events_mutex, process_mutex, request, pool, unread, server>>

Accept(f) == Goto(f, "closed", "register") /\ NewRequestOn(f)

\* TaskManager.cpp:88-94: no error, no "Connection: close", nothing awaited.
HandOver(f) ==
    /\ Goto(f, "idle", "register") /\ ~mutex[f]
    /\ alive[f] = {current[f]}
    /\ Mine(f).wait = "NONE" /\ ~Mine(f).has_error /\ ~Mine(f).closing
    /\ NewRequestOn(f)

\* The old request has no socket any more: destroyHandler is not called for it.
DropOld(f) ==
    /\ Goto(f, "idle", "idle")
    /\ alive[f] # {current[f]}
    /\ alive' = [alive EXCEPT ![f] = {current[f]}]
    /\ request' = [request EXCEPT ![f] = [n \in Numbers |-> IF n = current[f] THEN @[n] ELSE NewRequest]]
    /\ UNCHANGED <<event, watched, nfds, locks, current, pool, unread, server>>

\* The old request is gone before a worker gets a task of the new one.
Busy(f) == alive[f] = {current[f]}

\* needRead, needWrite: the request waits; it registers if it was not told yet.
\* An error page is only written.
Need(f) ==
    \E e \in Awaited[f] :
        LET r == [Mine(f) EXCEPT !.wait = e]
        IN  /\ Busy(f) /\ Mine(f).wait = "NONE" /\ ~Mine(f).registered
            /\ Mine(f).closing => e = "CAN_WRITE"
            /\ SetMine(f, [r EXCEPT !.registered = Wanted(r)])
            /\ Goto(f, "idle", IF Wanted(r) THEN "register" ELSE "idle") /\ ~mutex[f]
            /\ mutex' = [mutex EXCEPT ![f] = Wanted(r)]
            /\ UNCHANGED <<event, watched, nfds, events_mutex, process_mutex, current,
                           alive, pool, unread, server>>

\* hasWork: the awaited event came.  A worker is sent to read, or to write.
Dispatch(f) ==
    /\ Busy(f) /\ ~mutex[f] /\ server # "ending"
    /\ ~Mine(f).has_error /\ Mine(f).wait \in Mine(f).can
    /\ SetMine(f, [Mine(f) EXCEPT !.wait = "NONE", !.can = @ \ {Mine(f).wait}])
    /\ Goto(f, "idle", IF Mine(f).wait = "CAN_READ" THEN "reading" ELSE "idle")
    /\ UNCHANGED <<event, watched, nfds, locks, current, alive, pool, unread, server>>

\* read() of a blocking socket.
Read(f) ==
    /\ Goto(f, "reading", "idle") /\ unread[f]
    /\ unread' = [unread EXCEPT ![f] = FALSE]
    /\ UNCHANGED <<event, watched, nfds, locks, request, current, alive, pool, server>>

\* The request stops waiting: 5000 ms of silence or an exception of a module,
\* which end it (notifyHasError), or once raiseError, which resets its tasks and
\* closes the connection after the error page.
GiveUp(f) ==
    /\ Busy(f) /\ ~mutex[f] /\ ~Mine(f).has_error
    /\ \E failed \in BOOLEAN :
          /\ failed \/ ~Mine(f).closing
          /\ SetMine(f, [Mine(f) EXCEPT !.wait = "NONE", !.has_error = failed,
                                        !.closing = TRUE, !.registered = FALSE])
    /\ Goto(f, "idle", IF Mine(f).registered THEN "unwatch" ELSE "idle")
    /\ mutex' = [mutex EXCEPT ![f] = Mine(f).registered]
    /\ UNCHANGED <<event, watched, nfds, events_mutex, process_mutex, current, alive, pool, unread, server>>

\* registerHandler: under _events_mutex, a new SocketEvent is published at once;
\* in an old one the handler is set before it is enabled.  Flags stay.
RegisterObject(f) ==
    /\ Goto(f, "register", IF event[f].made THEN "enable" ELSE "watch")
    /\ events_mutex = NoFd /\ events_mutex' = f
    /\ SetEvent(f, IF event[f].made THEN [event[f] EXCEPT !.handler = current[f]]
                   ELSE [handler |-> current[f], enabled |-> TRUE, flags |-> {}, made |-> TRUE])
    /\ UNCHANGED <<watched, nfds, process_mutex, mutex, request, current, alive, pool, unread, server>>

\* Mutant: setHandler does not set _enabled.
RegisterEnableNot(f) ==
    /\ Goto(f, "enable", "watch")
    /\ UNCHANGED <<event, watched, nfds, locks, request, current, alive, pool, unread, server>>

RegisterEnable(f) ==
    /\ Goto(f, "enable", "watch")
    /\ SetEvent(f, [event[f] EXCEPT !.enabled = TRUE])
    /\ UNCHANGED <<watched, nfds, locks, request, current, alive, pool, unread, server>>

RegisterWatch(f) ==
    /\ Goto(f, "watch", "idle")
    /\ watched' = watched \cup {f}
    /\ nfds' = IF f \in watched THEN nfds ELSE nfds + 1
    /\ events_mutex' = NoFd
    /\ mutex' = [mutex EXCEPT ![f] = FALSE]
    /\ UNCHANGED <<event, process_mutex, request, current, alive, pool, unread, server>>

\* Mutant: _nfds is not decremented.
UnregisterWatchMiscounts(f) ==
    /\ Goto(f, "unwatch", "disable")
    /\ watched' = IF event[f].enabled THEN watched \ {f} ELSE watched
    /\ UNCHANGED <<event, nfds, locks, request, current, alive, pool, unread, server>>

\* unregisterHandler takes no mutex of the pool.
UnregisterWatch(f) ==
    /\ Goto(f, "unwatch", "disable")
    /\ watched' = IF event[f].enabled THEN watched \ {f} ELSE watched
    /\ nfds' = IF event[f].enabled THEN nfds - 1 ELSE nfds
    /\ UNCHANGED <<event, locks, request, current, alive, pool, unread, server>>

UnregisterDisable(f) ==
    /\ Goto(f, "disable", "forget")
    /\ SetEvent(f, [event[f] EXCEPT !.enabled = FALSE])
    /\ UNCHANGED <<watched, nfds, locks, request, current, alive, pool, unread, server>>

UnregisterForget(f) ==
    /\ Goto(f, "forget", "idle")
    /\ SetEvent(f, [event[f] EXCEPT !.handler = 0])
    /\ mutex' = [mutex EXCEPT ![f] = FALSE]
    /\ UNCHANGED <<watched, nfds, events_mutex, process_mutex, request, current, alive, pool, unread, server>>

\* endRequest: by the task manager's loop for a request that waits for nothing or
\* has an error, and still owns its socket; by ~TaskManager for every request.
EndsRequest(f) ==
    /\ Busy(f)
    /\ \/ server = "ending"
       \/ ~mutex[f] /\ (Mine(f).has_error \/ (Mine(f).wait = "NONE" /\ ~Mine(f).registered))

\* Mutant: isEnabled is not asked.
DestroyHandlerBlindly(f) ==
    /\ Goto(f, "idle", "destroy") /\ EndsRequest(f)
    /\ events_mutex = NoFd /\ events_mutex' = f
    /\ watched' = watched \ {f}
    /\ nfds' = nfds - 1
    /\ UNCHANGED <<event, process_mutex, mutex, request, current, alive, pool, unread, server>>

\* destroyHandler waits for the pool inside _events_mutex, but only after it has
\* taken the descriptor out of the epoll set.
DestroyHandler(f) ==
    /\ Goto(f, "idle", "destroy") /\ EndsRequest(f)
    /\ events_mutex = NoFd /\ events_mutex' = f
    /\ watched' = IF event[f].enabled THEN watched \ {f} ELSE watched
    /\ nfds' = IF event[f].enabled THEN nfds - 1 ELSE nfds
    /\ UNCHANGED <<event, process_mutex, mutex, request, current, alive, pool, unread, server>>

\* Mutant: destroy() does not take _process_mutex.
DestroyEventUnlocked(f) ==
    /\ Goto(f, "destroy", "delete")
    /\ SetEvent(f, [event[f] EXCEPT !.handler = 0, !.enabled = FALSE])
    /\ events_mutex' = NoFd
    /\ UNCHANGED <<watched, nfds, process_mutex, mutex, request, current, alive, pool, unread, server>>

DestroyEvent(f) ==
    /\ Goto(f, "destroy", "delete")
    /\ ~process_mutex[f]
    /\ SetEvent(f, [event[f] EXCEPT !.handler = 0, !.enabled = FALSE])
    /\ events_mutex' = NoFd
    /\ UNCHANGED <<watched, nfds, process_mutex, mutex, request, current, alive, pool, unread, server>>

\* ~Request and ~Session: the descriptor is closed, and free for a new
\* connection.  (~RequestTasks unregisters a request that is still registered:
\* its SocketEvent is disabled already.)
Delete(f) ==
    /\ Goto(f, "delete", "closed")
    /\ alive' = [alive EXCEPT ![f] = {}]
    /\ SetMine(f, NewRequest)
    /\ watched' = watched \ {f}
    /\ unread' = [unread EXCEPT ![f] = FALSE]
    /\ UNCHANGED <<event, nfds, locks, current, pool, server>>

\* Server::stop; then ~TaskManager, when the listeners and the task manager have
\* been joined, with the last turn of its loop complete.
Stop ==
    /\ server = "RUNNING" /\ pool.at # "crashed" /\ server' = "STOPPED"
    /\ UNCHANGED <<event, watched, nfds, locks, request, current, alive, user, pool, unread>>

LastTurnDone ==
    /\ server = "STOPPED" /\ pool.at # "crashed" /\ server' = "ending"
    /\ \A f \in Fds : user[f] = "closed" \/ (Busy(f) /\ user[f] \notin {"destroy", "delete"})
    /\ UNCHANGED <<event, watched, nfds, locks, request, current, alive, user, pool, unread>>

UserStep(f) ==
    \/ Need(f) \/ Dispatch(f) \/ Read(f) \/ GiveUp(f) \/ HandOver(f) \/ DropOld(f)
    \/ RegisterObject(f) \/ RegisterEnable(f) \/ RegisterWatch(f)
    \/ UnregisterWatch(f) \/ UnregisterDisable(f) \/ UnregisterForget(f)
    \/ DestroyHandler(f) \/ DestroyEvent(f) \/ Delete(f)

ClientSends(f) ==
    /\ user[f] # "closed" /\ ~unread[f] /\ pool.at # "crashed"
    /\ unread' = [unread EXCEPT ![f] = TRUE]
    /\ UNCHANGED <<event, watched, nfds, locks, request, current, alive, user, pool, server>>

-----------------------------------------------------------------------------
(* The pool's thread.                                                       *)

Move(from, p) == pool.at = from /\ pool' = p
Ready == {f \in Fds : pool.ready[f] # {}}

\* epoll_wait: for each watched descriptor an error, or what it is ready for.
Reports(f) ==
    IF f \notin watched THEN {{}}
    ELSE LET in == IF unread[f] THEN {"CAN_READ"} ELSE {}
         IN  {{"HAS_ERROR"}, in, in \cup {"CAN_WRITE"}}

EpollWait ==
    \E ready \in [Fds -> SUBSET SocketEvents] :
        /\ \A f \in Fds : ready[f] \in Reports(f)
        /\ \E f \in Fds : ready[f] # {}
        /\ Move("wait", [pool EXCEPT !.at = "batch", !.ready = ready])
        /\ UNCHANGED <<event, watched, nfds, locks, request, current, alive, user, unread, server>>

\* run: at its loop's test, or interrupted by stop().
PoolLeaves ==
    /\ server # "RUNNING" /\ Move("wait", [pool EXCEPT !.at = "gone"])
    /\ UNCHANGED <<event, watched, nfds, locks, request, current, alive, user, unread, server>>

\* watchSockets tells the pool of the next event of the batch; notify raises its
\* flag.
First(evts) == IF "CAN_READ" \in evts THEN "CAN_READ" ELSE CHOOSE e \in evts : TRUE
Notify ==
    \E f \in Ready :
        /\ Move("batch", [pool EXCEPT !.at = "trigger", !.fd = f, !.ready[f] = @ \ {First(@)}])
        /\ SetEvent(f, [event[f] EXCEPT !.flags = @ \cup {First(pool.ready[f])}])
        /\ UNCHANGED <<watched, nfds, locks, request, current, alive, user, unread, server>>

BatchDone ==
    /\ Ready = {}
    /\ Move("batch", [pool EXCEPT !.at = IF server = "RUNNING" THEN "wait" ELSE "gone", !.fd = NoFd])
    /\ UNCHANGED <<event, watched, nfds, locks, request, current, alive, user, unread, server>>

\* trigger: a disabled event keeps its flags.
Trigger ==
    LET f == pool.fd
    IN  /\ pool.at = "trigger" /\ ~process_mutex[f]
        /\ \/ event[f].enabled /\ Move("trigger", [pool EXCEPT !.at = "deliver"])
              /\ process_mutex' = [process_mutex EXCEPT ![f] = TRUE]
           \/ ~event[f].enabled /\ Move("trigger", [pool EXCEPT !.at = "batch"])
              /\ UNCHANGED process_mutex
        /\ UNCHANGED <<event, watched, nfds, events_mutex, mutex, request, current, alive, user, unread, server>>

\* The next flag is lowered, and its event delivered if there is a handler.  An
\* error lowers every flag, and its handler is not tested for null.
Deliver ==
    LET f == pool.fd
        e == event[f]
        evt == IF "HAS_ERROR" \in e.flags THEN "HAS_ERROR" ELSE First(e.flags)
    IN  /\ pool.at = "deliver" /\ e.flags # {}
        /\ SetEvent(f, [e EXCEPT !.flags = IF evt = "HAS_ERROR" THEN {} ELSE @ \ {evt}])
        /\ Move("deliver",
                IF e.enabled /\ (evt = "HAS_ERROR" \/ e.handler # 0)
                THEN [pool EXCEPT !.at = "load", !.evt = evt, !.handler = e.handler]
                ELSE pool)
        /\ UNCHANGED <<watched, nfds, locks, request, current, alive, user, unread, server>>

TriggerDone ==
    /\ pool.at = "deliver" /\ event[pool.fd].flags = {}
    /\ Move("deliver", [pool EXCEPT !.at = "batch"])
    /\ process_mutex' = [process_mutex EXCEPT ![pool.fd] = FALSE]
    /\ UNCHANGED <<event, watched, nfds, events_mutex, mutex, request, current, alive, user, unread, server>>

\* _object is read for the call: again, or once for the test and the call, as
\* the compiler likes.  A null handler ends the program.
Load ==
    /\ pool.at = "load"
    /\ \E h \in {event[pool.fd].handler} \cup (IF pool.evt = "HAS_ERROR" THEN {} ELSE {pool.handler}) :
          Move("load", [pool EXCEPT !.at = IF h = 0 THEN "crashed" ELSE "call", !.handler = h])
    /\ UNCHANGED <<event, watched, nfds, locks, request, current, alive, user, unread, server>>

\* Mutant: an error is one more thing the socket is ready for.
ToldReady(r, evt) == IF r.has_error THEN r ELSE [r EXCEPT !.can = @ \cup {evt}]

\* handleSocketEvent, in the mutex of the request, which it keeps while _unregister
\* calls unregisterHandler.
Told(r, evt) ==
    CASE r.has_error -> r
      [] ~r.has_error /\ evt = "HAS_ERROR" -> [r EXCEPT !.can = {}, !.has_error = TRUE]
      [] ~r.has_error /\ evt # "HAS_ERROR" -> [r EXCEPT !.can = @ \cup {evt}]

\* Mutant: any event ends the wait of the request for its socket.
CallLeavesAlways ==
    LET f == pool.fd
        n == pool.handler
        r == Told(request[f][n], pool.evt)
        leaves == r.registered
    IN  /\ pool.at = "call" /\ ~(n = current[f] /\ mutex[f])
        /\ Move("call", IF leaves THEN [pool EXCEPT !.at = "unregister"]
                        ELSE [pool EXCEPT !.at = "deliver", !.evt = "NONE", !.handler = 0])
        /\ request' = [request EXCEPT ![f][n] = [r EXCEPT !.registered = @ /\ ~leaves]]
        /\ mutex' = [mutex EXCEPT ![f] = @ \/ leaves]
        /\ UNCHANGED <<event, watched, nfds, events_mutex, process_mutex, current, alive, user, unread, server>>

Call ==
    LET f == pool.fd
        n == pool.handler
        r == Told(request[f][n], pool.evt)
        leaves == r.registered /\ ~Wanted(r)
    IN  /\ pool.at = "call" /\ ~(n = current[f] /\ mutex[f])
        /\ Move("call", IF leaves THEN [pool EXCEPT !.at = "unregister"]
                        ELSE [pool EXCEPT !.at = "deliver", !.evt = "NONE", !.handler = 0])
        /\ request' = [request EXCEPT ![f][n] = [r EXCEPT !.registered = @ /\ ~leaves]]
        /\ mutex' = [mutex EXCEPT ![f] = @ \/ leaves]
        /\ UNCHANGED <<event, watched, nfds, events_mutex, process_mutex, current, alive, user, unread, server>>

\* unregisterHandler by the pool: _events_mutex does not keep a destroyHandler out
\* between isEnabled and disable, nor before isEnabled.
PoolUnregister ==
    LET f == pool.fd
    IN  /\ Move("unregister", [pool EXCEPT !.at = "disable"])
        /\ watched' = IF event[f].enabled THEN watched \ {f} ELSE watched
        /\ nfds' = IF event[f].enabled THEN nfds - 1 ELSE nfds
        /\ UNCHANGED <<event, locks, request, current, alive, user, unread, server>>

PoolDisable ==
    LET f == pool.fd
    IN  /\ Move("disable", [pool EXCEPT !.at = "deliver", !.evt = "NONE", !.handler = 0])
        /\ SetEvent(f, [event[f] EXCEPT !.enabled = FALSE, !.handler = 0])
        /\ mutex' = [mutex EXCEPT ![f] = FALSE]
        /\ UNCHANGED <<watched, nfds, events_mutex, process_mutex, request, current, alive, user, unread, server>>

PoolStep ==
    \/ EpollWait \/ Notify \/ BatchDone \/ Trigger \/ Deliver \/ TriggerDone \/ Load
    \/ Call \/ PoolUnregister \/ PoolDisable \/ PoolLeaves

\* The program is gone, or every request is destroyed and the pool has ended.
Quiet ==
    /\ pool.at = "crashed" \/ (server = "ending" /\ pool.at = "gone" /\ \A f \in Fds : user[f] = "closed")
    /\ UNCHANGED vars

Next ==
    \/ PoolStep \/ Quiet \/ Stop \/ LastTurnDone
    \/ \E f \in Fds : Accept(f) \/ UserStep(f) \/ ClientSends(f)

Spec == Init /\ [][Next]_vars

\* The threads run.  A user need not give up a request, nor send one, nor stop
\* the server.
Fairness ==
    /\ WF_vars(PoolStep)
    /\ \A f \in Fds :
          /\ SF_vars(RegisterObject(f)) /\ WF_vars(RegisterEnable(f)) /\ WF_vars(RegisterWatch(f))
          /\ WF_vars(UnregisterWatch(f)) /\ WF_vars(UnregisterDisable(f)) /\ WF_vars(UnregisterForget(f))
          /\ SF_vars(DestroyEvent(f))

FairSpec == Spec /\ Fairness

-----------------------------------------------------------------------------
(* Properties.                                                              *)

TypeOK ==
    /\ event \in [Fds -> Event]
    /\ watched \subseteq Fds /\ nfds \in Int
    /\ events_mutex \in Fds \cup {NoFd}
    /\ process_mutex \in [Fds -> BOOLEAN]
    /\ mutex \in [Fds -> BOOLEAN]
    /\ request \in [Fds -> [Numbers -> Request]]
    /\ current \in [Fds -> 0..Generations]
    /\ alive \in [Fds -> SUBSET Numbers]
    /\ user \in [Fds -> UserPlaces]
    /\ pool \in [at : PoolPlaces, fd : Fds \cup {NoFd}, evt : SocketEvents \cup {"NONE"},
                 handler : 0..Generations, ready : [Fds -> SUBSET SocketEvents]]
    /\ unread \in [Fds -> BOOLEAN] /\ server \in ServerPhases

\* _registered of a request, the handler and _enabled of the SocketEvent and the
\* epoll set are changed by different threads under different locks; whenever
\* no thread is between two of those changes they agree.  (A request that
\* ~TaskManager destroys may be registered still.)
RegisteredIsWatched ==
    \A f \in Fds : ~mutex[f] /\ user[f] \notin {"closed", "delete"} =>
        /\ event[f].enabled <=> Mine(f).registered
        /\ event[f].handler = IF Mine(f).registered THEN current[f] ELSE 0
        /\ f \in watched <=> Mine(f).registered /\ ~(server = "ending" /\ user[f] = "destroy")

\* A request the pool is about to call, or is calling, is not destroyed before it
\* returns, and its connection has not passed to the next request: destroyHandler
\* waits, and where the connection is kept and nobody waits the pool is not in a
\* call.
CalledIsAlive ==
    pool.at \in {"call", "unregister", "disable"} =>
        pool.handler \in alive[pool.fd] /\ pool.handler = current[pool.fd]

\* _nfds counts the epoll set: it sizes the buffer of epoll_wait, and watchSockets
\* does not watch at all when it is 0.  It is decremented wherever epoll_ctl(DEL)
\* is called, even when that fails.  Only when ~TaskManager destroys requests may
\* destroyHandler overtake the pool's unregisterHandler, so that one descriptor
\* is counted off twice; the pool that has met this never watches again.
CountIsExact ==
    (\A f \in Fds : ~mutex[f]) /\ (server # "ending" \/ pool.at = "wait") => nfds = Cardinality(watched)

\* Both: the pool's records, the count and the epoll set agree.
WatchedIsCounted == RegisteredIsWatched /\ CountIsExact

\* A request that waits to read is told once its client has sent something,
\* unless it stops waiting or the server is stopped first: whatever other events
\* come before.
ToldOfData ==
    \A f \in Fds, n \in Numbers :
        LET Waits == /\ current[f] = n /\ n \in alive[f]
                     /\ request[f][n].wait = "CAN_READ" /\ "CAN_READ" \notin request[f][n].can
                     /\ ~request[f][n].has_error
        IN  (Waits /\ unread[f]) ~> (~Waits \/ pool.at = "crashed" \/ server # "RUNNING")

\* constants.hpp:21-22: ON_CAN_READ tells the input module that it can read
\* without blocking.
ReadDoesNotBlock == \A f \in Fds : user[f] = "reading" => unread[f]
=============================================================================
