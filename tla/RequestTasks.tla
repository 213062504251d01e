---------------------------- MODULE RequestTasks ----------------------------
(***************************************************************************)
(* The event bookkeeping of one HTTP request: server/core/RequestTasks.    *)
(*                                                                         *)
(* Three kinds of threads share a RequestTasks object: the task manager    *)
(* polls it (hasWork, getNextTask, hasPendingEvent), the worker that runs  *)
(* a task of the request calls it back (addTask, addEndTask,               *)
(* addCallLaterTask, needRead, needWrite, reset, notifyHasError), and the  *)
(* socket pool reports socket events to it (handleSocketEvent).  Every     *)
(* method holds _mutex from its first to its last statement, so a method   *)
(* is one atomic step.                                                     *)
(*                                                                         *)
(* The object is a record, a method an operator from record to record, so  *)
(* that the modules that compose requests can use the same operators.  The *)
(* specification at the end drives one object through every order of       *)
(* calls its three callers can make.                                       *)
(***************************************************************************)
EXTENDS Naturals, Sequences

CONSTANTS
    Modules,      \* the module wrappers of the request's chain
    Input,        \* getInputModule(): the head of the chain
    Output,       \* getOutputModule(): the tail of the chain
    Buffers,      \* the buffers a module may hand to the request
    NoBuffer,     \* the null api::IBuffer*
    NoTask,       \* the null ModuleTask*
    WriteLimit,   \* the 10 of "_write_buffers.size() > 10"
    TaskBound     \* bound of this model: no call that would queue more tasks

ASSUME RequestTasksAssumption ==
    /\ Input \in Modules
    /\ Output \in Modules
    /\ NoBuffer \notin Buffers
    /\ WriteLimit \in Nat \ {0}
    /\ TaskBound \in Nat

DataEvents == {"ON_REQUEST_DATA", "ON_RESPONSE_DATA"}
Events == {"ON_CAN_READ", "ON_CAN_WRITE", "ON_IDLE", "ON_END"} \cup DataEvents

\* A ModuleTask: what to tell which module, and the buffer it is given.
Task == [event : Events, module : Modules, buffer : Buffers \cup {NoBuffer}]
ModuleTask(e, m, b) == [event |-> e, module |-> m, buffer |-> b]

ASSUME NoTaskAssumption == NoTask \notin Task

State == [can_read : BOOLEAN, can_write : BOOLEAN, has_error : BOOLEAN,
          wait_read : BOOLEAN, wait_write : BOOLEAN, registered : BOOLEAN,
          call_later_task : Task \cup {NoTask}, end_task : Task \cup {NoTask},
          write_buffers : Seq(Buffers), tasks : Seq(Task)]

\* The constructor's initialiser list.
NewTasks == [can_read |-> FALSE, can_write |-> FALSE, has_error |-> FALSE,
             wait_read |-> FALSE, wait_write |-> FALSE, registered |-> FALSE,
             call_later_task |-> NoTask, end_task |-> NoTask,
             write_buffers |-> <<>>, tasks |-> <<>>]

-----------------------------------------------------------------------------
(* The methods. *)

\* The request waits for a socket event it has not been told of yet.
Wanted(s) ==
    /\ ~s.has_error
    /\ \/ s.wait_read /\ ~s.can_read
       \/ s.wait_write /\ ~s.can_write

\* _register and _unregister hand the socket to the pool or take it back.
Register(s) == IF Wanted(s) THEN [s EXCEPT !.registered = TRUE] ELSE s
Unregister(s) == IF Wanted(s) THEN s ELSE [s EXCEPT !.registered = FALSE]

\* Data and writable notifications jump the queue, so that a buffer travels
\* down the chain before the module that produced it runs again.
addTask(s, t) ==
    IF t.event \in DataEvents \cup {"ON_CAN_WRITE"}
    THEN [s EXCEPT !.tasks = <<t>> \o @]
    ELSE [s EXCEPT !.tasks = Append(@, t)]

addEndTask(s, m) == [s EXCEPT !.end_task = ModuleTask("ON_END", m, NoBuffer)]

\* Without a delay the module is called on the next round; with one, a call
\* that was already planned is queued at once and its place taken.
addCallLaterTask(s, m, delayed) ==
    LET idle == ModuleTask("ON_IDLE", m, NoBuffer)
        flushed == IF s.call_later_task = NoTask THEN s.tasks
                   ELSE Append(s.tasks, s.call_later_task)
    IN  IF delayed
        THEN [s EXCEPT !.tasks = flushed, !.call_later_task = idle]
        ELSE [s EXCEPT !.tasks = Append(@, idle)]

needRead(s) ==
    IF s.wait_read THEN s ELSE Register([s EXCEPT !.wait_read = TRUE])

\* Mutant: the buffer is put in front of those that wait.
needWriteFirst(s, b) ==
    LET pushed == [s EXCEPT !.write_buffers = <<b>> \o @]
    IN  IF s.wait_write THEN pushed
        ELSE Register([pushed EXCEPT !.wait_write = TRUE])

needWrite(s, b) ==
    LET pushed == [s EXCEPT !.write_buffers = Append(@, b)]
    IN  IF s.wait_write THEN pushed
        ELSE Register([pushed EXCEPT !.wait_write = TRUE])

notifyHasError(s) == Unregister([s EXCEPT !.has_error = TRUE])

handleSocketEvent(s, e) ==
    CASE s.has_error -> s
      [] ~s.has_error /\ e = "CAN_READ" ->
            IF s.can_read THEN s ELSE Unregister([s EXCEPT !.can_read = TRUE])
      [] ~s.has_error /\ e = "CAN_WRITE" ->
            IF s.can_write THEN s ELSE Unregister([s EXCEPT !.can_write = TRUE])
      [] ~s.has_error /\ e = "HAS_ERROR" ->
            Unregister([s EXCEPT !.can_read = FALSE, !.can_write = FALSE,
                                 !.has_error = TRUE])

\* hasWork, part by part.  None of the awaited events came within 5000 ms:
Silent(s) ==
    /\ s.wait_read \/ s.wait_write
    /\ s.wait_read => ~s.can_read
    /\ s.wait_write => ~s.can_write

\* Mutant: the silence of the client is not taken for an error.
TimeOutQuietly(s) == Unregister([s EXCEPT !.wait_read = FALSE, !.wait_write = FALSE])

TimeOut(s) ==
    Unregister([s EXCEPT !.wait_read = FALSE, !.wait_write = FALSE,
                         !.has_error = TRUE])

DispatchRead(s) ==
    IF s.wait_read /\ s.can_read
    THEN addTask([s EXCEPT !.wait_read = FALSE, !.can_read = FALSE],
                 ModuleTask("ON_CAN_READ", Input, NoBuffer))
    ELSE s

\* Mutant: however many buffers pile up, the socket must be writable.
WriteReadyUnbounded(s) == s.wait_write /\ s.can_write

WriteReady(s) == s.wait_write /\ (s.can_write \/ Len(s.write_buffers) > WriteLimit)

\* Mutant: the socket is not handed back to the pool for the remaining buffers.
DispatchWriteUnregistered(s) ==
    IF WriteReady(s)
    THEN addTask([s EXCEPT !.can_write = FALSE,
                           !.write_buffers = Tail(@),
                           !.wait_write = Len(s.write_buffers) > 1],
                 ModuleTask("ON_CAN_WRITE", Output, Head(s.write_buffers)))
    ELSE s

\* Mutant: the request goes on waiting to write although nothing is left.
DispatchWriteStillWaits(s) ==
    IF WriteReady(s)
    THEN Register(addTask([s EXCEPT !.can_write = FALSE, !.write_buffers = Tail(@)],
                          ModuleTask("ON_CAN_WRITE", Output, Head(s.write_buffers))))
    ELSE s

\* Mutant: _wait_write is not set again for the remaining buffers.
DispatchWriteForgets(s) ==
    IF WriteReady(s)
    THEN Register(addTask([s EXCEPT !.can_write = FALSE, !.wait_write = FALSE,
                                    !.write_buffers = Tail(@)],
                          ModuleTask("ON_CAN_WRITE", Output, Head(s.write_buffers))))
    ELSE s

DispatchWrite(s) ==
    IF WriteReady(s)
    THEN Register(addTask([s EXCEPT !.can_write = FALSE,
                                    !.write_buffers = Tail(@),
                                    !.wait_write = Len(s.write_buffers) > 1],
                          ModuleTask("ON_CAN_WRITE", Output, Head(s.write_buffers))))
    ELSE s

\* Mutant: the planned call is queued without looking whether there is one.
DispatchCallLaterBlindly(s, due) ==
    IF due THEN [s EXCEPT !.tasks = Append(@, s.call_later_task), !.call_later_task = NoTask]
    ELSE s

\* Mutant: the planned call is never queued.
DispatchCallLaterNever(s, due) == s

DispatchCallLater(s, due) ==
    IF due /\ s.call_later_task # NoTask
    THEN [s EXCEPT !.tasks = Append(@, s.call_later_task), !.call_later_task = NoTask]
    ELSE s

\* Mutant: the end does not wait for the buffers still to be written.
DispatchEndEarly(s) ==
    IF s.end_task # NoTask /\ s.tasks = <<>>
    THEN [s EXCEPT !.tasks = <<s.end_task>>, !.end_task = NoTask]
    ELSE s

\* Mutant: _end_task is not cleared.
DispatchEndAgain(s) ==
    IF s.end_task # NoTask /\ s.tasks = <<>> /\ s.write_buffers = <<>>
    THEN [s EXCEPT !.tasks = <<s.end_task>>]
    ELSE s

DispatchEnd(s) ==
    IF s.end_task # NoTask /\ s.tasks = <<>> /\ s.write_buffers = <<>>
    THEN [s EXCEPT !.tasks = <<s.end_task>>, !.end_task = NoTask]
    ELSE s

\* expired: more than 5000 ms since the last socket event; due: the delay of
\* the planned call has elapsed.
hasWork(s, expired, due) ==
    CASE s.has_error -> s
      [] ~s.has_error /\ Silent(s) /\ expired -> TimeOut(s)
      [] ~s.has_error /\ ~(Silent(s) /\ expired) ->
            DispatchEnd(DispatchCallLater(DispatchWrite(DispatchRead(s)), due))

\* What hasWork returns, read off the state it leaves.
HasWorkResult(s) == ~s.has_error /\ s.tasks # <<>>

getNextTask(s) == [s EXCEPT !.tasks = Tail(@)]

\* Mutant: only the pool's registration is looked at.
hasPendingEventUnregistered(s) ==
    /\ ~s.has_error
    /\ s.call_later_task # NoTask \/ s.registered

hasPendingEvent(s) ==
    /\ ~s.has_error
    /\ s.call_later_task # NoTask \/ s.registered \/ s.wait_read \/ s.wait_write

\* reset deletes the tasks and releases the buffers of _write_buffers, but
\* leaves the released buffers in the list.
reset(s) ==
    Unregister([s EXCEPT !.wait_read = FALSE, !.wait_write = FALSE,
                         !.tasks = <<>>, !.call_later_task = NoTask,
                         !.end_task = NoTask])

-----------------------------------------------------------------------------
(* One object and its three callers. *)

VARIABLES
    rt,        \* the RequestTasks object
    caller,    \* where the one thread that may dispatch is (Callers)
    reported   \* the socket event the pool is about to deliver, or "NONE"
vars == <<rt, caller, reported>>

\* The task manager polls; hasWork returned false or true; the worker runs the
\* task; the request is destroyed.
Callers == {"polling", "noWork", "dispatching", "running", "ended"}
SocketEvents == {"CAN_READ", "CAN_WRITE", "HAS_ERROR"}

Init ==
    /\ rt = needRead(NewTasks)
    /\ caller = "polling"
    /\ reported = "NONE"

\* TaskManager::_giveWork on a request that is not queued.
Poll ==
    /\ caller = "polling"
    /\ \E expired, due \in BOOLEAN : rt' = hasWork(rt, expired, due)
    /\ caller' = IF HasWorkResult(rt') THEN "dispatching" ELSE "noWork"
    /\ UNCHANGED reported

\* hasWork returned false: the request ends unless an event is still to come.
\* It is not destroyed while the pool delivers an event to it.
CheckPending ==
    /\ caller = "noWork"
    /\ \/ hasPendingEvent(rt) /\ caller' = "polling"
       \/ ~hasPendingEvent(rt) /\ reported = "NONE" /\ caller' = "ended"
    /\ UNCHANGED <<rt, reported>>

Take ==
    /\ caller = "dispatching"
    /\ rt' = getNextTask(rt)
    /\ caller' = "running"
    /\ UNCHANGED reported

\* The calls a module makes while it runs a task.  Room bounds the model: a
\* module with TaskBound tasks still queued asks for no further one.
Running == caller = "running" /\ UNCHANGED <<caller, reported>>
Room == Len(rt.tasks) < TaskBound

\* The buffers that are not already handed over.
FreeBuffers ==
    Buffers \ ({rt.write_buffers[i] : i \in DOMAIN rt.write_buffers}
                 \cup {rt.tasks[i].buffer : i \in DOMAIN rt.tasks})

AddTask ==
    /\ Running /\ Room
    /\ \E e \in DataEvents, m \in Modules, b \in FreeBuffers :
          rt' = addTask(rt, ModuleTask(e, m, b))

AddEndTask == Running /\ \E m \in Modules : rt' = addEndTask(rt, m)

AddCallLaterTask ==
    /\ Running /\ Room
    /\ \E m \in Modules, delayed \in BOOLEAN : rt' = addCallLaterTask(rt, m, delayed)

NeedRead == Running /\ Room /\ rt' = needRead(rt)

NeedWrite == Running /\ \E b \in FreeBuffers : rt' = needWrite(rt, b)

Reset == Running /\ rt' = reset(rt)
NotifyHasError == Running /\ rt' = notifyHasError(rt)

\* The task is done: TaskManager::notifyEndTask lets the manager poll again.
Finish ==
    /\ caller = "running"
    /\ caller' = "polling"
    /\ UNCHANGED <<rt, reported>>

\* The pool looks whether the request is registered before it takes the
\* request's mutex, so the event may reach a request that no longer is.
Report ==
    /\ caller # "ended" /\ rt.registered /\ reported = "NONE"
    /\ reported' \in SocketEvents
    /\ UNCHANGED <<rt, caller>>

Deliver ==
    /\ reported # "NONE"
    /\ rt' = handleSocketEvent(rt, reported)
    /\ reported' = "NONE"
    /\ UNCHANGED caller

Ended == caller = "ended" /\ UNCHANGED vars

Next ==
    \/ Poll \/ CheckPending \/ Take \/ Finish \/ Report \/ Deliver \/ Ended
    \/ AddTask \/ AddEndTask \/ AddCallLaterTask
    \/ NeedRead \/ NeedWrite \/ Reset \/ NotifyHasError

Spec == Init /\ [][Next]_vars

-----------------------------------------------------------------------------
(* Properties. *)

TypeOK ==
    /\ rt \in State
    /\ caller \in Callers
    /\ reported \in SocketEvents \cup {"NONE"}

\* The socket is in the pool exactly while the request waits for an event it
\* has not been told of.  _register and _unregister test that condition only
\* where a method calls them; a flag changed without the call would leave the
\* request deaf (it waits, nothing will ever tell it) or make epoll, which is
\* level triggered, report the socket for ever.
RegisteredIffWanted == rt.registered <=> Wanted(rt)

\* The assertion of hasWork, RequestTasks.cpp:143: a buffer is there to be
\* written whenever the request waits for its socket to be writable.
AwaitedWriteHasBuffer == rt.wait_write => rt.write_buffers # <<>>

\* Both: what a request waits for and what the socket pool and the module can give
\* it always agree.
WaitsAreKept == RegisteredIffWanted /\ AwaitedWriteHasBuffer

\* ON_END is handed out alone: when the manager takes it no other task is
\* queued and no buffer waits for the socket, although addEndTask may have been
\* called long before and the socket pool works in between.
EndComesLast ==
    [][Take /\ Head(rt.tasks).event = "ON_END" => rt'.tasks = <<>> /\ rt'.write_buffers = <<>>]_vars

\* Nobody forgets a buffer that waits for the socket: the request stops waiting
\* to write only when the list is empty, or because of an error or of reset.
WriteWaitKept ==
    [][rt.wait_write /\ ~rt'.wait_write =>
          rt'.write_buffers = <<>> \/ rt'.has_error \/ Reset]_vars

\* Both: what waits to be written is neither forgotten nor overtaken by the end.
WritesComeFirst == EndComesLast /\ WriteWaitKept

\* constants.hpp:28-30 promises the output module that ON_CAN_WRITE means it
\* can write without blocking: the task is queued only after the socket was
\* reported writable.
CanWriteMeansWritable ==
    [][Poll /\ Len(rt'.write_buffers) < Len(rt.write_buffers) => rt.can_write]_vars
=============================================================================
