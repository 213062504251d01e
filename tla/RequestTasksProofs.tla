------------------------- MODULE RequestTasksProofs -------------------------
(***************************************************************************)
(* Proofs about RequestTasks, for any chain of modules, any set of buffers *)
(* and any write limit: the bookkeeping of a request is consistent in      *)
(* every state its three callers can drive it to.                          *)
(***************************************************************************)
EXTENDS RequestTasks, SequenceTheorems, TLAPS

\* What every method preserves: the record has its type, the socket is in the
\* pool exactly when the request needs it, a wait to write has its buffer.
Consistent(s) ==
    /\ s \in State
    /\ s.registered <=> Wanted(s)
    /\ s.wait_write => s.write_buffers # <<>>

\* The manager takes a task only if hasWork left one.
DispatchInv == caller = "dispatching" => rt.tasks # <<>>

IndInv == TypeOK /\ Consistent(rt) /\ DispatchInv

-----------------------------------------------------------------------------
(* _register and _unregister re-establish the equivalence from one half.    *)

LEMMA WantedSame ==
    ASSUME NEW s \in State, NEW r \in BOOLEAN
    PROVE  Wanted([s EXCEPT !.registered = r]) <=> Wanted(s)
  BY DEF Wanted, State

LEMMA RegisterConsistent ==
    ASSUME NEW s \in State, s.registered => Wanted(s),
           s.wait_write => s.write_buffers # <<>>
    PROVE  Consistent(Register(s))
  <1>1. CASE Wanted(s)
    BY <1>1, WantedSame DEF Register, Consistent, State
  <1>2. CASE ~Wanted(s)
    BY <1>2, WantedSame DEF Register, Consistent, State
  <1>3. QED BY <1>1, <1>2

LEMMA UnregisterConsistent ==
    ASSUME NEW s \in State, Wanted(s) => s.registered,
           s.wait_write => s.write_buffers # <<>>
    PROVE  Consistent(Unregister(s))
  <1>1. CASE Wanted(s)
    BY <1>1, WantedSame DEF Unregister, Consistent, State
  <1>2. CASE ~Wanted(s)
    BY <1>2, WantedSame DEF Unregister, Consistent, State
  <1>3. QED BY <1>1, <1>2

-----------------------------------------------------------------------------
(* The list operations the methods use.                                     *)

LEMMA PushFront ==
    ASSUME NEW T, NEW q \in Seq(T), NEW t \in T
    PROVE  <<t>> \o q \in Seq(T) /\ <<t>> \o q # <<>>
  <1>1. <<t>> \in Seq(T) /\ Len(<<t>>) = 1
    OBVIOUS
  <1>2. <<t>> \o q \in Seq(T) /\ Len(<<t>> \o q) = 1 + Len(q)
    BY <1>1, ConcatProperties
  <1>3. Len(q) \in Nat
    BY LenProperties
  <1>4. Len(<<t>> \o q) # 0
    BY <1>2, <1>3
  <1>5. Len(<<>>) = 0
    BY EmptySeq
  <1>6. QED BY <1>2, <1>4, <1>5

LEMMA PushBack ==
    ASSUME NEW T, NEW q \in Seq(T), NEW t \in T
    PROVE  Append(q, t) \in Seq(T) /\ Append(q, t) # <<>>
  <1>1. Append(q, t) \in Seq(T) /\ Len(Append(q, t)) = Len(q) + 1
    BY AppendProperties
  <1>2. Len(q) \in Nat /\ Len(<<>>) = 0
    BY LenProperties, EmptySeq
  <1>3. QED BY <1>1, <1>2

LEMMA PopFront ==
    ASSUME NEW T, NEW q \in Seq(T), q # <<>>
    PROVE  /\ Head(q) \in T /\ Tail(q) \in Seq(T)
           /\ Len(q) > 1 => Tail(q) # <<>>
  <1>1. Head(q) \in T /\ Tail(q) \in Seq(T) /\ Len(Tail(q)) = Len(q) - 1
    BY HeadTailProperties
  <1>2. Len(q) \in Nat /\ Len(<<>>) = 0
    BY LenProperties, EmptySeq
  <1>3. Len(q) > 1 => Len(Tail(q)) # 0
    BY <1>1, <1>2
  <1>4. Len(q) > 1 => Tail(q) # <<>>
    BY <1>2, <1>3
  <1>5. QED BY <1>1, <1>4

LEMMA NewModuleTask ==
    ASSUME NEW e \in Events, NEW m \in Modules, NEW b \in Buffers \cup {NoBuffer}
    PROVE  ModuleTask(e, m, b) \in Task
  BY DEF ModuleTask, Task

-----------------------------------------------------------------------------
(* Every method keeps the object consistent.                                *)

\* The queue is none of the fields the consistency relates.
LEMMA TasksFieldConsistent ==
    ASSUME NEW s, Consistent(s), NEW q \in Seq(Task)
    PROVE  Consistent([s EXCEPT !.tasks = q])
  BY DEF Consistent, State, Wanted

LEMMA AddTaskConsistent ==
    ASSUME NEW s, Consistent(s), NEW t \in Task
    PROVE  Consistent(addTask(s, t))
  <1>1. s.tasks \in Seq(Task)
    BY DEF Consistent, State
  <1>2. <<t>> \o s.tasks \in Seq(Task) /\ Append(s.tasks, t) \in Seq(Task)
    BY <1>1, PushFront, PushBack
  <1>3. QED BY <1>2, TasksFieldConsistent DEF addTask

LEMMA GetNextTaskConsistent ==
    ASSUME NEW s, Consistent(s), s.tasks # <<>>
    PROVE  Consistent(getNextTask(s))
  <1>1. Tail(s.tasks) \in Seq(Task)
    BY PopFront DEF Consistent, State
  <1>2. QED BY <1>1, TasksFieldConsistent DEF getNextTask

LEMMA AddEndTaskConsistent ==
    ASSUME NEW s, Consistent(s), NEW m \in Modules
    PROVE  Consistent(addEndTask(s, m))
  <1>1. ModuleTask("ON_END", m, NoBuffer) \in Task
    BY NewModuleTask DEF Events
  <1>2. QED BY <1>1 DEF addEndTask, Consistent, State, Wanted

LEMMA AddCallLaterConsistent ==
    ASSUME NEW s, Consistent(s), NEW m \in Modules, NEW d \in BOOLEAN
    PROVE  Consistent(addCallLaterTask(s, m, d))
  <1> DEFINE idle == ModuleTask("ON_IDLE", m, NoBuffer)
             flushed == IF s.call_later_task = NoTask THEN s.tasks
                        ELSE Append(s.tasks, s.call_later_task)
  <1>1. idle \in Task
    BY NewModuleTask DEF Events
  <1>2. s.tasks \in Seq(Task) /\ s.call_later_task \in Task \cup {NoTask}
    BY DEF Consistent, State
  <1>3. flushed \in Seq(Task) /\ Append(s.tasks, idle) \in Seq(Task)
    BY <1>1, <1>2, PushBack
  <1> HIDE DEF idle, flushed
  <1>4. Consistent([s EXCEPT !.tasks = flushed, !.call_later_task = idle])
    BY <1>1, <1>3 DEF Consistent, State, Wanted
  <1>5. Consistent([s EXCEPT !.tasks = Append(@, idle)])
    BY <1>3, TasksFieldConsistent
  <1>6. QED BY <1>4, <1>5 DEF addCallLaterTask, idle, flushed

LEMMA NeedReadConsistent ==
    ASSUME NEW s, Consistent(s)
    PROVE  Consistent(needRead(s))
  <1>1. CASE s.wait_read
    BY <1>1 DEF needRead
  <1>2. CASE ~s.wait_read
    <2> DEFINE w == [s EXCEPT !.wait_read = TRUE]
    <2>1. w \in State /\ (w.registered => Wanted(w))
                      /\ (w.wait_write => w.write_buffers # <<>>)
      BY <1>2 DEF Consistent, State, Wanted
    <2>2. Consistent(Register(w))
      BY <2>1, RegisterConsistent
    <2>3. QED BY <1>2, <2>2 DEF needRead
  <1>3. QED BY <1>1, <1>2

LEMMA NeedWriteConsistent ==
    ASSUME NEW s, Consistent(s), NEW b \in Buffers
    PROVE  Consistent(needWrite(s, b))
  <1> DEFINE q == Append(s.write_buffers, b)
             pushed == [s EXCEPT !.write_buffers = q]
             waiting == [pushed EXCEPT !.wait_write = TRUE]
  <1>1. q \in Seq(Buffers) /\ q # <<>>
    BY PushBack DEF Consistent, State
  <1> HIDE DEF q
  <1>2. Consistent(pushed)
    BY <1>1 DEF Consistent, State, Wanted
  <1>3. CASE s.wait_write
    BY <1>2, <1>3 DEF needWrite, q
  <1>4. CASE ~s.wait_write
    <2>1. waiting \in State /\ (waiting.registered => Wanted(waiting))
                            /\ (waiting.wait_write => waiting.write_buffers # <<>>)
      BY <1>1, <1>4 DEF Consistent, State, Wanted
    <2>2. Consistent(Register(waiting))
      BY <2>1, RegisterConsistent
    <2>3. QED BY <1>4, <2>2 DEF needWrite, q
  <1>5. QED BY <1>3, <1>4

LEMMA NotifyHasErrorConsistent ==
    ASSUME NEW s, Consistent(s)
    PROVE  Consistent(notifyHasError(s))
  <1> DEFINE e == [s EXCEPT !.has_error = TRUE]
  <1>1. e \in State /\ ~Wanted(e) /\ (e.wait_write => e.write_buffers # <<>>)
    BY DEF Consistent, State, Wanted
  <1>2. QED BY <1>1, UnregisterConsistent DEF notifyHasError

LEMMA ResetConsistent ==
    ASSUME NEW s, Consistent(s)
    PROVE  Consistent(reset(s))
  <1> DEFINE r == [s EXCEPT !.wait_read = FALSE, !.wait_write = FALSE,
                            !.tasks = <<>>, !.call_later_task = NoTask,
                            !.end_task = NoTask]
  <1>1. <<>> \in Seq(Task)
    BY EmptySeq
  <1>2. r \in State /\ ~Wanted(r) /\ ~r.wait_write
    BY <1>1 DEF Consistent, State, Wanted
  <1>3. QED BY <1>2, UnregisterConsistent DEF reset

\* After reset, hasWork finds nothing to do: "Tasks left !" (Request.cpp:83-88)
\* is never logged.
THEOREM ResetLeavesNoWork ==
    ASSUME NEW s \in State, NEW expired \in BOOLEAN, NEW due \in BOOLEAN
    PROVE  ~HasWorkResult(hasWork(reset(s), expired, due))
  <1> DEFINE r == reset(s)
  <1>1. /\ r \in State /\ r.tasks = <<>>
        /\ ~r.wait_read /\ ~r.wait_write
        /\ r.call_later_task = NoTask /\ r.end_task = NoTask
    BY EmptySeq DEF reset, Unregister, State
  <1> HIDE DEF r
  <1>2. DispatchWrite(DispatchRead(r)) = r
    BY <1>1 DEF DispatchRead, DispatchWrite, WriteReady
  <1>3. DispatchEnd(DispatchCallLater(r, due)) = r
    BY <1>1 DEF DispatchCallLater, DispatchEnd
  <1>4. ~(Silent(r) /\ expired)
    BY <1>1 DEF Silent
  <1>5. CASE r.has_error
    BY <1>5, <1>1 DEF hasWork, HasWorkResult, r
  <1>6. CASE ~r.has_error
    <2>1. hasWork(r, expired, due) = r
      BY <1>2, <1>3, <1>4, <1>6 DEF hasWork
    <2>2. QED BY <2>1, <1>1 DEF HasWorkResult, r
  <1>7. QED BY <1>5, <1>6

LEMMA HandleSocketEventConsistent ==
    ASSUME NEW s, Consistent(s), NEW e \in SocketEvents
    PROVE  Consistent(handleSocketEvent(s, e))
  <1> DEFINE readable == [s EXCEPT !.can_read = TRUE]
             writable == [s EXCEPT !.can_write = TRUE]
             broken == [s EXCEPT !.can_read = FALSE, !.can_write = FALSE,
                                 !.has_error = TRUE]
  <1>1. CASE s.has_error
    BY <1>1 DEF handleSocketEvent
  <1>2. CASE ~s.has_error /\ e = "CAN_READ"
    <2>1. readable \in State /\ (Wanted(readable) => readable.registered)
                             /\ (readable.wait_write => readable.write_buffers # <<>>)
      BY DEF Consistent, State, Wanted
    <2>2. QED BY <1>2, <2>1, UnregisterConsistent DEF handleSocketEvent
  <1>3. CASE ~s.has_error /\ e = "CAN_WRITE"
    <2>1. writable \in State /\ (Wanted(writable) => writable.registered)
                             /\ (writable.wait_write => writable.write_buffers # <<>>)
      BY DEF Consistent, State, Wanted
    <2>2. QED BY <1>3, <2>1, UnregisterConsistent DEF handleSocketEvent
  <1>4. CASE ~s.has_error /\ e = "HAS_ERROR"
    <2>1. broken \in State /\ ~Wanted(broken)
                           /\ (broken.wait_write => broken.write_buffers # <<>>)
      BY DEF Consistent, State, Wanted
    <2>2. QED BY <1>4, <2>1, UnregisterConsistent DEF handleSocketEvent
  <1>5. QED BY <1>1, <1>2, <1>3, <1>4 DEF SocketEvents

-----------------------------------------------------------------------------
(* hasWork, part by part.                                                   *)

LEMMA TimeOutConsistent ==
    ASSUME NEW s, Consistent(s)
    PROVE  Consistent(TimeOut(s))
  <1> DEFINE t == [s EXCEPT !.wait_read = FALSE, !.wait_write = FALSE,
                            !.has_error = TRUE]
  <1>1. t \in State /\ ~Wanted(t) /\ ~t.wait_write
    BY DEF Consistent, State, Wanted
  <1>2. QED BY <1>1, UnregisterConsistent DEF TimeOut

LEMMA DispatchReadConsistent ==
    ASSUME NEW s, Consistent(s)
    PROVE  Consistent(DispatchRead(s))
  <1> DEFINE r == [s EXCEPT !.wait_read = FALSE, !.can_read = FALSE]
  <1>1. CASE s.wait_read /\ s.can_read
    <2>1. Consistent(r)
      BY <1>1 DEF Consistent, State, Wanted
    <2>2. ModuleTask("ON_CAN_READ", Input, NoBuffer) \in Task
      BY NewModuleTask, RequestTasksAssumption DEF Events
    <2>3. QED BY <1>1, <2>1, <2>2, AddTaskConsistent DEF DispatchRead
  <1>2. CASE ~(s.wait_read /\ s.can_read)
    BY <1>2 DEF DispatchRead
  <1>3. QED BY <1>1, <1>2

\* Here the write limit must not be zero: a registered request whose only
\* buffer is dispatched before the socket is writable would stay in the pool.
LEMMA DispatchWriteConsistent ==
    ASSUME NEW s, Consistent(s)
    PROVE  Consistent(DispatchWrite(s))
  <1> DEFINE t == ModuleTask("ON_CAN_WRITE", Output, Head(s.write_buffers))
             more == Len(s.write_buffers) > 1
             w == [s EXCEPT !.can_write = FALSE, !.write_buffers = Tail(@),
                            !.wait_write = more]
  <1>1. CASE WriteReady(s)
    <2>1. s.write_buffers \in Seq(Buffers) /\ s.write_buffers # <<>>
      BY <1>1 DEF WriteReady, Consistent, State
    <2>2. /\ Head(s.write_buffers) \in Buffers /\ Tail(s.write_buffers) \in Seq(Buffers)
          /\ more => Tail(s.write_buffers) # <<>>
      BY <2>1, PopFront
    <2>3. t \in Task
      BY <2>2, NewModuleTask, RequestTasksAssumption DEF Events
    <2>4. ~s.can_write => more
      BY <1>1, <2>1, LenProperties, RequestTasksAssumption DEF WriteReady
    <2>5. more \in BOOLEAN
      OBVIOUS
    <2> HIDE DEF more, t
    <2>6. w \in State /\ (w.wait_write => w.write_buffers # <<>>)
      BY <2>2, <2>5 DEF Consistent, State
    <2>7. w.registered => Wanted(w)
      BY <1>1, <2>4, <2>5 DEF Consistent, State, Wanted, WriteReady
    <2>8. addTask(w, t) \in State /\ (addTask(w, t).registered => Wanted(addTask(w, t)))
          /\ (addTask(w, t).wait_write => addTask(w, t).write_buffers # <<>>)
      <3>1. w.tasks \in Seq(Task)
        BY <2>6 DEF State
      <3>2. <<t>> \o w.tasks \in Seq(Task) /\ Append(w.tasks, t) \in Seq(Task)
        BY <2>3, <3>1, PushFront, PushBack
      <3> HIDE DEF w
      <3>3. \A q \in Seq(Task) :
               /\ [w EXCEPT !.tasks = q] \in State
               /\ [w EXCEPT !.tasks = q].registered => Wanted([w EXCEPT !.tasks = q])
               /\ [w EXCEPT !.tasks = q].wait_write => [w EXCEPT !.tasks = q].write_buffers # <<>>
        BY <2>6, <2>7 DEF State, Wanted
      <3>4. QED BY <3>2, <3>3 DEF addTask
    <2>9. Consistent(Register(addTask(w, t)))
      BY <2>8, RegisterConsistent
    <2>10. QED BY <1>1, <2>9 DEF DispatchWrite, t, more
  <1>2. CASE ~WriteReady(s)
    BY <1>2 DEF DispatchWrite
  <1>3. QED BY <1>1, <1>2

LEMMA DispatchCallLaterConsistent ==
    ASSUME NEW s, Consistent(s), NEW due \in BOOLEAN
    PROVE  Consistent(DispatchCallLater(s, due))
  <1>1. CASE due /\ s.call_later_task # NoTask
    <2>1. Append(s.tasks, s.call_later_task) \in Seq(Task)
      BY <1>1, PushBack DEF Consistent, State
    <2>2. QED BY <1>1, <2>1 DEF DispatchCallLater, Consistent, State, Wanted
  <1>2. CASE ~(due /\ s.call_later_task # NoTask)
    BY <1>2 DEF DispatchCallLater
  <1>3. QED BY <1>1, <1>2

LEMMA DispatchEndConsistent ==
    ASSUME NEW s, Consistent(s)
    PROVE  Consistent(DispatchEnd(s))
  <1>1. CASE s.end_task # NoTask
    <2>1. <<s.end_task>> \in Seq(Task)
      BY <1>1 DEF Consistent, State
    <2>2. QED BY <2>1 DEF DispatchEnd, Consistent, State, Wanted
  <1>2. CASE s.end_task = NoTask
    BY <1>2 DEF DispatchEnd
  <1>3. QED BY <1>1, <1>2

LEMMA HasWorkConsistent ==
    ASSUME NEW s, Consistent(s), NEW expired \in BOOLEAN, NEW due \in BOOLEAN
    PROVE  Consistent(hasWork(s, expired, due))
  <1>1. CASE s.has_error
    BY <1>1 DEF hasWork
  <1>2. CASE ~s.has_error /\ Silent(s) /\ expired
    BY <1>2, TimeOutConsistent DEF hasWork
  <1>3. CASE ~s.has_error /\ ~(Silent(s) /\ expired)
    <2>1. Consistent(DispatchWrite(DispatchRead(s)))
      BY DispatchReadConsistent, DispatchWriteConsistent
    <2>2. Consistent(DispatchEnd(DispatchCallLater(DispatchWrite(DispatchRead(s)), due)))
      BY <2>1, DispatchCallLaterConsistent, DispatchEndConsistent
    <2>3. QED BY <1>3, <2>2 DEF hasWork
  <1>4. QED BY <1>1, <1>2, <1>3

-----------------------------------------------------------------------------
(* The specification.                                                       *)

\* The queue is not empty when the manager comes to take a task: between
\* hasWork and getNextTask only the socket pool runs, and it queues nothing.
LEMMA HandleSocketEventKeepsTasks ==
    ASSUME NEW s, Consistent(s), NEW e \in SocketEvents
    PROVE  handleSocketEvent(s, e).tasks = s.tasks
  BY DEF handleSocketEvent, Unregister, Consistent, State, SocketEvents

LEMMA InitIndInv == Init => IndInv
  <1> SUFFICES ASSUME Init PROVE IndInv
    OBVIOUS
  <1>1. Consistent(NewTasks)
    <2>1. <<>> \in Seq(Buffers) /\ <<>> \in Seq(Task)
      BY EmptySeq
    <2>2. QED BY <2>1 DEF NewTasks, Consistent, State, Wanted
  <1>2. Consistent(rt)
    BY <1>1, NeedReadConsistent DEF Init
  <1>3. QED BY <1>2 DEF Init, IndInv, TypeOK, DispatchInv, Consistent, Callers

LEMMA NextIndInv == IndInv /\ [Next]_vars => IndInv'
  <1> SUFFICES ASSUME IndInv, [Next]_vars PROVE IndInv'
    OBVIOUS
  <1>0. Consistent(rt) /\ caller \in Callers /\ reported \in SocketEvents \cup {"NONE"}
    BY DEF IndInv, TypeOK
  <1> SUFFICES /\ Consistent(rt') /\ caller' \in Callers
               /\ reported' \in SocketEvents \cup {"NONE"} /\ DispatchInv'
    BY DEF IndInv, TypeOK, Consistent
  <1>1. CASE Poll
    <2>1. Consistent(rt')
      BY <1>0, <1>1, HasWorkConsistent DEF Poll
    <2>2. QED BY <1>0, <1>1, <2>1 DEF Poll, Callers, DispatchInv, HasWorkResult
  <1>2. CASE CheckPending
    BY <1>0, <1>2 DEF CheckPending, Callers, DispatchInv
  <1>3. CASE Take
    <2>1. Consistent(rt')
      BY <1>0, <1>3, GetNextTaskConsistent DEF Take, IndInv, DispatchInv
    <2>2. QED BY <1>0, <1>3, <2>1 DEF Take, Callers, DispatchInv
  <1>4. CASE Finish
    BY <1>0, <1>4 DEF Finish, Callers, DispatchInv
  <1>5. CASE Report
    BY <1>0, <1>5 DEF Report, IndInv, DispatchInv
  <1>6. CASE Deliver
    <2>1. reported \in SocketEvents
      BY <1>0, <1>6 DEF Deliver
    <2>2. Consistent(rt') /\ rt'.tasks = rt.tasks
      BY <1>0, <1>6, <2>1, HandleSocketEventConsistent, HandleSocketEventKeepsTasks
      DEF Deliver
    <2>3. QED BY <1>0, <1>6, <2>2 DEF Deliver, IndInv, DispatchInv
  <1>7. CASE Ended
    BY <1>0, <1>7 DEF Ended, vars, IndInv, DispatchInv
  <1>8. CASE AddTask
    <2>1. PICK e \in DataEvents, m \in Modules, b \in FreeBuffers :
             rt' = addTask(rt, ModuleTask(e, m, b))
      BY <1>8 DEF AddTask
    <2>2. ModuleTask(e, m, b) \in Task
      BY NewModuleTask DEF Events, FreeBuffers
    <2>3. Consistent(rt')
      BY <1>0, <2>1, <2>2, AddTaskConsistent
    <2>4. QED BY <1>0, <1>8, <2>3 DEF AddTask, Running, DispatchInv
  <1>9. CASE AddEndTask
    <2>1. Consistent(rt')
      BY <1>0, <1>9, AddEndTaskConsistent DEF AddEndTask
    <2>2. QED BY <1>0, <1>9, <2>1 DEF AddEndTask, Running, DispatchInv
  <1>10. CASE AddCallLaterTask
    <2>1. Consistent(rt')
      BY <1>0, <1>10, AddCallLaterConsistent DEF AddCallLaterTask
    <2>2. QED BY <1>0, <1>10, <2>1 DEF AddCallLaterTask, Running, DispatchInv
  <1>11. CASE NeedRead
    <2>1. Consistent(rt')
      BY <1>0, <1>11, NeedReadConsistent DEF NeedRead
    <2>2. QED BY <1>0, <1>11, <2>1 DEF NeedRead, Running, DispatchInv
  <1>12. CASE NeedWrite
    <2>1. Consistent(rt')
      BY <1>0, <1>12, NeedWriteConsistent DEF NeedWrite, FreeBuffers
    <2>2. QED BY <1>0, <1>12, <2>1 DEF NeedWrite, Running, DispatchInv
  <1>13. CASE Reset
    <2>1. Consistent(rt')
      BY <1>0, <1>13, ResetConsistent DEF Reset
    <2>2. QED BY <1>0, <1>13, <2>1 DEF Reset, Running, DispatchInv
  <1>14. CASE NotifyHasError
    <2>1. Consistent(rt')
      BY <1>0, <1>14, NotifyHasErrorConsistent DEF NotifyHasError
    <2>2. QED BY <1>0, <1>14, <2>1 DEF NotifyHasError, Running, DispatchInv
  <1>15. CASE UNCHANGED vars
    BY <1>0, <1>15 DEF vars, IndInv, DispatchInv
  <1>16. QED
    BY <1>1, <1>2, <1>3, <1>4, <1>5, <1>6, <1>7, <1>8, <1>9, <1>10, <1>11,
       <1>12, <1>13, <1>14, <1>15 DEF Next

\* IndInv is inductive: every call of the task manager, of a module and of the
\* socket pool keeps it.
THEOREM Inductive == Spec => []IndInv
  <1>1. QED BY InitIndInv, NextIndInv, PTL DEF Spec

\* The record, the callers' places and the event in flight keep their types.
THEOREM TypeCorrect == Spec => []TypeOK
  <1>1. IndInv => TypeOK
    BY DEF IndInv
  <1>2. QED BY <1>1, Inductive, PTL

\* The socket of a request is watched by the pool exactly while the request
\* waits for an event it has not been told of.
THEOREM Registration == Spec => []RegisteredIffWanted
  <1>1. IndInv => RegisteredIffWanted
    BY DEF IndInv, Consistent, RegisteredIffWanted
  <1>2. QED BY <1>1, Inductive, PTL

\* The assertion of hasWork (RequestTasks.cpp:143) never fails.
THEOREM WriteAssertion == Spec => []AwaitedWriteHasBuffer
  <1>1. IndInv => AwaitedWriteHasBuffer
    BY DEF IndInv, Consistent, AwaitedWriteHasBuffer
  <1>2. QED BY <1>1, Inductive, PTL

\* What a request waits for agrees with what it is registered for and with what it
\* has to write, under every order of the callers' calls.
THEOREM WaitsStayKept == Spec => []WaitsAreKept
  <1>1. RegisteredIffWanted /\ AwaitedWriteHasBuffer => WaitsAreKept
    BY DEF WaitsAreKept
  <1>2. QED BY <1>1, Registration, WriteAssertion, PTL

-----------------------------------------------------------------------------
(* The order in which RequestTasks hands out its tasks: ON_END is handed out *)
(* alone, and no buffer that waits for the socket is forgotten.  Both are    *)
(* action properties; they need a second invariant, about where ON_END may   *)
(* be queued.                                                                *)


Quiet == {t \in Task : t.event # "ON_END"}

\* ON_END enters the queue in DispatchEnd only: what addCallLaterTask plans is
\* never the end of the request.
QuietTasks(s) ==
    /\ s.tasks \in Seq(Quiet)
    /\ s.call_later_task \in Quiet \cup {NoTask}

\* Once ON_END is queued, it is alone until the manager takes it.
EndAlone(s) ==
    /\ Tail(s.tasks) = <<>>
    /\ s.write_buffers = <<>>
    /\ s.call_later_task \in Quiet \cup {NoTask}

EndInv ==
    \/ QuietTasks(rt)
    \/ caller = "dispatching" /\ EndAlone(rt)

EndIndInv == IndInv /\ EndInv

-----------------------------------------------------------------------------
(* The methods a module calls queue no ON_END.                              *)

LEMMA QuietModuleTask ==
    ASSUME NEW e \in Events \ {"ON_END"}, NEW m \in Modules,
           NEW b \in Buffers \cup {NoBuffer}
    PROVE  ModuleTask(e, m, b) \in Quiet
  BY NewModuleTask DEF ModuleTask, Quiet

LEMMA AddTaskQuiet ==
    ASSUME NEW s \in State, QuietTasks(s), NEW t \in Quiet
    PROVE  QuietTasks(addTask(s, t))
  <1>1. <<t>> \o s.tasks \in Seq(Quiet) /\ Append(s.tasks, t) \in Seq(Quiet)
    BY PushFront, PushBack DEF QuietTasks
  <1>2. QED BY <1>1 DEF addTask, QuietTasks, State

LEMMA AddCallLaterQuiet ==
    ASSUME NEW s \in State, QuietTasks(s), NEW m \in Modules, NEW d \in BOOLEAN
    PROVE  QuietTasks(addCallLaterTask(s, m, d))
  <1> DEFINE idle == ModuleTask("ON_IDLE", m, NoBuffer)
             flushed == IF s.call_later_task = NoTask THEN s.tasks
                        ELSE Append(s.tasks, s.call_later_task)
  <1>1. idle \in Quiet
    BY QuietModuleTask DEF Events
  <1>2. flushed \in Seq(Quiet) /\ Append(s.tasks, idle) \in Seq(Quiet)
    BY <1>1, PushBack DEF QuietTasks
  <1> HIDE DEF idle, flushed
  <1>3. QuietTasks([s EXCEPT !.tasks = flushed, !.call_later_task = idle])
    BY <1>1, <1>2 DEF QuietTasks, State
  <1>4. QuietTasks([s EXCEPT !.tasks = Append(@, idle)])
    BY <1>2 DEF QuietTasks, State
  <1>5. QED BY <1>3, <1>4 DEF addCallLaterTask, idle, flushed

LEMMA DispatchReadQuiet ==
    ASSUME NEW s \in State, QuietTasks(s)
    PROVE  QuietTasks(DispatchRead(s))
  <1> DEFINE r == [s EXCEPT !.wait_read = FALSE, !.can_read = FALSE]
  <1>1. r \in State /\ QuietTasks(r)
    BY DEF State, QuietTasks
  <1>2. ModuleTask("ON_CAN_READ", Input, NoBuffer) \in Quiet
    BY QuietModuleTask, RequestTasksAssumption DEF Events
  <1>3. QED BY <1>1, <1>2, AddTaskQuiet DEF DispatchRead

LEMMA DispatchWriteQuiet ==
    ASSUME NEW s, Consistent(s), QuietTasks(s)
    PROVE  QuietTasks(DispatchWrite(s))
  <1> DEFINE t == ModuleTask("ON_CAN_WRITE", Output, Head(s.write_buffers))
             more == Len(s.write_buffers) > 1
             w == [s EXCEPT !.can_write = FALSE, !.write_buffers = Tail(@),
                            !.wait_write = more]
  <1>1. CASE WriteReady(s)
    <2>1. s.write_buffers \in Seq(Buffers) /\ s.write_buffers # <<>>
      BY <1>1 DEF WriteReady, Consistent, State
    <2>2. Head(s.write_buffers) \in Buffers /\ Tail(s.write_buffers) \in Seq(Buffers)
      BY <2>1, PopFront
    <2>3. t \in Quiet
      BY <2>2, QuietModuleTask, RequestTasksAssumption DEF Events
    <2>4. more \in BOOLEAN
      OBVIOUS
    <2> HIDE DEF more, t
    <2>5. w \in State /\ QuietTasks(w)
      BY <2>2, <2>4 DEF Consistent, State, QuietTasks
    <2> HIDE DEF w
    <2>6. QuietTasks(addTask(w, t)) /\ addTask(w, t) \in State
      <3>1. t \in Task
        BY <2>3 DEF Quiet
      <3>2. w.tasks \in Seq(Task)
        BY <2>5 DEF State
      <3>3. <<t>> \o w.tasks \in Seq(Task) /\ Append(w.tasks, t) \in Seq(Task)
        BY <3>1, <3>2, PushFront, PushBack
      <3>4. QED BY <2>3, <2>5, <3>3, AddTaskQuiet DEF addTask, State
    <2>7. QuietTasks(Register(addTask(w, t)))
      BY <2>6 DEF Register, QuietTasks, State
    <2>8. QED BY <1>1, <2>7 DEF DispatchWrite, t, more, w
  <1>2. CASE ~WriteReady(s)
    BY <1>2 DEF DispatchWrite
  <1>3. QED BY <1>1, <1>2

LEMMA DispatchCallLaterQuiet ==
    ASSUME NEW s \in State, QuietTasks(s), NEW due \in BOOLEAN
    PROVE  QuietTasks(DispatchCallLater(s, due))
  <1>1. CASE due /\ s.call_later_task # NoTask
    <2>1. Append(s.tasks, s.call_later_task) \in Seq(Quiet)
      BY <1>1, PushBack DEF QuietTasks
    <2>2. QED BY <1>1, <2>1 DEF DispatchCallLater, QuietTasks, State
  <1>2. CASE ~(due /\ s.call_later_task # NoTask)
    BY <1>2 DEF DispatchCallLater
  <1>3. QED BY <1>1, <1>2

\* DispatchEnd queues ON_END behind nothing, with nothing left to write.
LEMMA DispatchEndAlone ==
    ASSUME NEW s \in State, QuietTasks(s)
    PROVE  \/ QuietTasks(DispatchEnd(s))
           \/ /\ EndAlone(DispatchEnd(s)) /\ DispatchEnd(s).tasks # <<>>
              /\ DispatchEnd(s).has_error = s.has_error
  <1> DEFINE d == [s EXCEPT !.tasks = <<s.end_task>>, !.end_task = NoTask]
  <1>1. CASE s.end_task # NoTask /\ s.tasks = <<>> /\ s.write_buffers = <<>>
    <2>1. /\ d.tasks = <<s.end_task>> /\ d.write_buffers = <<>>
          /\ d.call_later_task = s.call_later_task /\ d.has_error = s.has_error
      BY <1>1 DEF State
    <2>2. Tail(<<s.end_task>>) = <<>> /\ <<s.end_task>> # <<>>
      OBVIOUS
    <2>3. DispatchEnd(s) = d
      BY <1>1 DEF DispatchEnd
    <2>4. QED BY <2>1, <2>2, <2>3 DEF EndAlone, QuietTasks
  <1>2. CASE ~(s.end_task # NoTask /\ s.tasks = <<>> /\ s.write_buffers = <<>>)
    BY <1>2 DEF DispatchEnd
  <1>3. QED BY <1>1, <1>2

\* A hasWork that queues ON_END returns true.
LEMMA HasWorkEnd ==
    ASSUME NEW s, Consistent(s), QuietTasks(s),
           NEW expired \in BOOLEAN, NEW due \in BOOLEAN
    PROVE  LET r == hasWork(s, expired, due)
           IN  QuietTasks(r) \/ (EndAlone(r) /\ HasWorkResult(r))
  <1> DEFINE d == DispatchCallLater(DispatchWrite(DispatchRead(s)), due)
  <1>1. CASE s.has_error
    BY <1>1 DEF hasWork
  <1>2. CASE ~s.has_error /\ Silent(s) /\ expired
    <2>1. QuietTasks(TimeOut(s))
      BY DEF TimeOut, Unregister, QuietTasks, Consistent, State
    <2>2. QED BY <1>2, <2>1 DEF hasWork
  <1>3. CASE ~s.has_error /\ ~(Silent(s) /\ expired)
    <2>1. Consistent(DispatchRead(s)) /\ QuietTasks(DispatchRead(s))
      BY DispatchReadConsistent, DispatchReadQuiet DEF Consistent
    <2>2. /\ Consistent(DispatchWrite(DispatchRead(s)))
          /\ QuietTasks(DispatchWrite(DispatchRead(s)))
      BY <2>1, DispatchWriteConsistent, DispatchWriteQuiet
    <2>3. Consistent(d) /\ QuietTasks(d)
      BY <2>2, DispatchCallLaterConsistent, DispatchCallLaterQuiet DEF Consistent
    <2>4. d.has_error = FALSE
      <3>1. DispatchRead(s).has_error = s.has_error
        BY DEF DispatchRead, addTask, Consistent, State
      <3> DEFINE a == DispatchRead(s)
      <3>2. a \in State
        BY <2>1 DEF Consistent
      <3> HIDE DEF a
      <3>3. DispatchWrite(a).has_error = a.has_error
        BY <3>2 DEF DispatchWrite, Register, addTask, State
      <3> DEFINE w == DispatchWrite(a)
      <3>4. w \in State
        BY <2>2 DEF Consistent, a
      <3> HIDE DEF w
      <3>5. DispatchCallLater(w, due).has_error = w.has_error
        BY <3>4 DEF DispatchCallLater, State
      <3>6. QED BY <1>3, <3>1, <3>3, <3>5 DEF a, w, Consistent, State
    <2> HIDE DEF d
    <2>5. \/ QuietTasks(DispatchEnd(d))
          \/ EndAlone(DispatchEnd(d)) /\ HasWorkResult(DispatchEnd(d))
      BY <2>3, <2>4, DispatchEndAlone DEF Consistent, HasWorkResult
    <2>6. hasWork(s, expired, due) = DispatchEnd(d)
      BY <1>3 DEF hasWork, d
    <2>7. QED BY <2>5, <2>6
  <1>4. QED BY <1>1, <1>2, <1>3

-----------------------------------------------------------------------------
(* The specification.                                                       *)

LEMMA InitEndInv == Init => EndInv
  <1> SUFFICES ASSUME Init PROVE QuietTasks(rt)
    BY DEF EndInv
  <1>1. /\ NewTasks.tasks = <<>> /\ NewTasks.call_later_task = NoTask
        /\ <<>> \in Seq(Quiet)
    BY EmptySeq DEF NewTasks
  <1>2. /\ needRead(NewTasks).tasks = NewTasks.tasks
        /\ needRead(NewTasks).call_later_task = NewTasks.call_later_task
    BY DEF needRead, NewTasks, Register, Wanted
  <1>3. QED BY <1>1, <1>2 DEF Init, QuietTasks

LEMMA NextEndInv == EndIndInv /\ [Next]_vars => EndInv'
  <1> SUFFICES ASSUME EndIndInv, [Next]_vars PROVE EndInv'
    OBVIOUS
  <1>0. Consistent(rt) /\ rt \in State /\ EndInv /\ DispatchInv
    BY DEF EndIndInv, IndInv, Consistent
  <1>1. CASE Poll
    <2>1. QuietTasks(rt)
      BY <1>0, <1>1 DEF Poll, EndInv
    <2>2. QuietTasks(rt') \/ (EndAlone(rt') /\ HasWorkResult(rt'))
      BY <1>0, <1>1, <2>1, HasWorkEnd DEF Poll
    <2>3. QED BY <1>1, <2>2 DEF Poll, EndInv
  <1>2. CASE Take
    <2>1. CASE QuietTasks(rt)
      <3>1. Tail(rt.tasks) \in Seq(Quiet)
        BY <1>0, <1>2, <2>1, PopFront DEF Take, DispatchInv, QuietTasks
      <3>2. QED BY <1>0, <1>2, <2>1, <3>1 DEF Take, getNextTask, EndInv, QuietTasks, State
    <2>2. CASE EndAlone(rt)
      <3>1. Tail(rt.tasks) \in Seq(Quiet)
        BY <2>2, EmptySeq DEF EndAlone
      <3>2. QED BY <1>0, <1>2, <2>2, <3>1 DEF Take, getNextTask, EndInv, EndAlone, QuietTasks, State
    <2>3. QED BY <1>0, <2>1, <2>2 DEF EndInv
  <1>3. CASE Deliver
    <2>1. /\ rt'.tasks = rt.tasks /\ rt'.write_buffers = rt.write_buffers
          /\ rt'.call_later_task = rt.call_later_task
      <3>1. reported \in SocketEvents
        BY <1>3 DEF Deliver, EndIndInv, IndInv, TypeOK
      <3>2. QED BY <1>0, <1>3, <3>1 DEF Deliver, handleSocketEvent, Unregister, SocketEvents, State
    <2>2. QED BY <1>0, <1>3, <2>1 DEF Deliver, EndInv, QuietTasks, EndAlone
  <1>4. CASE CheckPending \/ Finish \/ Report \/ Ended \/ UNCHANGED vars
    BY <1>0, <1>4 DEF CheckPending, Finish, Report, Ended, vars, EndInv
  <1>5. CASE AddTask
    <2>1. PICK e \in DataEvents, m \in Modules, b \in FreeBuffers :
             rt' = addTask(rt, ModuleTask(e, m, b))
      BY <1>5 DEF AddTask
    <2>2. ModuleTask(e, m, b) \in Quiet
      BY QuietModuleTask DEF Events, DataEvents, FreeBuffers
    <2>3. QED BY <1>0, <1>5, <2>1, <2>2, AddTaskQuiet DEF AddTask, Running, EndInv
  <1>6. CASE AddCallLaterTask
    BY <1>0, <1>6, AddCallLaterQuiet DEF AddCallLaterTask, Running, EndInv
  <1>7. CASE Reset
    BY <1>0, <1>7, EmptySeq DEF Reset, Running, reset, Unregister, EndInv, QuietTasks, State
  <1>8. CASE AddEndTask
    BY <1>0, <1>8 DEF AddEndTask, Running, addEndTask, EndInv, QuietTasks, State
  <1>9. CASE NeedRead
    BY <1>0, <1>9 DEF NeedRead, Running, needRead, Register, EndInv, QuietTasks, State
  <1>10. CASE NeedWrite
    BY <1>0, <1>10 DEF NeedWrite, Running, needWrite, Register, EndInv, QuietTasks, State
  <1>11. CASE NotifyHasError
    BY <1>0, <1>11 DEF NotifyHasError, Running, notifyHasError, Unregister, EndInv,
       QuietTasks, State
  <1>12. QED
    BY <1>1, <1>2, <1>3, <1>4, <1>5, <1>6, <1>7, <1>8, <1>9, <1>10, <1>11 DEF Next

LEMMA EndInductive == Spec => []EndIndInv
  <1>1. Init => EndIndInv
    BY InitIndInv, InitEndInv DEF EndIndInv
  <1>2. EndIndInv /\ [Next]_vars => EndIndInv'
    BY NextIndInv, NextEndInv DEF EndIndInv
  <1>3. QED BY <1>1, <1>2, PTL DEF Spec

\* ON_END is handed out alone: when the manager takes it, no other task is
\* queued and no buffer waits, whatever the socket pool reported in between.
THEOREM EndLast == Spec => EndComesLast
  <1>1. EndIndInv /\ [Next]_vars =>
           [Take /\ Head(rt.tasks).event = "ON_END" =>
               rt'.tasks = <<>> /\ rt'.write_buffers = <<>>]_vars
    <2> SUFFICES ASSUME EndIndInv, Take, Head(rt.tasks).event = "ON_END"
                 PROVE  rt'.tasks = <<>> /\ rt'.write_buffers = <<>>
      OBVIOUS
    <2>1. rt \in State /\ rt.tasks # <<>> /\ EndInv
      BY DEF EndIndInv, IndInv, Consistent, DispatchInv, Take
    <2>2. ~QuietTasks(rt)
      <3>1. ASSUME QuietTasks(rt) PROVE Head(rt.tasks) \in Quiet
        BY <3>1, <2>1, PopFront DEF QuietTasks
      <3>2. QED BY <3>1 DEF Quiet
    <2>3. QED BY <2>1, <2>2 DEF Take, getNextTask, EndInv, EndAlone, State
  <1>2. QED BY <1>1, EndInductive, PTL DEF Spec, EndComesLast

-----------------------------------------------------------------------------
(* Buffers that wait for the socket are not forgotten.                      *)

\* While there is no error, hasWork stops waiting to write only when it has
\* taken the last buffer out of the list.
LEMMA HasWorkKeepsWaiting ==
    ASSUME NEW s, Consistent(s), s.wait_write,
           NEW expired \in BOOLEAN, NEW due \in BOOLEAN
    PROVE  LET r == hasWork(s, expired, due)
           IN  r.wait_write \/ r.write_buffers = <<>> \/ r.has_error
  <1> DEFINE a == DispatchRead(s)
             w == DispatchWrite(a)
             d == DispatchCallLater(w, due)
  <1>1. CASE s.has_error
    BY <1>1 DEF hasWork
  <1>2. CASE ~s.has_error /\ Silent(s) /\ expired
    <2>1. TimeOut(s).has_error
      BY DEF TimeOut, Unregister, Consistent, State
    <2>2. QED BY <1>2, <2>1 DEF hasWork
  <1>3. CASE ~s.has_error /\ ~(Silent(s) /\ expired)
    <2>1. Consistent(a) /\ a.wait_write
      BY DispatchReadConsistent DEF DispatchRead, addTask, Consistent, State
    <2>2. Consistent(w)
      BY <2>1, DispatchWriteConsistent
    <2> HIDE DEF a
    <2>3. w.wait_write \/ w.write_buffers = <<>>
      <3>1. CASE WriteReady(a)
        <4>1. a.write_buffers \in Seq(Buffers) /\ a.write_buffers # <<>>
          BY <2>1 DEF Consistent, State
        <4>2. ~(Len(a.write_buffers) > 1) => Tail(a.write_buffers) = <<>>
          BY <4>1
        <4>3. /\ w.wait_write = (Len(a.write_buffers) > 1)
              /\ w.write_buffers = Tail(a.write_buffers)
          BY <2>1, <3>1 DEF DispatchWrite, Register, addTask, Consistent, State
        <4>4. QED BY <4>2, <4>3
      <3>2. CASE ~WriteReady(a)
        BY <2>1, <3>2 DEF DispatchWrite
      <3>3. QED BY <3>1, <3>2
    <2> HIDE DEF w
    <2>4. /\ Consistent(d) /\ d.wait_write = w.wait_write
          /\ d.write_buffers = w.write_buffers
      BY <2>2, DispatchCallLaterConsistent DEF DispatchCallLater, Consistent, State
    <2> HIDE DEF d
    <2>5. /\ DispatchEnd(d).wait_write = d.wait_write
          /\ DispatchEnd(d).write_buffers = d.write_buffers
      BY <2>4 DEF DispatchEnd, Consistent, State
    <2>6. hasWork(s, expired, due) = DispatchEnd(d)
      BY <1>3 DEF hasWork, d, w, a
    <2>7. QED BY <2>3, <2>4, <2>5, <2>6
  <1>4. QED BY <1>1, <1>2, <1>3

\* The request stops waiting to write only when the list is empty, because of
\* an error, or because reset drops what was to be written.
THEOREM WaitKept == Spec => WriteWaitKept
  <1>1. IndInv /\ [Next]_vars =>
           [rt.wait_write /\ ~rt'.wait_write =>
               rt'.write_buffers = <<>> \/ rt'.has_error \/ Reset]_vars
    <2> SUFFICES ASSUME IndInv, Next, rt.wait_write, ~rt'.wait_write, ~Reset
                 PROVE  rt'.write_buffers = <<>> \/ rt'.has_error
      OBVIOUS
    <2>1. Consistent(rt) /\ rt \in State
      BY DEF IndInv, Consistent
    <2>2. CASE Poll
      BY <2>1, <2>2, HasWorkKeepsWaiting DEF Poll
    <2>3. CASE Take
      BY <2>1, <2>3 DEF Take, getNextTask, State
    <2>4. CASE Deliver
      BY <2>1, <2>4 DEF Deliver, IndInv, TypeOK, handleSocketEvent, Unregister, SocketEvents, State
    <2>5. CASE CheckPending \/ Finish \/ Report \/ Ended
      BY <2>5 DEF CheckPending, Finish, Report, Ended, vars
    <2>6. CASE AddTask
      BY <2>1, <2>6 DEF AddTask, addTask, State
    <2>7. CASE AddEndTask
      BY <2>1, <2>7 DEF AddEndTask, addEndTask, State
    <2>8. CASE AddCallLaterTask
      BY <2>1, <2>8 DEF AddCallLaterTask, addCallLaterTask, State
    <2>9. CASE NeedRead
      BY <2>1, <2>9 DEF NeedRead, needRead, Register, State
    <2>10. CASE NeedWrite
      BY <2>1, <2>10 DEF NeedWrite, needWrite, Register, State
    <2>11. CASE NotifyHasError
      BY <2>1, <2>11 DEF NotifyHasError, notifyHasError, Unregister, State
    <2>12. QED
      BY <2>2, <2>3, <2>4, <2>5, <2>6, <2>7, <2>8, <2>9, <2>10, <2>11 DEF Next
  <1>2. QED BY <1>1, Inductive, PTL DEF Spec, WriteWaitKept

\* What waits to be written is neither forgotten nor overtaken by the end, whatever
\* the limit of writes.
THEOREM WritesStayFirst == Spec => WritesComeFirst
  <1>1. QED BY EndLast, WaitKept DEF WritesComeFirst
=============================================================================
