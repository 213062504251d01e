---------------------------- MODULE RequestChain ----------------------------
(***************************************************************************)
(* One HTTP request from its first byte to its destruction: its chain of   *)
(* modules (server/core/Request, ModuleList), the modules of a file        *)
(* request (Network, Parser, Builder, FileReader, PreOutputBuilder,        *)
(* ModError) and its RequestTasks, driven by the task manager, one worker  *)
(* at a time and the socket pool.                                          *)
(*                                                                         *)
(* A worker calls processRequest of a module.  What the module then asks   *)
(* of its request is a script of calls; each call is a step of its own,    *)
(* because the socket pool reports events between them.                    *)
(*                                                                         *)
(* A buffer is <<kind, number>>.  The client sends a request whose header  *)
(* comes in Pieces buffers; the file is read in FileSize buffers.          *)
(***************************************************************************)
EXTENDS Naturals, Sequences, FiniteSets

CONSTANTS
    Pieces,         \* buffers in which the header of the request arrives
    HeaderLimit,    \* MAX_HEADER_SIZE, in such buffers
    FileSize,       \* buffers in which the file is read
    WriteLimit,     \* the 10 of "_write_buffers.size() > 10"
    Delays,         \* what the configuration may say: FileReaderManager::getDelay() is not 0
    ReadErrors,     \* reading the file may fail
    PartialWrites,  \* send() may take only a part of a buffer
    NoBuffer, NoTask, NoModule

ASSUME RequestChainAssumption ==
    /\ Pieces \in Nat \ {0} /\ HeaderLimit \in Nat
    /\ FileSize \in Nat \ {0} /\ WriteLimit \in Nat \ {0}
    /\ Delays \subseteq BOOLEAN /\ {ReadErrors, PartialWrites} \subseteq BOOLEAN

VARIABLES
    rt,         \* the RequestTasks
    caller,     \* the thread that may dispatch, as in RequestTasks
    reported,   \* the socket event the pool is about to deliver
    task,       \* the ModuleTask the worker runs
    script,     \* the calls the running module has still to make
    chain,      \* the modules of the ModuleList, head first
    current,    \* _current_module
    parser,     \* Parser: the buffers it keeps, and _completed
    builded,    \* Builder::_builded
    reader,     \* FileReader: whether the file is open, what is left, if it failed, its delay
    pob,        \* PreOutputBuilder: _headers and _chunked
    measured,   \* the response has a Content-Length
    arrived,    \* pieces of the request the client has sent
    live,       \* the buffers allocated and not released
    freed,      \* the buffers released
    sent,       \* what send() took, in order
    late,       \* the buffer a failed ModuleTask releases when it is destroyed
    told        \* the modules that were told ON_END
vars == <<rt, caller, reported, task, script, chain, current, parser, builded,
          reader, pob, measured, arrived, live, freed, sent, late, told>>

Processing == {"reader", "error"}
Modules == {"in", "parser", "builder", "pob", "out"} \cup Processing

Headers == <<"head", 0>>
Final == <<"final", 0>>
Padding == <<"page", 1>>
Page == <<"page", 2>>
RequestBody == <<"body", 0>>
Orphan == <<"orphan", 0>>    \* one that nobody knows: see NetworkRead and Remainder
Piece(n) == <<"piece", n>>
Data(n) == <<"data", n>>
ChunkInfo(b) == <<"info", b[2]>>
Buffers == {Headers, Final, Padding, Page, RequestBody, Orphan}
             \cup {Piece(n) : n \in 1..Pieces} \cup {Data(n) : n \in 1..FileSize}
             \cup {<<"info", n>> : n \in 1..2}

\* The handlers queue at most so many tasks at once.
TaskBound == 4

T == INSTANCE RequestTasks WITH Input <- "in", Output <- "out"

\* The null pointers are none of the values they stand in for.
ASSUME NullAssumption ==
    NoBuffer \notin Buffers /\ NoTask \notin T!Task /\ NoModule \notin Modules

-----------------------------------------------------------------------------
(* The chain: ModuleList and ModuleWrapper. *)

Position(m) == CHOOSE i \in DOMAIN chain : chain[i] = m
Following(m) == IF Position(m) < Len(chain) THEN chain[Position(m) + 1] ELSE NoModule

isInResponsePart(m) == \E i \in 1..Position(m) : chain[i] \in Processing

InsertAfter(i, m) == SubSeq(chain, 1, i) \o <<m>> \o SubSeq(chain, i + 1, Len(chain))

\* The error module takes the place of the processing module, or comes just
\* before the output module when the chain has none yet.
setProcessingModule ==
    IF \E i \in DOMAIN chain : chain[i] \in Processing
    THEN [i \in DOMAIN chain |-> IF chain[i] \in Processing THEN "error" ELSE chain[i]]
    ELSE InsertAfter(Len(chain) - 1, "error")

Init ==
    /\ rt = T!needRead(T!NewTasks)
    /\ caller = "polling" /\ reported = "NONE"
    /\ task = NoTask /\ script = <<>>
    /\ chain = <<"in", "parser", "builder", "pob", "out">>
    /\ current = NoModule
    /\ parser = [buffers |-> <<>>, completed |-> FALSE]
    /\ builded = FALSE
    /\ reader \in [open : {FALSE}, left : {FileSize}, failed : {FALSE}, delayed : Delays]
    /\ pob = [headers |-> FALSE, chunked |-> FALSE]
    /\ measured = FALSE
    /\ arrived = 0
    /\ live = {} /\ freed = {} /\ sent = <<>> /\ late = NoBuffer /\ told = {}

-----------------------------------------------------------------------------
(* The scripts of the modules. *)

GiveData(b) == <<"giveData", b>>
Release(b) == <<"release", b>>
NeedWrite(b) == <<"needWrite", b>>
NeedRead == <<"needRead", NoBuffer>>
CallLater == <<"callLater", NoBuffer>>
RaiseEnd == <<"raiseEnd", NoBuffer>>
EndInput == <<"endInput", NoBuffer>>
Insert == <<"insertAfter", NoBuffer>>
Return == <<"return", NoBuffer>>
Throw(b) == <<"throw", b>>
NotifyEndTask(b) == <<"notifyEndTask", b>>
RaiseError == << <<"reset", NoBuffer>>, <<"endError", NoBuffer>> >>

\* processTask, when processRequest returned true or false.  (No module of the
\* chain refuses the events of the socket.)
Done == <<Return>>
Refused(t) ==
    CASE t.event \in T!DataEvents -> <<Release(t.buffer), EndInput, Return>>
      [] t.event = "ON_END" -> <<RaiseEnd, Return>>
      [] t.event = "ON_IDLE" -> <<Return>>

\* The task in the worker's hands and the script its module answers with.
Runs(m, t, calls) == t.module = m /\ script' = calls
SameModules == UNCHANGED <<parser, builded, reader, pob, measured>>

\* Network: reads one buffer, or read() fails and nobody knows the buffer it
\* was to fill.
NetworkRead(t) ==
    /\ t.event = "ON_CAN_READ"
    /\ \E calls \in {<<GiveData(Piece(Len(parser.buffers) + 1)), Return>>, <<Throw(Orphan), NotifyEndTask(NoBuffer)>>} :
          Runs("in", t, calls)
    /\ SameModules /\ UNCHANGED sent

\* send() takes the buffer, a part of it, or fails.
NetworkWrite(t) ==
    /\ t.event = "ON_CAN_WRITE"
    /\ \/ Runs("out", t, <<Release(t.buffer), Return>>) /\ sent' = Append(sent, t.buffer)
       \/ /\ PartialWrites /\ t.buffer \notin {sent[i] : i \in DOMAIN sent}
          /\ Runs("out", t, <<NeedWrite(t.buffer), Return>>) /\ sent' = Append(sent, t.buffer)
       \/ Runs("out", t, <<Throw(NoBuffer), NotifyEndTask(t.buffer)>>) /\ UNCHANGED sent
    /\ SameModules

NetworkEnd(t) ==
    /\ t.event = "ON_END"
    /\ \E m \in {"in", "out"} : Runs(m, t, Refused(t))
    /\ SameModules /\ UNCHANGED sent

\* Parser: keeps the buffers of the header until it is complete, then releases
\* them.  Bytes that follow the header in its last buffer are copied into a new
\* one: body, perhaps not the whole of it, or, when the header announces none, a
\* buffer that is neither given nor released (Remainder).
Kept(t) == Append(parser.buffers, t.buffer)
ReleaseAll(bs) == [i \in DOMAIN bs |-> Release(bs[i])]

ParserIncomplete(t) ==
    /\ t.event = "ON_REQUEST_DATA" /\ Len(Kept(t)) < Pieces
    /\ parser' = [parser EXCEPT !.buffers = Kept(t)]
    /\ Runs("parser", t,
            <<NeedRead>> \o (IF Len(Kept(t)) > HeaderLimit
                             THEN ReleaseAll(Kept(t)) \o <<RaiseEnd>> ELSE <<>>) \o Done)
    /\ UNCHANGED <<builded, reader, pob, measured, sent>>

ParserComplete(t) ==
    /\ t.event = "ON_REQUEST_DATA" /\ Len(Kept(t)) = Pieces
    /\ parser' = [buffers |-> Kept(t), completed |-> TRUE]
    /\ \E rest \in {<<RaiseEnd>>, <<GiveData(RequestBody)>>, <<GiveData(RequestBody), RaiseEnd>>} :
          Runs("parser", t, ReleaseAll(Kept(t)) \o rest \o Done)
    /\ UNCHANGED <<builded, reader, pob, measured, sent>>

ParserEnd(t) ==
    /\ t.event = "ON_END"
    /\ Runs("parser", t, Refused(t)) /\ SameModules /\ UNCHANGED sent

\* Builder, on the first event it gets: no virtual host matches; no module may
\* serve the file; or FileReader is put behind it.
BuilderAnswer(t, error) ==
    IF t.event = "ON_REQUEST_DATA"
    THEN <<IF error THEN Release(t.buffer) ELSE GiveData(t.buffer)>> \o Done
    ELSE Refused(t)

BuilderFirst(t) ==
    /\ ~builded /\ builded' = TRUE
    /\ \/ Runs("builder", t, RaiseError \o BuilderAnswer(t, TRUE))
       \/ Runs("builder", t, RaiseError \o BuilderAnswer(t, FALSE))
       \/ Runs("builder", t, <<Insert>> \o BuilderAnswer(t, FALSE))
    /\ UNCHANGED <<parser, reader, pob, measured, sent>>

BuilderAgain(t) ==
    /\ builded
    /\ Runs("builder", t, BuilderAnswer(t, FALSE)) /\ SameModules /\ UNCHANGED sent

\* FileReader::_onIdle: all is read; a buffer is read and the module asks to be
\* called again; the stream is bad.
\* Mutant: the end of the range is not looked at.
ReadOnePastEnd(r) ==
    /\ \E bad \in {FALSE, ReadErrors} : reader' = [r EXCEPT !.left = @ - 1, !.failed = bad]
    /\ script' = <<GiveData(Data(FileSize - r.left + 1)), CallLater, Return>>

\* Mutant: the end is raised with the first buffer.
ReadOneAndEnd(r) ==
    /\ r.left > 0
    /\ \E bad \in {FALSE, ReadErrors} : reader' = [r EXCEPT !.left = @ - 1, !.failed = bad]
    /\ script' = <<GiveData(Data(FileSize - r.left + 1)), RaiseEnd, CallLater, Return>>

ReadOne(r) ==
    /\ r.left > 0
    /\ \E bad \in {FALSE, ReadErrors} : reader' = [r EXCEPT !.left = @ - 1, !.failed = bad]
    /\ script' = <<GiveData(Data(FileSize - r.left + 1)), CallLater, Return>>

ReaderIdle(t) ==
    /\ t.module = "reader" /\ t.event = "ON_IDLE"
    /\ \/ ~reader.failed /\ reader.left = 0 /\ script' = <<RaiseEnd, Return>> /\ UNCHANGED reader
       \/ ~reader.failed /\ ReadOne(reader)
       \/ reader.failed /\ script' = RaiseError \o Done /\ UNCHANGED reader
    /\ UNCHANGED <<parser, builded, pob, measured, sent>>

\* Mutant: _onEnd leaves the default operation to the server after raiseError.
ReaderEndRefuses(t) ==
    /\ t.module = "reader" /\ t.event = "ON_END"
    /\ \/ reader.open /\ script' = Done /\ UNCHANGED <<reader, measured>>
       \/ ~reader.open /\ script' = RaiseError \o Refused(t) /\ UNCHANGED <<reader, measured>>
       \/ /\ ~reader.open /\ measured' = TRUE
          /\ \/ script' = <<RaiseEnd, Return>> /\ reader' = [reader EXCEPT !.open = TRUE]
             \/ ReadOne([reader EXCEPT !.open = TRUE])
    /\ UNCHANGED <<parser, builded, pob, sent>>

\* FileReader::_onEnd: the file is open already, missing, empty, or has data.
ReaderEnd(t) ==
    /\ t.module = "reader" /\ t.event = "ON_END"
    /\ \/ reader.open /\ script' = Done /\ UNCHANGED <<reader, measured>>
       \/ ~reader.open /\ script' = RaiseError \o Done /\ UNCHANGED <<reader, measured>>
       \/ /\ ~reader.open /\ measured' = TRUE
          /\ \/ script' = <<RaiseEnd, Return>> /\ reader' = [reader EXCEPT !.open = TRUE]
             \/ ReadOne([reader EXCEPT !.open = TRUE])
    /\ UNCHANGED <<parser, builded, pob, sent>>

ReaderData(t) ==
    /\ t.event \in T!DataEvents
    /\ Runs("reader", t, Refused(t)) /\ SameModules /\ UNCHANGED sent

\* ModError
ErrorEnd(t) ==
    /\ t.event = "ON_END"
    /\ Runs("error", t, <<GiveData(Padding), GiveData(Page), RaiseEnd, Return>>)
    /\ SameModules /\ UNCHANGED sent

\* Mutant: the dropped headers are not released.
ErrorDataLeaks(t) ==
    /\ t.event \in T!DataEvents
    /\ Runs("error", t, Done) /\ SameModules /\ UNCHANGED sent

\* A PreOutputBuilder in front of it gives it the headers: it drops them.
ErrorData(t) ==
    /\ t.event \in T!DataEvents
    /\ Runs("error", t, <<Release(t.buffer), Return>>) /\ SameModules /\ UNCHANGED sent

\* Mutant: a measured response has no headers of its own.
PreOutputDataBare(t) ==
    /\ t.event = "ON_RESPONSE_DATA"
    /\ pob' = [headers |-> TRUE, chunked |-> pob.chunked \/ (~pob.headers /\ ~measured)]
    /\ Runs("pob", t,
            (IF pob.headers \/ measured THEN <<>> ELSE <<GiveData(Headers)>>)
              \o (IF pob'.chunked THEN <<GiveData(ChunkInfo(t.buffer))>> ELSE <<>>)
              \o <<GiveData(t.buffer), Return>>)
    /\ UNCHANGED <<parser, builded, reader, measured, sent>>

\* PreOutputBuilder: the headers before the first data; without Content-Length
\* each buffer is a chunk and the end is one too.
PreOutputData(t) ==
    /\ t.event = "ON_RESPONSE_DATA"
    /\ pob' = [headers |-> TRUE, chunked |-> pob.chunked \/ (~pob.headers /\ ~measured)]
    /\ Runs("pob", t,
            (IF pob.headers THEN <<>> ELSE <<GiveData(Headers)>>)
              \o (IF pob'.chunked THEN <<GiveData(ChunkInfo(t.buffer))>> ELSE <<>>)
              \o <<GiveData(t.buffer), Return>>)
    /\ UNCHANGED <<parser, builded, reader, measured, sent>>

PreOutputEnd(t) ==
    /\ t.event = "ON_END"
    /\ pob' = [pob EXCEPT !.headers = TRUE]
    /\ Runs("pob", t,
            (IF ~pob.headers THEN <<GiveData(Headers)>>
             ELSE IF pob.chunked THEN <<GiveData(Final)>> ELSE <<>>) \o <<RaiseEnd, Return>>)
    /\ UNCHANGED <<parser, builded, reader, measured, sent>>

PreOutputRequestData(t) ==
    /\ t.event = "ON_REQUEST_DATA"
    /\ Runs("pob", t, Refused(t)) /\ SameModules /\ UNCHANGED sent

ProcessRequest(t) ==
    \/ NetworkRead(t) \/ NetworkWrite(t) \/ NetworkEnd(t)
    \/ ParserIncomplete(t) \/ ParserComplete(t) \/ ParserEnd(t)
    \/ BuilderFirst(t) \/ BuilderAgain(t)
    \/ ReaderIdle(t) \/ ReaderEnd(t) \/ ReaderData(t) \/ ErrorEnd(t) \/ ErrorData(t)
    \/ PreOutputData(t) \/ PreOutputEnd(t) \/ PreOutputRequestData(t)

-----------------------------------------------------------------------------
(* The calls of the running module on its request.                          *)

Call == Head(script)[1]
Arg == Head(script)[2]
Calls(name) ==
    /\ caller = "running" /\ script # <<>> /\ Call = name
    /\ script' = Tail(script)
Unrelated == UNCHANGED <<reported, task, parser, builded, reader, pob, measured, arrived, sent, late, told>>

\* The buffers in the tasks and in _write_buffers, which reset releases.
TaskBuffers(s) == {s.tasks[i].buffer : i \in DOMAIN s.tasks} \ {NoBuffer}
WriteBuffers(s) == {s.write_buffers[i] : i \in DOMAIN s.write_buffers}
Releases(bs) == freed' = freed \cup bs /\ live' = live \ bs

\* A buffer given to the last module waits for the socket, any other becomes a
\* task of the next module.
giveData ==
    /\ Calls("giveData")
    /\ rt' = IF Following(Following(current)) = NoModule THEN T!needWrite(rt, Arg)
             ELSE T!addTask(rt, T!ModuleTask(
                    IF isInResponsePart(current) THEN "ON_RESPONSE_DATA" ELSE "ON_REQUEST_DATA",
                    Following(current), Arg))
    /\ Unrelated /\ UNCHANGED <<caller, chain, current, live, freed>>

needWrite ==
    /\ Calls("needWrite")
    /\ rt' = T!needWrite(rt, Arg)
    /\ Unrelated /\ UNCHANGED <<caller, chain, current, live, freed>>

needRead ==
    /\ Calls("needRead")
    /\ rt' = T!needRead(rt)
    /\ Unrelated /\ UNCHANGED <<caller, chain, current, live, freed>>

callLater ==
    /\ Calls("callLater")
    /\ rt' = T!addCallLaterTask(rt, current, reader.delayed)
    /\ Unrelated /\ UNCHANGED <<caller, chain, current, live, freed>>

raiseEnd ==
    /\ Calls("raiseEnd")
    /\ rt' = IF Following(current) = NoModule THEN rt ELSE T!addEndTask(rt, Following(current))
    /\ Unrelated /\ UNCHANGED <<caller, chain, current, live, freed>>

\* raiseError puts the error module into the chain and empties the tasks ("Tasks
\* left !" is RequestTasksProofs!ResetLeavesNoWork), then plans its end.
raiseErrorReset ==
    /\ Calls("reset")
    /\ chain' = setProcessingModule
    /\ rt' = T!reset(rt)
    /\ Releases(TaskBuffers(rt) \cup WriteBuffers(rt))
    /\ Unrelated /\ UNCHANGED <<caller, current>>

raiseErrorEnd ==
    /\ Calls("endError")
    /\ rt' = T!addEndTask(rt, "error")
    /\ Unrelated /\ UNCHANGED <<caller, chain, current, live, freed>>

release ==
    /\ Calls("release")
    /\ Releases({Arg})
    /\ Unrelated /\ UNCHANGED <<rt, caller, chain, current>>

insertAfter ==
    /\ Calls("insertAfter")
    /\ chain' = InsertAfter(Position(current), "reader")
    /\ Unrelated /\ UNCHANGED <<rt, caller, current, live, freed>>

endInput ==
    /\ Calls("endInput")
    /\ rt' = T!addEndTask(rt, "in")
    /\ Unrelated /\ UNCHANGED <<caller, chain, current, live, freed>>

\* Mutant: processTask leaves _current_module set, whatever the event.
returnsBusy ==
    /\ Calls("return")
    /\ current' = current /\ caller' = "polling"
    /\ task' = NoTask
    /\ UNCHANGED <<rt, reported, chain, parser, builded, reader, pob, measured,
                   arrived, live, freed, sent, late, told>>

\* The end of processTask and ModuleTask::run.
returns ==
    /\ Calls("return")
    /\ current' = NoModule /\ caller' = "polling"
    /\ task' = NoTask
    /\ UNCHANGED <<rt, reported, chain, parser, builded, reader, pob, measured,
                   arrived, live, freed, sent, late, told>>

\* An exception: the request has an error, may be polled, and only then the
\* ModuleTask is destroyed and releases its buffer.  _current_module stays.
throws ==
    /\ Calls("throw")
    /\ rt' = T!notifyHasError(rt)
    /\ Unrelated /\ UNCHANGED <<caller, chain, current, live, freed>>

notifyEndTask ==
    /\ Calls("notifyEndTask")
    /\ caller' = "polling" /\ task' = NoTask
    /\ late' = Arg
    /\ UNCHANGED <<rt, reported, chain, current, parser, builded, reader, pob, measured,
                   arrived, live, freed, sent, told>>

ReleaseLate ==
    /\ late # NoBuffer
    /\ Releases({late}) /\ late' = NoBuffer
    /\ UNCHANGED <<rt, caller, reported, task, script, chain, current, parser, builded,
                   reader, pob, measured, arrived, sent, told>>

ApiCall ==
    \/ giveData \/ needWrite \/ needRead \/ callLater \/ raiseEnd
    \/ raiseErrorReset \/ raiseErrorEnd \/ release \/ insertAfter \/ endInput
    \/ returns \/ throws \/ notifyEndTask

-----------------------------------------------------------------------------
(* The task manager, the client and the socket pool.                        *)

Request == <<task, script, chain, current, parser, builded, reader, pob, measured,
             live, freed, sent, late, told>>

Poll(expired, due) ==
    /\ caller = "polling"
    /\ rt' = T!hasWork(rt, expired, due)
    /\ caller' = IF T!HasWorkResult(rt') THEN "dispatching" ELSE "noWork"
    /\ UNCHANGED <<reported, arrived>> /\ UNCHANGED Request

KeepWaiting ==
    /\ caller = "noWork" /\ T!hasPendingEvent(rt)
    /\ caller' = "polling"
    /\ UNCHANGED <<rt, reported, arrived>> /\ UNCHANGED Request

\* Mutant: destroyHandler does not wait for the event being delivered.
DestroyUnderEvent ==
    /\ caller = "noWork" /\ ~T!hasPendingEvent(rt)
    /\ caller' = "ended"
    /\ Releases(TaskBuffers(rt) \cup WriteBuffers(rt)
                  \cup IF parser.completed THEN {} ELSE {parser.buffers[i] : i \in DOMAIN parser.buffers})
    /\ UNCHANGED <<rt, reported, task, script, chain, current, parser, builded, reader,
                   pob, measured, arrived, sent, late, told>>

\* The destructors release what the request still holds (the buffers live after
\* that are those ~SafeBufferManager warns about).  destroyHandler waits
\* for an event that is being delivered (KeepAliveIsQuiet: where it is not called
\* there is none).
Destroy ==
    /\ caller = "noWork" /\ ~T!hasPendingEvent(rt) /\ reported = "NONE"
    /\ caller' = "ended"
    /\ Releases(TaskBuffers(rt) \cup WriteBuffers(rt)
                  \cup IF parser.completed THEN {} ELSE {parser.buffers[i] : i \in DOMAIN parser.buffers})
    /\ UNCHANGED <<rt, reported, task, script, chain, current, parser, builded, reader,
                   pob, measured, arrived, sent, late, told>>

\* Parser makes a buffer of the bytes behind a header, and has none of them to give.
Remainder ==
    IF parser'.completed # parser.completed /\ \A i \in DOMAIN script' : script'[i] # GiveData(RequestBody)
    THEN {Orphan} ELSE {}

\* A worker takes the task and enters its module.
Start ==
    /\ caller = "dispatching"
    /\ caller' = "running"
    /\ rt' = T!getNextTask(rt)
    /\ task' = Head(rt.tasks) /\ current' = task'.module
    /\ ProcessRequest(task')
    /\ \E left \in SUBSET Remainder :
          live' = live \cup ({script'[i][2] : i \in DOMAIN script'} \ (freed \cup {NoBuffer})) \cup left
    /\ told' = IF task'.event = "ON_END" THEN told \cup {current'} ELSE told
    /\ UNCHANGED <<reported, chain, arrived, freed, late>>

ClientSends ==
    /\ caller # "ended" /\ arrived < Pieces
    /\ arrived' = arrived + 1
    /\ UNCHANGED <<rt, caller, reported>> /\ UNCHANGED Request

\* epoll reports a socket with unread bytes as readable.
Report ==
    /\ caller # "ended" /\ rt.registered /\ reported = "NONE"
    /\ reported' \in {"CAN_WRITE", "HAS_ERROR"}
                       \cup (IF arrived > Len(parser.buffers) THEN {"CAN_READ"} ELSE {})
    /\ UNCHANGED <<rt, caller, arrived>> /\ UNCHANGED Request

Deliver ==
    /\ reported # "NONE"
    /\ rt' = T!handleSocketEvent(rt, reported)
    /\ reported' = "NONE"
    /\ UNCHANGED <<caller, arrived>> /\ UNCHANGED Request

Ended == caller = "ended" /\ late = NoBuffer /\ UNCHANGED vars

Next ==
    \/ \E expired, due \in BOOLEAN : Poll(expired, due)
    \/ KeepWaiting \/ Destroy \/ Start \/ ApiCall \/ ReleaseLate
    \/ ClientSends \/ Report \/ Deliver \/ Ended

Spec == Init /\ [][Next]_vars

\* Every thread runs; delays and the 5000 ms of silence pass some time.
Fairness ==
    /\ SF_vars(Poll(TRUE, TRUE))
    /\ WF_vars(KeepWaiting \/ Destroy) /\ WF_vars(Start) /\ WF_vars(ApiCall)
    /\ WF_vars(Deliver)

FairSpec == Spec /\ Fairness

-----------------------------------------------------------------------------
(* Properties.                                                              *)

TypeOK ==
    /\ rt \in T!State
    /\ caller \in T!Callers /\ reported \in T!SocketEvents \cup {"NONE"}
    /\ task \in T!Task \cup {NoTask}
    /\ chain \in Seq(Modules) /\ current \in Modules \cup {NoModule}
    /\ parser \in [buffers : Seq(Buffers), completed : BOOLEAN]
    /\ reader \in [open : BOOLEAN, left : 0..FileSize, failed : BOOLEAN, delayed : BOOLEAN]
    /\ pob \in [headers : BOOLEAN, chunked : BOOLEAN]
    /\ {builded, measured} \subseteq BOOLEAN /\ arrived \in 0..Pieces
    /\ live \cup freed \subseteq Buffers /\ sent \in Seq(Buffers)
    /\ late \in Buffers \cup {NoBuffer} /\ told \subseteq Modules

\* The request uses its RequestTasks only in the ways RequestTasks was checked
\* for: one dispatching thread, calls only while a module runs, no buffer
\* handed over twice.
UsesRequestTasks == T!Spec

\* The places that will use or release buffer b.
Owners(b) ==
    Cardinality({i \in DOMAIN rt.tasks : rt.tasks[i].buffer = b})
      + Cardinality({i \in DOMAIN rt.write_buffers : rt.write_buffers[i] = b})
      + Cardinality({i \in DOMAIN script : script[i][2] = b})
      + (IF ~parser.completed THEN Cardinality({i \in DOMAIN parser.buffers : parser.buffers[i] = b}) ELSE 0)
      + (IF b = late THEN 1 ELSE 0)

\* IBufferManager.hpp:36: a released buffer is not used any more; nobody keeps
\* it to send it or to release it again.
ReleasedIsForgotten == caller # "ended" => \A b \in freed : Owners(b) = 0

\* IRequest.hpp:37-41: a buffer belongs to the module it is given to, and the
\* last one that uses it releases it: while the request lives each buffer has
\* one owner, and when the request is gone nothing is left but the buffer of a
\* ModuleTask that failed.  Two buffers are excepted, that have nobody: the one a
\* failed read() was to fill, and the copy of what follows a header without a
\* body.  Only an error of the file while buffers wait lets reset keep what it
\* released.
OneOwner ==
    /\ live \cap freed = {}
    /\ caller # "ended" => \A b \in live \ {Orphan} : Owners(b) = 1
    /\ reader.failed \/ ReleasedIsForgotten
    /\ caller = "ended" => live \subseteq {late, Orphan}

\* Request.cpp:291-296, "Request chain has been broken": a module is never
\* started before processTask has seen the previous one return.
ChainNotBroken == caller = "dispatching" => current = NoModule

\* raiseError deletes the wrapper of the processing module, perhaps of the
\* module that calls it: nothing is ever told to a deleted module, and a deleted
\* module makes no further call (ModuleList.cpp:94 asserts it is in the chain).
InChain(m) == \E i \in DOMAIN chain : chain[i] = m
OnlyModulesOfTheChain ==
    /\ \A i \in DOMAIN rt.tasks : InChain(rt.tasks[i].module)
    /\ \A t \in {rt.end_task, rt.call_later_task} \ {NoTask} : InChain(t.module)
    /\ script # <<>> /\ Call \in {"giveData", "callLater", "raiseEnd", "insertAfter"}
         => InChain(current)

\* Both: who runs, or is going to be run, is a module of the chain, and runs alone.
ChainIsWhole == ChainNotBroken /\ OnlyModulesOfTheChain

\* Back-pressure (RequestTasks.cpp:141): FileReader may be called before what it
\* read is written, yet no more buffers pile up than the limit and what one
\* handler adds.
BackPressure == Len(rt.write_buffers) <= WriteLimit + 2

\* Both: the buffers of a request have one owner each, and are not too many.
BuffersAreHeld == OneOwner /\ BackPressure

\* The response reaches the socket in order although its buffers are handed over
\* by pushing at the front of the tasks: headers, data in file order, the error
\* page, the final chunk; and the size of a chunk comes just before it.  Only
\* the rest of a buffer that send() took in part may overtake another.
Rank(b) ==
    CASE b[1] = "head" -> 0
      [] b[1] = "data" -> b[2]
      [] b[1] \in {"info", "page"} -> FileSize + 1
      [] b[1] = "final" -> FileSize + 2
Twice(b) == \E i, j \in DOMAIN sent : i # j /\ sent[i] = b /\ sent[j] = b
SentInOrder ==
    (\A i \in DOMAIN sent : ~Twice(sent[i])) =>
    /\ \A i, j \in DOMAIN sent : i < j => Rank(sent[i]) <= Rank(sent[j])
    /\ \A i \in 1..(Len(sent) - 1) : sent[i][1] = "info" => ChunkInfo(sent[i + 1]) = sent[i]
    /\ \A i \in DOMAIN sent : sent[i][1] \in {"data", "info", "final"} => sent[1] = Headers

\* A request that ends without an error of its socket, so that the task manager
\* keeps the connection for the next one, has sent all of its response: every
\* buffer made for its body went through send(), and ON_END reached the output
\* module behind them.
BodyKinds == {"data", "info", "page", "final"}
CleanEndIsComplete ==
    caller = "ended" /\ ~rt.has_error /\ ~reader.failed =>
        /\ "out" \in told
        /\ \A b \in live \cup freed : b[1] \in BodyKinds => \E i \in DOMAIN sent : sent[i] = b

\* RequestManager.hpp:113: a request that leaves its connection to the next one is
\* destroyed without destroyHandler, that is, without waiting for the pool; no
\* event may then be on its way to it.  (The error page closes the connection.)
KeepAliveIsQuiet ==
    caller = "noWork" /\ ~T!hasPendingEvent(rt) /\ ~rt.has_error /\ ~InChain("error")
        => reported = "NONE"

\* Both: a connection passes to the next request when all of the response is out
\* and no event of the old request is on its way.
KeptConnectionIsClean == CleanEndIsComplete /\ KeepAliveIsQuiet

\* The end travels down the chain once: no module is told ON_END twice, though
\* the parser, a refused buffer and an error all plan one.
EndOnce == [][Start /\ task'.event = "ON_END" => task'.module \notin told]_vars

\* A module that was told ON_END gets no data, no request to read and none to
\* write: only FileReader, which asks for it, is called again.
NothingAfterEnd ==
    [][Start /\ task'.module \in told => task'.module = "reader" /\ task'.event = "ON_IDLE"]_vars

\* Both: the end is told once, and ends what the module is told.
EndIsToldOnce == EndOnce /\ NothingAfterEnd

\* constants.hpp:48-49: ON_END is the last event a module receives.
EndIsLastEvent == [][Start => task'.module \notin told]_vars

\* IRequest.hpp:44-47: when a module raises an error the server puts the default
\* message in place of the response.
ErrorIsTold ==
    caller = "ended" /\ ~rt.has_error /\ InChain("error") => "error" \in told

\* IRequest.hpp:128, "the return code of the HTTP response": a response begins
\* with the status line and the headers.
HeadersComeFirst == sent # <<>> => sent[1] = Headers

\* Only an error that Builder raises, which finds no processing module to
\* replace, is answered behind the module that writes the headers.
OnlyBuilderErrorsLackHeaders ==
    sent # <<>> /\ sent[1] # Headers => \E i \in DOMAIN chain : chain[i] = "error" /\ chain[i - 1] = "pob"

\* Both: the client gets the response from its first byte on, in order.
ResponseInOrder == SentInOrder /\ OnlyBuilderErrorsLackHeaders

\* A request never stays in the task manager for ever: whatever its client and
\* its socket do, it ends.
Ends == <>(caller = "ended")
=============================================================================
