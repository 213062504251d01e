# A verification project for zhttpd

zhttpd is a multi-threaded HTTP server in C++. This directory holds TLA+
models of its core, the TLC runs that check them on small instances, and TLAPS
proofs of the results that matter most. Every definition was written from the
sources under `src/`; `PROJECT.json` maps each to the lines it stands for, lists
the hazards of the code with the properties that watch them, the mutants that
show each property can fail, and the places where code and documentation
disagree.

Contents: 1 the system, 2 its components, 3 modules and their correspondence to
the code, 4 runs, 5 proofs, 6 disagreements found, 7 what is not modelled,
8 plan.

## 1. The system

### Threads

| Thread | Code | What it does |
|---|---|---|
| main | `server/core/Server.cpp` | starts the others, waits for Rcon to end, takes the server down in a fixed order |
| Rcon | `server/core/Rcon.cpp` | remote console on port 10500; `stop` sets `ServerState` to STOPPED, `reload` loads the configuration again |
| listeners | `server/core/Listener.cpp` | one per port: `accept`, a `Session` and a `Request` for each connection |
| task manager | `server/core/TaskManager.cpp` | polls every request: gives work, hands kept connections over, deletes finished requests |
| socket pool | `server/socket/SocketPool.hpp`, `EpollSelector.cpp` | `epoll_wait` (level-triggered IN, OUT, RDHUP) and the callbacks to requests |
| workers | `server/thread/ThreadPool.cpp` | run `ModuleTask`s: one event of one module of one request |

### A request

A connection gives a `Session`, a `Request` and its `RequestTasks`. The request
holds a chain of modules, for a file: Network (in) - Parser - Builder -
FileReader - PreOutputBuilder - Network (out). The bytes read enter at the
head; each module answers an event with calls on the request (`giveData`,
`raiseEnd`, `raiseError`, `callLater`, `needRead`, `needWrite`), which become
tasks for the next module. RequestTasks turns its queues, the state of its
socket and two timers into at most one task when the task manager asks
(`hasWork`). The task manager marks the request queued and queues the task; the
worker lowers the mark when the module has returned. When a request has no work
and waits for nothing it is deleted, and its connection, unless somebody wants
it closed, goes to a new request.

### Shared state and locks

* `RequestTasks::_mutex` guards the bookkeeping of a request: task manager,
  worker and socket pool take it.
* `SocketPool::_events_mutex` guards registration and destruction, but not
  `unregisterHandler`. `SocketEvent::_process_mutex` is held while a request is
  called back, `SocketEvent::_mutex` around the fields of one event.
* `TaskManager::_pending_add_requests_mutex` guards the set the listeners add
  to. The sets `_requests` and `_pending_del_requests` belong to the task
  manager's thread.
* `ThreadPool::_pending_tasks_mutex` guards the queue; the condition variable
  has a mutex of its own.
* `Request::_queued` and `ServerState::_state` are plain volatile fields.

Orders in which locks nest: socket pool: `_process_mutex`, `RequestTasks::_mutex`,
`SocketEvent::_mutex`; worker and task manager: `RequestTasks::_mutex`,
`_events_mutex`, `SocketEvent::_mutex`; task manager in `endRequest`:
`_events_mutex`, `_process_mutex`. The three form a cycle, which is why the runs
of SocketPool check for deadlock.

`CMakeLists.txt` forces the Debug build, so assertions and the `ZHTTPD_DEBUG`
code are part of the program.

## 2. Components

For each: its state, its operations, what is hard, and what makes it correct.

**RequestTasks** (`server/core/RequestTasks`). State: the list of tasks, tasks
to be called later, buffers to write, the end task, the waits for reading and
writing, the socket's readiness, registration, error. Operations: `addTask`,
`addEndTask`, `addCallLaterTask`, `hasWork`, `getNextTask`, `hasPendingEvent`,
`needRead`, `needWrite`, `handleSocketEvent`, `notifyHasError`, `reset`. Hard:
three threads in any order; the order of data and end; a limit of ten buffers.
Correct when: it is registered exactly while it waits for something the socket
has not reported; the end comes last and once; a write that is awaited has a
buffer; an error is told.

**Request, ModuleList, ModuleTask and the modules of a file request.** State:
the chain, the current module, the buffers each module holds, headers sent,
the file. Hard: an event's calls interleave with socket events; an exception or
error replaces the chain half way; modules keep buffers across events. Correct
when: a buffer has one owner; only modules of the current chain run; the
response leaves in order and complete; every request ends.

**ThreadPool and ThreadCondition.** State: the queue, the workers, `_running`,
the condition variable. Hard: broadcasts that find nobody waiting, destruction
with workers at work. Correct when: each task runs at most once, in the order of
the queue; queued tasks are run; nothing runs after the destructor.

**SocketPool, SocketEvent, EpollSelector.** State: one event per descriptor
(handler, enabled flag, pending flags, two mutexes), the epoll set, `_nfds`.
Hard: callbacks race registration, destruction and the reuse of a descriptor by
the next connection. Correct when: an enabled handler is in the epoll set;
`_nfds` is the size of that set; the handler that is called is alive; a request
that waits for data is told of it.

**TaskManager, RequestManager, SessionManager, BufferManagerStack, Listener,
shutdown.** State: the three sets of requests, the buffer managers that are
free, the connections. Hard: `_queued` without a lock; creation, hand-over and
deletion across three threads; failure of `accept`; the fixed order of the
shutdown. Correct when: a request has one task at a time and none when it is
deleted; a buffer manager serves one running request; a connection has one
owner and is closed once; finished requests are deleted and `stop` ends.

**Buffer, BufferAllocator.** State: the array, offset and size of each buffer,
the recycled blocks. Hard: the size decides which of two ways memory was
allocated. Correct when: the size still tells it after every resize; no array
has two owners; a partial write leaves the remainder.

**Server, ListenerContainer, Rcon, Singleton.** State: the configuration's
ports, one listener per port with its thread and its flags `_is_running` and
`_stopped`, the console, the instances of the singletons. Operations: load,
reload, stop, SIGINT, the accept loops, `getInstance`. Hard: a reload against
`Listener::run` and against connections that are being accepted; `getInstance`
without a lock. Correct when: the listeners are those of the configuration, one
that both configurations have is kept, no singleton is deleted under a thread,
stop and reload end.

**Configuration in use, SmartPtr, ModuleConfiguration.** State: the current
configuration and its count, the map from names to module configurations, the
managers. Hard: a reload while requests have the old one; the test of `_loaded`
has no lock. Correct when: a configuration lives as long as its requests and no
longer; a request gets a manager with its options.

**Configuration tree and its parser.** State: virtual hosts, module elements,
what is deleted. Hard: inheritance depends on the order of the file. Correct
when: a module has the options the file says; a request finds its virtual host;
all is deleted once.

**MemoryPool, LockedAllocator, SafeAllocator, AbstractManager.** Objects taken
and given back under a lock. Hard: a block is free before its destructor ran.
Correct when: an object has one user and its memory is given back once.

**Parser.** The bytes of a connection, cut anywhere, to the method, query,
headers and body of a request. Correct when: the header ends where the client
ended it and says what the client said; the end of the body is raised when the
body is whole; buffers are released once.

**FileReader's byte ranges.** Correct when: what is announced is what is given.

**BasicSocketSelector.** The selector where there is no epoll: a copy of the
list of descriptors, `select`, a pair of sockets that wakes it. Correct when: no
registration is slept through.

**CGI.** One child and two pipes per request. Hard: children inherit each
other's pipes; `waitpid` by two threads; a pipe that is full. Correct when: the
answer is all of the output; nobody waits for a child for ever.

**SSL.** One SSL object for the two ends of a request, in a map by descriptor.
Correct when: both ends have the same one, it is freed once.

**Barbaz.** Accounts and sessions in SQLite, no transactions. Correct when: what
a client was told is in the tables.

**PostData.** The fields of a form from the buffers of a body. Correct when: the
fields are those of the form and reading it ends.

What is not modelled is in section 7.

## 3. Modules

| Module | Models | Kind |
|---|---|---|
| `RequestTasks` | one RequestTasks under its three callers | component |
| `RequestTasksProofs` | theorems about it | proofs |
| `WorkQueue` | what a pool of workers promises | abstract specification |
| `ThreadPool` | ThreadPool, ThreadCondition | component, refines WorkQueue |
| `RequestChain` | Request, ModuleList, the modules of a file request, with RequestTasks inside | composition |
| `RequestChainProofs` | theorems about it: types, the chain, its RequestTasks; the way of the end | proofs |
| `RequestAnswerProofs` | theorems about it: the end, the buffers, the order of the answer | proofs |
| `SocketPool` | SocketPool, SocketEvent, EpollSelector and its callers | component |
| `SocketPoolProofs` | theorems about it | proofs |
| `TaskManager` | life of requests, connections and buffer managers; listener; shutdown | component |
| `TaskManagerProofs` | theorems about TaskManager and CgiProcess | proofs |
| `ServerControl` | Server, ListenerContainer, Listener, Rcon, Singleton: start, reload, stop | component |
| `ServerControlProofs` | theorems about it | proofs |
| `Buffer` | Buffer, BufferAllocator | component |
| `ObjectPool` | MemoryPool, LockedAllocator, SafeAllocator, AbstractManager | component |
| `HeaderParser` | Parser: bytes to header | component |
| `FileRange` | FileReader: byte ranges | component |
| `ConfigurationTree` | Parser of the configuration, Configuration, VHost: the tree | component |
| `ConfigurationUse` | ConfigurationManager, SmartPtr, ModuleConfiguration: who has what | component |
| `ConfigurationUseProofs` | theorems about it | proofs |
| `SelectSelector` | BasicSocketSelector | component |
| `SslSessions` | modules/ssl | component |
| `UserStore` | modules/barbaz: Users, Login, Subscribe, Cursor | component |
| `CgiProcess` | modules/cgi: CGI, UnixProcess, and the children | component |
| `PostData` | PostData, AbstractProcessingModule | component |
| `MCParts` | Buffer, ObjectPool, HeaderParser, FileRange, ConfigurationTree, ConfigurationUse, SelectSelector, SslSessions, UserStore, ThreadPool in one run | model checking |
| `PartsProofs` | theorems about Buffer, SelectSelector, ObjectPool, SslSessions, UserStore, FileRange, ThreadPool, and the run they are part of | proofs |
| `Ends` | TaskManager, CgiProcess, PostData under fairness in one run | composition |
| `MCEnds` | values of its constants: the requests of CgiProcess and what their children write | model checking |
| `MCRequestTasks`, `MCSocketPool`, `MCTaskManager` | values of constants and a symmetry set | model checking |

**MCParts and Ends.** Components that never call one another are checked
together: the variable `part` is chosen in the initial state, a behaviour is one
of the part chosen, and the variables of the others keep their initial values.
The states of the run are then the sum of the parts' states, not their product,
and no behaviour of a part is added or lost. Each part has its own `Init`,
actions and properties in its own module; the host only lists the actions, and
restates each part's property under one name. `PartsAssumption` says what the
names and numbers the run shares must be (finite sets of threads, at least one of
them, names that are apart, descriptors and sizes that are numbers); the theorem
`PartsRunAlone` says that a behaviour of the host is a behaviour of each part, so
that a theorem about a part is one about the run. In Ends fairness is stated per
part, so that it asks of a behaviour only what its own part's threads do;
`EndsAssumption` says of the requests and children of CgiProcess what
PartsAssumption says of the others.

**Properties are conjunctions of named parts.** A run's property such as
`OwnedOnce` is `ManagerAlone /\ SocketsOwnedOnce`; each part has its own
definition and comment in the module.

### RequestTasks

The object is a record (`State`) and every method an operator from record to
record with the method's name, because each method holds `_mutex` from its
first to its last statement. `hasWork` composes its branches in the order
of the code. The two timers (the time-out of a silent client and the
delay of a call-later task) are the choices `expired` and `due`. The specification adds
the callers: `caller` says whether the task manager polls, dispatches the
task it was given, or a module of the request runs and may make calls;
`reported` is the socket event the pool is about to deliver, because the pool
looks whether a request is registered before it takes the request's mutex.

### ThreadPool and WorkQueue

Each worker has a program counter; a step is one critical section, one access
to the flag or one call on the condition variable. `wait` of ThreadConditionUnix
tests its condition outside the condition variable's mutex, so the test and the
`pthread_cond_wait` are two steps, and a broadcast between them is lost. One
client queues tasks and destroys the pool. `WorkQueue` is what that client may
rely on: work is numbered as it is queued, started in that order by at most
`Capacity` threads, finished in any order, and the pool is destroyed only when
nothing is in progress. In ThreadPool, `Taken` (queued less pending) is what
was started, `done` what was finished, and the pool is open until the
destructor has returned.

### RequestChain

A worker's call of `processRequest` sets a `script`, the calls the module will
make on its request; each call is a step, since socket events come between
them. What a module decides from data (is the header complete, does the
virtual host exist, has the file ended) is a choice; which calls follow is the
code's. Buffers are pairs of a kind and a number, so that `sent`, the buffers
handed to `send`, shows the order. RequestTasks' operators are used unchanged
through INSTANCE, and the property `UsesRequestTasks` states that every step of
the chain is a step of the RequestTasks specification: the theorems about it
hold inside the chain. Parser copies what follows the header in its last buffer
into a new one; when the header announces no body that buffer is neither given
nor released. `Remainder` is this buffer, which nobody knows (`Orphan`).

### SocketPool

The actors are the user of each descriptor (the worker or the task manager that
works for its current request: it registers, unregisters, hands the connection
to the next request, or destroys the handler, frees the request and closes the
descriptor, which a new connection may then get), the pool's thread
(`epoll_wait` copies the ready descriptors, then per event `notify`, `trigger`
and the call of the handler) and the clients, who send bytes, take bytes or
break the connection. `_events_mutex`, each
`_process_mutex` and each `RequestTasks::_mutex` are variables that are taken and
given back; each nested acquisition is a step of its own. Requests on one descriptor are numbered,
up to `Generations`. `trigger` calls `handleSocketEvent` of
the handler, which takes the request's mutex; a call to a request that is
released would be the use of freed memory `CalledIsAlive` excludes.
`server` is ServerState and the shutdown: after `Stop` the pool leaves its loop,
at the latest when the batch at hand is done (`PoolLeaves`, `BatchDone`), and
after `LastTurnDone`, when listeners and task manager have been joined,
~TaskManager destroys the requests that are left (`EndsRequest`), waiting or not,
with nothing that keeps the pool from being in `unregisterHandler` for the same
descriptor (`PoolUnregister`, `PoolDisable`).

### TaskManager

RequestTasks is reduced to a status: it waits, has work, is done, or is in
error; RequestChain has the detail. A poll of one request is split where the
code gives up a lock or reads a plain field: `Poll` (isQueued and hasWork),
`SetQueued`, `QueueTask`, `HasPendingEvent`, `HandOver` or `GiveUp`. Deletion
is two steps, the return of the buffer manager and the release. The listener is
`ListenLoop`, `Accept`, `ListenCheck`, `HandleNewSession` and `AcceptThrows`,
with its local variable `new_connection`. `main` follows `Server::run`: stop,
join, wait for tasks, end the requests, join the pool. An assertion that fails,
a socket deleted twice and a request used after its deletion set `failed`.

### Buffer

An array is a number with the size it was allocated for; a block has
`BLOCK_SIZE`. A buffer has an array, offset, size, and in addition the length
of the data it was given (`given`), which is what its size ought to tell. Operations: allocate, fill, cut (Network after a short read, Parser at the
end of the header), enlarge, write wholly or in part, release.

### ServerControl

main, the console's thread and one thread per port, each with a place; `load`
is the one procedure `_loadListeners` that main or the console runs, a step for
each port it opens, closes or stops. A configuration is the set of its ports.
`Listener::run` raises `_is_running` and `stop` lowers it in steps of their own.
`get` is the place of each thread in `Singleton::getInstance`, in which each
thread that makes an instance assigns its own (`single` has the last one assigned
and how many there were). `addListenPort` stores the name of a port's io-module
unchecked, and `getInputOutputModuleManager` throws where the configuration has no
such module or no manager for it: `GetConfiguration` chooses whether it does
(`described`), anew for each connection, which allows more than a configuration
that does not change. Outcomes an assertion or an exception ends the program with
are values of `failed`.

### ConfigurationTree, ConfigurationUse

The tree is what one thread makes of one file in document order; the use is
what several requests and a reload do with configurations that are there. The
tree's options are the numbers of the elements that set them, so that
inheritance can be compared with what the file says (`Says`). A module that the
file does not name is disabled, but for mod_error, which `Configuration.cpp:68`
enables: `name` says which of the two the run is about, and `RaiseError` is the
request that looks for mod_error in the configuration itself. In the use every
access to the map of module configurations, to `_loaded` and to `_manager` is a
step, as is each half of SmartPtr's copy; a request ends where Builder would look
for its module, or after it was served.

### HeaderParser, FileRange, PostData

Pure computations with a cut input. The message is what the client means, its
bytes are cut anywhere, and the properties compare the result with a reference
definition made from the message as a whole (`HeaderBytes` and `LastValue`; the
bytes of the range; `Fields`). FileRange reduces the width of the integers to
`Limit` values, with the wrap-around the code has.

### ObjectPool, SslSessions, UserStore, SelectSelector, CgiProcess

Threads at places, one lock or none. UserStore's environment is SQLite: a
statement is atomic and may find the database busy. In SslSessions `getInstance`
is called twice for a request, for its input and its output module, and each call
tests the context. In SelectSelector `select` returns, is interrupted by a signal,
or fails, and is called again. CgiProcess's environment are the
children: they read, write, exit, are killed, cannot be executed; the set of
holders of each pipe end is explicit, because a fork copies all of them.

## 4. Runs

Symmetry is used where names are interchangeable and the run has no liveness
property: buffers in `RequestTasks.cfg`, requests, connections and workers in
`TaskManager.cfg`. Deadlock is checked in every run: a system that has stopped
for good has an explicit stuttering step (`Ended`, `Quiet`, `Over`), and anything else that cannot
move is an error.

| Run | Checks (and the named parts) | Shows |
|---|---|---|
| RequestTasks | TypeOK; WaitsAreKept (RegisteredIffWanted, AwaitedWriteHasBuffer); WritesComeFirst (EndComesLast, WriteWaitKept) | the bookkeeping under every order of the callers' calls, with buffers below, at and above the limit |
| ThreadPool | ActiveWorkerDrains | three workers, lost and spurious wake-ups, destruction at any time; a worker that is awake empties the queue before it sleeps |
| ThreadPoolLostWakeup | QueuedTasksAreRun (violated) | a lost broadcast leaves a task queued |
| RequestChain | TypeOK; BuffersAreHeld (OneOwner, BackPressure); ChainIsWhole (ChainNotBroken, OnlyModulesOfTheChain); ResponseInOrder (SentInOrder, OnlyBuilderErrorsLackHeaders); KeptConnectionIsClean (CleanEndIsComplete, KeepAliveIsQuiet); EndIsToldOnce (EndOnce, NothingAfterEnd); UsesRequestTasks; Ends | a file request from its first byte to its destruction, with a missing host, a missing or empty file, read errors, partial writes, delayed ends, socket errors and time-outs anywhere; every request ends |
| RequestChainReadError | ErrorIsTold (violated) | a file that fails while buffers wait: no error page |
| SocketPool | TypeOK; WatchedIsCounted (RegisteredIsWatched, CountIsExact); CalledIsAlive; ToldOfData | one descriptor used by three requests in turn against the pool's thread, and the shutdown at any time; no cycle of locks; a waiting request is told of its client's bytes |
| SocketPoolStaleEvent | ReadDoesNotBlock (violated) | a pending flag outlives its request |
| TaskManager | TypeOK; TasksAreAlone (OneTaskAtATime, AssertionOnlyAfterGivingUp); OwnedOnce (ManagerAlone, SocketsOwnedOnce); SetsHoldTheLiving | three requests on two connections, two workers, the listener, keep-alive and shutdown |
| ServerControl | TypeOK; InstancesLast (InstancesOutliveUsers, InstanceIsFinal); ListenersLast (ListenersFollowConfig, SilentOnlyAfterFailure, ReloadKeepsListeners, RefusedOnlyWhileClosing); ControlEnds (StopEnds, ReloadEnds) | two ports, a load and a reload with any ports that may fail to open and may lack their module, console, SIGINT, kept connections |
| Parts | MemoryIsSound (TypeOK, OneOwner, SizeTellsMemory, FreeIsKnown); ObjectsAreKept (ObjectsHaveOneUser, UsedIsBuilt, PoolIsLocked, AllGivenBack); RangeIsAnswered (AnnouncedIsGiven, RangeIsKept, CutFileIsFilled); SslIsKept (ModulesShareSsl, EntryIsKept, SslCount, ContextIsComplete); ConfigurationIsKept (ConfigurationOutlivesRequest, ReplacedIsDeleted, ManagerIsReady, LoadedIsConfigured, PathIsStaleOnlyAfterReload); SelectorIsAwake (RegisteredIsSeen, BlocksInSelect); AccountsAreKept (RegisteredIsComplete, AnsweredHashIsStored, OneSession); TreeIsTheFile (OptionsAreInherited, MatchIsFirst, DeletedOnce); HeaderIsSeen (HeaderIsRead, EndIsTrue, ReleasedOnce); WorkIsHandedOut (TypeOK, EachTaskOnce, DestroyedIsQuiet); ImplementsWorkQueue | the ten parts of MCParts, each with its invariants, and the pool a refinement of WorkQueue |
| BufferPartialWrite | RemainderKept (violated) | the size after a partial write |
| Ends | CgiAnswerIsWhole (EndIsEndOfOutput, GivenIsBody); TasksEnd (RequestsEnd, StopEnds); CgiEnds (ExitEndsRequest, DestructorEnds, WriteEnds); FormIsSeen (FormIsRead, PrepareEnds) | failed and finished requests are deleted, stop ends; a CGI answer is whole and its request ends; a form is read |

Where the code has an exception to what one would wish, the property names it,
and so says that there is no other: `OnlyBuilderErrorsLackHeaders`,
`AssertionOnlyAfterGivingUp`, `SilentOnlyAfterFailure`, `PathIsStaleOnlyAfterReload`,
"unless the database was busy" (SQLite's refusals in a destructor), "unless a
child of another request has its pipe", "but a file of one byte", "unless a key
has no =", "two buffers that have nobody", "where the configuration does not have
the module that it names for the port", "only when ~TaskManager destroys
requests". Those exceptions are behaviours of the code worth a look; section 6
lists them.

### Bounds and why they are enough

* RequestTasks: WriteLimit stands for ten; with a limit of one and three
  buffers, the cases below, at and above it all occur. Two tasks (TaskBound)
  show every overtaking.
* ThreadPool: a lost wake-up needs two workers and one task, the mutual order of
  takes two tasks; a third worker adds one that sleeps.
* RequestChain: a header in two pieces, complete with the first or with the
  second, and a limit of two, so that none is too long (one that is releases its
  buffers twice, section 6, and BuffersAreHeld would be false; HeaderParser has
  it); a file of four buffers with a write limit of one, so that FileReader is
  ahead of the socket; read errors, partial writes and delayed ends are all on. After a
  partial write the remainder goes behind the buffers that wait, so `SentInOrder`
  asks nothing of a response of which a buffer was sent twice.
* SocketPool: three generations let a flag survive one request and hit the next
  while a third is made. The cycle of locks of section 1 lies within one
  descriptor (its process mutex, its request's mutex and the pool's
  `_events_mutex`), so one is enough to close it; a run with two descriptors,
  one request each, found nothing more. A stop may come at any point, so that each
  of the three requests may be the one that is left at the shutdown.
* TaskManager: two connections, one of them kept for a third request; two
  workers, so that two tasks overlap. `Attempts` is 10 in the code and 0 in the
  runs: it counts rounds of waiting that change nothing else. The proofs hold
  for any.
* ServerControl: a second port shows that one listener's trouble leaves the other
  alone; one reload after the first load adds, removes and keeps ports. Makers = 2:
  two threads at once in getInstance are enough for the assertion; the proofs hold
  for any number.
* Buffer: BLOCK_SIZE 2 with sizes 1 to 4 has a size below, at and above a block;
  offsets go to 3.
* ObjectPool: three threads, three objects: one reused, one fresh, one that is
  out when the pool goes.
* HeaderParser: messages of up to two header lines, a limit of 15 bytes that the
  longer of them exceed, three pieces, so that the empty line is cut at each of
  its bytes.
* FileRange: files of up to 9 bytes with a chunk of 2 and 8 values of an integer,
  so that the size itself overflows.
* ConfigurationTree: three virtual hosts (one in the other and side by side),
  three elements, one option, and a name with each default. ConfigurationUse: two requests, three
  configurations, so that a request can be two reloads behind.
* SelectSelector: three descriptors of which one is too large for `select`, two
  bytes in the pair of sockets.
* SslSessions, UserStore: three connections or clients, two descriptors and two
  addresses, so that both are used again.
* CgiProcess: one request whose answer has headers and a body and whose request
  has one, or two requests at a time with nothing to say, which is enough for a
  child to inherit its neighbour's pipes. A pipe of two units, so that it fills.
* PostData: two buffers, five bytes.
* Ends takes of TaskManager two requests, one connection and two workers.

### Fairness

Weak fairness of each thread's steps: threads are scheduled, and modules return.
In SocketPool the steps that take a mutex several threads contend for
(`RegisterObject`, `DestroyEvent`) are strongly fair: a thread that asks for a
pthread mutex again and again gets it at last. In RequestChain the task manager
polls for ever, and strong fairness of the poll that finds both timers run out
says that time passes: a client that stays silent times out, a delayed call
comes due. Nothing is assumed of the clients, of the sockets' readiness or of
the operator: they may never do anything. In TaskManager `Accept` is fair only
for the connection `stop()` itself makes.

ServerControl: weak fairness of the loading procedure, main, the console's
thread, the task manager's end and each listener's thread; none of clients, of
SIGINT or of who commands the console. Ends: the fairness of TaskManager; of
each CGI request the worker, the destructor and the child (a child that is
alive goes on, but need not ever read its input); of a form its `prepare`.

## 5. Proofs

TLAPS proves the following for all values of the constants that satisfy the
modules' named assumptions (finite or disjoint sets of names, limits that are
natural numbers).

* `RequestTasksProofs`: `TypeCorrect` (TypeOK); `Registration`
  (RegisteredIffWanted: in the pool exactly while a wait is unanswered and no
  error has come); `WriteAssertion` (AwaitedWriteHasBuffer: the assertion of
  `hasWork` cannot fail); `ResetLeavesNoWork` (a lemma on the operators: `hasWork`
  finds nothing after `reset`). The inductive invariant `IndInv` is TypeOK,
  `Consistent` (the two properties as one predicate on the record) and
  `DispatchInv`: between `hasWork` and `getNextTask` the list of tasks is not
  empty, without which the task handed out would have no type. Each method has
  a lemma that says it keeps `Consistent`, by cases of its branches; the step
  is split over the actions and cites them.
  `EndLast` (EndComesLast) and `WaitKept` (WriteWaitKept) are action
  properties. EndLast needs a second invariant, `EndInv`: outside
  the interval between `hasWork` and `getNextTask` no queued or planned task is
  ON_END, and inside it a queued ON_END is alone with nothing left to write.
  One lemma per method says that it queues no ON_END, one (`DispatchEndAlone`)
  what the only method that does leaves behind. WaitKept follows each branch of
  `hasWork` from the first invariant alone.
* `RequestChainProofs`: `ChainInductive` (ChainInv), and from it
  `ChainTypeCorrect` (TypeOK), `ChainStaysWhole` (ChainIsWhole: no module is
  skipped or called twice for a buffer, and only modules of the chain are
  called), `KeepAliveStaysQuiet` (KeepAliveIsQuiet), `ChainUsesItsTasks`
  (UsesRequestTasks), `RequestKeepsItsWaits` (WaitsAreKept of RequestTasks, as a
  property of the whole request) and `RequestEndsLast` (EndComesLast). They hold
  for any files, any number of pieces of a header and any limits. `ChainInv` is
  the conjunction of TypeOK and five predicates. `Bookkeeping`: what the two
  invariants of RequestTasks say of the record `rt`. `Shape`: which tasks may
  wait in the queue, in which order, for which handler; a fresh request has one
  kind of task, and a buffer that is handed on stands where its next module is
  expected. `Running`: which calls the script of the handler may still make, by
  the handler and by what it has already done. `Parsing` and `Answering`: where
  the header parser, FileReader and Builder stand, seen from what they have put
  into the queue. Without `Running` a call of the script could be one its
  handler never makes, and the queue would lose its shape; without `Shape` a
  handler could start in a state its code does not expect. Each call of the
  script has a lemma for each of the predicates it touches, and each action a
  lemma that joins them. The refinement follows from `Room` and `FreeBuffers`:
  the queue has room for what a call adds, and the buffers it adds are not in
  use, which are the guards of RequestTasks. `NullAssumption` (no module is
  called by the name that stands for none) is the one condition on the
  constants that the proofs added.
* `RequestAnswerProofs`, above `ChainInv`: `EndStaysAhead` (EndPasses) and from it
  `EndIsToldAtMostOnce` (EndIsToldOnce, an action property); `BuffersStayFew`
  (BackPressure); `BuffersHaveOneOwner` (BuffersAreHeld); `CleanEndHasAnswered`
  (KeptConnectionIsClean); `ResponseStaysInOrder` (ResponseInOrder), for any size of the file and any write limit.
  EndPasses and the lemmas about the steps that hand no task out are at the end of
  `RequestChainProofs`.
  *The end.* EndIsToldOnce speaks of one step; `EndPasses` says why no step breaks
  it. The end goes down the chain ahead of everything else: a task, a call of the
  running module or a write that is still to come is of a module below those that
  were told (`Below`, the order of the chain with the error module, which comes in
  by its own way), but for the idle calls of FileReader, and as long as those come
  the end has not gone past FileReader and none is planned. What may start the
  chain anew has to be gone before the end: the header's pieces and the body.
  *Back-pressure.* `WritersRoom` adds what waits and what the calls of the running
  module may still hand to the socket; FileReader is called only when what waits
  is within the limit.
  *Owners.* A buffer can be in the tasks of RequestTasks or its buffers to write,
  with Parser, with the running module and its next calls, or with a task that
  failed. OneOwner counts these places, and is not inductive: nothing in it says
  that two places do not come to have one buffer. `Ledger` does, as sets: the places are
  disjoint (`Apart`), what is live is in one of them, or is the `Orphan`, which nobody
  knows, and what is in one is live (`Alive`),
  and each buffer a module may still make is not there yet (`Fresh`: by kind, from how
  far Parser, FileReader and the end have come). The one exception, `Stuck`, is the
  file that fails while buffers wait for the socket; `ResetIsClean` says that no other
  error finds any. `Unbuilt`: before Builder has run nothing has passed it, so that
  the headers are made once. `EndPasses` is needed here, too: the end makes a
  module hand on what it keeps or make its last buffers, and a second one would do
  so twice. `Gone` is what is left after the request.
  *A clean end.* CleanEndIsComplete speaks of the last state only. `NothingIsLost` says
  of every state without an error what leads there: something that will bring the end
  is still due (a read, an idle call, a planned end, the body of the request) or the
  end came to the output module; each buffer of the body that was made was sent or is
  on its way; what waits for the socket is waited for; and hasWork leaves a request
  idle only with nothing to do but that. `Raising` is about the one way back: a module
  that raises an error ends the request anew, and has nothing of a body behind it
  unless the file failed. `Ledger` says which buffers there are, `ResetIsClean` that
  reset loses none of them, `EndPasses` that the end which was told was the last of it.
  *The order of the answer.* ResponseInOrder speaks of what was sent; `Orderly` of all
  that will be. `Lined`: what waits for the socket is in the order of the response and
  behind what was sent, but for the rest of a buffer that send() took in part, which
  goes to the back of the queue; this is why the first half of the property is about
  responses of which no buffer is sent twice. `Supplied`: what the modules
  have still to hand on comes behind all that waits, what goes through PreOutputBuilder
  behind what PreOutputBuilder gives itself, and of that there is one kind at a time,
  so that no handler can overtake another. `Chunked`
  follows a size line with its chunk from the calls of the handler into the queue and
  to the socket; the one interval in which the size line waits alone is before the
  handler's next call. `Headed`: nothing is sent before PreOutputBuilder has made the
  headers, and then they come first; only when Builder has raised the error is the
  error module behind PreOutputBuilder, and then nothing but its page is sent. `Ledger`
  says that a buffer is in one of these places only, `Unbuilt` that Builder answers once.
  All but BuffersStayFew assume `HeaderFits` (`Pieces <= HeaderLimit + 1`, the
  header is complete before Parser refuses it as too long). A longer one makes
  Parser release its buffers twice (`Parser.cpp:187`, section 6), and OneOwner
  is then false; it is the one assumption on the constants.
* `PartsProofs`: what the run Parts checks of seven of its parts and of
  ConfigurationUse, as properties of the run itself, for all constants that
  satisfy `PartsAssumption`. `PartsRunAlone` shows that each step of the host is a
  step of one part, or changes nothing of it; each part has an inductive
  invariant of its own.
  *Buffer* (`BufferInv`): `ArraysHaveOneOwner` (OneOwner), `SizesTellMemory`
  (SizeTellsMemory), `FreeBlocksAreKnown` (FreeIsKnown), joined in
  `MemoryStaysSound`, for any number of buffers, any BLOCK_SIZE, any sizes. The
  invariant adds that a live buffer has an array (`LiveHaveArrays`) and that a
  recycled block has BLOCK_SIZE (`BlocksAreBlocks`), without which a buffer that
  gets a recycled block would not have the size it asked for. Freedom from
  duplicates in the list of free blocks is stated by counting occurrences; the
  lemmas before it count them through Append, Tail and removal.
  *SelectSelector* (`SelectorInv`): `SelectorSees` (RegisteredIsSeen) and
  `SelectorBlocksInSelect` (BlocksInSelect), joined in `SelectorStaysAwake`, for
  any descriptors. RegisteredIsSeen speaks of the moment of `select`; the
  invariant `WillBeSeen` says of each registered descriptor where it is while the
  sets are still being made: in the sets, refused, still to be copied, or
  registered by somebody whose wake-up byte is on its way.
  *ObjectPool* (`PoolInv`): `ObjectsStayKept`. A block is free before the
  destructor of the object in it has run; `PoolUser` says that who is in the
  destructor still holds the lock, so that nobody gets the block meanwhile, and
  `PoolMemory` says where each block is: with a thread, free, or given back.
  *SslSessions* (`SslInv`): `SslStaysKept`. Two requests never have one
  descriptor (`Apart`), and an SSL is one request's until both its ends have given it up
  (`Owning`); the output module finds the right one whatever entries earlier
  requests left, because its own request has written that of its descriptor.
  *UserStore* (`StoreInv`): `AccountsStayKept`. There are no transactions, so the
  invariant says for each place of a client, between two of its statements,
  which rows are there and which the client may still add.
  *FileRange* (`RangeInv`): `RangeStaysAnswered`, for any width of an unsigned int,
  any buffer size and any file. `RangesOf` says what `_setRanges` and `_writeRanges`
  make of two numbers: a range that lies within the file, and the one asked for if
  the file has it. `Reading` relates the position in the stream to what was given:
  the next read ends before the last byte of the range, or with it (`SizeOfRead`),
  so the file is never read past it; a file that was cut ends the stream at the
  first read that is short, so that what is filled in is of one read.
  *ThreadPool* (`ThreadsInv`): `ThreadPoolTypesStay` (TypeOK), `TasksRunOnce`
  (EachTaskOnce) and `QuietAfterDestruction` (DestroyedIsQuiet), joined in
  `WorkStaysHandedOut`; `PoolIsWorkQueue` (ImplementsWorkQueue, the refinement).
  EachTaskOnce speaks of sets of workers and is not inductive; the invariant
  states it pointwise: the queue holds the numbers after `Taken` in order, a
  worker holds work exactly while it is in `run`, no two hold the same, what is
  held is not done, and every number up to `Taken` is held or done. For the
  refinement each step of the pool is a step of WorkQueue or a stutter; that a
  thread is left for a new piece of work (`RoomToStart`) is an injection from the
  work in progress into the other workers.
* `TaskManagerProofs`: `TasksStayAlone` (TasksAreAlone), `OwnersStayAlone`
  (OwnedOnce), `SetsStayComplete` (SetsHoldTheLiving), `TypesStay` (TypeOK), for
  any number of requests, connections, workers and attempts. The inductive
  invariant is a conjunction:
  `Tasks`: whoever is in the queue or with a busy worker is queued and alive,
  once. `_queued` is a plain flag; that it is enough rests on who writes it.
  `Managing`: at each point of its poll the task manager's request is in
  `_requests` and, but for the step between `setQueued` and `queueTask`, not
  queued; what it is to delete is neither queued nor still to be polled.
  `Living`: alive is in one of the sets, or is being deleted.
  `Shutdown`: when main takes the task manager down the other threads are gone,
  and what it ends is not queued unless it has given up waiting.
  `Sockets`: a connection has one owner, a request or the listener that has just
  accepted it.
  `Managers`: a buffer manager is on the stack or with one request; the request
  that is being deleted is the exception, since its manager is pushed before it
  is released, and who takes it then is not yet in `_requests` and so is not
  given work.
  `Bounds`: there are no more managers than requests were made, which TypeOK
  needs. After a failed assertion only the types, the bounds and
  `AssertionOnlyAfterGivingUp` are claimed, because the program has ended.
  *CgiProcess* (`CgiInv`), in the same module because Ends has both:
  `CgiAnswerStaysWhole` (CgiAnswerIsWhole), for any requests, whatever their
  children write and any size of a buffer, of a pipe and of a read.
  `Piped`: the pipe holds what the child wrote and the module has not read.
  `Passed`: what the module gave is what it has read after an empty line (the
  lemma `ExtractPasses`: one call of `_extractHeaders` and of the code after it
  keeps that, whatever piece it is handed). `HasPipe`: a child that has been
  made has its ends open as long as it lives, and one that has not been made is
  nowhere. From this, once the pipe is empty and nobody alive has its other end
  (`Closed`), it stays so: a later child cannot inherit an end that the server has closed.
  `Ending` ties this to the module: FINISHED, which `waitpid` may leave as
  garbage, is not enough to end the answer; FINISHED and then a read that finds nothing is,
  because a read that finds nothing is then one that found the pipe closed.

* `SocketPoolProofs`: `PoolTypesStay` (TypeOK), `WatchedStaysCounted`
  (WatchedIsCounted), `CalledStaysAlive` (CalledIsAlive), for any descriptors and
  any number of requests on each. No one lock guards what these relate, so the
  invariant says for each place of a user, the steps between included, what the
  pool knows of its descriptor (`Place`), what its request waits for (`Owner`)
  and who has which lock (`Held`). `Calling`: what the pool loads is registered,
  being closed or in error, and only the pool's own call or a request that gives
  its connection up ends that, so no connection passes to the next request in
  the middle of a call. `Counted`: `_nfds` is the size of the epoll set. Where
  ~TaskManager destroys a request that the pool is unregistering both count its
  descriptor off; the pool does not watch again after that, and the theorem claims
  the count only until the shutdown or once more when the pool is not in a batch.

* `ServerControlProofs`: `ControlTypesStay` (TypeOK, with the bound of the errors
  of a load), `InstancesStay` (the run's InstancesLast), `ListenersStay` (its
  ListenersLast), for any number of ports and of reloads; two of the parts are
  action properties, and InstanceIsFinal says "from then on". `ControlInv`:
  `Loader` and `Progress` tie the load that is running to where main and the
  console are. `Config` is the heart: while ports are opened, those that are left
  are in the new configuration and the others have an entry; while they are
  closed, the entries are the configuration, the ports left and the one that is
  being stopped; the errors counted are the ports that this load could not open,
  so that as many errors as ports mean that nothing is open. `Listens` carries
  this to the states after the load, `Serving` says of a port that nobody stops
  that its thread is in its loop and, while the server runs, does not leave it.
  For InstanceIsFinal: once the instance is there, only main deletes it, when no
  thread is left that could ask for it.

* `ConfigurationUseProofs`: `ConfigurationStaysAlive`
  (ConfigurationOutlivesRequest) and `ConfigurationStaysKept` (the run's
  ConfigurationIsKept), for any number of requests and of reloads. `Counted` is
  the reason: the count of SmartPtr is the number of requests that have the
  configuration, and one for the current one; who counts to 0 deletes it alone,
  and from then on nobody finds it. The copy takes the pointer before it counts;
  `Copying` says that the mutex of ConfigurationManager is held in between, by
  the copy or by the reload. `Owned`: an entry, a module's configuration and its
  manager are of one configuration, and a deleted manager of a deleted one.
  `Ready`: a manager without its options is one that somebody is still
  configuring, was seen before the merge, or was made twice. The conditions on
  the constants are the operator `UseAssumption`, which `PartsAssumption` implies;
  PartsProofs takes the theorem over to the run.

Because RequestChain implements RequestTasks (`ChainUsesItsTasks`), what is
proved of RequestTasks holds of each request of the chain. Where a
run's property is a conjunction, its parts are proved as theorems and joined in
one that has the run's name for it (`WaitsStayKept`, `WritesStayFirst`,
`WorkStaysHandedOut`, `MemoryStaysSound`, `SelectorStaysAwake`, `ObjectsStayKept`,
`SslStaysKept`, `CgiAnswerStaysWhole`, `RangeStaysAnswered`, `AccountsStayKept`, `ConfigurationStaysKept`, `InstancesStay`,
`ListenersStay`).

The larger inductive invariants (ChainInv, Ledger, NothingIsLost, Orderly,
ControlInv) were invariants of TLC runs before they were proved.

Model-checked only:

* Every liveness property (`Ends`, `ActiveWorkerDrains`, `ToldOfData`, `TasksEnd`,
  `ControlEnds`, `CgiEnds`, `FormIsSeen`): ENABLED and fairness are out of the
  prover's reach.
* What HeaderParser, PostData and ConfigurationTree compute
  (`HeaderIsSeen`, `FormIsSeen`, `TreeIsTheFile`): each compares
  a loop with a definition by recursion over its input, and that is induction over
  data.

## 6. Where code and documentation disagree

Four disagreements have a run of kind `violation`; PROJECT.json quotes the
lines.

* `ThreadConditionUnix.hpp:45`: the lost wake-up (ThreadPoolLostWakeup).
* `RequestTasks.cpp:309`: `reset` releases the waiting buffers without removing
  them, so the end task waits for ever for an empty list and the error module
  never writes its page (RequestChainReadError).
* `SocketEvent.hpp:42`: pending flags of the previous request; the next one
  blocks in `read` (SocketPoolStaleEvent).
* `Buffer.hpp:69`: too large a size after a partial write (BufferPartialWrite).

The modules also state the following, which TLC violates when the property is
added to the cfg named (with `SPECIFICATION Spec` where it says FairSpec, and no
symmetry for an action property). They are not among the runs, which are kept to
one for each question.

| Property | Where | What happens |
|---|---|---|
| `RequestTasks!CanWriteMeansWritable` | RequestTasks.cfg | `RequestTasks.cpp:141` queues ON_CAN_WRITE with more than ten buffers although the socket is not ready; `api/constants.hpp:28` promises the module can write without blocking |
| `RequestChain!ReleasedIsForgotten` | RequestChainReadError.cfg; and RequestChain.cfg with HeaderLimit 0 | `RequestTasks.cpp:311` and `Parser.cpp:187` keep buffers they released, and release them again |
| `RequestChain!EndIsLastEvent` | RequestChain.cfg | FileReader gets ON_IDLE after ON_END (`FileReader.cpp:73`); `api/constants.hpp:48` calls ON_END the last event |
| `RequestChain!HeadersComeFirst` | RequestChain.cfg | an error Builder raises (`Builder.cpp:37`) is answered without status line and headers |
| `TaskManager!NotQueuedWhenEnded` | TaskManager.cfg | `TaskManager.cpp:37` stops waiting after eleven rounds; the assertion `RequestManager.hpp:105` fails |
| `TaskManager!TaskUsesLiveRequest` | TaskManager.cfg | a task that threw uses its request in `~ModuleTask` (`ModuleTask.hpp:42`) after it was deleted |
| `TaskManager!GivesSocketAway` | TaskManager.cfg | `Listener.cpp:49` deletes a socket it handed over |
| `TaskManager!AllReleased` | TaskManager.cfg | a request accepted while the server stops stays in `_pending_add_requests` |

What the properties of the other modules name as exceptions:

* Parser: a header that is too long is parsed and its buffers released twice
  (`Parser.cpp:187`); a body of which a part came with the header gets no end,
  and nobody reads the rest (`:141`); CR CR LF confuses `_separator`; the byte
  after a ":" is always skipped; bytes behind a header without a body are
  copied into a buffer that is neither given nor released (`:168`).
* FileReader: a file of one byte, whole or as a range, is announced and not given
  (`FileReader.cpp:53`).
* Listener: a `stop` that comes before `run` has raised `_is_running` is forgotten
  (`Listener.cpp:33`), and the reload waits for ever. A port that could not be
  opened once is not tried again and not counted. A connection that is accepted
  while its port goes is refused (`Listener.cpp:42`).
* Server: `addListenPort` does not look up the module it is given for a port
  (`Configuration.cpp:104`), so that a port may be open on which every connection
  is refused (`:118-124`), and one that was kept ends the program
  (`TaskManager.cpp:93`).
* SocketPool: ~TaskManager destroys a request while the pool is in
  `unregisterHandler` for it, and `_nfds` is decremented twice
  (`SocketPool.hpp:74` and `:83`). The pool is in its last batch then, and
  `_nfds` is not read again.
* Singleton: two threads that ask first at once make two instances, and the
  second meets an assertion (`Singleton.hpp:31`).
* ModuleConfiguration: two requests may both make a manager, and one that comes
  before the merge gets no options (`ModuleConfiguration.cpp:50`). barbaz keeps
  a pointer to an option of the first manager over reloads.
* VHost: an element behind a virtual host of the same parent is not inherited by
  it, and leaves a configuration that is not deleted (`VHost.cpp:60`).
* CGI: `WIFEXITED` of a status nobody wrote (`UnixProcess.cpp:209`); children
  inherit each other's pipes (`:106`); a destructor may wait for another's child;
  a body is written to a child that writes before it reads, and both wait. An
  empty line that comes in two reads is not found.
* PostData: a key without "=" keeps `prepare` in its loop (`PostData.hpp:68`); a
  field cut by the end of a buffer is two fields.
* SSL: an entry of a request that never got ON_END stays in the map; a request
  that meets the context while it is made has no certificate.
* barbaz: a statement that fails in a destructor is not told (`Cursor.cpp:40`); two
  logins at once leave two sessions; two registrations at once, two users. The
  hashes of two logins in the same second are equal (`Users.cpp:60`), and a
  subscription without an email gives no error (`Subscribe.cpp:73`); the last two
  were read only.

Also read, without a property: `api/IModule.hpp:28` and `:41` say of the return
value of `processRequest` what `Request.cpp:306-326` does not do.

## 7. Not modelled

* Third-party code under the tree, some 11,500 lines: tinyxml and ticpp in
  `server/parser/ticpp`, json_spirit and md5 in `modules/barbaz`, libraries of
  which the modules use a call or two. The Windows variants, which do the same
  with other system calls, and the GUI, a client of the console.
* Wrappers of pthreads and sockets: they appear as atomic steps and outcomes.
* Modules without state between two events: DirListing, ItWorks, UrlRewrite,
  gzip (zlib's compressor), Lua (its interpreter).
* Text: log, strings, URLs, dates, mime types, response headers, JSON answers,
  environment variables of CGI, attribute parsing of the configuration, regular
  expressions of guidelines.
* External, modelled by how the code uses it: SQLite, the children of CGI, epoll,
  select, the clients.
* Within modelled parts: statistics; `SocketEvent::_mutex`, whose sections are
  single accesses; the pool's interruptor socket; `EPOLL_SIZE` and descriptors
  above the size of the table of events; the cipher of SSL and its partial reads.
* Hazard without a property: the catch clause of `Listener.cpp:49` deletes the
  connection it handed over, or the last one (`GivesSocketAway` above shows it).
  Smaller ones, outside the list of hazards: a listen guideline without "deny"
  accepts every port (`ListenGuideline.cpp:21`); a factory that fails after it
  has stored a library deletes it (`ModuleManagerFactory.cpp:75`); the part of a
  body that the pipe does not take is lost (`CGI.cpp:106`); a method CGI does not
  know raises an error and the environment is filled on (`CGI.cpp:195`); a SIGINT
  before the console is there (`main.cpp:18`); after a signal the sets of
  `select` are read though undefined (`BasicSocketSelector.cpp:152`, modelled in
  SelectSelector as `SelectInterrupted`).
* A configuration that disables mod_error: `Request.cpp:78-79` then uses a module
  manager that is null. A factory that has no library for an io-module makes its
  configuration disabled (`ModuleConfiguration.cpp:62`): in ServerControl it is a
  module that the configuration does not have. In ConfigurationUse the factory does
  not fail. A port without an io-module gets mod_network, enabled, whatever the
  file says later (`Configuration.cpp:97-100`); ConfigurationTree, which has one
  name at a time, does not follow it.
* A worker that is blocked in `read` at the shutdown, for whose request
  ~TaskManager gives up waiting: in SocketPool a worker is back before its request
  is destroyed; TaskManager has the case (`AssertionOnlyAfterGivingUp`).
* In SocketPool the state in which `trigger` calls a null handler
  (`pool.at = "crashed"`) is reachable; no text of the repository speaks of it,
  so no run does.

## 8. Plan

Done: RequestTasks, WorkQueue and ThreadPool, RequestChain on RequestTasks,
SocketPool, TaskManager, Buffer; ServerControl and the parts of MCParts and
Ends; proofs of RequestTasks, ThreadPool, RequestChain, TaskManager,
SocketPool, ServerControl, ConfigurationUse, Buffer, SelectSelector, ObjectPool,
SslSessions, UserStore, FileRange and CgiProcess. Left, in order of importance:

1. An abstract life of a request (created, waiting, working, ended) that both
   RequestTasks and TaskManager implement, and TaskManager over WorkQueue.
2. The violated properties of section 6 that have no run: one each, those of
   TaskManager first.
3. The chains of CGI and gzip inside RequestChain; the partial reads of SSL.
