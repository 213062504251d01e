------------------------------- MODULE MCParts --------------------------------
(***************************************************************************)
(* The parts of the server that do not call one another, checked together: *)
(* a behaviour is one of one part and leaves the variables of the others   *)
(* as they are, so the states are the sum of the parts' states and not     *)
(* their product.  Buffer is extended, the others are instances; what the  *)
(* parts call the same is renamed.                                         *)
(***************************************************************************)
EXTENDS Buffer

CONSTANTS
    Actors,       \* the threads, connections and clients of the parts
    Nobody,
    MaxObjects,                                   \* ObjectPool
    MaxTasks,                                     \* ThreadPool
    Chunk, Limit, MaxFile,                        \* FileRange
    Sockets, Addresses,                           \* SslSessions
    Requests, MaxConfigurations,                  \* ConfigurationUse
    Fds, FD_SETSIZE, MaxBytes,                    \* SelectSelector
    Keys, MaxVHosts, MaxElements,                 \* ConfigurationTree
    MaxHeader, MaxBuffers                         \* HeaderParser

VARIABLES
    part,   \* the part that this behaviour is of
    kind, mutex, thread, poolBlocks, poolFree, known, object, poolDeleted,
    file, reader, answer, given,
    sslRequest, ssl, used, ctx, certified,
    current, lock, config, module, manager, request, path, reload,
    fdlist, selectorMutex, selector, pipe, ready, refused, signalled,
    users, auth, sessions, conn, aborted,
    treeName, parser, vhost, base, treeModule, element, treeDeleted, match,
    message, stream, headerParser, headerRequest,
    running, pending, queued, pc, held, done, client

poolVars == <<kind, mutex, thread, poolBlocks, poolFree, known, object, poolDeleted>>
rangeVars == <<file, reader, answer, given>>
sslVars == <<sslRequest, ssl, used, ctx, certified>>
useVars == <<current, lock, config, module, manager, request, path, reload>>
selectVars == <<fdlist, selectorMutex, selector, pipe, ready, refused, signalled>>
userVars == <<users, auth, sessions, conn, aborted>>
treeVars == <<treeName, parser, vhost, base, treeModule, element, treeDeleted, match>>
headerVars == <<message, stream, headerParser, headerRequest>>
threadVars == <<running, pending, queued, pc, held, done, client>>
partsVars == <<part, vars, poolVars, rangeVars, sslVars, useVars, selectVars, userVars, treeVars, headerVars,
              threadVars>>

\* There are actors; they and the requests are finitely many, and the names that stand
\* for none of them are none of them; 0 is the selector's own socket.
ASSUME PartsAssumption ==
    /\ IsFiniteSet(Actors) /\ Actors # {} /\ Nobody \notin Actors /\ MaxObjects \in Nat
    /\ MaxTasks \in Nat
    /\ Sockets \subseteq Nat /\ Nobody \notin Addresses
    /\ IsFiniteSet(Requests) /\ "reload" \notin Requests
    /\ Nobody \notin Requests /\ Nobody # "reload"
    /\ MaxConfigurations \in Nat \ {0}
    /\ Fds \subseteq Nat \ {0} /\ Nobody \notin Fds
    /\ Chunk \in Nat /\ Limit \in Nat \ {0} /\ MaxFile \in Nat

Pool == INSTANCE ObjectPool WITH Threads <- Actors, NoThread <- Nobody,
            blocks <- poolBlocks, free <- poolFree, deleted <- poolDeleted
FileReader == INSTANCE FileRange WITH MaxSize <- MaxFile
Ssl == INSTANCE SslSessions WITH Connections <- Actors, Nothing <- Nobody, request <- sslRequest
Use == INSTANCE ConfigurationUse
Selector == INSTANCE SelectSelector WITH mutex <- selectorMutex
Store == INSTANCE UserStore WITH Clients <- Actors
Tree == INSTANCE ConfigurationTree WITH name <- treeName, module <- treeModule, deleted <- treeDeleted
Threads == INSTANCE ThreadPool WITH Workers <- Actors
Header == INSTANCE HeaderParser WITH parser <- headerParser, request <- headerRequest

Parts == {"buffer", "pool", "range", "ssl", "use", "select", "users", "tree", "header", "threads"}

InBuffer == part = "buffer" /\ UNCHANGED <<part, poolVars, rangeVars, sslVars, useVars, selectVars, userVars, treeVars, headerVars, threadVars>>
InPool == part = "pool" /\ UNCHANGED <<part, vars, rangeVars, sslVars, useVars, selectVars, userVars, treeVars, headerVars, threadVars>>
InRange == part = "range" /\ UNCHANGED <<part, vars, poolVars, sslVars, useVars, selectVars, userVars, treeVars, headerVars, threadVars>>
InSsl == part = "ssl" /\ UNCHANGED <<part, vars, poolVars, rangeVars, useVars, selectVars, userVars, treeVars, headerVars, threadVars>>
InUse == part = "use" /\ UNCHANGED <<part, vars, poolVars, rangeVars, sslVars, selectVars, userVars, treeVars, headerVars, threadVars>>
InSelect == part = "select" /\ UNCHANGED <<part, vars, poolVars, rangeVars, sslVars, useVars, userVars, treeVars, headerVars, threadVars>>
InUsers == part = "users" /\ UNCHANGED <<part, vars, poolVars, rangeVars, sslVars, useVars, selectVars, treeVars, headerVars, threadVars>>
InTree == part = "tree" /\ UNCHANGED <<part, vars, poolVars, rangeVars, sslVars, useVars, selectVars, userVars, headerVars, threadVars>>
InThreads == part = "threads" /\ UNCHANGED <<part, vars, poolVars, rangeVars, sslVars, useVars, selectVars, userVars, treeVars, headerVars>>
InHeader == part = "header" /\ UNCHANGED <<part, vars, poolVars, rangeVars, sslVars, useVars, selectVars, userVars, treeVars, threadVars>>

PartsInit ==
    /\ part \in Parts
    /\ Init /\ Pool!Init /\ FileReader!Init /\ Ssl!Init /\ Use!Init /\ Selector!Init /\ Store!Init /\ Tree!Init
    /\ Header!Init /\ Threads!Init
    /\ part # "pool" => kind = "safe"
    /\ part # "tree" => treeName = "other"
    /\ part # "header" => message.headers = <<>> /\ message.query = <<>> /\ message.body = <<>>

PartsNext ==
    \/ InBuffer /\ Clean
    \/ InBuffer /\ Over
    \/ \E b \in Buffers : InBuffer /\ Release(b)
    \/ \E b \in Buffers, n \in 1..MaxSize :
          \/ InBuffer /\ Allocate(b, n)
          \/ InBuffer /\ Cut(b, n)
          \/ InBuffer /\ Enlarge(b, n)
          \/ InBuffer /\ Sent(b, n)
    \/ InPool /\ Pool!Delete
    \/ InPool /\ Pool!Over
    \/ \E t \in Actors :
          \/ InPool /\ Pool!Call(t)
          \/ InPool /\ Pool!Lock(t)
          \/ InPool /\ Pool!FindBlock(t)
          \/ InPool /\ Pool!Construct(t)
          \/ InPool /\ Pool!PushBlock(t)
          \/ InPool /\ Pool!Destroy(t)
          \/ InPool /\ Pool!Unlock(t)
    \/ InRange /\ FileReader!Idle
    \/ InRange /\ FileReader!Over
    \/ \E size \in 0..MaxFile : InRange /\ FileReader!Cut(size)
    \/ InRange /\ \E size \in 0..MaxFile, first, last \in -1..MaxFile : FileReader!Found(size, first, last)
    \/ InSsl /\ Ssl!Over
    \/ \E c \in Actors, fd \in Sockets : InSsl /\ Ssl!Arrive(c, fd)
    \/ \E c \in Actors :
          \/ InSsl /\ Ssl!GetInstance(c)
          \/ InSsl /\ Ssl!NewContext(c)
          \/ InSsl /\ Ssl!Certify(c)
          \/ InSsl /\ Ssl!Accept(c)
          \/ InSsl /\ Ssl!Respond(c)
          \/ InSsl /\ Ssl!RespondEnd(c)
          \/ InSsl /\ Ssl!Destroy(c)
    \/ InUse /\ Use!SetConfiguration
    \/ InUse /\ Use!ReloadDeletes
    \/ InUse /\ Use!ReloadUnlocks
    \/ InUse /\ Use!Over
    \/ \E r \in Requests :
          \/ InUse /\ Use!Copy(r)
          \/ InUse /\ Use!Increment(r)
          \/ InUse /\ Use!Find(r)
          \/ InUse /\ Use!Insert(r)
          \/ InUse /\ Use!Merge(r)
          \/ InUse /\ Use!Get(r)
          \/ InUse /\ Use!TestLoaded(r)
          \/ InUse /\ Use!Create(r)
          \/ InUse /\ Use!SetOptions(r)
          \/ InUse /\ Use!Load(r)
          \/ InUse /\ Use!Return(r)
          \/ InUse /\ Use!OpenDatabase(r)
          \/ InUse /\ Use!Decrement(r)
          \/ InUse /\ Use!DeleteLast(r)
    \/ InSelect /\ Selector!RegisterInterrupts
    \/ InSelect /\ Selector!Copy
    \/ InSelect /\ Selector!Prepare
    \/ InSelect /\ Selector!Prepared
    \/ InSelect /\ Selector!Select
    \/ InSelect /\ Selector!SelectInterrupted
    \/ InSelect /\ Selector!SelectFails
    \/ InSelect /\ Selector!ReadInterrupt
    \/ InSelect /\ Selector!Update
    \/ InSelect /\ Selector!Updated
    \/ \E fd \in Fds :
          \/ InSelect /\ Selector!RegisterInserts(fd)
          \/ InSelect /\ Selector!Unregister(fd)
          \/ InSelect /\ Selector!Arrives(fd)
          \/ InSelect /\ Selector!Consume(fd)
    \/ InUsers /\ Store!Over
    \/ \E c \in Actors :
          \/ InUsers /\ Store!IsUserExists(c)
          \/ InUsers /\ Store!RegisterUser(c)
          \/ InUsers /\ Store!Authenticate(c)
          \/ InUsers /\ Store!CheckPassword(c)
          \/ InUsers /\ Store!GetUserIdFromHash(c, "login")
          \/ InUsers /\ Store!GetUserIdFromHash(c, "logout")
          \/ InUsers /\ Store!RenewSessionHash(c)
          \/ InUsers /\ Store!GetUser(c)
          \/ InUsers /\ Store!CloseReading(c)
          \/ InUsers /\ Store!ClosePending(c)
    \/ InTree /\ Tree!OpenVHost
    \/ InTree /\ Tree!CloseVHost
    \/ InTree /\ Tree!Fail
    \/ InTree /\ Tree!RaiseError
    \/ InTree /\ Tree!Forget
    \/ InTree /\ Tree!Delete
    \/ InTree /\ Tree!Over
    \/ \E keys \in SUBSET Keys, enabled \in BOOLEAN :
          \/ InTree /\ Tree!ParseBaseModule(keys, enabled)
          \/ InTree /\ Tree!ParseModule(keys, enabled)
    \/ \E accept \in SUBSET DOMAIN vhost : InTree /\ Tree!Request(accept)
    \/ InHeader /\ Header!Destroy
    \/ InHeader /\ Header!Over
    \/ InHeader /\ \E n \in 1 .. Len(stream) : Header!Incomplete(n)
    \/ InHeader /\ \E n \in 1 .. Len(stream) : Header!TooLong(n)
    \/ InHeader /\ \E n \in 1 .. Len(stream) : Header!Complete(n)
    \/ InThreads /\ Threads!QueueTask
    \/ InThreads /\ Threads!WakeAll
    \/ InThreads /\ Threads!Stop
    \/ InThreads /\ Threads!StopWakeAll
    \/ InThreads /\ Threads!Join
    \/ InThreads /\ Threads!Quiet
    \/ \E w \in Actors :
          \/ InThreads /\ Threads!Loop(w)
          \/ InThreads /\ Threads!CheckCondition(w)
          \/ InThreads /\ Threads!Sleep(w)
          \/ InThreads /\ Threads!SpuriousWakeup(w)
          \/ InThreads /\ Threads!Awake(w)
          \/ InThreads /\ Threads!TakeNothing(w)
          \/ InThreads /\ Threads!TakeTask(w)
          \/ InThreads /\ Threads!FinishTask(w)

PartsSpec == PartsInit /\ [][PartsNext]_partsVars

-----------------------------------------------------------------------------
(* The properties of the parts, each put together of the named parts that   *)
(* its module states and explains; that of Buffer is MemoryIsSound.         *)

\* An object has one user, who finds it built, and its memory is given back once.
ObjectsAreKept == Pool!ObjectsAreKept

\* The answer to a range is that range, and what is announced is what is given.
RangeIsAnswered == FileReader!RangeIsAnswered

\* Each request has the SSL of its own connection, complete, from its first module to
\* its last, and each SSL is freed once.
SslIsKept == Ssl!SslIsKept

\* A configuration lives as long as its requests and no longer, and gives them
\* managers that are ready.
ConfigurationIsKept == Use!ConfigurationIsKept

\* The selector misses nothing that was registered, and sleeps in select() alone.
SelectorIsAwake == Selector!SelectorIsAwake

\* What a client was told of its account and of its session is in the tables.
AccountsAreKept == Store!AccountsAreKept

\* The tree has what the file says, a request finds its place in it, and it is taken
\* down as it was built.
TreeIsTheFile == Tree!TreeIsTheFile

\* The header is what the client wrote, however it was cut, its body ends when it does,
\* and its buffers are released once.
HeaderIsSeen == Header!HeaderIsSeen

\* Each piece of work that is given to the pool is in one place, and none in the hands
\* of a thread that the destructor has left behind.
WorkIsHandedOut == Threads!WorkIsHandedOut

\* The pool is the WorkQueue that its client sees.
ImplementsWorkQueue == Threads!ImplementsWorkQueue
===============================================================================
