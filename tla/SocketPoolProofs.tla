--------------------------- MODULE SocketPoolProofs ---------------------------
(***************************************************************************)
(* Proofs about SocketPool, for any number of descriptors and of requests  *)
(* on each: the types; the handler, _enabled and the epoll set agree       *)
(* whenever nobody is between two of their changes; _nfds is the size of   *)
(* that set until ~TaskManager destroys the requests that are left, and    *)
(* also then wherever the pool reads it; who is called lives and has the   *)
(* connection.                                                             *)
(*                                                                         *)
(* No lock guards all of these.  IInv says for each place of a user what   *)
(* the pool knows of its descriptor (Place), so that the steps between are *)
(* covered as well, what its request is waiting for (Owner), and who has   *)
(* the locks (Held).  That a connection does not pass to the next request  *)
(* while the pool is calling (Calling) rests on the request: what the pool *)
(* loads is registered, and only the pool's call or a request that gives   *)
(* its connection up ends that.                                            *)
(***************************************************************************)
EXTENDS SocketPool, FiniteSetTheorems, TLAPS

\* The places at which a user has the mutex of its request, and _events_mutex; those
\* at which the pool has the _process_mutex.
InMutex == {"register", "enable", "watch", "unwatch", "disable", "forget"}
InEvents == {"enable", "watch", "destroy"}
InProcess == {"deliver", "load", "call", "unregister", "disable", "crashed"}

\* A request that is registered, and nobody is changing that; one that the pool is
\* about to unregister.
Calm == {"idle", "reading", "destroy"}
Registered(f) == user[f] \in Calm /\ Mine(f).registered
Leaving(f) == pool.at \in {"unregister", "disable"} /\ pool.fd = f

\* What the pool knows of a descriptor.
Place(f) ==
    /\ f \in watched <=> \/ user[f] = "unwatch"
                         \/ user[f] # "destroy" /\ (Registered(f) \/ (Leaving(f) /\ pool.at = "unregister"))
    /\ event[f].enabled <=> Registered(f) \/ Leaving(f) \/ user[f] \in {"watch", "unwatch", "disable"}
    /\ event[f].handler = IF \/ Registered(f) \/ Leaving(f)
                             \/ user[f] \in {"enable", "watch", "unwatch", "disable", "forget"}
                          THEN current[f] ELSE 0

\* The request of a descriptor; those after it have not begun.
Owner(f) ==
    /\ user[f] # "closed" => current[f] \in Numbers /\ current[f] \in alive[f]
    /\ user[f] \in {"register", "enable", "watch"} => Mine(f).registered
    /\ user[f] \in {"unwatch", "disable", "forget"} => ~Mine(f).registered
    /\ user[f] \in {"destroy", "delete"} => ~Mine(f).registered \/ server = "ending"
    /\ user[f] \in {"unwatch", "disable"} => Mine(f).closing
    /\ user[f] # "closed" /\ Mine(f).registered => Wanted(Mine(f))
    /\ \A n \in Numbers : n > current[f] => request[f][n] = NewRequest

\* The locks of a descriptor.
Held(f) ==
    /\ mutex[f] <=> user[f] \in InMutex \/ Leaving(f)
    /\ events_mutex = f <=> user[f] \in InEvents
    /\ process_mutex[f] <=> pool.at \in InProcess /\ pool.fd = f
    /\ user[f] \in {"closed", "delete"} => ~process_mutex[f]

\* The pool calls the request that has the connection, and it will not give it away.
Bound(f) == Mine(f).registered \/ Mine(f).closing \/ Mine(f).has_error
Left(f) ==
    /\ user[f] \in Calm /\ ~Mine(f).registered
    /\ user[f] = "destroy" => server = "ending"
Calling ==
    /\ pool.at = "trigger" \/ pool.at \in InProcess => pool.fd \in Fds
    /\ pool.at \in {"load", "call"} =>
           pool.evt \in SocketEvents /\ pool.handler = current[pool.fd] /\ Bound(pool.fd)
    /\ pool.at \in {"unregister", "disable"} => pool.handler = current[pool.fd] /\ Left(pool.fd)

\* Until ~TaskManager begins, or while the pool has nothing in its hands.
Counted == server # "ending" \/ pool.at = "wait" => nfds = Cardinality(watched)

\* The inductive invariant.
IInv == TypeOK /\ Calling /\ Counted /\ \A f \in Fds : Place(f) /\ Owner(f) /\ Held(f)

USE SocketPoolAssumption

LEMMA InitIInv == Init => IInv
<1> SUFFICES ASSUME Init PROVE IInv
    OBVIOUS
<1>1. TypeOK
    <2>1. NewRequest \in Request
        BY DEF NewRequest, Request
    <2>2. pool \in [at : PoolPlaces, fd : Fds \cup {NoFd}, evt : SocketEvents \cup {"NONE"},
                    handler : 0..Generations, ready : [Fds -> SUBSET SocketEvents]]
        BY DEF Init, PoolPlaces
    <2>4. server \in ServerPhases
        BY DEF Init, ServerPhases
    <2>3. event \in [Fds -> Event]
        BY DEF Init, Event
    <2> QED BY <2>1, <2>2, <2>3, <2>4 DEF Init, TypeOK, UserPlaces
<1>2. Calling
    BY DEF Init, Calling, InProcess
<1>3. Counted
    BY FS_EmptySet DEF Init, Counted
<1>4. ASSUME NEW f \in Fds PROVE Place(f) /\ Owner(f) /\ Held(f)
    BY DEF Init, Place, Owner, Held, Registered, Leaving, Calm, InMutex, InEvents, InProcess
<1> QED BY <1>1, <1>2, <1>3, <1>4 DEF IInv

-----------------------------------------------------------------------------
(* What the steps have in common.                                           *)

\* The current request is one, while somebody works for it.
LEMMA MineIsOne ==
    ASSUME IInv, NEW f \in Fds, user[f] # "closed"
    PROVE  current[f] \in Numbers /\ current[f] \in 1..Generations /\ Mine(f) \in Request
BY DEF IInv, TypeOK, Owner, Mine, Numbers

LEMMA SetMineSets ==
    ASSUME IInv, NEW f \in Fds, user[f] # "closed", NEW r \in Request, SetMine(f, r)
    PROVE  /\ request' \in [Fds -> [Numbers -> Request]]
           /\ request'[f][current[f]] = r
           /\ \A n \in Numbers \ {current[f]} : request'[f][n] = request[f][n]
           /\ \A g \in Fds \ {f} : request'[g] = request[g]
<1>1. current[f] \in Numbers /\ request \in [Fds -> [Numbers -> Request]]
    BY MineIsOne DEF IInv, TypeOK
<1>2. request' = [request EXCEPT ![f] = [request[f] EXCEPT ![current[f]] = r]]
    BY DEF SetMine
<1>3. [request[f] EXCEPT ![current[f]] = r] \in [Numbers -> Request]
    BY <1>1
<1> QED BY <1>1, <1>2, <1>3

LEMMA NewIsRequest == NewRequest \in Request
BY DEF NewRequest, Request

LEMMA OffIsEvent == ASSUME NEW e \in Event PROVE [e EXCEPT !.handler = 0, !.enabled = FALSE] \in Event
<1>1. 0 \in 0..Generations
    OBVIOUS
<1> QED BY <1>1 DEF Event

LEMMA WatchedIsFinite == ASSUME TypeOK PROVE IsFiniteSet(watched)
BY FS_Subset DEF TypeOK

\* Where the pool is not unregistering the request.
LEMMA NotLeaving ==
    ASSUME IInv, NEW f \in Fds, user[f] \notin Calm \/ ~mutex[f] \/ ~process_mutex[f]
    PROVE  ~Leaving(f)
BY DEF IInv, Calling, Left, Leaving, Held, InProcess

\* A step of a user leaves the other descriptors alone.
Alone(f) ==
    /\ pool' = pool /\ process_mutex' = process_mutex /\ server' = server
    /\ \A g \in Fds \ {f} :
          /\ event'[g] = event[g] /\ request'[g] = request[g] /\ current'[g] = current[g]
          /\ alive'[g] = alive[g] /\ user'[g] = user[g] /\ mutex'[g] = mutex[g]
          /\ g \in watched' <=> g \in watched
          /\ events_mutex' = g <=> events_mutex = g

\* The pool may be calling the request, which keeps the connection.
KeepsBound(f) ==
    /\ pool.fd = f /\ pool.at \in {"load", "call"} /\ Bound(f) => current'[f] = current[f] /\ Bound(f)'
    /\ Leaving(f) => current'[f] = current[f] /\ Left(f)'

LEMMA UserStepKeeps ==
    ASSUME IInv, NEW f \in Fds, TypeOK', Counted', Alone(f), KeepsBound(f),
           Place(f)', Owner(f)', Held(f)'
    PROVE  IInv'
<1>1. ASSUME NEW g \in Fds PROVE Place(g)' /\ Owner(g)' /\ Held(g)'
    <2>1. CASE g = f
        BY <2>1
    <2>2. CASE g # f
        <3>1. Mine(g)' = Mine(g)
            BY <2>2 DEF Alone, Mine
        <3>2. Place(g) /\ Owner(g) /\ Held(g)
            BY DEF IInv
        <3>3. Place(g)'
            BY <2>2, <3>1, <3>2 DEF Alone, Place, Registered, Leaving
        <3>4. Owner(g)'
            BY <2>2, <3>1, <3>2 DEF Alone, Owner
        <3>5. Held(g)'
            BY <2>2, <3>2 DEF Alone, Held, Leaving
        <3> QED BY <3>3, <3>4, <3>5
    <2> QED BY <2>1, <2>2
<1>2. Calling'
    <2>1. pool' = pool /\ Calling
        BY DEF Alone, IInv
    <2>2. ASSUME pool.at \in {"load", "call"} PROVE current'[pool.fd] = current[pool.fd] /\ Bound(pool.fd)'
        <3>1. pool.fd \in Fds /\ Bound(pool.fd)
            BY <2>1, <2>2 DEF Calling, InProcess
        <3>2. CASE pool.fd = f
            <4>1. Bound(f)
                BY <3>1, <3>2
            <4>2. current'[f] = current[f] /\ Bound(f)'
                BY <2>2, <3>2, <4>1 DEF KeepsBound
            <4> QED BY <2>1, <3>2, <4>2 DEF Bound, Mine
        <3>3. CASE pool.fd # f
            BY <2>1, <3>1, <3>3 DEF Alone, Bound, Mine
        <3> QED BY <3>2, <3>3
    <2>3. ASSUME pool.at \in {"unregister", "disable"} PROVE current'[pool.fd] = current[pool.fd] /\ Left(pool.fd)'
        <3>1. pool.fd \in Fds /\ Left(pool.fd) /\ Leaving(pool.fd)
            BY <2>1, <2>3 DEF Calling, InProcess, Leaving
        <3>2. CASE pool.fd = f
            <4>1. current'[f] = current[f] /\ Left(f)'
                BY <3>1, <3>2 DEF KeepsBound
            <4> QED BY <2>1, <3>2, <4>1 DEF Left, Mine
        <3>3. CASE pool.fd # f
            BY <3>1, <3>3 DEF Alone, Left, Mine
        <3> QED BY <3>2, <3>3
    <2> QED BY <2>1, <2>2, <2>3 DEF Calling
<1> QED BY <1>1, <1>2 DEF IInv

-----------------------------------------------------------------------------
(* The users: steps that change no request.                                 *)

\* A worker reads, registered or not.
LEMMA ReadIInv ==
    ASSUME IInv, NEW f \in Fds, Read(f)
    PROVE  IInv'
<1> USE DEF Read, Goto, SetEvent, locks
<1>1. TypeOK /\ Place(f) /\ Owner(f) /\ Held(f) /\ user[f] # "closed"
    BY DEF IInv
<1>2. current[f] \in 1..Generations /\ Mine(f) \in Request
    BY <1>1, MineIsOne DEF Numbers
<1>3. Mine(f)' = Mine(f) /\ request' = request /\ current' = current /\ alive' = alive
    BY DEF Mine
<1>4. Counted' /\ nfds' \in Int
    BY <1>1 DEF IInv, Counted, TypeOK
<1>5. TypeOK'
    BY <1>1, <1>2, <1>3, <1>4 DEF TypeOK, UserPlaces
<1>6. Alone(f)
    BY <1>1, <1>3 DEF TypeOK, Alone, Held, InEvents
<1>7. KeepsBound(f)
    BY <1>1, <1>3 DEF KeepsBound, Bound, Calling, Left, Leaving, Calm, TypeOK, IInv
<1>8. Place(f)'
    BY <1>1, <1>2, <1>3 DEF TypeOK, Place, Owner, Registered, Leaving, Calm, Event
<1>9. Owner(f)'
    BY <1>1, <1>3 DEF TypeOK, Owner
<1>10. Held(f)'
    BY <1>1 DEF TypeOK, Held, Leaving, InMutex, InEvents
<1> QED BY <1>4, <1>5, <1>6, <1>7, <1>8, <1>9, <1>10, UserStepKeeps

\* A request that is not registered yet has _events_mutex now.
LEMMA RegisterObjectIInv ==
    ASSUME IInv, NEW f \in Fds, RegisterObject(f)
    PROVE  IInv'
<1> USE DEF RegisterObject, Goto, SetEvent, locks
<1>0. ~Leaving(f)
    BY NotLeaving DEF Calm
<1>1. TypeOK /\ Place(f) /\ Owner(f) /\ Held(f) /\ user[f] # "closed"
    BY DEF IInv
<1>2. current[f] \in 1..Generations /\ Mine(f) \in Request
    BY <1>1, MineIsOne DEF Numbers
<1>3. Mine(f)' = Mine(f) /\ request' = request /\ current' = current /\ alive' = alive
    BY DEF Mine
<1>4. Counted' /\ nfds' \in Int
    BY <1>1 DEF IInv, Counted, TypeOK
<1>5. event' \in [Fds -> Event]
    <2>1. event[f] \in Event /\ event \in [Fds -> Event]
        BY <1>1 DEF TypeOK
    <2>2. event'[f] \in Event
        BY <1>2, <2>1 DEF Event
    <2> QED BY <2>1, <2>2
<1>6. TypeOK'
    BY <1>1, <1>2, <1>3, <1>4, <1>5 DEF TypeOK, UserPlaces
<1>7. Alone(f)
    BY <1>1, <1>3 DEF TypeOK, Alone, Held, InEvents
<1>8. KeepsBound(f)
    BY <1>0, <1>3 DEF KeepsBound, Bound
<1>9. Place(f)'
    BY <1>0, <1>1, <1>2, <1>3 DEF Leaving, Calm, TypeOK, Place, Owner, Registered, Event
<1>10. Owner(f)'
    BY <1>1, <1>3 DEF TypeOK, Owner
<1>11. Held(f)'
    BY <1>0, <1>1 DEF Leaving, Calm, TypeOK, Held, InMutex, InEvents
<1> QED BY <1>4, <1>6, <1>7, <1>8, <1>9, <1>10, <1>11, UserStepKeeps

\* The SocketEvent is enabled, with the handler set before.
LEMMA RegisterEnableIInv ==
    ASSUME IInv, NEW f \in Fds, RegisterEnable(f)
    PROVE  IInv'
<1> USE DEF RegisterEnable, Goto, SetEvent, locks
<1>0. ~Leaving(f)
    BY NotLeaving DEF Calm
<1>1. TypeOK /\ Place(f) /\ Owner(f) /\ Held(f) /\ user[f] # "closed"
    BY DEF IInv
<1>2. current[f] \in 1..Generations /\ Mine(f) \in Request
    BY <1>1, MineIsOne DEF Numbers
<1>3. Mine(f)' = Mine(f) /\ request' = request /\ current' = current /\ alive' = alive
    BY DEF Mine
<1>4. Counted' /\ nfds' \in Int
    BY <1>1 DEF IInv, Counted, TypeOK
<1>5. event' \in [Fds -> Event]
    <2>1. event[f] \in Event /\ event \in [Fds -> Event]
        BY <1>1 DEF TypeOK
    <2>2. event'[f] \in Event
        BY <1>2, <2>1 DEF Event
    <2> QED BY <2>1, <2>2
<1>6. TypeOK'
    BY <1>1, <1>2, <1>3, <1>4, <1>5 DEF TypeOK, UserPlaces
<1>7. Alone(f)
    BY <1>1, <1>3 DEF TypeOK, Alone, Held, InEvents
<1>8. KeepsBound(f)
    BY <1>0, <1>3 DEF KeepsBound, Bound
<1>9. Place(f)'
    BY <1>0, <1>1, <1>2, <1>3 DEF Leaving, Calm, TypeOK, Place, Owner, Registered, Event
<1>10. Owner(f)'
    BY <1>1, <1>3 DEF TypeOK, Owner
<1>11. Held(f)'
    BY <1>0, <1>1 DEF Leaving, Calm, TypeOK, Held, InMutex, InEvents
<1> QED BY <1>4, <1>6, <1>7, <1>8, <1>9, <1>10, <1>11, UserStepKeeps

\* The descriptor joins the epoll set and is counted.
LEMMA RegisterWatchIInv ==
    ASSUME IInv, NEW f \in Fds, RegisterWatch(f)
    PROVE  IInv'
<1> USE DEF RegisterWatch, Goto, SetEvent, locks
<1>0. ~Leaving(f)
    BY NotLeaving DEF Calm
<1>1. TypeOK /\ Place(f) /\ Owner(f) /\ Held(f) /\ user[f] # "closed"
    BY DEF IInv
<1>2. current[f] \in 1..Generations /\ Mine(f) \in Request
    BY <1>1, MineIsOne DEF Numbers
<1>3. Mine(f)' = Mine(f) /\ request' = request /\ current' = current /\ alive' = alive
    BY DEF Mine
<1>4. Counted' /\ nfds' \in Int
    <2>1. f \notin watched /\ IsFiniteSet(watched)
        BY <1>0, <1>1, WatchedIsFinite DEF Place, Registered, Calm
    <2>2. nfds \in Int /\ nfds' = nfds + 1 /\ watched' = watched \cup {f}
        BY <1>1, <2>1 DEF TypeOK
    <2>3. Cardinality(watched \cup {f}) = Cardinality(watched) + 1
        BY <2>1, FS_AddElement
    <2> QED BY <2>2, <2>3 DEF IInv, Counted
<1>5. TypeOK'
    BY <1>1, <1>2, <1>3, <1>4 DEF TypeOK, UserPlaces
<1>6. Alone(f)
    BY <1>1, <1>3 DEF TypeOK, Alone, Held, InEvents
<1>7. KeepsBound(f)
    BY <1>0, <1>3 DEF KeepsBound, Bound
<1>8. Place(f)'
    BY <1>0, <1>1, <1>2, <1>3 DEF Leaving, Calm, TypeOK, Place, Owner, Registered, Event
<1>9. Owner(f)'
    BY <1>1, <1>3 DEF TypeOK, Owner
<1>10. Held(f)'
    BY <1>0, <1>1 DEF Leaving, Calm, TypeOK, Held, InMutex, InEvents
<1> QED BY <1>4, <1>5, <1>6, <1>7, <1>8, <1>9, <1>10, UserStepKeeps

\* The descriptor was in the epoll set and is counted no more.
LEMMA UnregisterWatchIInv ==
    ASSUME IInv, NEW f \in Fds, UnregisterWatch(f)
    PROVE  IInv'
<1> USE DEF UnregisterWatch, Goto, SetEvent, locks
<1>0. ~Leaving(f)
    BY NotLeaving DEF Calm
<1>1. TypeOK /\ Place(f) /\ Owner(f) /\ Held(f) /\ user[f] # "closed"
    BY DEF IInv
<1>2. current[f] \in 1..Generations /\ Mine(f) \in Request
    BY <1>1, MineIsOne DEF Numbers
<1>3. Mine(f)' = Mine(f) /\ request' = request /\ current' = current /\ alive' = alive
    BY DEF Mine
<1>4. Counted' /\ nfds' \in Int
    <2>1. f \in watched /\ IsFiniteSet(watched) /\ event[f].enabled
        BY <1>1, WatchedIsFinite DEF Place
    <2>2. Cardinality(watched \ {f}) = Cardinality(watched) - 1
        BY <2>1, FS_RemoveElement
    <2>3. nfds \in Int /\ nfds' = nfds - 1 /\ watched' = watched \ {f}
        BY <1>1, <2>1 DEF TypeOK
    <2> QED BY <2>2, <2>3 DEF IInv, Counted
<1>5. TypeOK'
    BY <1>1, <1>2, <1>3, <1>4 DEF TypeOK, UserPlaces
<1>6. Alone(f)
    BY <1>1, <1>3 DEF TypeOK, Alone, Held, InEvents
<1>7. KeepsBound(f)
    BY <1>0, <1>3 DEF KeepsBound, Bound
<1>8. Place(f)'
    BY <1>0, <1>1, <1>2, <1>3 DEF Leaving, Calm, TypeOK, Place, Owner, Registered, Event
<1>9. Owner(f)'
    BY <1>1, <1>3 DEF TypeOK, Owner
<1>10. Held(f)'
    BY <1>0, <1>1 DEF Leaving, Calm, TypeOK, Held, InMutex, InEvents
<1> QED BY <1>4, <1>5, <1>6, <1>7, <1>8, <1>9, <1>10, UserStepKeeps

\* The SocketEvent is disabled.
LEMMA UnregisterDisableIInv ==
    ASSUME IInv, NEW f \in Fds, UnregisterDisable(f)
    PROVE  IInv'
<1> USE DEF UnregisterDisable, Goto, SetEvent, locks
<1>0. ~Leaving(f)
    BY NotLeaving DEF Calm
<1>1. TypeOK /\ Place(f) /\ Owner(f) /\ Held(f) /\ user[f] # "closed"
    BY DEF IInv
<1>2. current[f] \in 1..Generations /\ Mine(f) \in Request
    BY <1>1, MineIsOne DEF Numbers
<1>3. Mine(f)' = Mine(f) /\ request' = request /\ current' = current /\ alive' = alive
    BY DEF Mine
<1>4. Counted' /\ nfds' \in Int
    BY <1>1 DEF IInv, Counted, TypeOK
<1>5. event' \in [Fds -> Event]
    <2>1. event[f] \in Event /\ event \in [Fds -> Event]
        BY <1>1 DEF TypeOK
    <2>2. event'[f] \in Event
        BY <1>2, <2>1 DEF Event
    <2> QED BY <2>1, <2>2
<1>6. TypeOK'
    BY <1>1, <1>2, <1>3, <1>4, <1>5 DEF TypeOK, UserPlaces
<1>7. Alone(f)
    BY <1>1, <1>3 DEF TypeOK, Alone, Held, InEvents
<1>8. KeepsBound(f)
    BY <1>0, <1>3 DEF KeepsBound, Bound
<1>9. Place(f)'
    BY <1>0, <1>1, <1>2, <1>3 DEF Leaving, Calm, TypeOK, Place, Owner, Registered, Event
<1>10. Owner(f)'
    BY <1>1, <1>3 DEF TypeOK, Owner
<1>11. Held(f)'
    BY <1>0, <1>1 DEF Leaving, Calm, TypeOK, Held, InMutex, InEvents
<1> QED BY <1>4, <1>6, <1>7, <1>8, <1>9, <1>10, <1>11, UserStepKeeps

\* The handler is null, and the mutex of the request free.
LEMMA UnregisterForgetIInv ==
    ASSUME IInv, NEW f \in Fds, UnregisterForget(f)
    PROVE  IInv'
<1> USE DEF UnregisterForget, Goto, SetEvent, locks
<1>0. ~Leaving(f)
    BY NotLeaving DEF Calm
<1>1. TypeOK /\ Place(f) /\ Owner(f) /\ Held(f) /\ user[f] # "closed"
    BY DEF IInv
<1>2. current[f] \in 1..Generations /\ Mine(f) \in Request
    BY <1>1, MineIsOne DEF Numbers
<1>3. Mine(f)' = Mine(f) /\ request' = request /\ current' = current /\ alive' = alive
    BY DEF Mine
<1>4. Counted' /\ nfds' \in Int
    BY <1>1 DEF IInv, Counted, TypeOK
<1>5. event' \in [Fds -> Event]
    <2>1. event[f] \in Event /\ event \in [Fds -> Event]
        BY <1>1 DEF TypeOK
    <2>2. event'[f] \in Event
        BY <1>2, <2>1 DEF Event
    <2> QED BY <2>1, <2>2
<1>6. TypeOK'
    BY <1>1, <1>2, <1>3, <1>4, <1>5 DEF TypeOK, UserPlaces
<1>7. Alone(f)
    BY <1>1, <1>3 DEF TypeOK, Alone, Held, InEvents
<1>8. KeepsBound(f)
    BY <1>0, <1>3 DEF KeepsBound, Bound
<1>9. Place(f)'
    BY <1>0, <1>1, <1>2, <1>3 DEF Leaving, Calm, TypeOK, Place, Owner, Registered, Event
<1>10. Owner(f)'
    BY <1>1, <1>3 DEF TypeOK, Owner
<1>11. Held(f)'
    BY <1>0, <1>1 DEF Leaving, Calm, TypeOK, Held, InMutex, InEvents
<1> QED BY <1>4, <1>6, <1>7, <1>8, <1>9, <1>10, <1>11, UserStepKeeps

\* A request that the loop ends is not registered: nothing is watched or enabled.  One
\* that ~TaskManager ends may be registered, or the pool about to unregister it.
LEMMA DestroyHandlerIInv ==
    ASSUME IInv, NEW f \in Fds, DestroyHandler(f)
    PROVE  IInv'
<1> USE DEF DestroyHandler, Goto, SetEvent, locks
<1>1. TypeOK /\ Place(f) /\ Owner(f) /\ Held(f) /\ user[f] = "idle"
    BY DEF IInv
<1>2. current[f] \in 1..Generations /\ Mine(f) \in Request
    BY <1>1, MineIsOne DEF Numbers
<1>3. Mine(f)' = Mine(f) /\ request' = request /\ current' = current /\ alive' = alive
    BY DEF Mine
<1>4. server = "ending" \/ (~Mine(f).registered /\ ~Leaving(f))
    <2>1. CASE server = "ending"
        BY <2>1
    <2>2. CASE ~mutex[f] /\ (Mine(f).has_error \/ (Mine(f).wait = "NONE" /\ ~Mine(f).registered))
        BY <1>1, <2>2 DEF Owner, Wanted, Held
    <2> QED BY <2>1, <2>2 DEF EndsRequest
<1>5. event[f].enabled <=> Mine(f).registered \/ Leaving(f)
    BY <1>1, <1>2 DEF Place, Registered, Calm, Request
<1>6. f \in watched <=> Mine(f).registered \/ (Leaving(f) /\ pool.at = "unregister")
    BY <1>1, <1>2 DEF Place, Registered, Calm, Request
<1>7. f \notin watched' /\ watched' = watched \ {f}
    BY <1>5, <1>6
<1>8. Counted' /\ nfds' \in Int
    <2>1. nfds' \in Int
        BY <1>1 DEF TypeOK
    <2>2. CASE event[f].enabled
        <3>1. server = "ending" /\ server' = server /\ pool' = pool
            BY <1>4, <1>5, <2>2
        <3>2. ASSUME pool.at = "wait" PROVE nfds' = Cardinality(watched')
            <4>1. f \in watched /\ IsFiniteSet(watched) /\ nfds = Cardinality(watched)
                BY <1>1, <1>5, <1>6, <2>2, <3>2, WatchedIsFinite DEF Leaving, IInv, Counted
            <4>2. Cardinality(watched \ {f}) = Cardinality(watched) - 1
                BY <4>1, FS_RemoveElement
            <4> QED BY <1>7, <2>2, <4>1, <4>2
        <3> QED BY <2>1, <3>1, <3>2 DEF Counted
    <2>3. CASE ~event[f].enabled
        BY <2>1, <2>3 DEF IInv, Counted
    <2> QED BY <2>2, <2>3
<1>9. TypeOK'
    BY <1>1, <1>2, <1>3, <1>7, <1>8 DEF TypeOK, UserPlaces
<1>10. Alone(f)
    BY <1>1, <1>3, <1>7 DEF TypeOK, Alone, Held, InEvents
<1>11. KeepsBound(f)
    <2>1. user'[f] = "destroy" /\ server' = server
        BY <1>1 DEF TypeOK
    <2>2. Leaving(f) => ~Mine(f).registered /\ server = "ending"
        BY <1>4 DEF IInv, Calling, Left, Leaving
    <2> QED BY <1>3, <2>1, <2>2 DEF KeepsBound, Bound, Left, Calm
<1>12. user'[f] = "destroy" /\ pool' = pool /\ event' = event
    BY <1>1 DEF TypeOK
<1>13. Place(f)'
    BY <1>1, <1>3, <1>7, <1>12 DEF Place, Registered, Leaving, Calm
<1>14. Owner(f)'
    BY <1>1, <1>3, <1>4, <1>12 DEF Owner
<1>15. Held(f)'
    BY <1>1, <1>12 DEF TypeOK, Held, Leaving, InMutex, InEvents
<1> QED BY <1>8, <1>9, <1>10, <1>11, <1>13, <1>14, <1>15, UserStepKeeps

\* The pool is not at the descriptor, and will find the SocketEvent disabled.
LEMMA DestroyEventIInv ==
    ASSUME IInv, NEW f \in Fds, DestroyEvent(f)
    PROVE  IInv'
<1> USE DEF DestroyEvent, Goto, SetEvent, locks
<1>0. ~Leaving(f)
    BY NotLeaving DEF DestroyEvent
<1>1. TypeOK /\ Place(f) /\ Owner(f) /\ Held(f) /\ user[f] # "closed"
    BY DEF IInv
<1>2. current[f] \in 1..Generations /\ Mine(f) \in Request
    BY <1>1, MineIsOne DEF Numbers
<1>3. Mine(f)' = Mine(f) /\ request' = request /\ current' = current /\ alive' = alive
    BY DEF Mine
<1>4. Counted' /\ nfds' \in Int
    BY <1>1 DEF IInv, Counted, TypeOK
<1>5. event' \in [Fds -> Event]
    <2>1. event[f] \in Event /\ event \in [Fds -> Event]
        BY <1>1 DEF TypeOK
    <2>3. [event[f] EXCEPT !.handler = 0, !.enabled = FALSE] \in Event
        BY <2>1, OffIsEvent
    <2>2. event'[f] \in Event
        BY <2>1, <2>3
    <2> QED BY <2>1, <2>2
<1>6. TypeOK'
    BY <1>1, <1>2, <1>3, <1>4, <1>5 DEF TypeOK, UserPlaces
<1>7. Alone(f)
    BY <1>1, <1>3 DEF TypeOK, Alone, Held, InEvents
<1>8. KeepsBound(f)
    BY <1>0, <1>3 DEF KeepsBound, Bound
<1>9. Place(f)'
    BY <1>0, <1>1, <1>2, <1>3 DEF Leaving, Calm, TypeOK, Place, Owner, Registered, Event
<1>10. Owner(f)'
    BY <1>1, <1>3 DEF TypeOK, Owner
<1>11. Held(f)'
    BY <1>0, <1>1 DEF Leaving, Calm, TypeOK, Held, InMutex, InEvents
<1> QED BY <1>4, <1>6, <1>7, <1>8, <1>9, <1>10, <1>11, UserStepKeeps

-----------------------------------------------------------------------------
(* The users: steps that change the request.                                *)

\* A request that waits for what it was not told of registers.
LEMMA NeedIInv ==
    ASSUME IInv, NEW f \in Fds, Need(f)
    PROVE  IInv'
<1>0. ~Leaving(f)
    BY NotLeaving DEF Need
<1>1. TypeOK /\ Place(f) /\ Owner(f) /\ Held(f) /\ user[f] = "idle" /\ pool.at # "crashed"
    BY DEF IInv, Need, Goto
<1>2. current[f] \in Numbers /\ current[f] \in 1..Generations /\ Mine(f) \in Request
    BY <1>1, MineIsOne
<1> PICK e \in Awaited[f] :
        LET r == [Mine(f) EXCEPT !.wait = e]
        IN  /\ Busy(f) /\ Mine(f).wait = "NONE" /\ ~Mine(f).registered
            /\ Mine(f).closing => e = "CAN_WRITE"
            /\ SetMine(f, [r EXCEPT !.registered = Wanted(r)])
            /\ Goto(f, "idle", IF Wanted(r) THEN "register" ELSE "idle")
            /\ mutex' = [mutex EXCEPT ![f] = Wanted(r)]
            /\ UNCHANGED <<event, watched, nfds, events_mutex, process_mutex, current,
                           alive, pool, unread, server>>
    BY DEF Need
<1> DEFINE r == [Mine(f) EXCEPT !.wait = e]
           new == [r EXCEPT !.registered = Wanted(r)]
<1>3. e \in {"CAN_READ", "CAN_WRITE"}
    OBVIOUS
<1>4. r \in Request /\ Wanted(r) \in BOOLEAN
    BY <1>2, <1>3 DEF Request, Wanted
<1>5. new \in Request /\ new.registered = Wanted(r) /\ Wanted(new) = Wanted(r)
      /\ new.closing = Mine(f).closing /\ new.has_error = Mine(f).has_error
    BY <1>2, <1>4 DEF Request, Wanted
<1>6. SetMine(f, new) /\ mutex' = [mutex EXCEPT ![f] = Wanted(r)]
      /\ user' = [user EXCEPT ![f] = IF Wanted(r) THEN "register" ELSE "idle"]
      /\ UNCHANGED <<event, watched, nfds, events_mutex, process_mutex, current, alive, pool, unread, server>>
      /\ ~Mine(f).registered
    BY DEF Goto
<1> HIDE DEF r, new
<1>7. request' \in [Fds -> [Numbers -> Request]] /\ Mine(f)' = new
      /\ (\A n \in Numbers \ {current[f]} : request'[f][n] = request[f][n])
      /\ (\A g \in Fds \ {f} : request'[g] = request[g])
    BY <1>1, <1>5, <1>6, SetMineSets DEF Mine
<1>8. Counted' /\ nfds' \in Int
    BY <1>1, <1>6 DEF IInv, Counted, TypeOK
<1>9. TypeOK'
    <2>1. mutex' \in [Fds -> BOOLEAN]
        BY <1>1, <1>4, <1>6 DEF TypeOK
    <2>2. user' \in [Fds -> UserPlaces]
        BY <1>1, <1>6 DEF TypeOK, UserPlaces
    <2> QED BY <1>1, <1>6, <1>7, <2>1, <2>2 DEF TypeOK
<1>10. Alone(f)
    BY <1>1, <1>6, <1>7 DEF TypeOK, Alone
<1>11. KeepsBound(f)
    BY <1>0, <1>5, <1>6, <1>7 DEF KeepsBound, Bound
<1>12. Place(f)'
    BY <1>0, <1>1, <1>2, <1>4, <1>5, <1>6, <1>7 DEF Leaving, Calm, TypeOK, Place, Registered
<1>13. Owner(f)'
    <2>1. ASSUME NEW n \in Numbers, n > current'[f] PROVE request'[f][n] = NewRequest
        <3>1. current'[f] = current[f] /\ n # current[f]
            BY <1>2, <1>6, <2>1 DEF Numbers
        <3> QED BY <1>1, <1>7, <2>1, <3>1 DEF Owner
    <2>2. user'[f] = IF Wanted(r) THEN "register" ELSE "idle"
        BY <1>1, <1>6 DEF TypeOK
    <2>3. alive' = alive /\ current' = current /\ current[f] \in alive[f] /\ Mine(f)'.registered = Wanted(r)
        BY <1>1, <1>5, <1>6, <1>7 DEF Owner
    <2>4. Mine(f)'.registered => Wanted(Mine(f)')
        BY <1>5, <1>7
    <2> QED BY <1>2, <2>1, <2>2, <2>3, <2>4 DEF Owner, Wanted, Mine
<1>14. Held(f)'
    BY <1>0, <1>1, <1>4, <1>6 DEF Leaving, Calm, TypeOK, Held, InMutex, InEvents
<1> QED BY <1>8, <1>9, <1>10, <1>11, <1>12, <1>13, <1>14, UserStepKeeps

\* A request that is given work has been told of what it waited for, and so is not
\* registered.
LEMMA DispatchIInv ==
    ASSUME IInv, NEW f \in Fds, Dispatch(f)
    PROVE  IInv'
<1>0. ~Leaving(f)
    BY NotLeaving DEF Dispatch
<1>1. TypeOK /\ Place(f) /\ Owner(f) /\ Held(f) /\ user[f] = "idle" /\ pool.at # "crashed"
    BY DEF IInv, Dispatch, Goto
<1>2. current[f] \in Numbers /\ current[f] \in 1..Generations /\ Mine(f) \in Request
    BY <1>1, MineIsOne
<1> DEFINE new == [Mine(f) EXCEPT !.wait = "NONE", !.can = @ \ {Mine(f).wait}]
<1>3. new \in Request /\ new.registered = Mine(f).registered
      /\ new.closing = Mine(f).closing /\ new.has_error = Mine(f).has_error
    BY <1>2 DEF Request
<1>4. SetMine(f, new) /\ user' = [user EXCEPT ![f] = IF Mine(f).wait = "CAN_READ" THEN "reading" ELSE "idle"]
      /\ UNCHANGED <<event, watched, nfds, locks, current, alive, pool, unread, server>>
      /\ Mine(f).wait \in Mine(f).can
    BY DEF Dispatch, Goto
<1>5. ~Mine(f).registered
    BY <1>1, <1>4 DEF Owner, Wanted
<1> HIDE DEF new
<1>6. request' \in [Fds -> [Numbers -> Request]] /\ Mine(f)' = new
      /\ (\A n \in Numbers \ {current[f]} : request'[f][n] = request[f][n])
      /\ (\A g \in Fds \ {f} : request'[g] = request[g])
    BY <1>1, <1>3, <1>4, SetMineSets DEF Mine
<1>7. Counted' /\ nfds' \in Int
    BY <1>1, <1>4 DEF IInv, Counted, TypeOK
<1>8. TypeOK'
    BY <1>1, <1>4, <1>6 DEF TypeOK, UserPlaces, locks
<1>9. Alone(f)
    BY <1>1, <1>4, <1>6 DEF TypeOK, Alone, locks
<1>10. KeepsBound(f)
    BY <1>0, <1>3, <1>4, <1>6 DEF KeepsBound, Bound
<1>11. Place(f)'
    BY <1>0, <1>1, <1>2, <1>3, <1>4, <1>5, <1>6 DEF Leaving, Calm, TypeOK, Place, Registered
<1>12. Owner(f)'
    <2>1. ASSUME NEW n \in Numbers, n > current'[f] PROVE request'[f][n] = NewRequest
        <3>1. current'[f] = current[f] /\ n # current[f]
            BY <1>2, <1>4, <2>1 DEF Numbers
        <3> QED BY <1>1, <1>6, <2>1, <3>1 DEF Owner
    <2>2. user'[f] \in {"reading", "idle"}
        BY <1>1, <1>4 DEF TypeOK
    <2>3. alive' = alive /\ current' = current /\ current[f] \in alive[f] /\ ~Mine(f)'.registered
        BY <1>1, <1>3, <1>4, <1>5, <1>6 DEF Owner
    <2> QED BY <1>2, <2>1, <2>2, <2>3 DEF Owner, Mine
<1>13. Held(f)'
    BY <1>0, <1>1, <1>4 DEF Leaving, Calm, TypeOK, Held, InMutex, InEvents, locks
<1> QED BY <1>7, <1>8, <1>9, <1>10, <1>11, <1>12, <1>13, UserStepKeeps

\* A request that gives up is registered no more, and will close its connection.
LEMMA GiveUpIInv ==
    ASSUME IInv, NEW f \in Fds, GiveUp(f)
    PROVE  IInv'
<1>0. ~Leaving(f)
    BY NotLeaving DEF GiveUp
<1>1. TypeOK /\ Place(f) /\ Owner(f) /\ Held(f) /\ user[f] = "idle" /\ pool.at # "crashed"
    BY DEF IInv, GiveUp, Goto
<1>2. current[f] \in Numbers /\ current[f] \in 1..Generations /\ Mine(f) \in Request
    BY <1>1, MineIsOne
<1> PICK error \in BOOLEAN :
        SetMine(f, [Mine(f) EXCEPT !.wait = "NONE", !.has_error = error,
                                   !.closing = TRUE, !.registered = FALSE])
    BY DEF GiveUp
<1> DEFINE new == [Mine(f) EXCEPT !.wait = "NONE", !.has_error = error,
                                  !.closing = TRUE, !.registered = FALSE]
<1>3. new \in Request /\ ~new.registered /\ new.closing
    BY <1>2 DEF Request
<1>4. SetMine(f, new) /\ user' = [user EXCEPT ![f] = IF Mine(f).registered THEN "unwatch" ELSE "idle"]
      /\ mutex' = [mutex EXCEPT ![f] = Mine(f).registered]
      /\ UNCHANGED <<event, watched, nfds, events_mutex, process_mutex, current, alive, pool, unread, server>>
    BY DEF GiveUp, Goto
<1>5. Mine(f).registered \in BOOLEAN
    BY <1>2 DEF Request
<1> HIDE DEF new
<1>6. request' \in [Fds -> [Numbers -> Request]] /\ Mine(f)' = new
      /\ (\A n \in Numbers \ {current[f]} : request'[f][n] = request[f][n])
      /\ (\A g \in Fds \ {f} : request'[g] = request[g])
    BY <1>1, <1>3, <1>4, SetMineSets DEF Mine
<1>7. Counted' /\ nfds' \in Int
    BY <1>1, <1>4 DEF IInv, Counted, TypeOK
<1>8. TypeOK'
    BY <1>1, <1>4, <1>5, <1>6 DEF TypeOK, UserPlaces
<1>9. Alone(f)
    BY <1>1, <1>4, <1>6 DEF TypeOK, Alone
<1>10. KeepsBound(f)
    BY <1>0, <1>3, <1>4, <1>6 DEF KeepsBound, Bound
<1>11. Place(f)'
    BY <1>0, <1>1, <1>2, <1>3, <1>4, <1>5, <1>6 DEF Leaving, Calm, TypeOK, Place, Registered
<1>12. Owner(f)'
    BY <1>1, <1>2, <1>3, <1>4, <1>5, <1>6 DEF TypeOK, Owner
<1>13. Held(f)'
    BY <1>0, <1>1, <1>4, <1>5 DEF Leaving, Calm, TypeOK, Held, InMutex, InEvents
<1> QED BY <1>7, <1>8, <1>9, <1>10, <1>11, <1>12, <1>13, UserStepKeeps

\* A connection that is closed is neither watched nor known to the pool.
LEMMA DeleteIInv ==
    ASSUME IInv, NEW f \in Fds, Delete(f)
    PROVE  IInv'
<1>0. ~Leaving(f)
    BY NotLeaving DEF Delete, Goto, Calm
<1>1. TypeOK /\ Place(f) /\ Owner(f) /\ Held(f) /\ user[f] = "delete" /\ pool.at # "crashed"
    BY DEF IInv, Delete, Goto
<1>2. current[f] \in Numbers /\ current[f] \in 1..Generations /\ Mine(f) \in Request
    BY <1>1, MineIsOne
<1>3. f \notin watched /\ ~process_mutex[f]
    BY <1>0, <1>1 DEF Place, Registered, Calm, Held
<1>4. SetMine(f, NewRequest) /\ user' = [user EXCEPT ![f] = "closed"] /\ alive' = [alive EXCEPT ![f] = {}]
      /\ watched' = watched /\ unread' = [unread EXCEPT ![f] = FALSE]
      /\ UNCHANGED <<event, nfds, locks, current, pool, server>>
    BY <1>3 DEF Delete, Goto
<1>5. request' \in [Fds -> [Numbers -> Request]]
      /\ (\A n \in Numbers \ {current[f]} : request'[f][n] = request[f][n])
      /\ (\A g \in Fds \ {f} : request'[g] = request[g])
    BY <1>1, <1>4, SetMineSets, NewIsRequest
<1>6. Counted' /\ nfds' \in Int
    BY <1>1, <1>4 DEF IInv, Counted, TypeOK
<1>7. TypeOK'
    BY <1>1, <1>4, <1>5 DEF TypeOK, UserPlaces, locks
<1>8. Alone(f)
    BY <1>1, <1>4, <1>5 DEF TypeOK, Alone, locks
<1>9. KeepsBound(f)
    BY <1>0, <1>1, <1>3 DEF KeepsBound, Held, InProcess
<1>10. Place(f)'
    BY <1>0, <1>1, <1>2, <1>3, <1>4 DEF Leaving, Calm, TypeOK, Place, Registered
<1>11. Owner(f)'
    <2>1. ASSUME NEW n \in Numbers, n > current'[f] PROVE request'[f][n] = NewRequest
        <3>1. current'[f] = current[f] /\ n # current[f]
            BY <1>2, <1>4, <2>1 DEF Numbers
        <3> QED BY <1>1, <1>5, <2>1, <3>1 DEF Owner
    <2>2. user'[f] = "closed"
        BY <1>1, <1>4 DEF TypeOK
    <2> QED BY <2>1, <2>2 DEF Owner
<1>12. Held(f)'
    BY <1>0, <1>1, <1>3, <1>4 DEF Leaving, Calm, TypeOK, Held, InMutex, InEvents, locks
<1> QED BY <1>6, <1>7, <1>8, <1>9, <1>10, <1>11, <1>12, UserStepKeeps

\* What is left of the requests before the current one goes.
LEMMA DropOldIInv ==
    ASSUME IInv, NEW f \in Fds, DropOld(f)
    PROVE  IInv'
<1>1. TypeOK /\ Place(f) /\ Owner(f) /\ Held(f) /\ user[f] = "idle" /\ pool.at # "crashed"
    BY DEF IInv, DropOld, Goto
<1>2. current[f] \in Numbers /\ current[f] \in 1..Generations /\ Mine(f) \in Request
    BY <1>1, MineIsOne
<1> DEFINE new == [n \in Numbers |-> IF n = current[f] THEN request[f][n] ELSE NewRequest]
<1>3. alive' = [alive EXCEPT ![f] = {current[f]}] /\ user' = user
      /\ request' = [request EXCEPT ![f] = new]
      /\ UNCHANGED <<event, watched, nfds, locks, current, pool, unread, server>>
    BY <1>1 DEF DropOld, Goto, TypeOK
<1>4. request' \in [Fds -> [Numbers -> Request]] /\ Mine(f)' = Mine(f)
      /\ (\A n \in Numbers \ {current[f]} : request'[f][n] = NewRequest)
      /\ (\A g \in Fds \ {f} : request'[g] = request[g])
    BY <1>1, <1>2, <1>3, NewIsRequest DEF Mine, TypeOK
<1> HIDE DEF new
<1>5. Counted' /\ nfds' \in Int
    BY <1>1, <1>3 DEF IInv, Counted, TypeOK
<1>6. TypeOK'
    BY <1>1, <1>2, <1>3, <1>4 DEF TypeOK, locks
<1>7. Alone(f)
    BY <1>1, <1>3, <1>4 DEF TypeOK, Alone, locks
<1>8. KeepsBound(f)
    BY <1>3, <1>4 DEF KeepsBound, Bound, Calling, Left, Leaving, IInv, locks
<1>9. Place(f)'
    BY <1>1, <1>3, <1>4 DEF TypeOK, Place, Registered, Leaving
<1>10. Owner(f)'
    BY <1>1, <1>2, <1>3, <1>4 DEF TypeOK, Owner
<1>11. Held(f)'
    BY <1>1, <1>3 DEF TypeOK, Held, Leaving, InMutex, InEvents, locks
<1> QED BY <1>5, <1>6, <1>7, <1>8, <1>9, <1>10, <1>11, UserStepKeeps

\* A new request is registered by its first wait.  The pool is not calling the request
\* before it: one that waits for nothing, has no error and keeps its connection is not
\* one that the pool is bound to.
LEMMA NewRequestIInv ==
    ASSUME IInv, NEW f \in Fds, Accept(f) \/ HandOver(f)
    PROVE  IInv'
<1>1. TypeOK /\ Place(f) /\ Owner(f) /\ Held(f) /\ user[f] \in {"closed", "idle"} /\ pool.at # "crashed"
    BY DEF IInv, Accept, HandOver, Goto
<1>0. ~Leaving(f)
    BY NotLeaving DEF Accept, HandOver, Goto, Calm
<1>2. ~Registered(f)
    <2>1. CASE Accept(f)
        BY <2>1 DEF Accept, Goto, Registered, Calm
    <2>2. CASE HandOver(f)
        BY <1>1, <2>2 DEF HandOver, Goto, Registered, Owner, Wanted
    <2> QED BY <2>1, <2>2
<1>3. ~(pool.fd = f /\ pool.at \in {"load", "call"} /\ Bound(f))
    <2>1. CASE Accept(f)
        BY <1>1, <2>1 DEF Accept, Goto, Held, InProcess
    <2>2. CASE HandOver(f)
        <3>1. user[f] = "idle" /\ ~Mine(f).has_error /\ ~Mine(f).closing
            BY <2>2 DEF HandOver, Goto
        <3> QED BY <1>2, <3>1 DEF Registered, Calm, Bound
    <2> QED BY <2>1, <2>2
<1>4. user' = [user EXCEPT ![f] = "register"] /\ NewRequestOn(f)
    BY DEF Accept, HandOver, Goto
<1>5. current[f] < Generations /\ current' = [current EXCEPT ![f] = @ + 1]
      /\ alive' = [alive EXCEPT ![f] = @ \cup {current'[f]}] /\ mutex' = [mutex EXCEPT ![f] = TRUE]
      /\ UNCHANGED <<event, watched, nfds, events_mutex, process_mutex, request, pool, unread, server>>
    BY <1>4 DEF NewRequestOn
<1>6. current'[f] = current[f] + 1 /\ current'[f] \in Numbers /\ current[f] \in Nat
    BY <1>1, <1>5 DEF TypeOK, Numbers
<1>7. Mine(f)' = NewRequest
    BY <1>1, <1>5, <1>6 DEF Owner, Mine
<1>8. Counted' /\ nfds' \in Int
    BY <1>1, <1>5 DEF IInv, Counted, TypeOK
<1>9. TypeOK'
    BY <1>1, <1>4, <1>5, <1>6 DEF TypeOK, UserPlaces, Numbers
<1>10. Alone(f)
    BY <1>1, <1>4, <1>5 DEF TypeOK, Alone
<1>11. KeepsBound(f)
    BY <1>0, <1>3 DEF KeepsBound
<1>12. Place(f)'
    BY <1>0, <1>1, <1>2, <1>4, <1>5 DEF TypeOK, Place, Registered, Leaving, Calm
<1>13. Owner(f)'
    <2>1. ASSUME NEW n \in Numbers, n > current'[f] PROVE request'[f][n] = NewRequest
        <3>1. request' = request /\ n > current[f]
            BY <1>5, <1>6, <2>1 DEF Numbers
        <3> QED BY <1>1, <2>1, <3>1 DEF Owner
    <2>2. user'[f] = "register" /\ current'[f] \in alive'[f]
        BY <1>1, <1>4, <1>5 DEF TypeOK
    <2>3. NewRequest.registered /\ Wanted(NewRequest)
        BY DEF NewRequest, Wanted
    <2> QED BY <1>6, <1>7, <2>1, <2>2, <2>3 DEF Owner, Mine, Wanted
<1>14. Held(f)'
    BY <1>0, <1>1, <1>4, <1>5 DEF TypeOK, Held, Leaving, InMutex, InEvents
<1> QED BY <1>8, <1>9, <1>10, <1>11, <1>12, <1>13, <1>14, UserStepKeeps

-----------------------------------------------------------------------------
(* The pool and the clients.                                                *)

\* Steps that change neither a user nor a request, nor what is registered.
LEMMA QuietStepKeeps ==
    ASSUME IInv, TypeOK', Calling', nfds' = nfds, watched' = watched, request' = request,
           current' = current, alive' = alive, user' = user, mutex' = mutex, events_mutex' = events_mutex,
           server' = server, pool'.at = "wait" => pool.at = "wait" \/ server # "ending",
           pool' = pool \/ {pool.at, pool'.at} \cap {"unregister", "disable"} = {},
           \A f \in Fds : event'[f].enabled = event[f].enabled /\ event'[f].handler = event[f].handler,
           \A f \in Fds : process_mutex'[f] <=> pool'.at \in InProcess /\ pool'.fd = f,
           \A f \in Fds : process_mutex'[f] => process_mutex[f] \/ event[f].enabled
    PROVE  IInv'
<1>1. Counted'
    BY DEF IInv, Counted
<1>3. /\ \A f \in Fds : Leaving(f)' <=> Leaving(f)
      /\ \A f \in Fds : Leaving(f) => pool' = pool
    BY DEF Leaving
<1>2. ASSUME NEW f \in Fds PROVE Place(f)' /\ Owner(f)' /\ Held(f)'
    <2>1. Place(f) /\ Owner(f) /\ Held(f)
        BY DEF IInv
    <2>2. Place(f)'
        <3>1. Registered(f)' <=> Registered(f)
            BY DEF Registered, Mine
        <3> QED BY <1>3, <2>1, <3>1 DEF Place
    <2>3. Owner(f)'
        BY <2>1 DEF Owner, Mine
    <2>4. event[f].enabled => user[f] \notin {"closed", "delete"}
        BY <2>1, NotLeaving DEF Place, Registered, Calm
    <2>5. Held(f)'
        BY <1>3, <2>1, <2>4 DEF Held
    <2> QED BY <2>2, <2>3, <2>5
<1> QED BY <1>1, <1>2 DEF IInv

LEMMA FirstIsOne == ASSUME NEW evts, evts # {} PROVE First(evts) \in evts
<1>1. CASE "CAN_READ" \in evts
    BY <1>1 DEF First
<1>2. CASE "CAN_READ" \notin evts
    <2>1. (CHOOSE e \in evts : TRUE) \in evts
        OBVIOUS
    <2> QED BY <1>2, <2>1 DEF First
<1> QED BY <1>1, <1>2

\* The pool takes and gives back a _process_mutex as it comes and goes.
LEMMA HeldByPool ==
    ASSUME IInv, NEW f \in Fds
    PROVE  process_mutex[f] <=> pool.at \in InProcess /\ pool.fd = f
BY DEF IInv, Held

LEMMA ClientSendsIInv == ASSUME IInv, NEW f \in Fds, ClientSends(f) PROVE IInv'
<1> USE DEF ClientSends, locks
<1>1. TypeOK'
    BY DEF IInv, TypeOK
<1>2. Calling'
    BY DEF IInv, Calling, Bound, Left, Mine
<1> QED BY <1>1, <1>2, HeldByPool, QuietStepKeeps

LEMMA StutterIInv == ASSUME IInv, UNCHANGED vars PROVE IInv'
<1> USE DEF vars, locks
<1>1. TypeOK'
    BY DEF IInv, TypeOK
<1>2. Calling'
    BY DEF IInv, Calling, Bound, Left, Mine
<1> QED BY <1>1, <1>2, HeldByPool, QuietStepKeeps

LEMMA EpollWaitIInv == ASSUME IInv, EpollWait PROVE IInv'
<1> PICK ready \in [Fds -> SUBSET SocketEvents] :
        /\ Move("wait", [pool EXCEPT !.at = "batch", !.ready = ready])
        /\ UNCHANGED <<event, watched, nfds, locks, request, current, alive, user, unread, server>>
    BY DEF EpollWait
<1> USE DEF Move, locks
<1>1. TypeOK
    BY DEF IInv
<1>2. pool' = [pool EXCEPT !.at = "batch", !.ready = ready] /\ pool.at = "wait"
    OBVIOUS
<1>3. pool'.at = "batch"
    BY <1>1, <1>2 DEF TypeOK
<1>4. TypeOK'
    BY <1>1, <1>2 DEF TypeOK, PoolPlaces
<1>5. Calling'
    BY <1>3 DEF Calling, InProcess
<1>6. \A f \in Fds : process_mutex'[f] <=> pool'.at \in InProcess /\ pool'.fd = f
    BY <1>2, <1>3, HeldByPool DEF InProcess
<1> QED BY <1>4, <1>5, <1>6, QuietStepKeeps

LEMMA NotifyIInv == ASSUME IInv, Notify PROVE IInv'
<1> PICK f \in Ready :
        /\ Move("batch", [pool EXCEPT !.at = "trigger", !.fd = f, !.ready[f] = @ \ {First(@)}])
        /\ SetEvent(f, [event[f] EXCEPT !.flags = @ \cup {First(pool.ready[f])}])
        /\ UNCHANGED <<watched, nfds, locks, request, current, alive, user, unread, server>>
    BY DEF Notify
<1> USE DEF Move, SetEvent, locks
<1>1. TypeOK /\ f \in Fds /\ pool.ready[f] # {} /\ pool.ready \in [Fds -> SUBSET SocketEvents]
    BY DEF IInv, Ready, TypeOK
<1>2. First(pool.ready[f]) \in SocketEvents
    BY <1>1, FirstIsOne
<1> DEFINE evt == First(pool.ready[f])
<1>3. pool' = [pool EXCEPT !.at = "trigger", !.fd = f, !.ready = [pool.ready EXCEPT ![f] = @ \ {evt}]]
      /\ pool.at = "batch" /\ event' = [event EXCEPT ![f] = [event[f] EXCEPT !.flags = @ \cup {evt}]]
    BY <1>1 DEF TypeOK
<1>4. evt \in SocketEvents
    BY <1>2
<1> HIDE DEF evt
<1>5. pool'.at = "trigger" /\ pool'.fd = f
    BY <1>1, <1>3 DEF TypeOK
<1>6. event' \in [Fds -> Event] /\ \A g \in Fds : event'[g].enabled = event[g].enabled /\ event'[g].handler = event[g].handler
    <2>1. event[f] \in Event /\ event \in [Fds -> Event]
        BY <1>1 DEF TypeOK
    <2>2. [event[f] EXCEPT !.flags = @ \cup {evt}] \in Event
        BY <1>4, <2>1 DEF Event
    <2>3. event'[f].enabled = event[f].enabled /\ event'[f].handler = event[f].handler
        BY <1>1, <1>3, <2>1 DEF Event
    <2>4. event' = [event EXCEPT ![f] = [event[f] EXCEPT !.flags = @ \cup {evt}]]
        BY <1>3
    <2>5. event' \in [Fds -> Event]
        BY <2>1, <2>2, <2>4
    <2>6. ASSUME NEW g \in Fds PROVE event'[g].enabled = event[g].enabled /\ event'[g].handler = event[g].handler
        BY <2>1, <2>3, <2>4
    <2> QED BY <2>5, <2>6
<1>7. TypeOK'
    <2>1. [pool.ready EXCEPT ![f] = @ \ {evt}] \in [Fds -> SUBSET SocketEvents]
        BY <1>1
    <2> DEFINE rest == [pool.ready EXCEPT ![f] = @ \ {evt}]
    <2>2. pool' = [pool EXCEPT !.at = "trigger", !.fd = f, !.ready = rest] /\ rest \in [Fds -> SUBSET SocketEvents]
        BY <1>3, <2>1
    <2> HIDE DEF rest
    <2>3. pool' \in [at : PoolPlaces, fd : Fds \cup {NoFd}, evt : SocketEvents \cup {"NONE"},
                     handler : 0..Generations, ready : [Fds -> SUBSET SocketEvents]]
        BY <1>1, <2>2 DEF TypeOK, PoolPlaces
    <2> QED BY <1>1, <1>6, <2>3 DEF TypeOK
<1>8. Calling'
    BY <1>1, <1>5 DEF Calling, InProcess
<1>9. \A g \in Fds : process_mutex'[g] <=> pool'.at \in InProcess /\ pool'.fd = g
    BY <1>3, <1>5, HeldByPool DEF InProcess
<1> QED BY <1>6, <1>7, <1>8, <1>9, HeldByPool, QuietStepKeeps

LEMMA BatchDoneIInv == ASSUME IInv, BatchDone PROVE IInv'
<1> USE DEF BatchDone, Move, locks
<1>1. TypeOK
    BY DEF IInv
<1>2. pool'.at \in {"wait", "gone"} /\ (pool'.at = "wait" => server # "ending") /\ pool.at = "batch"
    BY <1>1 DEF TypeOK
<1>3. TypeOK'
    BY <1>1 DEF TypeOK, PoolPlaces
<1>4. Calling'
    BY <1>2 DEF Calling, InProcess
<1>5. \A f \in Fds : process_mutex'[f] <=> pool'.at \in InProcess /\ pool'.fd = f
    BY <1>2, HeldByPool DEF InProcess
<1> QED BY <1>3, <1>4, <1>5, QuietStepKeeps

LEMMA PoolLeavesIInv == ASSUME IInv, PoolLeaves PROVE IInv'
<1> USE DEF PoolLeaves, Move, locks
<1>1. TypeOK
    BY DEF IInv
<1>2. pool'.at = "gone" /\ pool.at = "wait"
    BY <1>1 DEF TypeOK
<1>3. TypeOK'
    BY <1>1 DEF TypeOK, PoolPlaces
<1>4. Calling'
    BY <1>2 DEF Calling, InProcess
<1>5. \A f \in Fds : process_mutex'[f] <=> pool'.at \in InProcess /\ pool'.fd = f
    BY <1>2, HeldByPool DEF InProcess
<1> QED BY <1>2, <1>3, <1>4, <1>5, QuietStepKeeps

\* trigger takes the _process_mutex of an enabled SocketEvent only, which is not that
\* of a connection that is closed.
LEMMA TriggerIInv == ASSUME IInv, Trigger PROVE IInv'
<1> USE DEF Trigger, Move, locks
<1>1. TypeOK /\ pool.at = "trigger" /\ pool.fd \in Fds /\ ~process_mutex[pool.fd]
    BY DEF IInv, Calling
<1>2. CASE event[pool.fd].enabled
    <2>1. pool' = [pool EXCEPT !.at = "deliver"] /\ process_mutex' = [process_mutex EXCEPT ![pool.fd] = TRUE]
        BY <1>2
    <2>2. pool'.at = "deliver" /\ pool'.fd = pool.fd
        BY <1>1, <2>1 DEF TypeOK
    <2>3. TypeOK'
        BY <1>1, <2>1 DEF TypeOK, PoolPlaces
    <2>4. Calling'
        BY <1>1, <2>2 DEF Calling
    <2>5. \A f \in Fds : process_mutex'[f] <=> pool'.at \in InProcess /\ pool'.fd = f
        BY <1>1, <2>1, <2>2, HeldByPool DEF InProcess, TypeOK
    <2>6. \A f \in Fds : process_mutex'[f] => process_mutex[f] \/ event[f].enabled
        BY <1>1, <1>2, <2>1 DEF TypeOK
    <2> QED BY <1>1, <2>2, <2>3, <2>4, <2>5, <2>6, QuietStepKeeps
<1>3. CASE ~event[pool.fd].enabled
    <2>1. pool' = [pool EXCEPT !.at = "batch"] /\ process_mutex' = process_mutex
        BY <1>3
    <2>2. pool'.at = "batch"
        BY <1>1, <2>1 DEF TypeOK
    <2>3. TypeOK'
        BY <1>1, <2>1 DEF TypeOK, PoolPlaces
    <2>4. Calling'
        BY <2>2 DEF Calling, InProcess
    <2>5. \A f \in Fds : process_mutex'[f] <=> pool'.at \in InProcess /\ pool'.fd = f
        BY <1>1, <2>1, <2>2, HeldByPool DEF InProcess
    <2> QED BY <1>1, <2>1, <2>2, <2>3, <2>4, <2>5, QuietStepKeeps
<1> QED BY <1>2, <1>3

\* What the pool is about to call is enabled: it is registered, or giving up.
LEMMA EnabledIsBound ==
    ASSUME IInv, NEW f \in Fds, event[f].enabled, ~Leaving(f)
    PROVE  event[f].handler = current[f] /\ Bound(f) /\ current[f] # 0
<1>1. Place(f) /\ Owner(f)
    BY DEF IInv
<1>2. user[f] # "closed" /\ (Registered(f) \/ user[f] \in {"watch", "unwatch", "disable"})
    BY <1>1 DEF Place, Registered, Calm
<1>3. current[f] # 0
    BY <1>2, MineIsOne
<1> QED BY <1>1, <1>2, <1>3 DEF Place, Owner, Registered, Bound

LEMMA DeliverIInv == ASSUME IInv, Deliver PROVE IInv'
<1> DEFINE f == pool.fd
           e == event[f]
           evt == IF "HAS_ERROR" \in e.flags THEN "HAS_ERROR" ELSE First(e.flags)
<1>1. TypeOK /\ f \in Fds /\ pool.at = "deliver" /\ e.flags # {} /\ e \in Event /\ event \in [Fds -> Event]
    BY DEF IInv, Calling, Deliver, InProcess, TypeOK
<1>2. evt \in SocketEvents
    <2>1. First(e.flags) \in SocketEvents
        BY <1>1, FirstIsOne DEF Event
    <2> QED BY <2>1 DEF SocketEvents
<1>3. /\ SetEvent(f, [e EXCEPT !.flags = IF evt = "HAS_ERROR" THEN {} ELSE @ \ {evt}])
      /\ pool' = IF e.enabled /\ (evt = "HAS_ERROR" \/ e.handler # 0)
                 THEN [pool EXCEPT !.at = "load", !.evt = evt, !.handler = e.handler]
                 ELSE pool
      /\ UNCHANGED <<watched, nfds, locks, request, current, alive, user, unread, server>>
    BY DEF Deliver, Move
<1> HIDE DEF evt
<1>4. event' \in [Fds -> Event] /\ \A g \in Fds : event'[g].enabled = event[g].enabled /\ event'[g].handler = event[g].handler
    <2>2. [e EXCEPT !.flags = IF evt = "HAS_ERROR" THEN {} ELSE @ \ {evt}] \in Event
        BY <1>1 DEF Event
    <2>3. event'[f].enabled = e.enabled /\ event'[f].handler = e.handler
        BY <1>1, <1>3 DEF Event, SetEvent
    <2> QED BY <1>1, <1>3, <2>2, <2>3 DEF SetEvent
<1>5. e.handler \in 0..Generations
    BY <1>1 DEF Event
<1>6. TypeOK'
    BY <1>1, <1>2, <1>3, <1>4, <1>5 DEF TypeOK, PoolPlaces, locks
<1>7. pool'.fd = f /\ pool'.at \in {"deliver", "load"}
    BY <1>1, <1>3 DEF TypeOK
<1>8. Calling'
    <2>1. pool'.at = "load" => pool'.evt \in SocketEvents /\ pool'.handler = current[f] /\ Bound(f)
        BY <1>1, <1>2, <1>3, EnabledIsBound DEF TypeOK, Leaving
    <2> QED BY <1>1, <1>3, <1>7, <2>1 DEF Calling, InProcess, Bound, Mine
<1>9. \A g \in Fds : process_mutex'[g] <=> pool'.at \in InProcess /\ pool'.fd = g
    BY <1>1, <1>3, <1>7, HeldByPool DEF InProcess, locks
<1> QED BY <1>3, <1>4, <1>6, <1>8, <1>9, HeldByPool, QuietStepKeeps DEF locks

LEMMA TriggerDoneIInv == ASSUME IInv, TriggerDone PROVE IInv'
<1> USE DEF TriggerDone, Move
<1>1. TypeOK /\ pool.at = "deliver" /\ pool.fd \in Fds
    BY DEF IInv, Calling, InProcess
<1>2. pool' = [pool EXCEPT !.at = "batch"] /\ process_mutex' = [process_mutex EXCEPT ![pool.fd] = FALSE]
    OBVIOUS
<1>3. pool'.at = "batch"
    BY <1>1, <1>2 DEF TypeOK
<1>4. TypeOK'
    BY <1>1, <1>2 DEF TypeOK, PoolPlaces
<1>5. Calling'
    BY <1>3 DEF Calling, InProcess
<1>6. \A f \in Fds : ~process_mutex'[f]
    BY <1>1, <1>2, HeldByPool DEF TypeOK
<1> QED BY <1>3, <1>4, <1>5, <1>6, QuietStepKeeps DEF InProcess

LEMMA LoadIInv == ASSUME IInv, Load PROVE IInv'
<1>1. TypeOK /\ Calling /\ pool.at = "load" /\ pool.fd \in Fds
    BY DEF IInv, Calling, Load, InProcess
<1>2. event[pool.fd].handler \in {0, current[pool.fd]} /\ pool.handler = current[pool.fd] /\ Bound(pool.fd)
      /\ pool.evt \in SocketEvents
    BY <1>1 DEF IInv, Place, Calling
<1> PICK h \in {event[pool.fd].handler} \cup (IF pool.evt = "HAS_ERROR" THEN {} ELSE {pool.handler}) :
        /\ pool' = [pool EXCEPT !.at = IF h = 0 THEN "crashed" ELSE "call", !.handler = h]
        /\ UNCHANGED <<event, watched, nfds, locks, request, current, alive, user, unread, server>>
    BY DEF Load, Move
<1>3. h \in {0, current[pool.fd]} /\ h \in 0..Generations
    BY <1>1, <1>2 DEF TypeOK
<1>4. pool'.at = (IF h = 0 THEN "crashed" ELSE "call") /\ pool'.fd = pool.fd /\ pool'.handler = h
      /\ pool'.evt = pool.evt
    BY <1>1 DEF TypeOK
<1>5. TypeOK'
    BY <1>1, <1>3 DEF TypeOK, PoolPlaces, locks
<1>6. Calling'
    BY <1>1, <1>2, <1>3, <1>4 DEF Calling, InProcess, Bound, Mine
<1>7. \A f \in Fds : process_mutex'[f] <=> pool'.at \in InProcess /\ pool'.fd = f
    BY <1>1, <1>4, HeldByPool DEF InProcess, locks
<1> QED BY <1>5, <1>6, <1>7, HeldByPool, QuietStepKeeps DEF locks

\* handleSocketEvent keeps a request what it is, and leaves _registered to _unregister.
LEMMA ToldIsRequest ==
    ASSUME NEW r \in Request, NEW evt \in SocketEvents
    PROVE  Told(r, evt) \in Request /\ Told(r, evt).registered = r.registered
<1>1. CASE r.has_error
    BY <1>1 DEF Told
<1>2. CASE ~r.has_error /\ evt = "HAS_ERROR"
    BY <1>2 DEF Told, Request
<1>3. CASE ~r.has_error /\ evt # "HAS_ERROR"
    BY <1>3 DEF Told, Request, SocketEvents
<1> QED BY <1>1, <1>2, <1>3

\* A step of the pool at a descriptor leaves the others alone.
LEMMA PoolStepKeeps ==
    ASSUME IInv, NEW f \in Fds, TypeOK', Counted', Calling', Place(f)', Owner(f)',
           pool.fd = f, pool'.fd = f, pool.at \in InProcess, pool'.at \in InProcess,
           mutex'[f] <=> user[f] \in InMutex \/ Leaving(f)',
           UNCHANGED <<current, alive, user, process_mutex, events_mutex, server>>,
           \A g \in Fds \ {f} : /\ event'[g] = event[g] /\ request'[g] = request[g] /\ mutex'[g] = mutex[g]
                                /\ g \in watched' <=> g \in watched
    PROVE  IInv'
<1>1. ASSUME NEW g \in Fds \ {f} PROVE Place(g)' /\ Owner(g)' /\ Held(g)'
    <2>1. Place(g) /\ Owner(g) /\ Held(g)
        BY DEF IInv
    <2>2. Mine(g)' = Mine(g) /\ ~Leaving(g) /\ ~Leaving(g)'
        BY <1>1 DEF Mine, Leaving
    <2>3. Place(g)'
        BY <1>1, <2>1, <2>2 DEF Place, Registered
    <2>4. Owner(g)'
        BY <1>1, <2>1, <2>2 DEF Owner
    <2>5. Held(g)'
        BY <1>1, <2>1, <2>2 DEF Held
    <2> QED BY <2>3, <2>4, <2>5
<1>2. Held(f)'
    <2>1. Held(f)
        BY DEF IInv
    <2> QED BY <2>1 DEF Held
<1> QED BY <1>1, <1>2 DEF IInv

\* The pool calls the request that has the connection.  If it was told of what it waited
\* for, it is registered no more: nobody else is changing that, for he would have its
\* mutex, which the pool has now.
LEMMA CallIInv == ASSUME IInv, Call PROVE IInv'
<1> DEFINE f == pool.fd
           m == Mine(f)
           r == Told(m, pool.evt)
           leaves == r.registered /\ ~Wanted(r)
           new == [r EXCEPT !.registered = @ /\ ~leaves]
<1>1. TypeOK /\ pool.at = "call" /\ f \in Fds /\ pool.handler = current[f] /\ pool.evt \in SocketEvents
      /\ Place(f) /\ Owner(f) /\ Held(f)
    BY DEF IInv, Calling, Call, InProcess
<1>2. user[f] \in Calm /\ ~mutex[f] /\ ~Leaving(f)
    BY <1>1 DEF Call, Held, TypeOK, UserPlaces, InMutex, InProcess, Calm, Leaving
<1>3. current[f] \in Numbers /\ current[f] \in 1..Generations /\ m \in Request
    BY <1>1, <1>2, MineIsOne DEF Calm
<1>4. r \in Request /\ r.registered = m.registered /\ r.registered \in BOOLEAN
    BY <1>1, <1>3, ToldIsRequest DEF Request
<1>5. /\ pool' = IF leaves THEN [pool EXCEPT !.at = "unregister"]
                ELSE [pool EXCEPT !.at = "deliver", !.evt = "NONE", !.handler = 0]
      /\ SetMine(f, new)
      /\ mutex' = [mutex EXCEPT ![f] = @ \/ leaves]
      /\ UNCHANGED <<event, watched, nfds, events_mutex, process_mutex, current, alive, user, unread, server>>
    BY <1>1 DEF Call, Move, SetMine, Mine
<1>6. new \in Request /\ new.registered = (r.registered /\ ~leaves) /\ Wanted(new) = Wanted(r)
    BY <1>4 DEF Request, Wanted
<1>7. leaves => m.registered
    BY <1>4
<1>8. ~leaves => new.registered = m.registered /\ (new.registered => Wanted(new))
    BY <1>4, <1>6
<1>9. leaves => ~new.registered
    BY <1>6
<1>10. leaves \in BOOLEAN
    BY <1>4
<1> HIDE DEF new, leaves, r
<1>11. request' \in [Fds -> [Numbers -> Request]] /\ Mine(f)' = new
       /\ (\A n \in Numbers \ {current[f]} : request'[f][n] = request[f][n])
       /\ (\A g \in Fds \ {f} : request'[g] = request[g])
    <2>1. user[f] # "closed" /\ pool'.fd = f
        BY <1>1, <1>2, <1>5 DEF TypeOK, Calm
    <2>2. Mine(f)' = request'[f][current[f]]
        BY <1>5, <2>1 DEF Mine
    <2> QED BY <1>1, <1>5, <1>6, <2>1, <2>2, SetMineSets
<1>12. pool'.at = (IF leaves THEN "unregister" ELSE "deliver") /\ pool'.fd = f
       /\ (leaves => pool'.handler = current[f])
    BY <1>1, <1>5 DEF TypeOK
<1>13. Counted'
    BY <1>5, <1>12, <1>1 DEF IInv, Counted
<1>14. TypeOK'
    <2>1. pool' \in [at : PoolPlaces, fd : Fds \cup {NoFd}, evt : SocketEvents \cup {"NONE"},
                     handler : 0..Generations, ready : [Fds -> SUBSET SocketEvents]]
        <3>1. 0 \in 0..Generations
            OBVIOUS
        <3> QED BY <1>1, <1>5, <3>1 DEF TypeOK, PoolPlaces
    <2>2. mutex' \in [Fds -> BOOLEAN]
        BY <1>1, <1>5, <1>10 DEF TypeOK
    <2> QED BY <1>1, <1>5, <1>11, <2>1, <2>2 DEF TypeOK
<1>15. ASSUME NEW g, g = f PROVE (Mine(g)' = new /\ Mine(g) = m /\ user'[g] = user[g] /\ current'[g] = current[g])
    BY <1>5, <1>11, <1>12, <1>15 DEF Mine
<1>16. (Leaving(f) <=> FALSE) /\ \A g \in Fds : g = f => (Leaving(g)' <=> leaves)
    BY <1>2, <1>12 DEF Leaving
<1>17. Calling'
    <2>1. leaves => Left(f)'
        <3>1. user[f] = "destroy" /\ leaves => server = "ending"
            BY <1>1, <1>7 DEF Owner
        <3> QED BY <1>2, <1>5, <1>9, <1>11, <1>12, <3>1 DEF Left
    <2> QED BY <1>1, <1>5, <1>12, <2>1 DEF Calling, InProcess, Left, Mine
<1>18. ASSUME NEW g \in Fds, g = f PROVE Place(g)' /\ Owner(g)' /\ (mutex'[g] <=> user[g] \in InMutex \/ Leaving(g)')
    <2>1. Registered(g) <=> m.registered
        BY <1>2, <1>15, <1>18 DEF Registered
    <2>2. Registered(g)' <=> new.registered
        BY <1>2, <1>15, <1>18 DEF Registered
    <2>3. Leaving(g)' <=> leaves
        BY <1>16, <1>18
    <2>4. m.registered \in BOOLEAN /\ new.registered \in BOOLEAN
        BY <1>3, <1>6 DEF Request
    <2>5. Registered(g) <=> Registered(g)' \/ leaves
        BY <1>7, <1>8, <1>9, <2>1, <2>2, <2>4
    <2>6. leaves => pool'.at = "unregister"
        BY <1>12
    <2>7. Place(g)'
        BY <1>1, <1>2, <1>5, <1>15, <1>18, <2>3, <2>5, <2>6 DEF Place, Calm
    <2>8. Owner(g)'
        <3>1. ASSUME NEW n \in Numbers, n > current'[g] PROVE request'[g][n] = NewRequest
            <4>1. n # current[f] /\ n > current[f]
                BY <1>3, <1>15, <1>18, <3>1 DEF Numbers
            <4> QED BY <1>1, <1>11, <1>18, <3>1, <4>1 DEF Owner
        <3>2. user[g] = "destroy" => ~new.registered \/ server = "ending"
            BY <1>1, <1>8, <1>9, <1>18, <2>4 DEF Owner
        <3>3. current[f] \in alive[f]
            BY <1>1, <1>2 DEF Owner, Calm
        <3>4. new.registered => Wanted(new)
            BY <1>8, <1>9
        <3> QED BY <1>2, <1>3, <1>5, <1>15, <1>18, <3>1, <3>2, <3>3, <3>4 DEF Owner, Calm
    <2>9. mutex'[g] <=> user[g] \in InMutex \/ Leaving(g)'
        BY <1>1, <1>2, <1>5, <1>18, <2>3 DEF TypeOK, Calm, InMutex
    <2> QED BY <2>7, <2>8, <2>9
<1>19. pool'.at \in InProcess /\ pool.at \in InProcess
    BY <1>1, <1>12 DEF InProcess
<1>20. \A g \in Fds \ {f} : mutex'[g] = mutex[g]
    BY <1>1, <1>5 DEF TypeOK
<1> QED BY <1>1, <1>5, <1>11, <1>12, <1>13, <1>14, <1>17, <1>18, <1>19, <1>20, PoolStepKeeps

\* The pool takes the descriptor out of the epoll set, unless destroyHandler has done so,
\* which before ~TaskManager it has not.
LEMMA PoolUnregisterIInv == ASSUME IInv, PoolUnregister PROVE IInv'
<1> DEFINE f == pool.fd
<1>1. TypeOK /\ Calling /\ pool.at = "unregister" /\ f \in Fds /\ pool.handler = current[f] /\ Left(f)
      /\ Place(f) /\ Owner(f) /\ Held(f)
    BY DEF IInv, Calling, PoolUnregister, Move, InProcess
<1>2. /\ pool' = [pool EXCEPT !.at = "disable"]
      /\ watched' = IF event[f].enabled THEN watched \ {f} ELSE watched
      /\ nfds' = IF event[f].enabled THEN nfds - 1 ELSE nfds
      /\ UNCHANGED <<event, locks, request, current, alive, user, unread, server>>
    BY DEF PoolUnregister, Move
<1>3. Leaving(f) /\ event[f].enabled
    BY <1>1 DEF Leaving, Place
<1>4. pool'.at = "disable" /\ pool'.fd = f /\ pool'.handler = pool.handler
    BY <1>1, <1>2 DEF TypeOK
<1>5. Counted' /\ nfds' \in Int
    <2>1. nfds' \in Int
        BY <1>1, <1>2 DEF TypeOK
    <2>2. ASSUME server # "ending" PROVE nfds' = Cardinality(watched')
        <3>1. f \in watched /\ IsFiniteSet(watched) /\ nfds = Cardinality(watched)
            BY <1>1, <1>3, <2>2, WatchedIsFinite DEF Place, Left, IInv, Counted
        <3>2. Cardinality(watched \ {f}) = Cardinality(watched) - 1
            BY <3>1, FS_RemoveElement
        <3> QED BY <1>2, <1>3, <3>1, <3>2
    <2> QED BY <1>2, <1>4, <2>1, <2>2 DEF Counted
<1>6. TypeOK'
    BY <1>1, <1>2, <1>5 DEF TypeOK, PoolPlaces, locks
<1>7. Calling'
    BY <1>1, <1>2, <1>4 DEF Calling, InProcess, Left, Mine
<1>8. ASSUME NEW g \in Fds, g = f PROVE Place(g)' /\ Owner(g)' /\ (mutex'[g] <=> user[g] \in InMutex \/ Leaving(g)')
    <2>1. Mine(g)' = Mine(g) /\ ~Mine(g).registered /\ user[g] \in Calm /\ Leaving(g) /\ Leaving(g)'
        BY <1>1, <1>2, <1>3, <1>4, <1>8 DEF Mine, Left, Leaving
    <2>2. Place(g)'
        BY <1>1, <1>2, <1>3, <1>4, <1>8, <2>1 DEF Place, Registered, Calm
    <2>3. Owner(g)'
        BY <1>1, <1>2, <1>8, <2>1 DEF Owner
    <2>4. mutex'[g] <=> user[g] \in InMutex \/ Leaving(g)'
        BY <1>1, <1>2, <1>8, <2>1 DEF Held, locks
    <2> QED BY <2>2, <2>3, <2>4
<1>9. \A g \in Fds \ {f} : g \in watched' <=> g \in watched
    BY <1>2
<1>10. pool'.at \in InProcess /\ pool.at \in InProcess
    BY <1>1, <1>4 DEF InProcess
<1> QED BY <1>1, <1>2, <1>4, <1>5, <1>6, <1>7, <1>8, <1>9, <1>10, PoolStepKeeps DEF locks

\* The pool disables the SocketEvent and gives the mutex of the request back.
LEMMA PoolDisableIInv == ASSUME IInv, PoolDisable PROVE IInv'
<1> DEFINE f == pool.fd
           off == [event[f] EXCEPT !.enabled = FALSE, !.handler = 0]
<1>1. TypeOK /\ Calling /\ pool.at = "disable" /\ f \in Fds /\ pool.handler = current[f] /\ Left(f)
      /\ Place(f) /\ Owner(f) /\ Held(f) /\ event[f] \in Event /\ event \in [Fds -> Event]
    BY DEF IInv, Calling, PoolDisable, Move, InProcess, TypeOK
<1>2. /\ pool' = [pool EXCEPT !.at = "deliver", !.evt = "NONE", !.handler = 0]
      /\ event' = [event EXCEPT ![f] = off]
      /\ mutex' = [mutex EXCEPT ![f] = FALSE]
      /\ UNCHANGED <<watched, nfds, events_mutex, process_mutex, request, current, alive, user, unread, server>>
    BY DEF PoolDisable, Move, SetEvent
<1>3. off \in Event /\ ~off.enabled /\ off.handler = 0
    <2>1. 0 \in 0..Generations
        OBVIOUS
    <2> QED BY <1>1, <2>1 DEF Event
<1> HIDE DEF off
<1>4. pool'.at = "deliver" /\ pool'.fd = f
    BY <1>1, <1>2 DEF TypeOK
<1>5. Counted'
    BY <1>1, <1>2, <1>4 DEF IInv, Counted
<1>6. TypeOK'
    <2>1. 0 \in 0..Generations
        OBVIOUS
    <2>2. event' \in [Fds -> Event] /\ mutex' \in [Fds -> BOOLEAN]
        BY <1>1, <1>2, <1>3 DEF TypeOK
    <2>3. pool' \in [at : PoolPlaces, fd : Fds \cup {NoFd}, evt : SocketEvents \cup {"NONE"},
                     handler : 0..Generations, ready : [Fds -> SUBSET SocketEvents]]
        BY <1>1, <1>2, <2>1 DEF TypeOK, PoolPlaces
    <2> QED BY <1>1, <1>2, <2>2, <2>3 DEF TypeOK
<1>7. Calling'
    BY <1>1, <1>4 DEF Calling, InProcess
<1>8. ASSUME NEW g \in Fds, g = f PROVE Place(g)' /\ Owner(g)' /\ (mutex'[g] <=> user[g] \in InMutex \/ Leaving(g)')
    <2>1. Mine(g)' = Mine(g) /\ ~Mine(g).registered /\ user[g] \in Calm /\ Leaving(g) /\ ~Leaving(g)'
        BY <1>1, <1>2, <1>4, <1>8 DEF Mine, Left, Leaving
    <2>2. event'[g] = off
        BY <1>1, <1>2, <1>8
    <2>3. Place(g)'
        BY <1>1, <1>2, <1>3, <1>8, <2>1, <2>2 DEF Place, Registered, Calm
    <2>4. Owner(g)'
        BY <1>1, <1>2, <1>8, <2>1 DEF Owner
    <2>5. mutex'[g] <=> user[g] \in InMutex \/ Leaving(g)'
        BY <1>1, <1>2, <1>8, <2>1 DEF TypeOK, InMutex, Calm
    <2> QED BY <2>3, <2>4, <2>5
<1>9. \A g \in Fds \ {f} : event'[g] = event[g] /\ mutex'[g] = mutex[g]
    BY <1>1, <1>2 DEF TypeOK
<1>10. pool'.at \in InProcess /\ pool.at \in InProcess
    BY <1>1, <1>4 DEF InProcess
<1> QED BY <1>1, <1>2, <1>4, <1>5, <1>6, <1>7, <1>8, <1>9, <1>10, PoolStepKeeps

-----------------------------------------------------------------------------
(* The server stops.                                                        *)

LEMMA StopIInv == ASSUME IInv, Stop PROVE IInv'
<1> USE DEF Stop, locks
<1>1. TypeOK'
    BY DEF IInv, TypeOK, ServerPhases
<1>2. Calling'
    BY DEF IInv, Calling, Bound, Left, Mine
<1>3. Counted'
    BY DEF IInv, Counted
<1>4. ASSUME NEW f \in Fds PROVE Place(f)' /\ Owner(f)' /\ Held(f)'
    BY DEF IInv, Place, Registered, Leaving, Owner, Held, Mine
<1> QED BY <1>1, <1>2, <1>3, <1>4 DEF IInv

LEMMA LastTurnDoneIInv == ASSUME IInv, LastTurnDone PROVE IInv'
<1> USE DEF LastTurnDone, locks
<1>1. TypeOK'
    BY DEF IInv, TypeOK, ServerPhases
<1>2. Calling'
    BY DEF IInv, Calling, Bound, Left, Mine
<1>3. Counted'
    BY DEF IInv, Counted
<1>4. ASSUME NEW f \in Fds PROVE Place(f)' /\ Owner(f)' /\ Held(f)'
    BY DEF IInv, Place, Registered, Leaving, Owner, Held, Mine
<1> QED BY <1>1, <1>2, <1>3, <1>4 DEF IInv

-----------------------------------------------------------------------------
(* The results.                                                             *)

LEMMA NextIInv == ASSUME IInv, [Next]_vars PROVE IInv'
<1>1. CASE UNCHANGED vars
    BY <1>1, StutterIInv
<1>2. CASE PoolStep
    BY <1>2, EpollWaitIInv, NotifyIInv, BatchDoneIInv, TriggerIInv, DeliverIInv, TriggerDoneIInv,
       LoadIInv, CallIInv, PoolUnregisterIInv, PoolDisableIInv, PoolLeavesIInv DEF PoolStep
<1>3. CASE Quiet
    BY <1>3, StutterIInv DEF Quiet
<1>4. ASSUME NEW f \in Fds, Accept(f) PROVE IInv'
    BY <1>4, NewRequestIInv
<1>5. ASSUME NEW f \in Fds, UserStep(f) PROVE IInv'
    BY <1>5, NeedIInv, DispatchIInv, ReadIInv, GiveUpIInv, NewRequestIInv, DropOldIInv,
       RegisterObjectIInv, RegisterEnableIInv, RegisterWatchIInv, UnregisterWatchIInv,
       UnregisterDisableIInv, UnregisterForgetIInv, DestroyHandlerIInv, DestroyEventIInv,
       DeleteIInv DEF UserStep
<1>6. ASSUME NEW f \in Fds, ClientSends(f) PROVE IInv'
    BY <1>6, ClientSendsIInv
<1>7. CASE Stop \/ LastTurnDone
    BY <1>7, StopIInv, LastTurnDoneIInv
<1> QED BY <1>1, <1>2, <1>3, <1>4, <1>5, <1>6, <1>7 DEF Next

LEMMA Inductive == Spec => []IInv
<1>1. Init => IInv
    BY InitIInv
<1>2. IInv /\ [Next]_vars => IInv'
    BY NextIInv
<1> QED BY <1>1, <1>2, PTL DEF Spec

\* The types of the pool, of the users and of their requests (TypeOK).
THEOREM PoolTypesStay == Spec => []TypeOK
<1>1. IInv => TypeOK
    BY DEF IInv
<1> QED BY <1>1, Inductive, PTL

\* The handler and _enabled of a SocketEvent, the epoll set and _registered of its
\* request agree whenever nobody is between two of their changes, and _nfds is the size
\* of the epoll set until ~TaskManager begins, and afterwards wherever the pool may still
\* watch (WatchedIsCounted), for any number of descriptors and of requests.
THEOREM WatchedStaysCounted == Spec => []WatchedIsCounted
<1>1. IInv => WatchedIsCounted
    <2> SUFFICES ASSUME IInv PROVE RegisteredIsWatched /\ CountIsExact
        BY DEF WatchedIsCounted
    <2>1. CountIsExact
        BY DEF IInv, Counted, CountIsExact
    <2>2. ASSUME NEW f \in Fds, ~mutex[f], user[f] \notin {"closed", "delete"}
          PROVE  /\ event[f].enabled <=> Mine(f).registered
                 /\ event[f].handler = IF Mine(f).registered THEN current[f] ELSE 0
                 /\ f \in watched <=> Mine(f).registered /\ ~(server = "ending" /\ user[f] = "destroy")
        <3>1. Place(f) /\ Owner(f) /\ user[f] \in Calm /\ ~Leaving(f)
            BY <2>2 DEF IInv, Held, InMutex, TypeOK, UserPlaces, Calm
        <3>2. Registered(f) <=> Mine(f).registered
            BY <3>1 DEF Registered
        <3>3. user[f] = "destroy" /\ Mine(f).registered => server = "ending"
            BY <3>1 DEF Owner
        <3> QED BY <3>1, <3>2, <3>3 DEF Place, Calm
    <2>3. RegisteredIsWatched
        BY <2>2 DEF RegisteredIsWatched
    <2> QED BY <2>1, <2>3
<1> QED BY <1>1, Inductive, PTL

\* The request that the pool calls is not destroyed before the call returns, and its
\* connection has not passed to the next one (CalledIsAlive): destroyHandler waits, also
\* when ~TaskManager calls it, and a request that is kept waits for nothing.
THEOREM CalledStaysAlive == Spec => []CalledIsAlive
<1>1. IInv => CalledIsAlive
    <2> SUFFICES ASSUME IInv, pool.at \in {"call", "unregister", "disable"}
                 PROVE  pool.handler \in alive[pool.fd] /\ pool.handler = current[pool.fd]
        BY DEF CalledIsAlive
    <2>1. pool.fd \in Fds /\ pool.handler = current[pool.fd]
        BY DEF IInv, Calling, InProcess
    <2>2. user[pool.fd] # "closed"
        BY <2>1 DEF IInv, Held, InProcess
    <2> QED BY <2>1, <2>2 DEF IInv, Owner
<1> QED BY <1>1, Inductive, PTL
=============================================================================
