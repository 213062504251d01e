---------------------------- MODULE ServerControl ----------------------------
(***************************************************************************)
(* server/core: Server, ListenerContainer, Listener and Rcon: start,       *)
(* reload and stop with several ports, and the singletons that the first   *)
(* connections create.                                                     *)
(*                                                                         *)
(* main loads the configuration, starts the task manager and the remote    *)
(* console and waits for it; the console's thread executes "reload" and    *)
(* "stop"; each port has a listener's thread, which the thread that        *)
(* reloads creates and stops.  A connection that is kept alive is renewed   *)
(* by the task manager's thread with the configuration of that moment.     *)
(*                                                                         *)
(* Of a configuration only the ports count: whether it has the module that *)
(* it names for a port, which addListenPort does not look up, is chosen    *)
(* when it is asked for.  SIGINT calls Server::stop; one that comes before *)
(* the console listens, or after it is gone, throws out of the handler and *)
(* is not modelled.                                                        *)
(***************************************************************************)
EXTENDS Naturals, FiniteSets

CONSTANTS
    Ports,
    MainThread,  \* the name of main among the threads that call getInstance
    Reloads,     \* bound of this model: reloads after the first load
    Makers       \* bound of this model: threads that make an instance at once

ASSUME ServerControlAssumption ==
    IsFiniteSet(Ports) /\ MainThread \notin Ports /\ Reloads \in Nat /\ Makers \in Nat \ {0}

VARIABLES
    state,     \* ServerState::_state
    main,      \* where Server::run is
    load,      \* reload and _stopListeners: who runs it, where it is, the ports left, errors
    loads,     \* how many loads there were
    ports,     \* getListenPorts of the current configuration
    listener,  \* _listeners, and for each port its container and its thread
    rcon,      \* where Rcon::run is, and if a SelfConnector waits to be accepted
    tm,        \* where the task manager's thread is, and the instance it runs
    kept,      \* the ports with an open connection, and the instance that has its request
    single,    \* Singleton<TaskManager>::_instance, and how many instances were assigned to it
    get,       \* where each thread is in getInstance
    failed     \* "no", or what aborted the program
vars == <<state, main, load, loads, ports, listener, rcon, tm, kept, single, get, failed>>

Threads == Ports \cup {MainThread}
Idle == [by |-> "nobody", at |-> "none", port |-> MainThread, todo |-> {}, errors |-> 0]

\* One port: its entry in the map (and the load that made it), where its thread
\* is, _is_running, _stopped, whether a SelfConnector waits in the backlog, and
\* what the configuration of the connection at hand says of the port: nothing,
\* that it is listened to, or also who serves it.
NoListener == [entry |-> "none", since |-> 0, at |-> "none", is_running |-> FALSE,
               stopped |-> FALSE, knock |-> FALSE, described |-> "no"]

Init ==
    /\ state = "STOPPED" /\ main = "run"
    /\ load = Idle /\ loads = 0 /\ ports = {}
    /\ listener = [p \in Ports |-> NoListener]
    /\ rcon = [at |-> "none", knock |-> FALSE]
    /\ tm = [at |-> "none", instance |-> 0]
    /\ kept = [p \in Ports |-> 0]
    /\ single = [instance |-> 0, assigned |-> 0]
    /\ get = [t \in Threads |-> "out"]
    /\ failed = "no"

Set(p, l) == listener' = [listener EXCEPT ![p] = l]
Up(p) == listener[p].entry = "up"

-----------------------------------------------------------------------------
(* Server::reload and Server::_loadListeners, run by main, then by rcon.    *)

Load(from, l) == failed = "no" /\ load.at = from /\ load' = l
KeepsLoading == UNCHANGED <<main, loads, rcon, tm, kept, single, get, failed>>

\* The file cannot be parsed, or says what the ports are; the new configuration
\* is current before a listener of it exists.
Parse ==
    /\ \/ Load("parse", [load EXCEPT !.at = "false"]) /\ UNCHANGED ports
       \/ \E new \in SUBSET Ports :
             /\ ports' = new /\ Load("parse", [load EXCEPT !.at = "bind", !.todo = new, !.errors = 0])
    /\ UNCHANGED <<state, listener>> /\ KeepsLoading

\* Mutant: the ports that are open already are opened again.
BindAgain ==
    \E p \in load.todo :
        /\ Set(p, [NoListener EXCEPT !.entry = "up", !.since = loads, !.at = "created"])
        /\ Load("bind", [load EXCEPT !.todo = @ \ {p}])
        /\ UNCHANGED <<state, ports>> /\ KeepsLoading

\* Mutant: a port that cannot be opened is tried again.
BindRetries ==
    \E p \in load.todo :
        /\ listener[p].entry = "none"
        /\ Set(p, [NoListener EXCEPT !.since = loads])
        /\ Load("bind", [load EXCEPT !.errors = @ + 1])
        /\ UNCHANGED <<state, ports>> /\ KeepsLoading

\* A new ListenerContainer binds the port and starts a thread, or throws.
Bind ==
    \E p \in load.todo :
        /\ \/ /\ listener[p].entry # "none" /\ UNCHANGED listener
              /\ Load("bind", [load EXCEPT !.todo = @ \ {p}])
           \/ /\ listener[p].entry = "none"
              /\ Set(p, [NoListener EXCEPT !.entry = "up", !.since = loads, !.at = "created"])
              /\ Load("bind", [load EXCEPT !.todo = @ \ {p}])
           \/ /\ listener[p].entry = "none"
              /\ Set(p, [NoListener EXCEPT !.entry = "null", !.since = loads])
              /\ Load("bind", [load EXCEPT !.todo = @ \ {p}, !.errors = @ + 1])
        /\ UNCHANGED <<state, ports>> /\ KeepsLoading

\* Mutant: the ports that the new configuration has not stay open.
BoundForgets ==
    /\ load.todo = {} /\ Load("bind", [load EXCEPT !.at = "close"])
    /\ UNCHANGED <<state, listener, ports>> /\ KeepsLoading

Bound ==
    /\ load.todo = {}
    /\ Load("bind", [load EXCEPT !.at = "close",
                                 !.todo = {p \in Ports : listener[p].entry # "none"} \ ports])
    /\ UNCHANGED <<state, listener, ports>> /\ KeepsLoading

\* ~ListenerContainer calls Listener::stop, which lowers _is_running and connects
\* to the port until _stopped is raised, then joins the thread.
StopListener ==
    \E p \in load.todo :
        /\ IF Up(p)
           THEN /\ Load("close", [load EXCEPT !.at = "stop", !.port = p, !.todo = @ \ {p}])
                /\ Set(p, [listener[p] EXCEPT !.is_running = FALSE])
           ELSE /\ Load("close", [load EXCEPT !.todo = @ \ {p}])
                /\ Set(p, NoListener)
        /\ UNCHANGED <<state, ports>> /\ KeepsLoading

Connect ==
    /\ Load("stop", load) /\ ~listener[load.port].stopped
    /\ Set(load.port, [listener[load.port] EXCEPT !.knock = TRUE])
    /\ UNCHANGED <<state, ports>> /\ KeepsLoading

\* Mutant: stop does not join the thread.
JoinNot ==
    /\ Load("stop", [load EXCEPT !.at = "close", !.port = MainThread])
    /\ listener[load.port].stopped
    /\ Set(load.port, [listener[load.port] EXCEPT !.entry = "none"])
    /\ UNCHANGED <<state, ports>> /\ KeepsLoading

Join ==
    /\ Load("stop", [load EXCEPT !.at = "close", !.port = MainThread])
    /\ listener[load.port].stopped /\ listener[load.port].at = "ended"
    /\ Set(load.port, NoListener)
    /\ UNCHANGED <<state, ports>> /\ KeepsLoading

\* Mutant: nobody wakes the console's thread.
StoppedSilently(r) == r

\* Server::stop: the SelfConnector of the console's port throws as long as
\* nothing listens there.
Stopped(r) == [r EXCEPT !.knock = @ \/ r.at # "ended"]

\* Mutant: a server that listens on nothing goes on.
ClosedGoesOn ==
    /\ load.by # "stopping" /\ load.todo = {}
    /\ Load("close", [load EXCEPT !.at = "true"])
    /\ UNCHANGED <<state, main, loads, ports, listener, rcon, tm, kept, single, get, failed>>

Closed ==
    /\ load.by # "stopping" /\ load.todo = {}
    /\ LET nothing == load.errors = Cardinality(ports) IN
       /\ state' = IF nothing THEN "STOPPED" ELSE state
       /\ rcon' = IF nothing /\ rcon.at # "none" THEN Stopped(rcon) ELSE rcon
       /\ Load("close", [load EXCEPT !.at = IF nothing /\ rcon.at = "none" THEN "false" ELSE "true"])
    /\ UNCHANGED <<main, loads, ports, listener, tm, kept, single, get, failed>>

LoadStep == Parse \/ Bind \/ Bound \/ StopListener \/ Connect \/ Join \/ Closed

-----------------------------------------------------------------------------
(* Singleton::getInstance: the test, the constructor with its assertion, and *)
(* the assignment.                                                          *)

\* Mutant: the constructor runs without the test.
TestAlways(t) == failed = "no" /\ get[t] = "out" /\ get' = [get EXCEPT ![t] = "construct"]

Test(t) ==
    /\ failed = "no" /\ get[t] = "out" /\ single.instance = 0 /\ get' = [get EXCEPT ![t] = "construct"]
    /\ Cardinality({u \in Threads : get[u] # "out"}) < Makers

\* Each thread assigns the instance that it made itself: instances have the number
\* that they get when they are assigned.
GetInstance(t) ==
    \/ Test(t) /\ UNCHANGED <<single, failed>>
    \/ /\ failed = "no" /\ get[t] = "construct" /\ UNCHANGED single
       /\ IF single.instance # 0 THEN failed' = "assertion" /\ UNCHANGED get
          ELSE get' = [get EXCEPT ![t] = "assign"] /\ UNCHANGED failed
    \/ /\ failed = "no" /\ get[t] = "assign"
       /\ single' = [instance |-> single.assigned + 1, assigned |-> single.assigned + 1]
       /\ get' = [get EXCEPT ![t] = "out"] /\ UNCHANGED failed

\* getInstance returns _instance.
Got(t) == get[t] = "out" /\ single.instance # 0

-----------------------------------------------------------------------------
(* Listener::run, SessionManager::handleNewSession and                      *)
(* RequestManager::handleNewRequest.                                        *)

Listen(p, from, l) == failed = "no" /\ listener[p].at = from /\ Set(p, l)
KeepsListening == UNCHANGED <<state, main, load, loads, ports, rcon, tm>>
Now(p, place) == [listener[p] EXCEPT !.at = place]
Wanted(p) == state = "RUNNING" /\ listener[p].is_running

\* Mutant: run does not raise _is_running.
RunUnset(p) ==
    /\ Listen(p, "created", [listener[p] EXCEPT !.at = "loop", !.stopped = FALSE])
    /\ UNCHANGED <<kept, single, get, failed>> /\ KeepsListening

Run(p) ==
    /\ Listen(p, "created", [listener[p] EXCEPT !.at = "loop", !.is_running = TRUE, !.stopped = FALSE])
    /\ UNCHANGED <<kept, single, get, failed>> /\ KeepsListening

\* Mutant: the loop ends with the server only.
LoopUntilStopped(p) ==
    /\ Listen(p, "loop", IF state = "RUNNING" THEN Now(p, "accept")
                         ELSE [Now(p, "leaving") EXCEPT !.stopped = TRUE])
    /\ UNCHANGED <<kept, single, get, failed>> /\ KeepsListening

Loop(p) ==
    /\ Listen(p, "loop", IF Wanted(p) THEN Now(p, "accept")
                         ELSE [Now(p, "leaving") EXCEPT !.stopped = TRUE])
    /\ UNCHANGED <<kept, single, get, failed>> /\ KeepsListening

\* The thread still uses its Listener after it has raised _stopped.
Leave(p) ==
    /\ Listen(p, "leaving", Now(p, "ended"))
    /\ UNCHANGED <<kept, single, get, failed>> /\ KeepsListening

\* A client, or a SelfConnector.
Accept(p, self) ==
    /\ self => listener[p].knock
    /\ Listen(p, "accept", [Now(p, "check") EXCEPT !.knock = @ /\ ~self])
    /\ UNCHANGED <<kept, single, get, failed>> /\ KeepsListening

Check(p) ==
    /\ Listen(p, "check", Now(p, IF Wanted(p) THEN "configuration" ELSE "loop"))
    /\ UNCHANGED <<kept, single, get, failed>> /\ KeepsListening

\* The configuration has the port or not, and the module of a port or not.
GetConfiguration(p) ==
    /\ \E described \in IF p \in ports THEN {"port", "served"} ELSE {"no"} :
          Listen(p, "configuration", [Now(p, "request") EXCEPT !.described = described])
    /\ UNCHANGED <<kept, single, get, failed>> /\ KeepsListening

\* The configuration does not have the port, or no module for it:
\* getInputOutputModuleManager throws, and the session and the request stay with
\* the managers that made them.
Refuse(p) ==
    /\ listener[p].described # "served"
    /\ Listen(p, "request", [Now(p, "loop") EXCEPT !.described = "no"])
    /\ UNCHANGED <<kept, single, get, failed>> /\ KeepsListening

Prepare(p) ==
    /\ listener[p].described = "served"
    /\ Listen(p, "request", [Now(p, "start") EXCEPT !.described = "no"])
    /\ UNCHANGED <<kept, single, get, failed>> /\ KeepsListening

GetTaskManager(p) ==
    /\ listener[p].at = "start" /\ GetInstance(p)
    /\ UNCHANGED <<listener, kept>> /\ KeepsListening

StartRequest(p) ==
    /\ Got(p)
    /\ Listen(p, "start", Now(p, "loop"))
    /\ kept' = [kept EXCEPT ![p] = single.instance]
    /\ UNCHANGED <<single, get, failed>> /\ KeepsListening

ListenerStep(p) ==
    \/ Run(p) \/ Loop(p) \/ Leave(p) \/ Accept(p, TRUE) \/ Check(p) \/ GetConfiguration(p)
    \/ Refuse(p) \/ Prepare(p) \/ GetTaskManager(p) \/ StartRequest(p)

-----------------------------------------------------------------------------
(* Rcon::run: one client at a time, and _executeCommand in its session.     *)

RconStep(from, to) == failed = "no" /\ rcon.at = from /\ rcon' = [rcon EXCEPT !.at = to]
KeepsServing == UNCHANGED <<main, loads, ports, listener, tm, kept, single, get, failed>>

RconLoop ==
    /\ RconStep("loop", IF state = "RUNNING" THEN "accept" ELSE "ended")
    /\ UNCHANGED <<state, load>> /\ KeepsServing

RconAccept(self) ==
    /\ self => rcon.knock
    /\ failed = "no" /\ rcon.at = "accept" /\ rcon' = [rcon EXCEPT !.at = "check", !.knock = @ /\ ~self]
    /\ UNCHANGED <<state, load>> /\ KeepsServing

RconCheck ==
    /\ RconStep("check", IF state = "RUNNING" THEN "session" ELSE "loop")
    /\ UNCHANGED <<state, load>> /\ KeepsServing

StopCommand ==
    /\ failed = "no" /\ rcon.at = "session" /\ state' = "STOPPED"
    /\ rcon' = [Stopped(rcon) EXCEPT !.at = "loop"]
    /\ UNCHANGED load /\ KeepsServing

ReloadCommand ==
    /\ loads <= Reloads /\ loads' = loads + 1
    /\ RconStep("session", "reload")
    /\ load' = [Idle EXCEPT !.by = "rcon", !.at = "parse"]
    /\ UNCHANGED <<state, main, ports, listener, tm, kept, single, get, failed>>

\* The answer is sent, or the client has left.
Reloaded ==
    /\ load.at \in {"true", "false"} /\ load' = Idle
    /\ RconStep("reload", "session") \/ RconStep("reload", "loop")
    /\ UNCHANGED state /\ KeepsServing

Disconnect == RconStep("session", "loop") /\ UNCHANGED <<state, load>> /\ KeepsServing

RconThread == RconLoop \/ RconAccept(TRUE) \/ RconCheck \/ Reloaded

\* main.cpp's handler of SIGINT.
Sigint ==
    /\ failed = "no" /\ state = "RUNNING" /\ rcon.at # "none"
    /\ state' = "STOPPED" /\ rcon' = Stopped(rcon)
    /\ UNCHANGED load /\ KeepsServing

-----------------------------------------------------------------------------
(* Server::run.                                                             *)

Main(from, to) == failed = "no" /\ main = from /\ main' = to
KeepsMain == UNCHANGED <<ports, kept>>

Start ==
    /\ Main("run", "load") /\ state' = "RUNNING"
    /\ load' = [Idle EXCEPT !.by = "main", !.at = "parse"] /\ loads' = 1
    /\ UNCHANGED <<listener, rcon, tm, single, get, failed>> /\ KeepsMain

Loaded ==
    /\ load.at \in {"true", "false"} /\ load' = Idle
    /\ Main("load", IF load.at = "true" THEN "start" ELSE "finished")
    /\ UNCHANGED <<state, loads, listener, rcon, tm, single, get, failed>> /\ KeepsMain

MainGetsTaskManager ==
    /\ main = "start" /\ GetInstance(MainThread)
    /\ UNCHANGED <<state, main, load, loads, listener, rcon, tm>> /\ KeepsMain

StartTaskManager ==
    /\ Got(MainThread)
    /\ Main("start", "console")
    /\ tm' = [at |-> "run", instance |-> single.instance]
    /\ UNCHANGED <<state, load, loads, listener, rcon, single, get, failed>> /\ KeepsMain

\* The console's port may be taken: nobody catches what its constructor throws.
StartRcon ==
    /\ \/ Main("console", "wait") /\ rcon' = [rcon EXCEPT !.at = "loop"] /\ UNCHANGED failed
       \/ main = "console" /\ failed = "no" /\ failed' = "console" /\ UNCHANGED <<main, rcon>>
    /\ UNCHANGED <<state, load, loads, listener, tm, single, get>> /\ KeepsMain

\* The console is joined and deleted; _stopListeners begins.
JoinRcon ==
    /\ rcon.at = "ended" /\ Main("wait", "close")
    /\ rcon' = [at |-> "none", knock |-> FALSE]
    /\ load' = [Idle EXCEPT !.by = "stopping", !.at = "close",
                            !.todo = {p \in Ports : listener[p].entry # "none"}]
    /\ UNCHANGED <<state, loads, listener, tm, single, get, failed>> /\ KeepsMain

AllClosed ==
    /\ load.at = "close" /\ load.todo = {} /\ load' = Idle
    /\ Main("close", "join")
    /\ UNCHANGED <<state, loads, listener, rcon, tm, single, get, failed>> /\ KeepsMain

JoinTaskManager ==
    /\ tm.at = "ended" /\ Main("join", "release")
    /\ UNCHANGED <<state, load, loads, listener, rcon, tm, single, get, failed>> /\ KeepsMain

\* The singletons are deleted.
Release ==
    /\ Main("release", "finished")
    /\ single' = [single EXCEPT !.instance = 0]
    /\ UNCHANGED <<state, load, loads, listener, rcon, tm, get, failed>> /\ KeepsMain

MainStep ==
    \/ Start \/ Loaded \/ MainGetsTaskManager \/ StartTaskManager \/ StartRcon \/ JoinRcon
    \/ AllClosed \/ JoinTaskManager \/ Release

-----------------------------------------------------------------------------
(* TaskManager::run, for the connections of the instance that it runs.      *)

TaskManagerEnds ==
    /\ failed = "no" /\ tm.at = "run" /\ state = "STOPPED" /\ tm' = [tm EXCEPT !.at = "ended"]
    /\ UNCHANGED <<state, main, load, loads, ports, listener, rcon, kept, single, get, failed>>

\* A request ends: the connection is closed, or gets a new request, unless the
\* configuration has not the port, or not its module.
EndRequest(p) ==
    /\ failed = "no" /\ tm.at = "run" /\ kept[p] = tm.instance
    /\ \/ kept' = [kept EXCEPT ![p] = 0] /\ UNCHANGED failed
       \/ p \in ports /\ kept' = [kept EXCEPT ![p] = single.instance] /\ UNCHANGED failed
       \/ failed' = "renewal" /\ UNCHANGED kept
    /\ UNCHANGED <<state, main, load, loads, ports, listener, rcon, tm, single, get>>

Over == (main = "finished" \/ failed # "no") /\ UNCHANGED vars

Next ==
    \/ LoadStep \/ MainStep \/ RconThread \/ RconAccept(FALSE)
    \/ StopCommand \/ ReloadCommand \/ Disconnect \/ Sigint \/ TaskManagerEnds
    \/ \E p \in Ports : ListenerStep(p) \/ Accept(p, FALSE) \/ EndRequest(p)
    \/ Over

Spec == Init /\ [][Next]_vars

\* The threads run; clients, who connect, command or leave as they like, and
\* SIGINT are not scheduled by the program.
Fairness ==
    /\ WF_vars(LoadStep) /\ WF_vars(MainStep) /\ WF_vars(RconThread) /\ WF_vars(TaskManagerEnds)
    /\ \A p \in Ports : WF_vars(ListenerStep(p))

FairSpec == Spec /\ Fairness

-----------------------------------------------------------------------------

\* Type invariant.
TypeOK ==
    /\ state \in {"RUNNING", "STOPPED"} /\ loads \in 0 .. Reloads + 1 /\ ports \subseteq Ports
    /\ main \in {"run", "load", "start", "console", "wait", "close", "join", "release", "finished"}
    /\ load.at \in {"none", "parse", "bind", "close", "stop", "true", "false"}
    /\ load.by \in {"nobody", "main", "rcon", "stopping"} /\ load.todo \subseteq Ports
    /\ load.errors \in 0 .. Cardinality(ports)
    /\ \A p \in Ports :
          /\ listener[p].entry \in {"none", "up", "null"} /\ listener[p].since \in 0 .. loads
          /\ listener[p].at \in {"none", "created", "loop", "accept", "check", "configuration",
                                 "request", "start", "leaving", "ended"}
          /\ listener[p].described \in {"no", "port", "served"}
    /\ rcon.at \in {"none", "loop", "accept", "check", "session", "reload", "ended"}
    /\ tm.at \in {"none", "run", "ended"}
    /\ get \in [Threads -> {"out", "construct", "assign"}]
    /\ failed \in {"no", "assertion", "console", "renewal"}

\* When main deletes the singletons, no thread of a listener, of the console or
\* of the task manager is there to use one (Server::run, ListenerContainer::stop).
InstancesOutliveUsers ==
    main \in {"release", "finished"} =>
        /\ \A p \in Ports : listener[p].at \in {"none", "ended"}
        /\ rcon.at = "none" /\ tm.at \in {"none", "ended"}

\* Between two loads of a running server the ports in the map are those of the
\* configuration, and an open one has a thread that serves it: one that has left
\* its loop would keep the port and answer nobody (Server::_loadListeners).
ListenersFollowConfig ==
    load.by = "nobody" /\ main = "wait" =>
        /\ {p \in Ports : listener[p].entry # "none"} = ports
        /\ state = "RUNNING" => \A p \in Ports : Up(p) => listener[p].at \notin {"none", "leaving", "ended"}

\* A port of the old and of the new configuration keeps its listener, with the
\* connection it is accepting: only a load that does not want the port closes it.
ReloadKeepsListeners ==
    [][\A p \in Ports :
          Up(p) /\ load.by # "stopping" /\ p \in ports =>
              listener'[p].entry = "up" /\ listener'[p].since = listener[p].since]_vars

\* A running server that listens on nothing has a port that could not be opened
\* by an earlier load: the entry that stays behind is not tried again and not
\* counted as an error (Server::_loadListeners, "Nothing is listening").
SilentOnlyAfterFailure ==
    state = "RUNNING" /\ load.by = "nobody" /\ main = "wait" /\ (\A p \in Ports : ~Up(p)) =>
        \E p \in ports : listener[p].entry = "null" /\ listener[p].since < loads

\* A connection is refused, and its session lost, only where the configuration
\* names for the port a module that it does not have, or on a port that the load
\* in progress is about to close: otherwise who reaches a listener finds the
\* port in the configuration (Configuration::getInputOutputModuleManager throws).
RefusedOnlyWhileClosing ==
    [][\A p \in Ports :
          listener[p].at = "request" /\ listener'[p].at = "loop" /\ listener[p].described # "port" =>
              p \notin ports /\ load.by # "nobody"]_vars

\* Once the instance exists and nobody is making one, the assertion of
\* Singleton's constructor cannot fail any more.
InstanceIsFinal ==
    []((\A t \in Threads : get[t] = "out") /\ single.instance # 0
       => [](failed # "assertion"))

\* A server that was told to stop ends, unless a client of the console stays: a
\* session that ends after the stop is not followed by another.
StopEnds ==
    state = "STOPPED" /\ main # "run" ~>
        main = "finished" \/ failed # "no" \/ rcon.at = "session"

\* A reload ends, unless Listener::run has raised _is_running after Listener::stop
\* lowered it: the thread then never leaves its loop while the server runs.
ReloadEnds ==
    load.by = "rcon" ~>
        \/ load.by # "rcon" \/ failed # "no"
        \/ load.at = "stop" /\ listener[load.port].is_running

\* The singletons: nobody uses one that is deleted, and nobody makes a second one.
InstancesLast == []InstancesOutliveUsers /\ InstanceIsFinal

\* The listeners: they are those of the configuration, those that both have are kept,
\* and a client is sent away only from one that is about to go or that nobody serves.
ListenersLast ==
    /\ []ListenersFollowConfig /\ []SilentOnlyAfterFailure
    /\ ReloadKeepsListeners /\ RefusedOnlyWhileClosing

\* Both: what the console asks for comes to an end.
ControlEnds == StopEnds /\ ReloadEnds
=============================================================================
