------------------------- MODULE ServerControlProofs -------------------------
(***************************************************************************)
(* The server's control path keeps its promises for every number of ports  *)
(* and of reloads.                                                         *)
(*                                                                         *)
(* ControlInv says who runs a load and where main is meanwhile (Loader,    *)
(* Progress), that the map of listeners is the configuration but for what  *)
(* the load still has to open or close (Config), that a server which       *)
(* listens on nothing is stopped or has a port that failed before          *)
(* (Listens), and for each port that its thread serves it as long as       *)
(* nobody stops it (Serving).                                              *)
(***************************************************************************)
EXTENDS ServerControl, FiniteSetTheorems, TLAPS

Row == [entry : {"none", "up", "null"}, since : Nat,
        at : {"none", "created", "loop", "accept", "check", "configuration", "request", "start", "leaving", "ended"},
        is_running : BOOLEAN, stopped : BOOLEAN, knock : BOOLEAN, described : {"no", "port", "served"}]
Work == [by : {"nobody", "main", "rcon", "stopping"},
         at : {"none", "parse", "bind", "close", "stop", "true", "false"},
         port : Threads, todo : SUBSET Ports, errors : Nat]

Types ==
    /\ state \in {"RUNNING", "STOPPED"} /\ loads \in 0 .. Reloads + 1 /\ ports \in SUBSET Ports
    /\ main \in {"run", "load", "start", "console", "wait", "close", "join", "release", "finished"}
    /\ load \in Work /\ listener \in [Ports -> Row]
    /\ rcon \in [at : {"none", "loop", "accept", "check", "session", "reload", "ended"}, knock : BOOLEAN]
    /\ tm.at \in {"none", "run", "ended"} /\ tm = [at |-> tm.at, instance |-> tm.instance]
    /\ get \in [Threads -> {"out", "construct", "assign"}]
    /\ failed \in {"no", "assertion", "console", "renewal"}

\* Who runs a load, or takes the listeners down, is where it says it is.
Loader ==
    /\ (main = "load") <=> (load.by = "main")
    /\ (rcon.at = "reload") <=> (load.by = "rcon")
    /\ (main = "close") <=> (load.by = "stopping")
    /\ (main = "wait") <=> (rcon.at # "none")
    /\ (load.by = "nobody") <=> (load.at = "none")
    /\ load.by = "stopping" => load.at \in {"close", "stop"}
    /\ load.at \in {"none", "parse"} \/ load.by = "stopping" => load.errors = 0
    /\ load.at = "stop" => load.port \in Ports

\* How far main and the task manager's thread are.
Progress ==
    /\ main = "run" => loads = 0
    /\ main \in {"run", "load", "start"} => tm.at = "none"
    /\ main = "release" => tm.at = "ended"
    /\ main = "finished" => tm.at \in {"none", "ended"}

Entries == {p \in Ports : listener[p].entry # "none"}

\* The ports that this load could not open.
Failures == {p \in Ports : listener[p].entry = "null" /\ listener[p].since = loads}

Stopping == IF load.at = "stop" THEN {load.port} ELSE {}

\* The map of listeners and the configuration are the same but for what the load has
\* still to open or to close.
Config ==
    /\ (load.by = "nobody" /\ main \notin {"join", "release", "finished"}) \/ load.at \in {"parse", "true", "false"} =>
          Entries = ports
    /\ main = "run" \/ (load.by = "main" /\ load.at = "parse") => Entries = {}
    /\ load.at = "parse" => Failures = {}
    /\ load.at = "bind" =>
          /\ load.todo \subseteq ports /\ ports \ load.todo \subseteq Entries /\ Failures \subseteq ports \ load.todo
          /\ load.errors = Cardinality(Failures)
    /\ load.at \in {"close", "stop"} /\ load.by # "stopping" =>
          /\ Entries = ports \cup load.todo \cup Stopping /\ ports \cap (load.todo \cup Stopping) = {}
          /\ Stopping \cap load.todo = {}
          /\ Failures \subseteq ports /\ load.errors = Cardinality(Failures)
    /\ load.at \in {"true", "false"} => load.errors <= Cardinality(ports)
    /\ load.by = "stopping" => Entries \subseteq load.todo \cup Stopping
    /\ main \in {"join", "release", "finished"} \/ (load.by = "main" /\ load.at = "false") => \A p \in Ports : ~Up(p)

\* One port, its entry and its thread.
Serving(p) ==
    LET l == listener[p] IN
    /\ (l.entry = "up") <=> (l.at # "none")
    /\ l.since <= loads
    /\ state = "RUNNING" /\ l.entry = "up" /\ p \notin Stopping =>
          l.at \notin {"leaving", "ended"} /\ (l.at # "created" => l.is_running)
    /\ l.at = "request" /\ l.described = "no" => p \notin ports /\ load.by # "nobody"

\* A running server has a port that is open, or that an earlier load could not open.
Listens ==
    state = "RUNNING" /\ (\/ load.by = "nobody" /\ main \in {"start", "console", "wait"}
                          \/ load.by = "rcon" /\ load.at \in {"parse", "true", "false"}
                          \/ load.by = "main" /\ load.at = "true") =>
        \E p \in ports : listener[p].entry = "up" \/ (listener[p].entry = "null" /\ listener[p].since < loads)

\* Who met the assertion is still in the constructor.
Asserted == failed = "assertion" => \E t \in Threads : get[t] # "out"

ControlInv ==
    /\ Types /\ Loader /\ Progress /\ Config /\ Listens /\ Asserted
    /\ \A p \in Ports : Serving(p)

LEMMA PortFacts ==
    ASSUME ControlInv, NEW p \in Ports
    PROVE  /\ Types /\ Loader /\ Progress /\ Config /\ Listens /\ Asserted /\ Serving(p)
           /\ listener \in [Ports -> Row] /\ listener[p] \in Row /\ load \in Work
BY DEF ControlInv, Types

-----------------------------------------------------------------------------
(* The listeners' threads.                                                  *)

\* A step of the thread of a port, which leaves the entry and the load as they are.
LEMMA PortStep ==
    ASSUME ControlInv, NEW p \in Ports, NEW l \in Row, listener' = [listener EXCEPT ![p] = l],
           l.entry = listener[p].entry, l.since = listener[p].since,
           UNCHANGED <<state, main, load, loads, ports, rcon, tm>>,
           get' \in [Threads -> {"out", "construct", "assign"}],
           failed' \in {"no", "assertion", "console", "renewal"}, Asserted', Serving(p)'
    PROVE  ControlInv'
<1>1. /\ Types /\ Loader /\ Progress /\ Config /\ Listens /\ \A q \in Ports : Serving(q)
      /\ listener \in [Ports -> Row] /\ listener' \in [Ports -> Row] /\ listener'[p] = l
      /\ \A q \in Ports : q # p => listener'[q] = listener[q]
  BY DEF ControlInv, Types
<1>2. \A q \in Ports : listener'[q].entry = listener[q].entry /\ listener'[q].since = listener[q].since
  BY <1>1
<1>3. Entries' = Entries /\ Failures' = Failures /\ Stopping' = Stopping
  BY <1>2 DEF Entries, Failures, Stopping
<1>4. Types'  BY <1>1 DEF Types
<1>5. Loader' /\ Progress'  BY <1>1 DEF Loader, Progress
<1>6. Config'  BY <1>1, <1>2, <1>3 DEF Config, Up
<1>7. Listens'
  <2>1. ports \subseteq Ports  BY <1>1 DEF Types
  <2> QED  BY <1>1, <1>2, <2>1 DEF Listens
<1>8. ASSUME NEW q \in Ports PROVE Serving(q)'
  <2>1. CASE q = p  BY <2>1
  <2>2. CASE q # p  BY <1>1, <1>3, <2>2 DEF Serving
  <2> QED  BY <2>1, <2>2
<1> QED  BY <1>4, <1>5, <1>6, <1>7, <1>8 DEF ControlInv

\* The thread goes on to another place, which the state of the server allows.
LEMMA ThreadStep ==
    ASSUME ControlInv, NEW p \in Ports, NEW l \in Row, listener' = [listener EXCEPT ![p] = l],
           listener[p].at # "none", l.at # "none",
           l.entry = listener[p].entry, l.since = listener[p].since, l.at # "created",
           UNCHANGED <<state, main, load, loads, ports, rcon, tm, get, failed>>,
           l.at = "request" /\ l.described = "no" => p \notin ports,
           \/ l.is_running
           \/ l.is_running = listener[p].is_running /\ listener[p].at # "created",
           l.at = "leaving" => state # "RUNNING" \/ ~listener[p].is_running,
           l.at = "leaving" => listener[p].at # "created",
           l.at = "ended" => listener[p].at = "leaving"
    PROVE  ControlInv'
<1>1. /\ Types /\ Config /\ Asserted /\ Serving(p) /\ listener \in [Ports -> Row] /\ listener'[p] = l
      /\ load \in Work /\ Loader
  BY PortFacts
<1>2. p \notin ports => load.by # "nobody"
  <2> SUFFICES ASSUME p \notin ports, load.by = "nobody" PROVE FALSE  OBVIOUS
  <2>1. Up(p) /\ p \in Entries  BY <1>1 DEF Serving, Up, Entries
  <2>2. CASE main \in {"join", "release", "finished"}  BY <1>1, <2>1, <2>2 DEF Config
  <2>3. CASE main \notin {"join", "release", "finished"}  BY <1>1, <2>1, <2>3 DEF Config
  <2> QED  BY <2>2, <2>3
<1>3. Stopping' = Stopping  BY DEF Stopping
<1>4. Serving(p)'  BY <1>1, <1>2, <1>3 DEF Serving
<1>5. Asserted' /\ get' \in [Threads -> {"out", "construct", "assign"}]
      /\ failed' \in {"no", "assertion", "console", "renewal"}
  BY <1>1 DEF Asserted, Types
<1> QED  BY <1>4, <1>5, PortStep

LEMMA ListenerSteps ==
    ASSUME ControlInv, NEW p \in Ports,
           \/ Run(p) \/ Loop(p) \/ Leave(p) \/ Accept(p, TRUE) \/ Accept(p, FALSE) \/ Check(p)
           \/ GetConfiguration(p) \/ Refuse(p) \/ Prepare(p) \/ StartRequest(p)
    PROVE  ControlInv'
<1>1. /\ listener[p] \in Row /\ listener \in [Ports -> Row]
  BY PortFacts
<1> DEFINE m == listener[p]
<1>2. ASSUME Run(p) PROVE ControlInv'
  <2> DEFINE l == [m EXCEPT !.at = "loop", !.is_running = TRUE, !.stopped = FALSE]
  <2>1. l \in Row /\ l.at = "loop" /\ l.is_running /\ l.entry = m.entry /\ l.since = m.since
    BY <1>1 DEF Row
  <2>2. listener' = [listener EXCEPT ![p] = l] /\ m.at = "created"
        /\ UNCHANGED <<state, main, load, loads, ports, rcon, tm, get, failed>>
    BY <1>2 DEF Run, Listen, Set, KeepsListening
  <2> HIDE DEF l
  <2> QED  BY <2>1, <2>2, ThreadStep
<1>3. ASSUME Loop(p) PROVE ControlInv'
  <2> DEFINE l == IF Wanted(p) THEN Now(p, "accept") ELSE [Now(p, "leaving") EXCEPT !.stopped = TRUE]
  <2>1. l \in Row /\ l.at = (IF Wanted(p) THEN "accept" ELSE "leaving") /\ l.is_running = m.is_running
        /\ l.entry = m.entry /\ l.since = m.since
    BY <1>1 DEF Row, Now
  <2>2. listener' = [listener EXCEPT ![p] = l] /\ m.at = "loop"
        /\ UNCHANGED <<state, main, load, loads, ports, rcon, tm, get, failed>>
    BY <1>3 DEF Loop, Listen, Set, KeepsListening
  <2> HIDE DEF l
  <2> QED  BY <2>1, <2>2, ThreadStep DEF Wanted
<1>4. ASSUME Leave(p) PROVE ControlInv'
  <2>1. Now(p, "ended") \in Row /\ Now(p, "ended").at = "ended" /\ Now(p, "ended").is_running = m.is_running
        /\ Now(p, "ended").entry = m.entry /\ Now(p, "ended").since = m.since
    BY <1>1 DEF Row, Now
  <2>2. listener' = [listener EXCEPT ![p] = Now(p, "ended")] /\ m.at = "leaving"
        /\ UNCHANGED <<state, main, load, loads, ports, rcon, tm, get, failed>>
    BY <1>4 DEF Leave, Listen, Set, KeepsListening
  <2> QED  BY <2>1, <2>2, ThreadStep
<1>5. ASSUME NEW self \in BOOLEAN, Accept(p, self) PROVE ControlInv'
  <2> DEFINE l == [Now(p, "check") EXCEPT !.knock = @ /\ ~self]
  <2>1. l \in Row /\ l.at = "check" /\ l.is_running = m.is_running /\ l.entry = m.entry /\ l.since = m.since
    BY <1>1 DEF Row, Now
  <2>2. listener' = [listener EXCEPT ![p] = l] /\ m.at = "accept"
        /\ UNCHANGED <<state, main, load, loads, ports, rcon, tm, get, failed>>
    BY <1>5 DEF Accept, Listen, Set, KeepsListening
  <2> HIDE DEF l
  <2> QED  BY <2>1, <2>2, ThreadStep
<1>6. ASSUME Check(p) PROVE ControlInv'
  <2> DEFINE l == Now(p, IF Wanted(p) THEN "configuration" ELSE "loop")
  <2>1. l \in Row /\ l.at \in {"configuration", "loop"} /\ l.is_running = m.is_running /\ l.entry = m.entry
        /\ l.since = m.since
    BY <1>1 DEF Row, Now
  <2>2. listener' = [listener EXCEPT ![p] = l] /\ m.at = "check"
        /\ UNCHANGED <<state, main, load, loads, ports, rcon, tm, get, failed>>
    BY <1>6 DEF Check, Listen, Set, KeepsListening
  <2> HIDE DEF l
  <2> QED  BY <2>1, <2>2, ThreadStep
<1>7. ASSUME GetConfiguration(p) PROVE ControlInv'
  <2>1. PICK d \in {"no", "port", "served"} :
           /\ listener' = [listener EXCEPT ![p] = [Now(p, "request") EXCEPT !.described = d]] /\ m.at = "configuration"
           /\ d = "no" => p \notin ports
           /\ UNCHANGED <<state, main, load, loads, ports, rcon, tm, get, failed>>
    BY <1>7 DEF GetConfiguration, Listen, Set, KeepsListening
  <2> DEFINE l == [Now(p, "request") EXCEPT !.described = d]
  <2>2. l \in Row /\ l.at = "request" /\ l.is_running = m.is_running /\ l.entry = m.entry /\ l.since = m.since
        /\ l.described = d
    BY <1>1 DEF Row, Now
  <2>3. listener' = [listener EXCEPT ![p] = l]  BY <2>1
  <2> HIDE DEF l
  <2> QED  BY <2>1, <2>2, <2>3, ThreadStep
<1>8. ASSUME Refuse(p) \/ Prepare(p) PROVE ControlInv'
  <2>1. PICK at \in {"loop", "start"} :
           /\ listener' = [listener EXCEPT ![p] = [Now(p, at) EXCEPT !.described = "no"]] /\ m.at = "request"
           /\ UNCHANGED <<state, main, load, loads, ports, rcon, tm, get, failed>>
    BY <1>8 DEF Refuse, Prepare, Listen, Set, KeepsListening
  <2> DEFINE l == [Now(p, at) EXCEPT !.described = "no"]
  <2>2. l \in Row /\ l.at = at /\ l.is_running = m.is_running /\ l.entry = m.entry /\ l.since = m.since
    BY <1>1 DEF Row, Now
  <2> HIDE DEF l
  <2> QED  BY <2>1, <2>2, ThreadStep DEF l
<1>9. ASSUME StartRequest(p) PROVE ControlInv'
  <2>1. Now(p, "loop") \in Row /\ Now(p, "loop").at = "loop" /\ Now(p, "loop").is_running = m.is_running
        /\ Now(p, "loop").entry = m.entry /\ Now(p, "loop").since = m.since
    BY <1>1 DEF Row, Now
  <2>2. listener' = [listener EXCEPT ![p] = Now(p, "loop")] /\ m.at = "start"
        /\ UNCHANGED <<state, main, load, loads, ports, rcon, tm, get, failed>>
    BY <1>9 DEF StartRequest, Listen, Set, KeepsListening
  <2> QED  BY <2>1, <2>2, ThreadStep
<1> QED  BY <1>2, <1>3, <1>4, <1>5, <1>6, <1>7, <1>8, <1>9

\* getInstance, by a listener's thread or by main, changes nothing else.
LEMMA InstanceStep ==
    ASSUME ControlInv, NEW t \in Threads, GetInstance(t),
           UNCHANGED <<state, main, load, loads, ports, listener, rcon, tm>>
    PROVE  ControlInv'
<1>1. /\ Types /\ Loader /\ Progress /\ Config /\ Listens /\ Asserted /\ \A q \in Ports : Serving(q)
      /\ get \in [Threads -> {"out", "construct", "assign"}]
  BY DEF ControlInv, Types
<1>2. /\ get' \in [Threads -> {"out", "construct", "assign"}] /\ failed' \in {"no", "assertion", "console", "renewal"}
      /\ failed' = "assertion" => get'[t] # "out"
  BY <1>1 DEF GetInstance, Test, Types
<1>3. Types' /\ Asserted'  BY <1>1, <1>2 DEF Types, Asserted
<1>4. Entries' = Entries /\ Failures' = Failures /\ Stopping' = Stopping  BY DEF Entries, Failures, Stopping
<1>5. Loader' /\ Progress'  BY <1>1 DEF Loader, Progress
<1>6. Config' /\ Listens'  BY <1>1, <1>4 DEF Config, Listens, Up
<1>7. \A q \in Ports : Serving(q)'  BY <1>1, <1>4 DEF Serving
<1> QED  BY <1>3, <1>5, <1>6, <1>7 DEF ControlInv

LEMMA GetTaskManagerStep ==
    ASSUME ControlInv, NEW p \in Ports, GetTaskManager(p)
    PROVE  ControlInv'
BY InstanceStep DEF GetTaskManager, KeepsListening, Threads

LEMMA MainGetsTaskManagerStep ==
    ASSUME ControlInv, MainGetsTaskManager
    PROVE  ControlInv'
<1>1. MainThread \in Threads  BY DEF Threads
<1> QED  BY <1>1, InstanceStep DEF MainGetsTaskManager, KeepsMain

\* A thread of the task manager, which only the renewal of a connection can abort.
LEMMA TaskManagerSteps ==
    ASSUME ControlInv, TaskManagerEnds \/ \E p \in Ports : EndRequest(p)
    PROVE  ControlInv'
<1>1. /\ Types /\ Loader /\ Progress /\ Config /\ Listens /\ Asserted /\ \A q \in Ports : Serving(q)
  BY DEF ControlInv
<1>2. /\ UNCHANGED <<state, main, load, loads, ports, listener, rcon, get>>
      /\ failed' \in {"no", "renewal"} /\ tm'.at \in {"none", "run", "ended"}
      /\ tm' = [at |-> tm'.at, instance |-> tm'.instance]
      /\ main \in {"run", "load", "start"} => tm' = tm
      /\ tm' = tm \/ (tm.at = "run" /\ tm'.at = "ended")
  BY <1>1 DEF TaskManagerEnds, EndRequest, Types, Progress
<1>3. Types' /\ Asserted'  BY <1>1, <1>2 DEF Types, Asserted
<1>4. Entries' = Entries /\ Failures' = Failures /\ Stopping' = Stopping
  BY <1>2 DEF Entries, Failures, Stopping
<1>5. Loader' /\ Progress'  BY <1>1, <1>2 DEF Loader, Progress
<1>6. Config' /\ Listens'  BY <1>1, <1>2, <1>4 DEF Config, Listens, Up
<1>7. \A q \in Ports : Serving(q)'  BY <1>1, <1>2, <1>4 DEF Serving
<1> QED  BY <1>3, <1>5, <1>6, <1>7 DEF ControlInv

-----------------------------------------------------------------------------
(* The console and the signal.                                              *)

\* A step that leaves the listeners and the load alone, but may stop the server.
LEMMA RconStepKeeps ==
    ASSUME ControlInv, failed = "no", state' \in {state, "STOPPED"},
           rcon' \in [at : {"none", "loop", "accept", "check", "session", "reload", "ended"}, knock : BOOLEAN],
           rcon.at # "none" /\ rcon'.at # "none", rcon.at = "reload" <=> rcon'.at = "reload",
           UNCHANGED <<main, load, loads, ports, listener, tm, kept, single, get, failed>>
    PROVE  ControlInv'
<1>1. /\ Types /\ Loader /\ Progress /\ Config /\ Listens /\ Asserted /\ \A q \in Ports : Serving(q)
  BY DEF ControlInv
<1>2. Types' /\ Asserted'  BY <1>1 DEF Types, Asserted
<1>3. Entries' = Entries /\ Failures' = Failures /\ Stopping' = Stopping  BY DEF Entries, Failures, Stopping
<1>4. Loader' /\ Progress'  BY <1>1 DEF Loader, Progress
<1>5. Config' /\ Listens'  BY <1>1, <1>3 DEF Config, Listens, Up
<1>6. \A q \in Ports : Serving(q)'  BY <1>1, <1>3 DEF Serving
<1> QED  BY <1>2, <1>4, <1>5, <1>6 DEF ControlInv

LEMMA RconSteps ==
    ASSUME ControlInv, \/ RconLoop \/ RconAccept(TRUE) \/ RconAccept(FALSE) \/ RconCheck
                       \/ StopCommand \/ Disconnect \/ Sigint
    PROVE  ControlInv'
<1>1. rcon \in [at : {"none", "loop", "accept", "check", "session", "reload", "ended"}, knock : BOOLEAN]
      /\ state \in {"RUNNING", "STOPPED"}
  BY DEF ControlInv, Types
<1>2. ASSUME NEW at \in {"loop", "accept", "check", "session", "ended"}, NEW knock \in BOOLEAN,
             rcon' = [[rcon EXCEPT !.at = at] EXCEPT !.knock = knock]
      PROVE  /\ rcon' \in [at : {"none", "loop", "accept", "check", "session", "reload", "ended"}, knock : BOOLEAN]
             /\ rcon'.at = at
  BY <1>1, <1>2
<1>3. rcon' \in [at : {"none", "loop", "accept", "check", "session", "reload", "ended"}, knock : BOOLEAN]
      /\ rcon.at # "none" /\ rcon'.at # "none" /\ (rcon.at = "reload" <=> rcon'.at = "reload")
  <2>1. CASE RconLoop  BY <1>1, <2>1 DEF RconLoop, RconStep
  <2>2. ASSUME NEW self \in BOOLEAN, RconAccept(self)
        PROVE  rcon' = [[rcon EXCEPT !.at = "check"] EXCEPT !.knock = rcon.knock /\ ~self] /\ rcon.at = "accept"
    BY <1>1, <2>2 DEF RconAccept
  <2>3. CASE RconAccept(TRUE) \/ RconAccept(FALSE)  BY <1>1, <1>2, <2>2, <2>3
  <2>4. CASE RconCheck  BY <1>1, <2>4 DEF RconCheck, RconStep
  <2>5. CASE StopCommand
    <3>1. rcon' = [[rcon EXCEPT !.at = "loop"] EXCEPT !.knock = TRUE] /\ rcon.at = "session"
      BY <1>1, <2>5 DEF StopCommand, Stopped
    <3> QED  BY <1>2, <3>1
  <2>6. CASE Disconnect  BY <1>1, <2>6 DEF Disconnect, RconStep
  <2>7. CASE Sigint
    <3>1. rcon' = [rcon EXCEPT !.knock = rcon.knock \/ rcon.at # "ended"] /\ rcon.at # "none"
      BY <1>1, <2>7 DEF Sigint, Stopped
    <3> QED  BY <1>1, <3>1
  <2> QED  BY <2>1, <2>3, <2>4, <2>5, <2>6, <2>7
<1>4. failed = "no" /\ state' \in {state, "STOPPED"}
      /\ UNCHANGED <<main, load, loads, ports, listener, tm, kept, single, get, failed>>
  BY DEF RconLoop, RconAccept, RconCheck, StopCommand, Disconnect, Sigint, RconStep, KeepsServing
<1> QED  BY <1>3, <1>4, RconStepKeeps

LEMMA ReloadCommandStep ==
    ASSUME ControlInv, ReloadCommand
    PROVE  ControlInv'
<1>1. /\ Types /\ Loader /\ Progress /\ Config /\ Listens /\ Asserted /\ \A q \in Ports : Serving(q)
      /\ load \in Work /\ loads \in 0 .. Reloads + 1 /\ rcon.at = "session" /\ Reloads \in Nat
  BY ServerControlAssumption DEF ControlInv, Types, ReloadCommand, RconStep
<1>2. /\ loads <= Reloads /\ loads' = loads + 1 /\ rcon' = [rcon EXCEPT !.at = "reload"]
      /\ load' = [Idle EXCEPT !.by = "rcon", !.at = "parse"]
      /\ UNCHANGED <<state, main, ports, listener, tm, kept, single, get, failed>>
  BY DEF ReloadCommand, RconStep
<1>3. load' \in Work /\ load'.by = "rcon" /\ load'.at = "parse" /\ load'.errors = 0 /\ load'.todo = {}
  BY <1>2 DEF Idle, Work, Threads
<1>4. main = "wait" /\ load.by = "nobody" /\ load.at = "none"
  BY <1>1 DEF Loader, Types, Work
<1>5. rcon' \in [at : {"none", "loop", "accept", "check", "session", "reload", "ended"}, knock : BOOLEAN]
      /\ rcon'.at = "reload"
  BY <1>1, <1>2 DEF Types
<1>6. Types'  BY <1>1, <1>2, <1>3, <1>5 DEF Types
<1>7. Asserted' /\ Progress'  BY <1>1, <1>2, <1>4 DEF Asserted, Progress
<1>8. Loader'  BY <1>2, <1>3, <1>4, <1>5 DEF Loader
<1>9. Entries' = Entries /\ Stopping' = {} /\ Stopping = {}  BY <1>2, <1>3, <1>4 DEF Entries, Stopping
<1>10. \A q \in Ports : listener[q] \in Row /\ listener[q].since <= loads
  BY <1>1 DEF Serving, Types
<1>11. Failures' = {}
  <2>1. \A q \in Ports : listener[q].since \in Nat  BY <1>10 DEF Row
  <2> QED  BY <1>1, <1>2, <1>10, <2>1 DEF Failures
<1>12. Config'
  BY <1>1, <1>2, <1>3, <1>4, <1>9, <1>11 DEF Config, Up
<1>13. Listens'
  <2> SUFFICES ASSUME state = "RUNNING"
               PROVE  \E p \in ports : listener[p].entry = "up" \/ (listener[p].entry = "null" /\ listener[p].since < loads + 1)
    BY <1>2 DEF Listens
  <2>1. PICK p \in ports : listener[p].entry = "up" \/ (listener[p].entry = "null" /\ listener[p].since < loads)
    BY <1>1, <1>4 DEF Listens
  <2>2. p \in Ports  BY <1>1 DEF Types
  <2>3. listener[p].since \in Nat  BY <1>10, <2>2 DEF Row
  <2> QED  BY <1>1, <2>1, <2>3
<1>14. ASSUME NEW q \in Ports PROVE Serving(q)'
  <2>1. listener[q].since \in Nat /\ Serving(q)  BY <1>1, <1>10 DEF Row
  <2> QED  BY <1>1, <1>2, <1>3, <1>4, <1>9, <2>1 DEF Serving
<1> QED  BY <1>6, <1>7, <1>8, <1>12, <1>13, <1>14 DEF ControlInv

LEMMA ReloadedStep ==
    ASSUME ControlInv, Reloaded
    PROVE  ControlInv'
<1>1. /\ Types /\ Loader /\ Progress /\ Config /\ Listens /\ Asserted /\ \A q \in Ports : Serving(q)
      /\ load \in Work /\ rcon.at = "reload"
  BY DEF ControlInv, Types, Reloaded, RconStep
<1>2. PICK to \in {"session", "loop"} : rcon' = [rcon EXCEPT !.at = to]
  BY DEF Reloaded, RconStep
<1>3. /\ load' = Idle /\ load.at \in {"true", "false"}
      /\ UNCHANGED <<state, main, loads, ports, listener, tm, kept, single, get, failed>>
  BY DEF Reloaded, KeepsServing, RconStep
<1>4. load' \in Work /\ load'.by = "nobody" /\ load'.at = "none" /\ load'.errors = 0 /\ load'.todo = {}
  BY <1>3 DEF Idle, Work, Threads
<1>5. main = "wait" /\ load.by = "rcon"  BY <1>1 DEF Loader
<1>6. rcon' \in [at : {"none", "loop", "accept", "check", "session", "reload", "ended"}, knock : BOOLEAN]
      /\ rcon'.at = to
  BY <1>1, <1>2 DEF Types
<1>7. Types'  BY <1>1, <1>3, <1>4, <1>6 DEF Types
<1>8. Asserted' /\ Progress'  BY <1>1, <1>3, <1>5 DEF Asserted, Progress
<1>9. Loader'  BY <1>3, <1>4, <1>5, <1>6 DEF Loader
<1>10. Entries' = Entries /\ Failures' = Failures /\ Stopping' = {} /\ Stopping = {}
  BY <1>3, <1>4 DEF Entries, Failures, Stopping
<1>11. Entries = ports  BY <1>1, <1>3, <1>5 DEF Config
<1>12. Config'  BY <1>3, <1>4, <1>5, <1>10, <1>11 DEF Config, Up
<1>13. Listens'  BY <1>1, <1>3, <1>4, <1>5 DEF Listens
<1>14. ASSUME NEW q \in Ports PROVE Serving(q)'
  <2>1. listener[q].at = "request" => q \in ports
    <3>1. listener[q].at = "request" => q \in Entries  BY <1>1 DEF Serving, Entries
    <3> QED  BY <1>11, <3>1
  <2> QED  BY <1>1, <1>3, <1>10, <2>1 DEF Serving
<1> QED  BY <1>7, <1>8, <1>9, <1>12, <1>13, <1>14 DEF ControlInv

-----------------------------------------------------------------------------
(* Server::run.                                                             *)

\* A step of main that leaves the listeners and the console alone and loads nothing.
LEMMA MainMoves ==
    ASSUME ControlInv, main' \in {"console", "release", "finished"},
           (main = "start" /\ main' = "console") \/ (main = "join" /\ main' = "release") \/ (main = "release" /\ main' = "finished"),
           main' = "release" => tm.at = "ended",
           tm'.at \in {"none", "run", "ended"}, tm' = [at |-> tm'.at, instance |-> tm'.instance],
           main # "start" => tm' = tm,
           UNCHANGED <<state, load, loads, ports, listener, rcon, get, failed>>
    PROVE  ControlInv'
<1>1. /\ Types /\ Loader /\ Progress /\ Config /\ Listens /\ Asserted /\ \A q \in Ports : Serving(q)
  BY DEF ControlInv
<1>2. load.by = "nobody" /\ load.at = "none"  BY <1>1 DEF Loader, Types, Work
<1>3. Entries' = Entries /\ Failures' = Failures /\ Stopping' = Stopping  BY DEF Entries, Failures, Stopping
<1>4. Types' /\ Asserted'  BY <1>1 DEF Types, Asserted
<1>5. Loader' /\ Progress'  BY <1>1 DEF Loader, Progress
<1>6. Config' /\ Listens'  BY <1>1, <1>2, <1>3 DEF Config, Listens, Up
<1>7. \A q \in Ports : Serving(q)'  BY <1>1, <1>3 DEF Serving
<1> QED  BY <1>4, <1>5, <1>6, <1>7 DEF ControlInv

LEMMA MainMovesSteps ==
    ASSUME ControlInv, StartTaskManager \/ JoinTaskManager \/ Release
    PROVE  ControlInv'
<1>1. Types  BY DEF ControlInv
<1>2. CASE StartTaskManager
  <2>1. tm' = [at |-> "run", instance |-> single.instance] /\ main = "start" /\ main' = "console"
        /\ UNCHANGED <<state, load, loads, ports, listener, rcon, get, failed>>
    BY <1>2 DEF StartTaskManager, Main, KeepsMain
  <2> QED  BY <2>1, MainMoves
<1>3. CASE JoinTaskManager  BY <1>1, <1>3, MainMoves DEF JoinTaskManager, Main, KeepsMain, Types
<1>4. CASE Release  BY <1>1, <1>4, MainMoves DEF Release, Main, KeepsMain, Types
<1> QED  BY <1>2, <1>3, <1>4

LEMMA StartStep ==
    ASSUME ControlInv, Start
    PROVE  ControlInv'
<1>1. /\ Types /\ Loader /\ Progress /\ Config /\ Listens /\ Asserted /\ \A q \in Ports : Serving(q)
      /\ Reloads \in Nat
  BY ServerControlAssumption DEF ControlInv
<1>2. /\ main = "run" /\ main' = "load" /\ state' = "RUNNING" /\ loads' = 1
      /\ load' = [Idle EXCEPT !.by = "main", !.at = "parse"]
      /\ UNCHANGED <<listener, rcon, tm, ports, get, failed>>
  BY DEF Start, Main, KeepsMain
<1>3. load' \in Work /\ load'.by = "main" /\ load'.at = "parse" /\ load'.errors = 0 /\ load'.todo = {}
  BY <1>2 DEF Idle, Work, Threads
<1>4. load.by = "nobody" /\ load.at = "none" /\ loads = 0  BY <1>1, <1>2 DEF Loader, Types, Work, Progress
<1>5. Entries = {} /\ ports = {}  BY <1>1, <1>2, <1>4 DEF Config
<1>6. \A q \in Ports : listener[q].entry = "none"  BY <1>5 DEF Entries
<1>7. Entries' = {} /\ Failures' = {} /\ Stopping' = {}
  BY <1>2, <1>3, <1>6 DEF Entries, Failures, Stopping
<1>8. Types'  BY <1>1, <1>2, <1>3 DEF Types
<1>9. Asserted' /\ Progress'  BY <1>1, <1>2 DEF Asserted, Progress
<1>10. Loader'  BY <1>1, <1>2, <1>3, <1>4 DEF Loader
<1>11. Config'  BY <1>2, <1>3, <1>5, <1>7 DEF Config
<1>12. Listens'  BY <1>3 DEF Listens
<1>13. ASSUME NEW q \in Ports PROVE Serving(q)'
  <2>1. Serving(q) /\ listener[q].entry = "none" /\ listener[q].since \in Nat
    BY <1>1, <1>6 DEF Types, Row
  <2> QED  BY <1>2, <1>4, <2>1 DEF Serving
<1> QED  BY <1>8, <1>9, <1>10, <1>11, <1>12, <1>13 DEF ControlInv

LEMMA LoadedStep ==
    ASSUME ControlInv, Loaded
    PROVE  ControlInv'
<1>1. /\ Types /\ Loader /\ Progress /\ Config /\ Listens /\ Asserted /\ \A q \in Ports : Serving(q)
  BY DEF ControlInv
<1>2. /\ main = "load" /\ load.at \in {"true", "false"} /\ load' = Idle
      /\ main' = (IF load.at = "true" THEN "start" ELSE "finished")
      /\ UNCHANGED <<state, loads, ports, listener, rcon, tm, get, failed>>
  BY DEF Loaded, Main, KeepsMain
<1>3. load' \in Work /\ load'.by = "nobody" /\ load'.at = "none" /\ load'.errors = 0 /\ load'.todo = {}
  BY <1>2 DEF Idle, Work, Threads
<1>4. load.by = "main" /\ rcon.at = "none"  BY <1>1, <1>2 DEF Loader
<1>5. Entries' = Entries /\ Failures' = Failures /\ Stopping' = {} /\ Stopping = {}
  BY <1>2, <1>3 DEF Entries, Failures, Stopping
<1>6. Entries = ports /\ (load.at = "false" => \A p \in Ports : ~Up(p))  BY <1>1, <1>2, <1>4 DEF Config
<1>7. Types'  BY <1>1, <1>2, <1>3 DEF Types
<1>8. Asserted' /\ Progress'  BY <1>1, <1>2 DEF Asserted, Progress
<1>9. Loader'  BY <1>2, <1>3, <1>4 DEF Loader
<1>10. Config'  BY <1>2, <1>3, <1>5, <1>6 DEF Config, Up
<1>11. Listens'  BY <1>1, <1>2, <1>3, <1>4 DEF Listens
<1>12. ASSUME NEW q \in Ports PROVE Serving(q)'
  <2>1. listener[q].at = "request" => q \in ports
    <3>1. listener[q].at = "request" => q \in Entries  BY <1>1 DEF Serving, Entries
    <3> QED  BY <1>6, <3>1
  <2> QED  BY <1>1, <1>2, <1>5, <2>1 DEF Serving
<1> QED  BY <1>7, <1>8, <1>9, <1>10, <1>11, <1>12 DEF ControlInv

LEMMA StartRconStep ==
    ASSUME ControlInv, StartRcon
    PROVE  ControlInv'
<1>1. /\ Types /\ Loader /\ Progress /\ Config /\ Listens /\ Asserted /\ \A q \in Ports : Serving(q)
  BY DEF ControlInv
<1>2. /\ main = "console" /\ UNCHANGED <<state, load, loads, listener, tm, ports, get>>
      /\ \/ main' = "wait" /\ rcon' = [rcon EXCEPT !.at = "loop"] /\ UNCHANGED failed
         \/ failed' = "console" /\ UNCHANGED <<main, rcon>>
  BY DEF StartRcon, Main, KeepsMain
<1>3. rcon' \in [at : {"none", "loop", "accept", "check", "session", "reload", "ended"}, knock : BOOLEAN]
      /\ (main' = "wait" <=> rcon'.at # "none") /\ main' \in {"console", "wait"} /\ rcon'.at # "reload"
  BY <1>1, <1>2 DEF Types, Loader
<1>4. load.by = "nobody" /\ load.at = "none"  BY <1>1, <1>2 DEF Loader, Types, Work
<1>5. Entries' = Entries /\ Failures' = Failures /\ Stopping' = Stopping
  BY <1>2 DEF Entries, Failures, Stopping
<1>6. Types' /\ Asserted'  BY <1>1, <1>2, <1>3 DEF Types, Asserted
<1>7. Loader' /\ Progress'  BY <1>1, <1>2, <1>3, <1>4 DEF Loader, Progress
<1>8. Config' /\ Listens'  BY <1>1, <1>2, <1>3, <1>4, <1>5 DEF Config, Listens, Up
<1>9. \A q \in Ports : Serving(q)'  BY <1>1, <1>2, <1>5 DEF Serving
<1> QED  BY <1>6, <1>7, <1>8, <1>9 DEF ControlInv

LEMMA JoinRconStep ==
    ASSUME ControlInv, JoinRcon
    PROVE  ControlInv'
<1>1. /\ Types /\ Loader /\ Progress /\ Config /\ Listens /\ Asserted /\ \A q \in Ports : Serving(q)
  BY DEF ControlInv
<1>2. /\ main = "wait" /\ main' = "close" /\ rcon.at = "ended" /\ rcon' = [at |-> "none", knock |-> FALSE]
      /\ load' = [Idle EXCEPT !.by = "stopping", !.at = "close", !.todo = Entries]
      /\ UNCHANGED <<state, loads, listener, tm, ports, get, failed>>
  BY DEF JoinRcon, Main, KeepsMain, Entries
<1>3. Entries \in SUBSET Ports  BY DEF Entries
<1>4. /\ load' \in Work /\ load'.by = "stopping" /\ load'.at = "close" /\ load'.errors = 0
      /\ load'.todo = Entries
  BY <1>2, <1>3 DEF Idle, Work, Threads
<1>5. load.by = "nobody" /\ load.at = "none"  BY <1>1, <1>2 DEF Loader, Types, Work
<1>6. Entries' = Entries /\ Failures' = Failures /\ Stopping' = {} /\ Stopping = {}
  BY <1>2, <1>4, <1>5 DEF Entries, Failures, Stopping
<1>7. Types'  BY <1>1, <1>2, <1>4 DEF Types
<1>8. Asserted' /\ Progress'  BY <1>1, <1>2 DEF Asserted, Progress
<1>9. Loader'  BY <1>2, <1>4 DEF Loader
<1>10. Config'  BY <1>2, <1>4, <1>6 DEF Config
<1>11. Listens'  BY <1>4 DEF Listens
<1>12. ASSUME NEW q \in Ports PROVE Serving(q)'  BY <1>1, <1>2, <1>5, <1>6 DEF Serving
<1> QED  BY <1>7, <1>8, <1>9, <1>10, <1>11, <1>12 DEF ControlInv

LEMMA AllClosedStep ==
    ASSUME ControlInv, AllClosed
    PROVE  ControlInv'
<1>1. /\ Types /\ Loader /\ Progress /\ Config /\ Listens /\ Asserted /\ \A q \in Ports : Serving(q)
  BY DEF ControlInv
<1>2. /\ main = "close" /\ main' = "join" /\ load.at = "close" /\ load.todo = {} /\ load' = Idle
      /\ UNCHANGED <<state, loads, listener, rcon, tm, ports, get, failed>>
  BY DEF AllClosed, Main, KeepsMain
<1>3. load' \in Work /\ load'.by = "nobody" /\ load'.at = "none" /\ load'.errors = 0 /\ load'.todo = {}
  BY <1>2 DEF Idle, Work, Threads
<1>4. load.by = "stopping" /\ rcon.at = "none"  BY <1>1, <1>2 DEF Loader
<1>5. Entries' = Entries /\ Failures' = Failures /\ Stopping' = {} /\ Stopping = {}
  BY <1>2, <1>3 DEF Entries, Failures, Stopping
<1>6. Entries = {}  BY <1>1, <1>2, <1>4, <1>5 DEF Config
<1>7. \A q \in Ports : listener[q].entry = "none"  BY <1>6 DEF Entries
<1>8. Types'  BY <1>1, <1>2, <1>3 DEF Types
<1>9. Asserted' /\ Progress'  BY <1>1, <1>2 DEF Asserted, Progress
<1>10. Loader'  BY <1>2, <1>3, <1>4 DEF Loader
<1>11. Config'  BY <1>2, <1>3, <1>5, <1>7 DEF Config, Up
<1>12. Listens'  BY <1>2, <1>3 DEF Listens
<1>13. ASSUME NEW q \in Ports PROVE Serving(q)'  BY <1>1, <1>2, <1>5, <1>7 DEF Serving
<1> QED  BY <1>8, <1>9, <1>10, <1>11, <1>12, <1>13 DEF ControlInv

-----------------------------------------------------------------------------
(* Server::reload and _loadListeners.                                       *)

\* What a step of the load does to the rest, and what it may be.
LEMMA LoadKeeps ==
    ASSUME ControlInv, NEW w \in Work, load' = w, w.by = load.by, load.at \notin {"none", "true", "false"},
           w.at # "none", w.at = "stop" => w.port \in Ports,
           load.by = "stopping" => w.at \in {"close", "stop"} /\ w.errors = 0,
           w.at # "parse",
           listener' \in [Ports -> Row], ports' \in SUBSET Ports,
           UNCHANGED <<main, loads, tm, get, failed>>,
           state' \in {state, "STOPPED"},
           rcon' = rcon \/ (rcon.at # "none" /\ rcon' = Stopped(rcon))
    PROVE  Types' /\ Loader' /\ Progress' /\ Asserted' /\ (Listens' \/ w.at \in {"true", "false"})
<1>1. Types /\ Loader /\ Progress /\ Asserted  BY DEF ControlInv
<1>2. load \in Work /\ load.by # "nobody"  BY <1>1 DEF Types, Loader
<1>3. rcon' \in [at : {"none", "loop", "accept", "check", "session", "reload", "ended"}, knock : BOOLEAN]
      /\ rcon'.at = rcon.at
  BY <1>1 DEF Types, Stopped
<1>4. Types'  BY <1>1, <1>3 DEF Types
<1>5. Loader'  BY <1>1, <1>2, <1>3 DEF Loader
<1>6. Progress' /\ Asserted'  BY <1>1 DEF Progress, Asserted
<1>7. Listens' \/ w.at \in {"true", "false"}  BY <1>2 DEF Listens
<1> QED  BY <1>4, <1>5, <1>6, <1>7

LEMMA LoadFacts ==
    ASSUME ControlInv, load.at # "none"
    PROVE  /\ Types /\ Loader /\ Progress /\ Config /\ Listens /\ Asserted /\ \A q \in Ports : Serving(q)
           /\ load \in Work /\ listener \in [Ports -> Row] /\ ports \in SUBSET Ports
           /\ load.by # "nobody" /\ main \in {"load", "wait", "close"}
           /\ main = "load" => load.by = "main"
           /\ main = "wait" => load.by = "rcon"
           /\ main = "close" => load.by = "stopping"
BY DEF ControlInv, Types, Loader, Work

LEMMA ParseStep ==
    ASSUME ControlInv, Parse
    PROVE  ControlInv'
<1>1. load.at = "parse"  BY DEF Parse, Load
<1>2. /\ Types /\ Loader /\ Progress /\ Config /\ Listens /\ Asserted /\ \A q \in Ports : Serving(q)
      /\ load \in Work /\ listener \in [Ports -> Row] /\ ports \in SUBSET Ports /\ load.by # "nobody"
      /\ main \in {"load", "wait", "close"}
      /\ main = "load" => load.by = "main"
      /\ main = "wait" => load.by = "rcon"
      /\ main = "close" => load.by = "stopping"
  BY <1>1, LoadFacts
<1>3. load.by \in {"main", "rcon"} /\ load.errors = 0 /\ Failures = {} /\ Entries = ports
      /\ (load.by = "main" => Entries = {}) /\ Stopping = {}
  BY <1>1, <1>2 DEF Work, Loader, Config, Stopping
<1>4. UNCHANGED <<state, listener, main, loads, rcon, tm, get, failed>>  BY DEF Parse, KeepsLoading
<1>5. PICK w \in Work : /\ load' = w /\ w.by = load.by /\ w.errors = 0
                        /\ \/ w.at = "false" /\ ports' = ports
                           \/ w.at = "bind" /\ ports' \in SUBSET Ports /\ w.todo = ports'
  <2>1. CASE Load("parse", [load EXCEPT !.at = "false"]) /\ UNCHANGED ports
    BY <1>2, <1>3, <2>1 DEF Load, Work
  <2>2. ASSUME NEW new \in SUBSET Ports, ports' = new,
               Load("parse", [load EXCEPT !.at = "bind", !.todo = new, !.errors = 0])
        PROVE  load' \in Work /\ load'.by = load.by /\ load'.errors = 0 /\ load'.at = "bind" /\ load'.todo = ports'
    BY <1>2, <2>2 DEF Load, Work
  <2> QED  BY <2>1, <2>2 DEF Parse
<1>6. Types' /\ Loader' /\ Progress' /\ Asserted' /\ (Listens' \/ w.at = "false")
  BY <1>1, <1>2, <1>3, <1>4, <1>5, LoadKeeps
<1>7. Entries' = Entries /\ Failures' = {} /\ Stopping' = {}
  BY <1>3, <1>4, <1>5 DEF Entries, Failures, Stopping
<1>8. load.by = "main" => \A p \in Ports : listener[p].entry = "none"  BY <1>3 DEF Entries
<1>9. IsFiniteSet(ports) /\ Cardinality(ports) \in Nat
  <2>1. IsFiniteSet(ports)  BY <1>2, ServerControlAssumption, FS_Subset
  <2> QED  BY <2>1, FS_CardinalityType
<1>10. Config'
  <2>1. CASE w.at = "false"
    BY <1>2, <1>3, <1>4, <1>5, <1>7, <1>8, <1>9, <2>1 DEF Config, Up
  <2>2. CASE w.at = "bind"
    BY <1>2, <1>3, <1>4, <1>5, <1>7, <2>2, FS_EmptySet DEF Config, Up
  <2> QED  BY <1>5, <2>1, <2>2
<1>11. Listens'
  <2>1. CASE w.at = "false"  BY <1>1, <1>2, <1>3, <1>4, <1>5, <2>1 DEF Listens
  <2> QED  BY <1>6, <2>1
<1>12. ASSUME NEW q \in Ports PROVE Serving(q)'
  <2>1. listener[q].at = "request" => listener[q].described # "no"
    <3>1. listener[q].at = "request" => q \in Entries  BY <1>2 DEF Serving, Entries
    <3> QED  BY <1>2, <1>3, <3>1 DEF Serving
  <2> QED  BY <1>2, <1>3, <1>4, <1>5, <1>7, <2>1 DEF Serving
<1> QED  BY <1>6, <1>10, <1>11, <1>12 DEF ControlInv

LEMMA BindStep ==
    ASSUME ControlInv, Bind
    PROVE  ControlInv'
<1>1. load.at = "bind"  BY DEF Bind, Load
<1>2. /\ Types /\ Loader /\ Progress /\ Config /\ Listens /\ Asserted /\ \A q \in Ports : Serving(q)
      /\ load \in Work /\ listener \in [Ports -> Row] /\ ports \in SUBSET Ports /\ load.by # "nobody"
      /\ main \in {"load", "wait", "close"}
      /\ main = "load" => load.by = "main"
      /\ main = "wait" => load.by = "rcon"
      /\ main = "close" => load.by = "stopping"
  BY <1>1, LoadFacts
<1>3. /\ load.by \in {"main", "rcon"} /\ Stopping = {} /\ loads \in Nat
      /\ load.todo \subseteq ports /\ ports \ load.todo \subseteq Entries /\ Failures \subseteq ports \ load.todo
      /\ load.errors = Cardinality(Failures)
  BY <1>1, <1>2, ServerControlAssumption DEF Work, Loader, Config, Stopping, Types
<1>4. UNCHANGED <<state, ports, main, loads, rcon, tm, get, failed>>  BY DEF Bind, KeepsLoading
<1>5. PICK p \in load.todo :
         \/ /\ listener[p].entry # "none" /\ UNCHANGED listener
            /\ load' = [load EXCEPT !.todo = @ \ {p}]
         \/ /\ listener[p].entry = "none"
            /\ listener' = [listener EXCEPT ![p] = [NoListener EXCEPT !.entry = "up", !.since = loads, !.at = "created"]]
            /\ load' = [load EXCEPT !.todo = @ \ {p}]
         \/ /\ listener[p].entry = "none"
            /\ listener' = [listener EXCEPT ![p] = [NoListener EXCEPT !.entry = "null", !.since = loads]]
            /\ load' = [load EXCEPT !.todo = @ \ {p}, !.errors = @ + 1]
  BY DEF Bind, Load, Set
<1>6. p \in Ports /\ p \in ports  BY <1>2, <1>3
<1>7. PICK failed_ \in {0, 1} :
         /\ load' \in Work /\ load'.by = load.by /\ load'.at = "bind" /\ load'.todo = load.todo \ {p}
         /\ load'.errors = load.errors + failed_
         /\ listener' \in [Ports -> Row] /\ \A q \in Ports : q # p => listener'[q] = listener[q]
         /\ listener'[p].entry # "none"
         /\ failed_ = 0 => \/ listener'[p] = listener[p] /\ listener[p].entry # "none"
                           \/ listener'[p].entry = "up" /\ listener'[p].since = loads /\ listener'[p].at = "created"
                              /\ listener[p].entry = "none"
         /\ failed_ = 1 => /\ listener'[p].entry = "null" /\ listener'[p].since = loads /\ listener'[p].at = "none"
                           /\ listener[p].entry = "none"
  <2>1. CASE /\ listener[p].entry # "none" /\ UNCHANGED listener
             /\ load' = [load EXCEPT !.todo = @ \ {p}]
    <3>1. load' \in Work /\ load'.by = load.by /\ load'.at = "bind" /\ load'.todo = load.todo \ {p}
          /\ load'.errors = load.errors + 0
      BY <1>1, <1>2, <2>1 DEF Work
    <3> QED  BY <1>2, <2>1, <3>1
  <2>2. CASE /\ listener[p].entry = "none"
             /\ listener' = [listener EXCEPT ![p] = [NoListener EXCEPT !.entry = "up", !.since = loads, !.at = "created"]]
             /\ load' = [load EXCEPT !.todo = @ \ {p}]
    <3>1. load' \in Work /\ load'.by = load.by /\ load'.at = "bind" /\ load'.todo = load.todo \ {p}
          /\ load'.errors = load.errors + 0
      BY <1>1, <1>2, <2>2 DEF Work
    <3> DEFINE l == [NoListener EXCEPT !.entry = "up", !.since = loads, !.at = "created"]
    <3>2. l \in Row /\ l.entry = "up" /\ l.since = loads /\ l.at = "created"  BY <1>3 DEF NoListener, Row
    <3>3. listener' = [listener EXCEPT ![p] = l]  BY <2>2
    <3> HIDE DEF l
    <3> QED  BY <1>2, <1>6, <2>2, <3>1, <3>2, <3>3
  <2>3. CASE /\ listener[p].entry = "none"
             /\ listener' = [listener EXCEPT ![p] = [NoListener EXCEPT !.entry = "null", !.since = loads]]
             /\ load' = [load EXCEPT !.todo = @ \ {p}, !.errors = @ + 1]
    <3> DEFINE n == load.errors + 1
    <3> DEFINE left == load.todo \ {p}
    <3>4. n \in Nat /\ left \in SUBSET Ports /\ load' = [load EXCEPT !.todo = left, !.errors = n]
      BY <1>2, <2>3 DEF Work
    <3> HIDE DEF n, left
    <3>5. load' \in Work /\ load'.by = load.by /\ load'.at = "bind" /\ load'.todo = left /\ load'.errors = n
      BY <1>1, <1>2, <3>4 DEF Work
    <3>1. load' \in Work /\ load'.by = load.by /\ load'.at = "bind" /\ load'.todo = load.todo \ {p}
          /\ load'.errors = load.errors + 1
      BY <3>5 DEF n, left
    <3> DEFINE l == [NoListener EXCEPT !.entry = "null", !.since = loads]
    <3>2. l \in Row /\ l.entry = "null" /\ l.since = loads /\ l.at = "none"  BY <1>3 DEF NoListener, Row
    <3>3. listener' = [listener EXCEPT ![p] = l]  BY <2>3
    <3> HIDE DEF l
    <3>6. /\ listener' \in [Ports -> Row] /\ \A q \in Ports : q # p => listener'[q] = listener[q]
          /\ listener'[p] = l
      BY <1>2, <1>6, <3>2, <3>3
    <3>7. /\ listener'[p].entry = "null" /\ listener'[p].since = loads /\ listener'[p].at = "none"
          /\ listener[p].entry = "none" /\ listener'[p].entry # "none"
      BY <2>3, <3>2, <3>6
    <3> WITNESS 1 \in {0, 1}
    <3> QED  BY <3>1, <3>6, <3>7
  <2> QED  BY <1>5, <2>1, <2>2, <2>3
<1>8. Types' /\ Loader' /\ Progress' /\ Asserted' /\ Listens'
  BY <1>1, <1>2, <1>3, <1>4, <1>7, LoadKeeps
<1>9. Entries' = Entries \cup {p} /\ Stopping' = {}
  BY <1>6, <1>7 DEF Entries, Stopping
<1>10. p \notin Failures /\ Failures' = IF failed_ = 1 THEN Failures \cup {p} ELSE Failures
  <2>1. p \notin Failures  BY <1>3, <1>5
  <2>2. failed_ = 0 => p \notin Failures'  BY <1>4, <1>7, <2>1 DEF Failures
  <2>3. failed_ = 1 => p \in Failures'  BY <1>4, <1>6, <1>7 DEF Failures
  <2>4. \A q \in Ports : q # p => (q \in Failures' <=> q \in Failures)  BY <1>4, <1>7 DEF Failures
  <2>5. Failures \subseteq Ports /\ Failures' \subseteq Ports  BY DEF Failures
  <2> QED  BY <1>6, <1>7, <2>1, <2>2, <2>3, <2>4, <2>5
<1>11. Cardinality(Failures') = Cardinality(Failures) + failed_
  <2>1. IsFiniteSet(Failures)  BY <1>2, <1>3, ServerControlAssumption, FS_Subset
  <2>2. Cardinality(Failures) \in Nat  BY <2>1, FS_CardinalityType
  <2>3. Cardinality(Failures \cup {p}) = Cardinality(Failures) + 1  BY <1>10, <2>1, FS_AddElement
  <2> QED  BY <1>7, <1>10, <2>2, <2>3
<1>12. Config'
  <2>1. load'.todo \subseteq ports /\ ports \ load'.todo \subseteq Entries' /\ Failures' \subseteq ports \ load'.todo
    BY <1>3, <1>6, <1>7, <1>9, <1>10
  <2>2. load'.errors = Cardinality(Failures')  BY <1>3, <1>7, <1>11
  <2> QED  BY <1>2, <1>3, <1>4, <1>7, <2>1, <2>2 DEF Config
<1>13. ASSUME NEW q \in Ports PROVE Serving(q)'
  <2>1. CASE q = p
    BY <1>2, <1>3, <1>4, <1>7, <1>9, <2>1 DEF Serving
  <2>2. CASE q # p
    BY <1>2, <1>3, <1>4, <1>7, <1>9, <2>2 DEF Serving
  <2> QED  BY <2>1, <2>2
<1> QED  BY <1>8, <1>12, <1>13 DEF ControlInv

LEMMA BoundStep ==
    ASSUME ControlInv, Bound
    PROVE  ControlInv'
<1>1. load.at = "bind" /\ load.todo = {}  BY DEF Bound, Load
<1>2. /\ Types /\ Loader /\ Progress /\ Config /\ Listens /\ Asserted /\ \A q \in Ports : Serving(q)
      /\ load \in Work /\ listener \in [Ports -> Row] /\ ports \in SUBSET Ports /\ load.by # "nobody"
      /\ main \in {"load", "wait", "close"}
      /\ main = "load" => load.by = "main"
      /\ main = "wait" => load.by = "rcon"
      /\ main = "close" => load.by = "stopping"
  BY <1>1, LoadFacts
<1>3. /\ load.by \in {"main", "rcon"} /\ Stopping = {} /\ ports \subseteq Entries /\ Failures \subseteq ports
      /\ load.errors = Cardinality(Failures)
  BY <1>1, <1>2 DEF Work, Loader, Config, Stopping
<1>4. /\ UNCHANGED <<state, listener, ports, main, loads, rcon, tm, get, failed>>
      /\ load' = [load EXCEPT !.at = "close", !.todo = Entries \ ports]
  BY DEF Bound, Load, KeepsLoading, Entries
<1>5. Entries \subseteq Ports  BY DEF Entries
<1>6. PICK w \in Work : /\ load' = w /\ w.by = load.by /\ w.at = "close" /\ w.todo = Entries \ ports
                        /\ w.errors = load.errors
  <2> DEFINE left == Entries \ ports
  <2>1. left \in SUBSET Ports /\ load' = [load EXCEPT !.at = "close", !.todo = left]  BY <1>4, <1>5
  <2> HIDE DEF left
  <2>2. load' \in Work /\ load'.by = load.by /\ load'.at = "close" /\ load'.todo = left /\ load'.errors = load.errors
    BY <1>2, <2>1 DEF Work
  <2> QED  BY <2>2 DEF left
<1>7. Types' /\ Loader' /\ Progress' /\ Asserted' /\ Listens'
  BY <1>1, <1>2, <1>3, <1>4, <1>6, LoadKeeps
<1>8. Entries' = Entries /\ Failures' = Failures /\ Stopping' = {}
  BY <1>4, <1>6 DEF Entries, Failures, Stopping
<1>9. Config'  BY <1>2, <1>3, <1>4, <1>6, <1>8 DEF Config
<1>10. ASSUME NEW q \in Ports PROVE Serving(q)'  BY <1>2, <1>3, <1>4, <1>6, <1>8 DEF Serving
<1> QED  BY <1>7, <1>9, <1>10 DEF ControlInv

LEMMA StopListenerStep ==
    ASSUME ControlInv, StopListener
    PROVE  ControlInv'
<1>1. load.at = "close"  BY DEF StopListener, Load
<1>2. /\ Types /\ Loader /\ Progress /\ Config /\ Listens /\ Asserted /\ \A q \in Ports : Serving(q)
      /\ load \in Work /\ listener \in [Ports -> Row] /\ ports \in SUBSET Ports /\ load.by # "nobody"
      /\ main \in {"load", "wait", "close"}
      /\ main = "load" => load.by = "main"
      /\ main = "wait" => load.by = "rcon"
      /\ main = "close" => load.by = "stopping"
  BY <1>1, LoadFacts
<1>3. PICK p \in load.todo :
         /\ UNCHANGED <<state, ports, main, loads, rcon, tm, get, failed>>
         /\ \/ /\ Up(p) /\ load' = [load EXCEPT !.at = "stop", !.port = p, !.todo = @ \ {p}]
               /\ listener' = [listener EXCEPT ![p] = [listener[p] EXCEPT !.is_running = FALSE]]
            \/ /\ ~Up(p) /\ load' = [load EXCEPT !.todo = @ \ {p}]
               /\ listener' = [listener EXCEPT ![p] = NoListener]
  BY DEF StopListener, Load, Set, KeepsLoading
<1>4. p \in Ports /\ p \in Threads /\ listener[p] \in Row  BY <1>2, <1>3 DEF Work, Threads
<1>5. PICK w \in Work, l \in Row :
         /\ load' = w /\ w.by = load.by /\ w.todo = load.todo \ {p} /\ w.errors = load.errors
         /\ listener' = [listener EXCEPT ![p] = l]
         /\ \/ /\ w.at = "stop" /\ w.port = p /\ l.entry = "up" /\ listener[p].entry = "up"
               /\ l.since = listener[p].since /\ l.at = listener[p].at /\ l.described = listener[p].described
            \/ /\ w.at = "close" /\ l.entry = "none" /\ l.since = 0 /\ l.at = "none"
               /\ listener[p].entry # "up"
  <2>1. ASSUME Up(p), load' = [load EXCEPT !.at = "stop", !.port = p, !.todo = @ \ {p}],
               listener' = [listener EXCEPT ![p] = [listener[p] EXCEPT !.is_running = FALSE]]
        PROVE  \E w \in Work, l \in Row :
                 /\ load' = w /\ w.by = load.by /\ w.todo = load.todo \ {p} /\ w.errors = load.errors
                 /\ listener' = [listener EXCEPT ![p] = l]
                 /\ w.at = "stop" /\ w.port = p /\ l.entry = "up" /\ listener[p].entry = "up"
                 /\ l.since = listener[p].since /\ l.at = listener[p].at /\ l.described = listener[p].described
    <3> DEFINE l == [listener[p] EXCEPT !.is_running = FALSE]
    <3> DEFINE w == [load EXCEPT !.at = "stop", !.port = p, !.todo = @ \ {p}]
    <3>1. /\ l \in Row /\ l.entry = listener[p].entry /\ l.since = listener[p].since /\ l.at = listener[p].at
          /\ l.described = listener[p].described /\ listener[p].entry = "up"
      BY <1>4, <2>1 DEF Row, Up
    <3>2. /\ w \in Work /\ w.by = load.by /\ w.todo = load.todo \ {p} /\ w.errors = load.errors
          /\ w.at = "stop" /\ w.port = p
      BY <1>2, <1>4 DEF Work
    <3>3. load' = w /\ listener' = [listener EXCEPT ![p] = l]  BY <2>1
    <3> HIDE DEF l, w
    <3> QED  BY <3>1, <3>2, <3>3
  <2>2. ASSUME ~Up(p), load' = [load EXCEPT !.todo = @ \ {p}], listener' = [listener EXCEPT ![p] = NoListener]
        PROVE  \E w \in Work, l \in Row :
                 /\ load' = w /\ w.by = load.by /\ w.todo = load.todo \ {p} /\ w.errors = load.errors
                 /\ listener' = [listener EXCEPT ![p] = l]
                 /\ w.at = "close" /\ l.entry = "none" /\ l.since = 0 /\ l.at = "none" /\ listener[p].entry # "up"
    <3> DEFINE w == [load EXCEPT !.todo = @ \ {p}]
    <3>1. /\ NoListener \in Row /\ NoListener.entry = "none" /\ NoListener.since = 0 /\ NoListener.at = "none"
          /\ listener[p].entry # "up"
      BY <2>2 DEF Row, NoListener, Up
    <3>2. w \in Work /\ w.by = load.by /\ w.todo = load.todo \ {p} /\ w.errors = load.errors /\ w.at = "close"
      BY <1>1, <1>2 DEF Work
    <3>3. load' = w  BY <2>2
    <3> HIDE DEF w
    <3> QED  BY <2>2, <3>1, <3>2, <3>3
  <2> QED  BY <1>3, <2>1, <2>2
<1>6. listener' \in [Ports -> Row] /\ listener'[p] = l /\ \A q \in Ports : q # p => listener'[q] = listener[q]
  BY <1>2, <1>4, <1>5
<1>7. load.errors = 0 \/ load.by # "stopping"  BY <1>2 DEF Loader
<1>8. Types' /\ Loader' /\ Progress' /\ Asserted' /\ Listens'
  BY <1>1, <1>2, <1>3, <1>4, <1>5, <1>6, <1>7, LoadKeeps
<1>9. Stopping = {} /\ Stopping' = IF w.at = "stop" THEN {p} ELSE {}
  BY <1>1, <1>5 DEF Stopping
<1>10. Entries' = IF w.at = "stop" THEN Entries ELSE Entries \ {p}
  <2>1. \A q \in Ports : q # p => (q \in Entries' <=> q \in Entries)  BY <1>6 DEF Entries
  <2>2. w.at = "stop" => p \in Entries /\ p \in Entries'  BY <1>4, <1>5, <1>6 DEF Entries
  <2>3. w.at # "stop" => p \notin Entries'  BY <1>5, <1>6 DEF Entries
  <2>4. Entries \subseteq Ports /\ Entries' \subseteq Ports  BY DEF Entries
  <2> QED  BY <2>1, <2>2, <2>3, <2>4
<1>11. load.by # "stopping" => p \notin ports /\ Failures' = Failures
  <2> SUFFICES ASSUME load.by # "stopping" PROVE p \notin ports /\ Failures' = Failures  OBVIOUS
  <2>1. p \notin ports /\ Failures \subseteq ports  BY <1>1, <1>2, <1>3 DEF Config
  <2>2. \A q \in Ports : q # p => (q \in Failures' <=> q \in Failures)  BY <1>3, <1>6 DEF Failures
  <2>3. p \notin Failures /\ p \notin Failures'  BY <1>5, <1>6, <2>1 DEF Failures
  <2>4. Failures \subseteq Ports /\ Failures' \subseteq Ports  BY DEF Failures
  <2> QED  BY <2>1, <2>2, <2>3, <2>4
<1>12. Config'
  <2>1. CASE load.by = "stopping"
    <3>1. Entries \subseteq load.todo  BY <1>1, <1>2, <1>9, <2>1 DEF Config
    <3>2. Entries' \subseteq w.todo \cup Stopping'  BY <1>5, <1>9, <1>10, <3>1
    <3> QED  BY <1>2, <1>3, <1>5, <2>1, <3>2 DEF Config
  <2>2. CASE load.by # "stopping"
    <3>1. /\ Entries = ports \cup load.todo /\ ports \cap load.todo = {}
          /\ Failures \subseteq ports /\ load.errors = Cardinality(Failures)
      BY <1>1, <1>2, <1>9, <2>2 DEF Config
    <3>2. /\ Entries' = ports \cup w.todo \cup Stopping' /\ ports \cap (w.todo \cup Stopping') = {}
          /\ Stopping' \cap w.todo = {} /\ Failures' \subseteq ports /\ w.errors = Cardinality(Failures')
      BY <1>3, <1>5, <1>9, <1>10, <1>11, <2>2, <3>1
    <3> QED  BY <1>2, <1>3, <1>5, <2>2, <3>2 DEF Config
  <2> QED  BY <2>1, <2>2
<1>13. ASSUME NEW q \in Ports PROVE Serving(q)'
  <2>1. Serving(q) /\ loads \in Nat  BY <1>2, ServerControlAssumption DEF Types
  <2>2. CASE q = p
    BY <1>2, <1>3, <1>5, <1>6, <1>9, <2>1, <2>2 DEF Serving
  <2>3. CASE q # p
    BY <1>2, <1>3, <1>5, <1>6, <1>9, <2>1, <2>3 DEF Serving
  <2> QED  BY <2>2, <2>3
<1> QED  BY <1>8, <1>12, <1>13 DEF ControlInv

\* Listener::stop connects to its own port.
LEMMA ConnectStep ==
    ASSUME ControlInv, Connect
    PROVE  ControlInv'
<1>1. load.at = "stop" /\ UNCHANGED <<state, main, load, loads, ports, rcon, tm, get, failed>>
      /\ listener' = [listener EXCEPT ![load.port] = [listener[load.port] EXCEPT !.knock = TRUE]]
  BY DEF Connect, Load, Set, KeepsLoading
<1>2. load.port \in Ports  BY <1>1 DEF ControlInv, Loader
<1>9. PICK p \in Ports : p = load.port  BY <1>2
<1> DEFINE l == [listener[p] EXCEPT !.knock = TRUE]
<1>3. listener[p] \in Row /\ listener \in [Ports -> Row] /\ Types /\ Asserted /\ Serving(p)
  BY PortFacts
<1>4. /\ l \in Row /\ l.entry = listener[p].entry /\ l.since = listener[p].since /\ l.at = listener[p].at
      /\ l.is_running = listener[p].is_running /\ l.described = listener[p].described
  BY <1>3 DEF Row
<1>5. listener' = [listener EXCEPT ![p] = l]  BY <1>1, <1>9
<1> HIDE DEF l
<1>6. listener'[p] = l  BY <1>3, <1>5
<1>7. Serving(p)'
  <2>1. Stopping' = Stopping  BY <1>1 DEF Stopping
  <2> QED  BY <1>1, <1>3, <1>4, <1>6, <2>1 DEF Serving
<1>8. Asserted' /\ get' \in [Threads -> {"out", "construct", "assign"}]
      /\ failed' \in {"no", "assertion", "console", "renewal"}
  BY <1>1, <1>3 DEF Asserted, Types
<1> QED  BY <1>1, <1>3, <1>4, <1>5, <1>7, <1>8, PortStep

LEMMA JoinStep ==
    ASSUME ControlInv, Join
    PROVE  ControlInv'
<1>1. load.at = "stop"  BY DEF Join, Load
<1>2. /\ Types /\ Loader /\ Progress /\ Config /\ Listens /\ Asserted /\ \A q \in Ports : Serving(q)
      /\ load \in Work /\ listener \in [Ports -> Row] /\ ports \in SUBSET Ports /\ load.by # "nobody"
      /\ main \in {"load", "wait", "close"}
      /\ main = "load" => load.by = "main"
      /\ main = "wait" => load.by = "rcon"
      /\ main = "close" => load.by = "stopping"
  BY <1>1, LoadFacts
<1>3. PICK p \in Ports : p = load.port  BY <1>1, <1>2 DEF Loader
<1>4. /\ UNCHANGED <<state, ports, main, loads, rcon, tm, get, failed>>
      /\ load' = [load EXCEPT !.at = "close", !.port = MainThread]
      /\ listener' = [listener EXCEPT ![p] = NoListener]
  BY <1>3 DEF Join, Load, Set, KeepsLoading
<1>5. PICK w \in Work : /\ load' = w /\ w.by = load.by /\ w.at = "close" /\ w.todo = load.todo
                        /\ w.errors = load.errors
  <2>1. MainThread \in Threads  BY DEF Threads
  <2>2. load' \in Work /\ load'.by = load.by /\ load'.at = "close" /\ load'.todo = load.todo
        /\ load'.errors = load.errors
    BY <1>2, <1>4, <2>1 DEF Work
  <2> QED  BY <2>2
<1>6. NoListener \in Row /\ NoListener.entry = "none" /\ NoListener.since = 0 /\ NoListener.at = "none"
  BY DEF Row, NoListener
<1>7. listener' \in [Ports -> Row] /\ listener'[p] = NoListener /\ \A q \in Ports : q # p => listener'[q] = listener[q]
  BY <1>2, <1>4, <1>6
<1>8. load.errors = 0 \/ load.by # "stopping"  BY <1>2 DEF Loader
<1>9. Types' /\ Loader' /\ Progress' /\ Asserted' /\ Listens'
  BY <1>1, <1>2, <1>4, <1>5, <1>7, <1>8, LoadKeeps
<1>10. Stopping = {p} /\ Stopping' = {}  BY <1>1, <1>3, <1>5 DEF Stopping
<1>11. Entries' = Entries \ {p}
  <2>1. \A q \in Ports : q # p => (q \in Entries' <=> q \in Entries)  BY <1>7 DEF Entries
  <2>2. p \notin Entries'  BY <1>6, <1>7 DEF Entries
  <2>3. Entries \subseteq Ports /\ Entries' \subseteq Ports  BY DEF Entries
  <2> QED  BY <2>1, <2>2, <2>3
<1>12. Config'
  <2>1. CASE load.by = "stopping"
    <3>1. Entries \subseteq load.todo \cup {p}  BY <1>2, <1>10, <2>1 DEF Config
    <3>2. Entries' \subseteq w.todo \cup Stopping'  BY <1>5, <1>11, <3>1
    <3> QED  BY <1>2, <1>4, <1>5, <2>1, <3>2 DEF Config
  <2>2. CASE load.by # "stopping"
    <3>1. /\ Entries = ports \cup load.todo \cup {p} /\ ports \cap (load.todo \cup {p}) = {}
          /\ p \notin load.todo /\ Failures \subseteq ports /\ load.errors = Cardinality(Failures)
      BY <1>1, <1>2, <1>10, <2>2 DEF Config
    <3>2. Failures' = Failures
      <4>1. \A q \in Ports : q # p => (q \in Failures' <=> q \in Failures)  BY <1>4, <1>7 DEF Failures
      <4>2. p \notin Failures /\ p \notin Failures'  BY <1>6, <1>7, <3>1 DEF Failures
      <4>3. Failures \subseteq Ports /\ Failures' \subseteq Ports  BY DEF Failures
      <4> QED  BY <4>1, <4>2, <4>3
    <3>3. Entries' = ports \cup w.todo /\ ports \cap w.todo = {}  BY <1>5, <1>11, <3>1
    <3> QED  BY <1>2, <1>4, <1>5, <1>10, <2>2, <3>1, <3>2, <3>3 DEF Config
  <2> QED  BY <2>1, <2>2
<1>13. ASSUME NEW q \in Ports PROVE Serving(q)'
  <2>1. Serving(q) /\ loads \in Nat  BY <1>2, ServerControlAssumption DEF Types
  <2>2. CASE q = p  BY <1>4, <1>6, <1>7, <1>10, <2>1, <2>2 DEF Serving
  <2>3. CASE q # p  BY <1>2, <1>4, <1>5, <1>7, <1>10, <2>1, <2>3 DEF Serving
  <2> QED  BY <2>2, <2>3
<1> QED  BY <1>9, <1>12, <1>13 DEF ControlInv

LEMMA ClosedStep ==
    ASSUME ControlInv, Closed
    PROVE  ControlInv'
<1>1. load.at = "close" /\ load.todo = {} /\ load.by # "stopping"  BY DEF Closed, Load
<1>2. /\ Types /\ Loader /\ Progress /\ Config /\ Listens /\ Asserted /\ \A q \in Ports : Serving(q)
      /\ load \in Work /\ listener \in [Ports -> Row] /\ ports \in SUBSET Ports /\ load.by # "nobody"
      /\ main \in {"load", "wait", "close"}
      /\ main = "load" => load.by = "main"
      /\ main = "wait" => load.by = "rcon"
      /\ main = "close" => load.by = "stopping"
  BY <1>1, LoadFacts
<1>3. /\ Stopping = {} /\ Entries = ports /\ Failures \subseteq ports /\ load.errors = Cardinality(Failures)
  <2>1. Stopping = {}  BY <1>1 DEF Stopping
  <2> QED  BY <1>1, <1>2, <2>1 DEF Config
<1> DEFINE nothing == load.errors = Cardinality(ports)
<1>4. /\ state' = (IF nothing THEN "STOPPED" ELSE state)
      /\ rcon' = (IF nothing /\ rcon.at # "none" THEN Stopped(rcon) ELSE rcon)
      /\ load' = [load EXCEPT !.at = IF nothing /\ rcon.at = "none" THEN "false" ELSE "true"]
      /\ UNCHANGED <<main, loads, ports, listener, tm, get, failed>>
  BY DEF Closed, Load
<1>5. PICK w \in Work : /\ load' = w /\ w.by = load.by /\ w.todo = {} /\ w.errors = load.errors
                        /\ w.at = (IF nothing /\ rcon.at = "none" THEN "false" ELSE "true")
  BY <1>1, <1>2, <1>4 DEF Work
<1>6. IsFiniteSet(ports) /\ IsFiniteSet(Failures) /\ Cardinality(Failures) <= Cardinality(ports)
      /\ (nothing => Failures = ports)
  <2>1. IsFiniteSet(ports)  BY <1>2, ServerControlAssumption, FS_Subset
  <2> QED  BY <1>3, <2>1, FS_Subset
<1> HIDE DEF nothing
<1>7. Types' /\ Loader' /\ Progress' /\ Asserted'
  BY <1>1, <1>2, <1>4, <1>5, LoadKeeps
<1>8. Entries' = Entries /\ Stopping' = {}  BY <1>4, <1>5 DEF Entries, Stopping
<1>9. nothing => \A p \in Ports : ~Up(p)
  <2> SUFFICES ASSUME nothing, NEW p \in Ports PROVE listener[p].entry # "up"  BY DEF Up
  <2>1. p \in Failures \/ p \notin Entries  BY <1>3, <1>6
  <2> QED  BY <2>1 DEF Failures, Entries
<1>10. w.at = "false" => nothing  BY <1>5
<1>11. Config'
  <2>1. main \notin {"join", "release", "finished", "run"}  BY <1>2
  <2>2. w.errors <= Cardinality(ports)  BY <1>3, <1>5, <1>6
  <2> QED  BY <1>1, <1>3, <1>4, <1>5, <1>8, <1>9, <1>10, <2>1, <2>2 DEF Config, Up
<1>12. Listens'
  <2> SUFFICES ASSUME ~nothing
               PROVE  \E p \in ports : listener[p].entry = "up" \/ (listener[p].entry = "null" /\ listener[p].since < loads)
    BY <1>4 DEF Listens
  <2>1. Failures # ports  BY <1>3 DEF nothing
  <2>2. PICK p \in ports : p \notin Failures  BY <1>3, <2>1
  <2>3. p \in Ports /\ p \in Entries  BY <1>2, <1>3
  <2>4. listener[p] \in Row /\ Serving(p) /\ loads \in Nat
    BY <1>2, <2>3, ServerControlAssumption DEF Types
  <2>5. listener[p].entry \in {"up", "null"} /\ listener[p].since \in Nat /\ listener[p].since <= loads
    BY <2>3, <2>4 DEF Row, Entries, Serving
  <2>6. listener[p].entry = "null" => listener[p].since # loads  BY <2>2, <2>3 DEF Failures
  <2> QED  BY <2>4, <2>5, <2>6
<1>13. ASSUME NEW q \in Ports PROVE Serving(q)'  BY <1>1, <1>2, <1>3, <1>4, <1>5, <1>8 DEF Serving
<1> QED  BY <1>7, <1>11, <1>12, <1>13 DEF ControlInv

-----------------------------------------------------------------------------

LEMMA InitControlInv == Init => ControlInv
<1> SUFFICES ASSUME Init PROVE ControlInv  OBVIOUS
<1>1. /\ state = "STOPPED" /\ main = "run" /\ load = Idle /\ loads = 0 /\ ports = {}
      /\ listener = [p \in Ports |-> NoListener] /\ rcon = [at |-> "none", knock |-> FALSE]
      /\ tm = [at |-> "none", instance |-> 0] /\ get = [t \in Threads |-> "out"] /\ failed = "no"
      /\ Reloads \in Nat
  BY ServerControlAssumption DEF Init
<1>2. NoListener \in Row /\ Idle \in Work  BY DEF NoListener, Row, Idle, Work, Threads
<1>3. Types  BY <1>1, <1>2 DEF Types
<1>4. load.by = "nobody" /\ load.at = "none" /\ load.errors = 0  BY <1>1 DEF Idle
<1>5. Loader /\ Progress /\ Listens /\ Asserted  BY <1>1, <1>4 DEF Loader, Progress, Listens, Asserted
<1>6. Entries = {} /\ Stopping = {}  BY <1>1, <1>4 DEF Entries, Stopping, NoListener
<1>7. Config  BY <1>1, <1>4, <1>6 DEF Config
<1>8. ASSUME NEW p \in Ports PROVE Serving(p)  BY <1>1 DEF Serving, NoListener
<1> QED  BY <1>3, <1>5, <1>7, <1>8 DEF ControlInv

LEMMA StutterStep ==
    ASSUME ControlInv, UNCHANGED vars
    PROVE  ControlInv'
<1>1. Entries' = Entries /\ Failures' = Failures /\ Stopping' = Stopping
  BY DEF vars, Entries, Failures, Stopping
<1>2. Types' /\ Loader' /\ Progress' /\ Asserted' /\ Listens'
  BY DEF ControlInv, vars, Types, Loader, Progress, Asserted, Listens
<1>3. Config'  BY <1>1 DEF ControlInv, vars, Config, Up
<1>4. \A p \in Ports : Serving(p)'  BY <1>1 DEF ControlInv, vars, Serving
<1> QED  BY <1>2, <1>3, <1>4 DEF ControlInv

LEMMA NextControlInv == ControlInv /\ [Next]_vars => ControlInv'
<1> SUFFICES ASSUME ControlInv, [Next]_vars PROVE ControlInv'  OBVIOUS
<1>1. CASE LoadStep
  BY <1>1, ParseStep, BindStep, BoundStep, StopListenerStep, ConnectStep, JoinStep, ClosedStep DEF LoadStep
<1>2. CASE MainStep
  BY <1>2, StartStep, LoadedStep, MainGetsTaskManagerStep, MainMovesSteps, StartRconStep, JoinRconStep,
     AllClosedStep DEF MainStep
<1>3. CASE RconThread \/ RconAccept(FALSE) \/ StopCommand \/ ReloadCommand \/ Disconnect \/ Sigint
  BY <1>3, RconSteps, ReloadedStep, ReloadCommandStep DEF RconThread
<1>4. ASSUME NEW p \in Ports, ListenerStep(p) \/ Accept(p, FALSE) PROVE ControlInv'
  BY <1>4, ListenerSteps, GetTaskManagerStep DEF ListenerStep
<1>5. CASE TaskManagerEnds \/ \E p \in Ports : EndRequest(p)  BY <1>5, TaskManagerSteps
<1>6. CASE Over \/ UNCHANGED vars  BY <1>6, StutterStep DEF Over
<1> QED  BY <1>1, <1>2, <1>3, <1>4, <1>5, <1>6 DEF Next

\* What the threads of the control path agree on never changes: who loads, which
\* ports are open and which thread serves them (Server.cpp, Listener.cpp, Rcon.cpp).
THEOREM ControlInductive == Spec => []ControlInv
BY InitControlInv, NextControlInv, PTL DEF Spec

\* The type invariant: in particular a load counts no more errors than there are ports
\* (Server::_loadListeners).
THEOREM ControlTypesStay == Spec => []TypeOK
<1>1. ASSUME ControlInv PROVE TypeOK
  <2>1. /\ Types /\ Loader /\ Config /\ load \in Work /\ listener \in [Ports -> Row] /\ ports \in SUBSET Ports
        /\ \A p \in Ports : Serving(p) /\ listener[p] \in Row
    BY <1>1, PortFacts DEF ControlInv, Types
  <2>2. IsFiniteSet(ports) /\ Cardinality(ports) \in Nat
    <3>1. IsFiniteSet(ports)  BY <2>1, ServerControlAssumption, FS_Subset
    <3> QED  BY <3>1, FS_CardinalityType
  <2>3. load.errors \in 0 .. Cardinality(ports)
    <3>1. load.errors \in Nat  BY <2>1 DEF Work
    <3>2. Failures \subseteq ports => Cardinality(Failures) <= Cardinality(ports)  BY <2>2, FS_Subset
    <3>3. CASE load.at \in {"none", "parse"} \/ load.by = "stopping"
      BY <2>1, <2>2, <3>3 DEF Loader
    <3>4. CASE load.at \in {"bind", "close", "stop"} /\ load.by # "stopping"
      <4>1. Failures \subseteq ports /\ load.errors = Cardinality(Failures)  BY <2>1, <3>4 DEF Config
      <4> QED  BY <2>2, <3>1, <3>2, <4>1
    <3>5. CASE load.at \in {"true", "false"}
      BY <2>1, <2>2, <3>1, <3>5 DEF Config
    <3> QED  BY <2>1, <3>3, <3>4, <3>5 DEF Work
  <2>4. \A p \in Ports :
          /\ listener[p].entry \in {"none", "up", "null"} /\ listener[p].since \in 0 .. loads
          /\ listener[p].at \in {"none", "created", "loop", "accept", "check", "configuration",
                                 "request", "start", "leaving", "ended"}
          /\ listener[p].described \in {"no", "port", "served"}
    <3> SUFFICES ASSUME NEW p \in Ports PROVE
          /\ listener[p].entry \in {"none", "up", "null"} /\ listener[p].since \in 0 .. loads
          /\ listener[p].at \in {"none", "created", "loop", "accept", "check", "configuration",
                                 "request", "start", "leaving", "ended"}
          /\ listener[p].described \in {"no", "port", "served"}
      OBVIOUS
    <3>1. loads \in Nat /\ listener[p].since \in Nat /\ listener[p].since <= loads
      BY <2>1, ServerControlAssumption DEF Types, Row, Serving
    <3> QED  BY <2>1, <3>1 DEF Row
  <2> QED  BY <2>1, <2>3, <2>4 DEF TypeOK, Types, Work
<1> QED  BY <1>1, ControlInductive, PTL

-----------------------------------------------------------------------------
(* The properties.                                                          *)

LEMMA UsersAreGone == ControlInv => InstancesOutliveUsers
<1> SUFFICES ASSUME ControlInv, main \in {"release", "finished"}
             PROVE  /\ \A p \in Ports : listener[p].at \in {"none", "ended"}
                    /\ rcon.at = "none" /\ tm.at \in {"none", "ended"}
  BY DEF InstancesOutliveUsers
<1>1. Loader /\ Progress /\ Config /\ Types  BY DEF ControlInv
<1>2. ASSUME NEW p \in Ports PROVE listener[p].at = "none"
  <2>1. ~Up(p)  BY <1>1 DEF Config
  <2> QED  BY <2>1, PortFacts DEF Serving, Up
<1> QED  BY <1>1, <1>2 DEF Loader, Progress

\* The instance is there, or main is over, nobody makes one and the assertion did not fail.
Final ==
    /\ failed # "assertion" /\ \A t \in Threads : get[t] = "out"
    /\ single.instance # 0 \/ main = "finished"

LEMMA FinalStays == ControlInv /\ Final /\ [Next]_vars => Final'
<1> SUFFICES ASSUME ControlInv, Final, [Next]_vars PROVE Final'  OBVIOUS
<1>1. /\ Loader /\ Progress /\ Config /\ Types /\ InstancesOutliveUsers /\ Asserted /\ get \in [Threads -> {"out", "construct", "assign"}]
  BY UsersAreGone DEF ControlInv, Types
<1>2. ASSUME NEW t \in Threads, GetInstance(t) PROVE single.instance = 0
  BY <1>2 DEF Final, GetInstance, Test
<1>3. ASSUME NEW p \in Ports, GetTaskManager(p) PROVE FALSE
  <2>1. p \in Threads /\ listener[p].at = "start"  BY <1>3 DEF Threads, GetTaskManager
  <2>2. single.instance = 0  BY <1>2, <1>3, <2>1 DEF GetTaskManager
  <2> QED  BY <1>1, <2>1, <2>2 DEF Final, InstancesOutliveUsers
<1>4. ASSUME MainGetsTaskManager PROVE FALSE
  <2>1. single.instance = 0 /\ main = "start"  BY <1>2, <1>4 DEF MainGetsTaskManager, Threads
  <2> QED  BY <2>1 DEF Final
<1>5. CASE UNCHANGED <<get, single>> /\ failed' # "assertion" /\ (main = "finished" => main' = "finished")
  BY <1>5 DEF Final
<1>6. CASE LoadStep
  BY <1>5, <1>6 DEF LoadStep, Parse, Bind, Bound, StopListener, Connect, Join, Closed, KeepsLoading, Final
<1>7. CASE MainStep
  <2>1. CASE Start \/ Loaded \/ StartTaskManager \/ StartRcon \/ JoinRcon \/ AllClosed \/ JoinTaskManager
    BY <1>5, <2>1 DEF Start, Loaded, StartTaskManager, StartRcon, JoinRcon, AllClosed, JoinTaskManager, Main, Final
  <2>2. CASE Release  BY <2>2 DEF Release, Main, Final
  <2> QED  BY <1>4, <1>7, <2>1, <2>2 DEF MainStep
<1>8. CASE RconThread \/ RconAccept(FALSE) \/ StopCommand \/ ReloadCommand \/ Disconnect \/ Sigint
  BY <1>5, <1>8 DEF RconThread, RconLoop, RconAccept, RconCheck, Reloaded, StopCommand, ReloadCommand, Disconnect,
                    Sigint, RconStep, KeepsServing, Final
<1>9. CASE TaskManagerEnds \/ \E p \in Ports : EndRequest(p)
  BY <1>5, <1>9 DEF TaskManagerEnds, EndRequest, Final
<1>10. ASSUME NEW p \in Ports, ListenerStep(p) \/ Accept(p, FALSE) PROVE Final'
  BY <1>3, <1>5, <1>10 DEF ListenerStep, Run, Loop, Leave, Accept, Check, GetConfiguration, Refuse, Prepare,
                          StartRequest, KeepsListening, Final
<1>11. CASE Over \/ UNCHANGED vars  BY <1>5, <1>11 DEF Over, vars, Final
<1> QED  BY <1>6, <1>7, <1>8, <1>9, <1>10, <1>11 DEF Next

\* The instance of the task manager outlives who uses it, and once it is there and
\* nobody makes one the assertion of Singleton's constructor holds for good.
THEOREM InstancesStay == Spec => InstancesLast
<1>1. Spec => []InstancesOutliveUsers  BY ControlInductive, UsersAreGone, PTL
<1> DEFINE Made == (\A t \in Threads : get[t] = "out") /\ single.instance # 0
<1>2. ControlInv /\ Made => Final  BY DEF Final, ControlInv, Asserted
<1>3. Final => failed # "assertion"  BY DEF Final
<1> DEFINE Held == failed # "assertion"
<1>4. Spec => []ControlInv /\ [][Next]_vars  BY ControlInductive DEF Spec
<1> HIDE DEF Made, Held
<1>5. Final => Held  BY <1>3 DEF Held
<1>6. ([]ControlInv /\ [][Next]_vars) => [](Made => []Held)  BY <1>2, <1>5, FinalStays, PTL
<1>7. [](Made => []Held) => InstanceIsFinal  BY DEF Made, Held, InstanceIsFinal
<1> QED  BY <1>1, <1>4, <1>6, <1>7 DEF InstancesLast

LEMMA ListenersAreTheConfiguration == ControlInv => ListenersFollowConfig
<1> SUFFICES ASSUME ControlInv, load.by = "nobody", main = "wait"
             PROVE  /\ {p \in Ports : listener[p].entry # "none"} = ports
                    /\ state = "RUNNING" => \A p \in Ports : Up(p) => listener[p].at \notin {"none", "leaving", "ended"}
  BY DEF ListenersFollowConfig
<1>1. Loader /\ Config /\ Types  BY DEF ControlInv
<1>2. Entries = ports /\ Stopping = {}  BY <1>1 DEF Config, Loader, Stopping
<1>3. ASSUME state = "RUNNING", NEW p \in Ports, Up(p) PROVE listener[p].at \notin {"none", "leaving", "ended"}
  BY <1>2, <1>3, PortFacts DEF Serving, Up
<1> QED  BY <1>2, <1>3 DEF Entries

LEMMA SilenceIsAFailure == ControlInv => SilentOnlyAfterFailure
<1> SUFFICES ASSUME ControlInv, state = "RUNNING", load.by = "nobody", main = "wait", \A p \in Ports : ~Up(p)
             PROVE  \E p \in ports : listener[p].entry = "null" /\ listener[p].since < loads
  BY DEF SilentOnlyAfterFailure
<1>1. Listens /\ ports \subseteq Ports  BY DEF ControlInv, Types
<1>2. PICK p \in ports : listener[p].entry = "up" \/ (listener[p].entry = "null" /\ listener[p].since < loads)
  BY <1>1 DEF Listens
<1> QED  BY <1>1, <1>2 DEF Up

\* An open port that the configuration has stays open, with the load that opened it.
LEMMA PortsAreKept ==
    ASSUME ControlInv, [Next]_vars, NEW p \in Ports, Up(p), load.by # "stopping", p \in ports
    PROVE  listener'[p].entry = "up" /\ listener'[p].since = listener[p].since
<1>1. /\ Types /\ Loader /\ Config /\ listener \in [Ports -> Row] /\ load \in Work /\ listener[p].entry = "up"
      /\ \A q \in Ports : listener[q] \in Row
  BY PortFacts DEF Up, ControlInv, Types
<1> DEFINE Kept == listener'[p].entry = "up" /\ listener'[p].since = listener[p].since
<1>2. CASE UNCHANGED listener  BY <1>1, <1>2
<1>3. ASSUME NEW q \in Ports, NEW l, listener' = [listener EXCEPT ![q] = l],
             q = p => l.entry = listener[q].entry /\ l.since = listener[q].since
      PROVE  Kept
  BY <1>1, <1>3
<1>4. CASE Bind
  <2>1. PICK q \in load.todo : UNCHANGED listener \/ (listener[q].entry = "none" /\ \E l : listener' = [listener EXCEPT ![q] = l])
    BY <1>4 DEF Bind, Set
  <2>2. q \in Ports  BY <1>1 DEF Work
  <2> QED  BY <1>1, <1>2, <2>1, <2>2
<1>5. CASE StopListener
  <2>1. PICK q \in load.todo : \E l : listener' = [listener EXCEPT ![q] = l]  BY <1>5 DEF StopListener, Set
  <2>2. q \in Ports /\ load.at = "close"  BY <1>1, <1>5 DEF Work, StopListener, Load
  <2>3. q # p  BY <1>1, <2>2 DEF Config
  <2> QED  BY <1>1, <2>1, <2>2, <2>3
<1>6. CASE Connect
  <2>1. load.port \in Ports /\ listener' = [listener EXCEPT ![load.port] = [listener[load.port] EXCEPT !.knock = TRUE]]
    BY <1>1, <1>6 DEF Connect, Set, Load, Loader
  <2> QED  BY <1>1, <2>1 DEF Row
<1>7. CASE Join
  <2>1. load.port \in Ports /\ load.at = "stop" /\ listener' = [listener EXCEPT ![load.port] = NoListener]
    BY <1>1, <1>7 DEF Join, Set, Load, Loader
  <2>2. load.port # p  BY <1>1, <2>1 DEF Config, Stopping
  <2> QED  BY <1>1, <2>1, <2>2
<1>8. CASE LoadStep  BY <1>2, <1>4, <1>5, <1>6, <1>7, <1>8 DEF LoadStep, Parse, Bound, Closed
<1>9. CASE MainStep
  BY <1>2, <1>9 DEF MainStep, Start, Loaded, MainGetsTaskManager, StartTaskManager, StartRcon, JoinRcon, AllClosed,
                    JoinTaskManager, Release
<1>10. CASE RconThread \/ RconAccept(FALSE) \/ StopCommand \/ ReloadCommand \/ Disconnect \/ Sigint \/ TaskManagerEnds
            \/ \E q \in Ports : EndRequest(q)
  BY <1>2, <1>10 DEF RconThread, RconLoop, RconAccept, RconCheck, Reloaded, StopCommand, ReloadCommand, Disconnect,
                    Sigint, KeepsServing, TaskManagerEnds, EndRequest
<1>11. ASSUME NEW q \in Ports, ListenerStep(q) \/ Accept(q, FALSE) PROVE Kept
  <2>1. CASE GetTaskManager(q)  BY <1>2, <2>1 DEF GetTaskManager
  <2>2. CASE Run(q)  BY <1>1, <2>2 DEF Run, Listen, Set, Row
  <2>3. CASE Loop(q)  BY <1>1, <2>3 DEF Loop, Listen, Set, Row, Now
  <2>4. CASE Leave(q)  BY <1>1, <2>4 DEF Leave, Listen, Set, Row, Now
  <2>5. ASSUME NEW self \in BOOLEAN, Accept(q, self) PROVE Kept
    <3> DEFINE l == [Now(q, "check") EXCEPT !.knock = @ /\ ~self]
    <3>1. l.entry = listener[q].entry /\ l.since = listener[q].since  BY <1>1 DEF Row, Now
    <3>2. listener' = [listener EXCEPT ![q] = l]  BY <2>5 DEF Accept, Listen, Set
    <3> HIDE DEF l
    <3> QED  BY <1>3, <3>1, <3>2
  <2>6. CASE Check(q)  BY <1>1, <2>6 DEF Check, Listen, Set, Row, Now
  <2>7. CASE GetConfiguration(q)  BY <1>1, <2>7 DEF GetConfiguration, Listen, Set, Row, Now
  <2>8. CASE Refuse(q) \/ Prepare(q)
    <3>1. PICK at \in {"loop", "start"} : listener' = [listener EXCEPT ![q] = [Now(q, at) EXCEPT !.described = "no"]]
      BY <2>8 DEF Refuse, Prepare, Listen, Set
    <3> DEFINE l == [Now(q, at) EXCEPT !.described = "no"]
    <3>2. l.entry = listener[q].entry /\ l.since = listener[q].since  BY <1>1 DEF Row, Now
    <3>3. listener' = [listener EXCEPT ![q] = l]  BY <3>1
    <3> HIDE DEF l
    <3> QED  BY <1>3, <3>2, <3>3
  <2>9. CASE StartRequest(q)  BY <1>1, <2>9 DEF StartRequest, Listen, Set, Row, Now
  <2> QED  BY <1>11, <2>1, <2>2, <2>3, <2>4, <2>5, <2>6, <2>7, <2>8, <2>9 DEF ListenerStep
<1>12. CASE Over \/ UNCHANGED vars  BY <1>2, <1>12 DEF Over, vars
<1> QED  BY <1>8, <1>9, <1>10, <1>11, <1>12 DEF Next

\* Who is sent away was at a port that the load in progress takes down, or that has no
\* module to serve it.
LEMMA RefusedAreClosed ==
    ASSUME ControlInv, [Next]_vars, NEW p \in Ports, listener[p].at = "request", listener'[p].at = "loop",
           listener[p].described # "port"
    PROVE  p \notin ports /\ load.by # "nobody"
<1>1. /\ Types /\ listener \in [Ports -> Row] /\ load \in Work /\ listener[p] \in Row /\ Serving(p) /\ Loader
  BY PortFacts
<1>2. CASE Refuse(p)  BY <1>1, <1>2 DEF Refuse, Serving, Row
<1>3. ASSUME ~Refuse(p) PROVE FALSE
  <2>1. CASE UNCHANGED listener  BY <2>1
  <2>2. ASSUME NEW q \in Ports, NEW l, listener' = [listener EXCEPT ![q] = l], q = p => l.at # "loop" PROVE FALSE
    BY <1>1, <2>2
  <2>3. CASE Parse \/ Bound \/ Closed  BY <2>1, <2>3 DEF Parse, Bound, Closed
  <2>4. CASE Bind
    <3>1. PICK q \in load.todo : \/ UNCHANGED listener
                                 \/ listener' = [listener EXCEPT ![q] = [NoListener EXCEPT !.entry = "up", !.since = loads, !.at = "created"]]
                                 \/ listener' = [listener EXCEPT ![q] = [NoListener EXCEPT !.entry = "null", !.since = loads]]
      BY <2>4 DEF Bind, Set
    <3>2. q \in Ports  BY <1>1 DEF Work
    <3> QED  BY <2>1, <2>2, <3>1, <3>2 DEF NoListener
  <2>5. CASE StopListener
    <3>1. PICK q \in load.todo : \/ listener' = [listener EXCEPT ![q] = [listener[q] EXCEPT !.is_running = FALSE]]
                                 \/ listener' = [listener EXCEPT ![q] = NoListener]
      BY <2>5 DEF StopListener, Set
    <3>2. q \in Ports  BY <1>1 DEF Work
    <3>3. [listener[p] EXCEPT !.is_running = FALSE].at # "loop" /\ NoListener.at # "loop"
      BY <1>1 DEF Row, NoListener
    <3> QED  BY <2>2, <3>1, <3>2, <3>3
  <2>6. CASE Connect \/ Join
    <3>1. load.port \in Ports  BY <1>1, <2>6 DEF Connect, Join, Load, Loader
    <3>2. \/ listener' = [listener EXCEPT ![load.port] = [listener[load.port] EXCEPT !.knock = TRUE]]
          \/ listener' = [listener EXCEPT ![load.port] = NoListener]
      BY <2>6 DEF Connect, Join, Set
    <3>3. [listener[p] EXCEPT !.knock = TRUE].at # "loop" /\ NoListener.at # "loop"
      BY <1>1 DEF Row, NoListener
    <3> QED  BY <2>2, <3>1, <3>2, <3>3
  <2>7. CASE MainStep
    BY <2>1, <2>7 DEF MainStep, Start, Loaded, MainGetsTaskManager, StartTaskManager, StartRcon, JoinRcon, AllClosed,
                      JoinTaskManager, Release
  <2>8. CASE RconThread \/ RconAccept(FALSE) \/ StopCommand \/ ReloadCommand \/ Disconnect \/ Sigint \/ TaskManagerEnds
             \/ \E q \in Ports : EndRequest(q)
    BY <2>1, <2>8 DEF RconThread, RconLoop, RconAccept, RconCheck, Reloaded, StopCommand, ReloadCommand, Disconnect,
                      Sigint, KeepsServing, TaskManagerEnds, EndRequest
  <2>9. ASSUME NEW q \in Ports, ListenerStep(q) \/ Accept(q, FALSE) PROVE FALSE
    <3>1. CASE q # p
      <4>1. UNCHANGED listener \/ \E l : listener' = [listener EXCEPT ![q] = l]
        BY <2>9 DEF ListenerStep, GetTaskManager, Run, Loop, Leave, Accept, Check, GetConfiguration, Refuse, Prepare,
                    StartRequest, Listen, Set
      <4> QED  BY <2>1, <2>2, <3>1, <4>1
    <3>2. CASE q = p
      <4>1. CASE GetTaskManager(p)  BY <2>1, <4>1 DEF GetTaskManager
      <4>2. CASE Prepare(p)  BY <1>1, <2>2, <4>2 DEF Prepare, Listen, Set, Now, Row
      <4>3. ASSUME Run(p) \/ Loop(p) \/ Leave(p) \/ Accept(p, TRUE) \/ Accept(p, FALSE) \/ Check(p)
                   \/ GetConfiguration(p) \/ StartRequest(p)
            PROVE  listener[p].at # "request"
        BY <4>3 DEF Run, Loop, Leave, Accept, Check, GetConfiguration, StartRequest, Listen
      <4> QED  BY <1>3, <2>9, <3>2, <4>1, <4>2, <4>3 DEF ListenerStep
    <3> QED  BY <3>1, <3>2
  <2>10. CASE Over \/ UNCHANGED vars  BY <2>1, <2>10 DEF Over, vars
  <2>11. CASE LoadStep  BY <2>3, <2>4, <2>5, <2>6, <2>11 DEF LoadStep
  <2> QED  BY <2>7, <2>8, <2>9, <2>10, <2>11 DEF Next
<1> QED  BY <1>2, <1>3

\* The listeners of a running server are those of its configuration; those that the old
\* and the new configuration have are kept, and a client is sent away only from a port
\* that the load in progress is about to close, or from one for which the configuration
\* names a module that it does not have (Server::_loadListeners, Listener::run,
\* Configuration::getInputOutputModuleManager).
THEOREM ListenersStay == Spec => ListenersLast
<1>1. Spec => []ListenersFollowConfig  BY ControlInductive, ListenersAreTheConfiguration, PTL
<1>2. Spec => []SilentOnlyAfterFailure  BY ControlInductive, SilenceIsAFailure, PTL
<1>3. ControlInv /\ [Next]_vars =>
        \A p \in Ports :
          Up(p) /\ load.by # "stopping" /\ p \in ports =>
              listener'[p].entry = "up" /\ listener'[p].since = listener[p].since
  BY PortsAreKept
<1>4. ControlInv /\ [Next]_vars =>
        \A p \in Ports :
          listener[p].at = "request" /\ listener'[p].at = "loop" /\ listener[p].described # "port" =>
              p \notin ports /\ load.by # "nobody"
  BY RefusedAreClosed
<1>5. Spec => ReloadKeepsListeners  BY <1>3, ControlInductive, PTL DEF Spec, ReloadKeepsListeners
<1>6. Spec => RefusedOnlyWhileClosing  BY <1>4, ControlInductive, PTL DEF Spec, RefusedOnlyWhileClosing
<1> QED  BY <1>1, <1>2, <1>5, <1>6 DEF ListenersLast
=============================================================================
