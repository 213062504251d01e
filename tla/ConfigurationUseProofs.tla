------------------------ MODULE ConfigurationUseProofs ------------------------
(***************************************************************************)
(* Proofs about ConfigurationUse, for any number of requests and of        *)
(* reloads: a configuration lives as long as its requests and no longer,   *)
(* and gives them managers that are ready.                                 *)
(*                                                                         *)
(* SmartPtr copies the pointer first and counts then, without a lock of    *)
(* its own.  That the configuration is there in between rests on the mutex *)
(* of ConfigurationManager, which both the copy and setConfiguration hold  *)
(* (Copying).  The count is then the number of requests that have the      *)
(* configuration, and one for the current one (Counted), and who counts to *)
(* 0 deletes it alone.                                                     *)
(***************************************************************************)
EXTENDS ConfigurationUse, FiniteSetTheorems, SequenceTheorems, TLAPS

\* Threads and their number; requests are not called "reload".
UseAssumption ==
    /\ IsFiniteSet(Requests) /\ "reload" \notin Requests
    /\ Nobody \notin Requests /\ Nobody # "reload"
    /\ MaxConfigurations \in Nat \ {0}

\* Where a request has a module's configuration, and where that has a manager.
HasModule == {"test", "create", "configure", "load", "return", "serving"}
Managed == {"configure", "load", "return", "serving"}
Places == {"new", "copy", "delete", "gone"} \cup Inside

AnyConfiguration == [count : Nat, deleted : Nat, entry : Nat]
AnyModule == [merged : BOOLEAN, early : BOOLEAN, loaded : BOOLEAN, manager : Nat, made : Nat]
AnyManager == [options : BOOLEAN, deleted : Nat, config : Configurations]
AnyRequest == [at : Places, config : Nat, module : Nat, manager : Nat, opened : Nat]

Types ==
    /\ current \in Configurations /\ lock \in Requests \cup {"reload", Nobody}
    /\ config \in [Configurations -> AnyConfiguration]
    /\ module \in Seq(AnyModule) /\ manager \in Seq(AnyManager)
    /\ request \in [Requests -> AnyRequest]
    /\ path \in 0..Len(manager)
    /\ reload \in [at : {"idle", "delete", "unlock"}, old : Nat]

\* What is named exists.
Named ==
    /\ \A k \in Configurations : config[k].entry \in 0..Len(module)
    /\ \A m \in 1..Len(module) : module[m].manager \in 0..Len(manager)
    /\ \A r \in Requests : request[r].at \in Inside \cup {"copy", "delete"} => request[r].config \in Configurations
    /\ \A r \in Requests : request[r].at \in {"merge", "get"} => config[request[r].config].entry # None
    /\ \A r \in Requests : request[r].at \in HasModule => request[r].module \in 1..Len(module)
    /\ \A r \in Requests : request[r].manager \in 0..Len(manager) /\ request[r].opened \in 0..Len(manager)
    /\ \A r \in Requests : request[r].manager # None <=> request[r].at = "serving"
    /\ reload.at = "delete" => reload.old \in Configurations

\* A request that copies the pointer has the mutex, and so has the reload.
Copying ==
    /\ \A r \in Requests : request[r].at = "copy" => lock = r /\ request[r].config = current
    /\ reload.at # "idle" => lock = "reload"

\* The count, and who is about to delete what nobody counts any more.
Holders(k) == {r \in Requests : request[r].at \in Inside /\ request[r].config = k}
Deletes(r, k) == request[r].at = "delete" /\ request[r].config = k
ReloadHas(k) == reload.at = "delete" /\ reload.old = k
CountedFor(k) ==
    /\ config[k].count = Cardinality(Holders(k)) + (IF k = current THEN 1 ELSE 0)
    /\ \A r \in Requests : Deletes(r, k) => k < current /\ config[k].count = 0 /\ ~ReloadHas(k)
    /\ \A r, s \in Requests : Deletes(r, k) /\ Deletes(s, k) => r = s
    /\ ReloadHas(k) => k < current /\ config[k].count = 0
    /\ config[k].deleted =
          IF k < current /\ config[k].count = 0 /\ ~ReloadHas(k) /\ (\A r \in Requests : ~Deletes(r, k))
          THEN 1 ELSE 0
Counted ==
    /\ \A r \in Requests : request[r].at \in Inside => request[r].config <= current
    /\ \A k \in Configurations : CountedFor(k)

\* A module's configuration and its managers are of one configuration.
Owned ==
    /\ \A j, k \in Configurations : config[j].entry = config[k].entry => j = k \/ config[j].entry = None
    /\ \A r \in Requests, k \in Configurations :
          request[r].at \in HasModule /\ config[k].entry = request[r].module => request[r].config = k
    /\ \A r, s \in Requests :
          request[r].at \in HasModule /\ request[s].at \in HasModule /\ request[r].module = request[s].module
              => request[r].config = request[s].config
    /\ \A k \in Configurations :
          config[k].entry # None /\ module[config[k].entry].manager # None
              => manager[module[config[k].entry].manager].config = k
    /\ \A r \in Requests :
          request[r].at \in HasModule /\ module[request[r].module].manager # None
              => manager[module[request[r].module].manager].config = request[r].config
    /\ \A r \in Requests :
          request[r].at = "serving" => manager[request[r].manager].config = request[r].config
    /\ \A n \in 1..Len(manager) : manager[n].deleted # 0 => config[manager[n].config].deleted # 0

\* The options of a module come to its manager, and a manager is seen without them only
\* when it was made twice.
Configuring(r, m) == request[r].at = "configure" /\ request[r].module = m
Uses(r, m) == request[r].at \in Managed /\ request[r].module = m
ReadyFor(m) ==
    /\ module[m].loaded \/ (\E r \in Requests : Uses(r, m)) => module[m].made >= 1 /\ module[m].manager # None
    /\ \A r \in Requests :
          Configuring(r, m) /\ (module[m].loaded \/ \E s \in Requests \ {r} : Uses(s, m)) => module[m].made >= 2
    /\ module[m].manager # None /\ ~module[m].early =>
          manager[module[m].manager].options \/ \E r \in Requests : Configuring(r, m)
Ready ==
    /\ \A r \in Requests :
          request[r].at \in HasModule => module[request[r].module].early \/ module[request[r].module].merged
    /\ \A m \in 1..Len(module) : ReadyFor(m)
    /\ \A r \in Requests :
          request[r].at = "serving" =>
              \/ manager[request[r].manager].options \/ module[request[r].module].early
              \/ module[request[r].module].made > 1

\* The inductive invariant.
IInv == Types /\ Named /\ Copying /\ Counted /\ Owned /\ Ready

-----------------------------------------------------------------------------
\* One element of a sequence is changed.
LEMMA Updated ==
    ASSUME NEW S, NEW q \in Seq(S), NEW i \in 1..Len(q), NEW v \in S
    PROVE  LET t == [q EXCEPT ![i] = v] IN
           /\ t \in Seq(S) /\ Len(t) = Len(q)
           /\ \A j \in 1..Len(q) : t[j] = IF j = i THEN v ELSE q[j]
    OBVIOUS

-----------------------------------------------------------------------------
(* One request goes on in its configuration: nothing is counted.            *)

\* The other requests stay as they are.
Others(r) == \A s \in Requests \ {r} : request'[s] = request[s]

\* What a step inside leaves alone.
Uncounted(r) ==
    /\ Others(r) /\ UNCHANGED <<current, lock, reload>>
    /\ request[r].at \in Inside /\ request'[r].at \in Inside /\ request'[r].config = request[r].config
    /\ \A k \in Configurations : config'[k].count = config[k].count /\ config'[k].deleted = config[k].deleted

LEMMA InsideCounts == ASSUME IInv, NEW r \in Requests, Uncounted(r) PROVE Copying' /\ Counted'
<1>0. /\ Others(r) /\ UNCHANGED <<current, lock, reload>>
      /\ request[r].at \in Inside /\ request'[r].at \in Inside /\ request'[r].config = request[r].config
      /\ \A k \in Configurations : config'[k].count = config[k].count /\ config'[k].deleted = config[k].deleted
    BY DEF Uncounted
<1>1. \A k : Holders(k)' = Holders(k)
    BY <1>0 DEF Others, Holders
<1>2. \A s \in Requests : request'[s].at \in {"copy", "delete"} \/ request[s].at \in {"copy", "delete"}
          => request'[s] = request[s]
    BY <1>0 DEF Others, Inside
<1>3. \A s \in Requests, k \in Configurations : Deletes(s, k)' <=> Deletes(s, k)
    BY <1>0, <1>2 DEF Deletes
<1>4. \A k : ReloadHas(k)' <=> ReloadHas(k)
    BY <1>0 DEF ReloadHas
<1>5. Copying'
    BY <1>0, <1>2 DEF IInv, Copying
<1>6. ASSUME NEW s \in Requests, request'[s].at \in Inside PROVE request'[s].config <= current'
    BY <1>0, <1>6 DEF IInv, Counted, CountedFor, Others
<1>7. Configurations' = Configurations
    BY <1>0 DEF Configurations
<1>8. ASSUME NEW k \in Configurations PROVE CountedFor(k)'
    BY <1>0, <1>1, <1>3, <1>4 DEF IInv, Counted, CountedFor
<1> QED BY <1>0, <1>5, <1>6, <1>7, <1>8 DEF Counted

-----------------------------------------------------------------------------
(* A step that leaves the modules and what they name alone.                 *)

\* Where a request is that has nothing of its configuration yet or any more.
Outside == {"copy", "find", "delete", "gone"}

LEMMA OutsideKeeps ==
    ASSUME IInv,
           module' = module, path' = path,
           manager' \in Seq(AnyManager), Len(manager') = Len(manager),
           \A n \in 1..Len(manager) :
               /\ manager'[n].config = manager[n].config /\ manager'[n].options = manager[n].options
               /\ manager'[n].deleted # 0 => config'[manager[n].config].deleted # 0,
           \A k \in Configurations : config'[k].entry = config[k].entry,
           reload'.at = "delete" => reload'.old \in Configurations,
           \A s \in Requests :
               \/ request'[s] = request[s]
               \/ /\ request[s].at # "configure"
                  /\ request'[s].at \in Outside /\ request'[s].manager = None /\ request'[s].opened \in 0..Len(manager)
                  /\ request'[s].at # "gone" => request'[s].config \in Configurations
    PROVE  Named' /\ Owned' /\ Ready'
<1>1. Configurations' = Configurations /\ 1..Len(manager)' = 1..Len(manager)
    BY DEF Configurations
<1>2. ASSUME NEW s \in Requests, request'[s].at \in Inside \ {"find"} PROVE request'[s] = request[s]
    BY <1>2 DEF Outside, Inside
<1>3. ASSUME NEW s \in Requests, request'[s].at \in HasModule \cup {"merge", "get"} PROVE request'[s] = request[s]
    BY <1>2, <1>3 DEF HasModule, Inside
<1>4. Named'
    <2>1. \A s \in Requests : request'[s].at \in Inside \cup {"copy", "delete"} => request'[s].config \in Configurations
        BY DEF Outside, Inside, IInv, Named
    <2>2. \A s \in Requests : /\ request'[s].manager \in 0..Len(manager) /\ request'[s].opened \in 0..Len(manager)
                              /\ request'[s].manager # None <=> request'[s].at = "serving"
        <3>1. 0 \in 0..Len(manager)
            BY DEF IInv, Types
        <3> SUFFICES ASSUME NEW s \in Requests
                     PROVE  /\ request'[s].manager \in 0..Len(manager) /\ request'[s].opened \in 0..Len(manager)
                            /\ request'[s].manager # None <=> request'[s].at = "serving"
            OBVIOUS
        <3>2. CASE request'[s] = request[s]
            BY <3>2 DEF IInv, Named
        <3>3. CASE request'[s] # request[s]
            BY <3>1, <3>3 DEF Outside, None
        <3> QED BY <3>2, <3>3
    <2>3. \A s \in Requests : request'[s].at \in {"merge", "get"} => config'[request'[s].config].entry # None
        <3> SUFFICES ASSUME NEW s \in Requests, request'[s].at \in {"merge", "get"}
                     PROVE  config'[request'[s].config].entry # None
            OBVIOUS
        <3>1. request'[s] = request[s]
            BY <1>3
        <3> QED BY <3>1 DEF IInv, Named, Inside
    <2>4. \A s \in Requests : request'[s].at \in HasModule => request'[s].module \in 1..Len(module)
        BY <1>3 DEF IInv, Named
    <2> QED BY <1>1, <2>1, <2>2, <2>3, <2>4 DEF IInv, Named
<1>5. Owned'
    <2>1. \A s \in Requests : request'[s].at \in HasModule => request'[s] = request[s] /\ request[s].at \in HasModule
        BY <1>3
    <2>2. \A m \in 1..Len(module) : module[m].manager # None => module[m].manager \in 1..Len(manager)
        BY DEF IInv, Named, None, Types
    <2>3. \A k \in Configurations : config[k].entry # None => config[k].entry \in 1..Len(module)
        BY DEF IInv, Named, None, Types
    <2>4. \A s \in Requests : request[s].at \in HasModule => request[s].module \in 1..Len(module)
        BY DEF IInv, Named
    <2>5. \A s \in Requests : request[s].at = "serving" => request[s].manager \in 1..Len(manager)
        BY DEF IInv, Named, None, Types
    <2>6. /\ \A j, k \in Configurations :
                 config'[j].entry = config'[k].entry => j = k \/ config'[j].entry = None
          /\ \A s \in Requests, k \in Configurations :
                 request'[s].at \in HasModule /\ config'[k].entry = request'[s].module => request'[s].config = k
          /\ \A s, t \in Requests :
                 request'[s].at \in HasModule /\ request'[t].at \in HasModule /\ request'[s].module = request'[t].module
                     => request'[s].config = request'[t].config
        BY <2>1 DEF IInv, Owned
    <2>7. \A k \in Configurations :
              config'[k].entry # None /\ module[config'[k].entry].manager # None
                  => manager'[module[config'[k].entry].manager].config = k
        BY <2>2, <2>3 DEF IInv, Owned
    <2>8. \A s \in Requests :
              request'[s].at \in HasModule /\ module[request'[s].module].manager # None
                  => manager'[module[request'[s].module].manager].config = request'[s].config
        BY <2>1, <2>2, <2>4 DEF IInv, Owned
    <2>9. \A s \in Requests :
              request'[s].at = "serving" => manager'[request'[s].manager].config = request'[s].config
        BY <2>1, <2>5 DEF IInv, Owned, HasModule
    <2> QED BY <1>1, <2>6, <2>7, <2>8, <2>9 DEF Owned
<1>6. Ready'
    <2>1. \A s \in Requests : request'[s].at \in HasModule => request'[s] = request[s] /\ request[s].at \in HasModule
        BY <1>3
    <2>2. \A s \in Requests, m \in 1..Len(module) :
              (Configuring(s, m)' <=> Configuring(s, m)) /\ (Uses(s, m)' => Uses(s, m))
        BY <2>1 DEF Configuring, Uses, Managed, HasModule, Outside
    <2>3. \A m \in 1..Len(module) : module[m].manager # None => module[m].manager \in 1..Len(manager)
        BY DEF IInv, Named, None, Types
    <2>4. \A s \in Requests : request[s].at = "serving" => request[s].manager \in 1..Len(manager)
        BY DEF IInv, Named, None, Types
    <2>5. \A s \in Requests :
              request'[s].at \in HasModule => module[request'[s].module].early \/ module[request'[s].module].merged
        BY <2>1 DEF IInv, Ready, ReadyFor
    <2>6. ASSUME NEW m \in 1..Len(module) PROVE ReadyFor(m)'
        BY <2>2, <2>3 DEF IInv, Ready, ReadyFor
    <2>7. \A s \in Requests :
              request'[s].at = "serving" =>
                  \/ manager'[request'[s].manager].options \/ module[request'[s].module].early
                  \/ module[request'[s].module].made > 1
        BY <2>1, <2>4 DEF IInv, Ready, ReadyFor, HasModule
    <2> QED BY <2>5, <2>6, <2>7 DEF Ready
<1> QED BY <1>4, <1>5, <1>6

-----------------------------------------------------------------------------
(* ConfigurationManager and ~Request: the count.                            *)

LEMMA Basics ==
    ASSUME UseAssumption, IInv
    PROVE  /\ \A k : IsFiniteSet(Holders(k)) /\ Cardinality(Holders(k)) \in Nat
           /\ \A k : Cardinality(Holders(k)) = 0 <=> Holders(k) = {}
           /\ Configurations \subseteq Nat
           /\ current \in Nat
           /\ \A n \in 1..Len(manager) : manager[n] \in AnyManager /\ manager[n].config \in Configurations
<1>1. ASSUME NEW k PROVE IsFiniteSet(Holders(k)) /\ Cardinality(Holders(k)) \in Nat /\ (Cardinality(Holders(k)) = 0 <=> Holders(k) = {})
    <2>1. Holders(k) \in SUBSET Requests
        BY DEF Holders
    <2>2. IsFiniteSet(Holders(k))
        BY <2>1, FS_Subset DEF UseAssumption
    <2> QED BY <2>2, FS_CardinalityType, FS_EmptySet
<1>2. Configurations \subseteq Nat
    BY DEF Configurations
<1>3. ASSUME NEW n \in 1..Len(manager) PROVE manager[n] \in AnyManager /\ manager[n].config \in Configurations
    <2>1. manager \in Seq(AnyManager)
        BY DEF IInv, Types
    <2>2. manager[n] \in AnyManager
        BY <2>1, ElementOfSeq
    <2> QED BY <2>2 DEF AnyManager
<1> QED BY <1>1, <1>2, <1>3 DEF IInv, Types

LEMMA CopyIInv == ASSUME UseAssumption, IInv, NEW r \in Requests, Copy(r) PROVE IInv'
<1>1. /\ request[r].at = "new" /\ request[r] \in AnyRequest
      /\ request' = [request EXCEPT ![r] = [request[r] EXCEPT !.at = "copy", !.config = current]]
      /\ current \in Nat
    BY Basics DEF Copy, IInv, Types
<1>2. /\ request'[r].at = "copy" /\ request'[r].config = current
      /\ request'[r].manager = request[r].manager /\ request'[r].opened = request[r].opened
      /\ \A s \in Requests \ {r} : request'[s] = request[s]
    BY <1>1 DEF IInv, Types, AnyRequest
<1>3. Types'
    <2>1. request' \in [Requests -> AnyRequest]
        BY <1>1 DEF IInv, Types, AnyRequest, Places
    <2> QED BY <2>1 DEF IInv, Types, Copy, Configurations
<1>4. Named' /\ Owned' /\ Ready'
    <2>1. request'[r].manager = None /\ request'[r].opened \in 0..Len(manager)
        BY <1>1, <1>2 DEF IInv, Named
    <2>2. \A s \in Requests :
               \/ request'[s] = request[s]
               \/ /\ request[s].at # "configure"
                  /\ request'[s].at \in Outside /\ request'[s].manager = None /\ request'[s].opened \in 0..Len(manager)
                  /\ request'[s].at # "gone" => request'[s].config \in Configurations
        BY <1>1, <1>2, <2>1 DEF Outside, IInv, Types
    <2>3. \A n \in 1..Len(manager) : manager[n].deleted # 0 => config[manager[n].config].deleted # 0
        BY DEF IInv, Owned
    <2>4. manager \in Seq(AnyManager) /\ (reload.at = "delete" => reload.old \in Configurations)
        BY DEF IInv, Types, Named
    <2> QED BY <2>2, <2>3, <2>4, OutsideKeeps DEF Copy
<1>5. Copying'
    BY <1>2 DEF IInv, Copying, Copy, UseAssumption
<1>6. Counted'
    <2>1. \A k : Holders(k)' = Holders(k)
        BY <1>1, <1>2 DEF Holders, Inside
    <2>2. \A s \in Requests, k \in Configurations : Deletes(s, k)' <=> Deletes(s, k)
        BY <1>1, <1>2 DEF Deletes
    <2>3. \A k : ReloadHas(k)' <=> ReloadHas(k)
        BY DEF ReloadHas, Copy
    <2>4. \A s \in Requests : request'[s].at \in Inside => request'[s].config <= current'
        BY <1>2 DEF IInv, Counted, CountedFor, Inside, Copy
    <2>5. Configurations' = Configurations /\ current' = current /\ config' = config
        BY DEF Configurations, Copy
    <2> QED BY <2>1, <2>2, <2>3, <2>4, <2>5 DEF IInv, Counted, CountedFor
<1> QED BY <1>3, <1>4, <1>5, <1>6 DEF IInv

LEMMA IncrementIInv == ASSUME UseAssumption, IInv, NEW r \in Requests, Increment(r) PROVE IInv'
<1> DEFINE c == request[r].config
<1>1. /\ request[r].at = "copy" /\ request[r] \in AnyRequest /\ c = current /\ c \in Configurations /\ lock = r
      /\ request' = [request EXCEPT ![r] = [request[r] EXCEPT !.at = "find"]]
      /\ config' = [config EXCEPT ![c] = [config[c] EXCEPT !.count = @ + 1]]
      /\ config[c] \in AnyConfiguration
    BY DEF Increment, Goes, IInv, Types, Copying
<1>2. /\ request'[r].at = "find" /\ request'[r].config = c
      /\ request'[r].manager = request[r].manager /\ request'[r].opened = request[r].opened
      /\ \A s \in Requests \ {r} : request'[s] = request[s]
    BY <1>1 DEF IInv, Types, AnyRequest
<1>3. /\ config'[c].count = config[c].count + 1 /\ config[c].count \in Nat
      /\ \A k \in Configurations : /\ config'[k].entry = config[k].entry /\ config'[k].deleted = config[k].deleted
                                   /\ k # c => config'[k] = config[k]
    BY <1>1 DEF IInv, Types, AnyConfiguration
<1>4. Types'
    <2>1. request' \in [Requests -> AnyRequest]
        BY <1>1 DEF IInv, Types, AnyRequest, Places, Inside
    <2>2. config' \in [Configurations -> AnyConfiguration]
        BY <1>1, <1>3 DEF IInv, Types, AnyConfiguration
    <2> QED BY <2>1, <2>2 DEF IInv, Types, Increment, Configurations
<1>5. Named' /\ Owned' /\ Ready'
    <2>1. request'[r].manager = None /\ request'[r].opened \in 0..Len(manager)
        BY <1>1, <1>2 DEF IInv, Named
    <2>2. \A s \in Requests :
               \/ request'[s] = request[s]
               \/ /\ request[s].at # "configure"
                  /\ request'[s].at \in Outside /\ request'[s].manager = None /\ request'[s].opened \in 0..Len(manager)
                  /\ request'[s].at # "gone" => request'[s].config \in Configurations
        BY <1>1, <1>2, <2>1 DEF Outside
    <2>3. ASSUME NEW n \in 1..Len(manager), manager[n].deleted # 0 PROVE config'[manager[n].config].deleted # 0
        <3>1. manager[n].config \in Configurations
            BY Basics
        <3> QED BY <1>3, <2>3, <3>1 DEF IInv, Owned
    <2>4. manager \in Seq(AnyManager) /\ (reload.at = "delete" => reload.old \in Configurations)
        BY DEF IInv, Types, Named
    <2> QED BY <1>3, <2>2, <2>3, <2>4, OutsideKeeps DEF Increment
<1>6. Copying'
    <2>1. \A s \in Requests \ {r} : request'[s].at # "copy"
        BY <1>1, <1>2 DEF IInv, Copying
    <2>2. reload.at = "idle"
        BY <1>1 DEF IInv, Copying, UseAssumption
    <2> QED BY <1>2, <2>1, <2>2 DEF Copying, Increment
<1>7. Counted'
    <2>1. r \notin Holders(c) /\ Holders(c)' = Holders(c) \cup {r} /\ \A k \in Configurations \ {c} : Holders(k)' = Holders(k)
        BY <1>1, <1>2 DEF Holders, Inside
    <2>2. \A s \in Requests, k \in Configurations : Deletes(s, k)' <=> Deletes(s, k)
        BY <1>1, <1>2 DEF Deletes
    <2>3. \A k : ReloadHas(k)' <=> ReloadHas(k)
        BY DEF ReloadHas, Increment
    <2>4. \A s \in Requests : request'[s].at \in Inside => request'[s].config <= current'
        BY <1>1, <1>2, Basics DEF IInv, Counted, CountedFor, Inside, Increment
    <2>5. Configurations' = Configurations /\ current' = current
        BY DEF Configurations, Increment
    <2>6. Cardinality(Holders(c)') = Cardinality(Holders(c)) + 1 /\ Cardinality(Holders(c)) \in Nat
        BY <2>1, Basics, FS_AddElement
    <2>7. ASSUME NEW k \in Configurations, k # c
          PROVE  config'[k] = config[k] /\ Holders(k)' = Holders(k)
        BY <1>3, <2>1, <2>7
    <2>8. config'[c].count = Cardinality(Holders(c)') + 1 /\ config'[c].deleted = config[c].deleted
        BY <1>1, <1>3, <2>6 DEF IInv, Counted, CountedFor
    <2>9. ASSUME NEW k \in Configurations PROVE CountedFor(k)'
        <3>1. CASE k = c
            <4>1. ~(k < current)
                BY <1>1, <3>1, Basics
            <4> QED BY <1>1, <2>2, <2>3, <2>5, <2>8, <3>1, <4>1 DEF IInv, Counted, CountedFor
        <3>2. CASE k # c
            BY <1>1, <2>2, <2>3, <2>5, <2>7, <3>2 DEF IInv, Counted, CountedFor
        <3> QED BY <3>1, <3>2
    <2> QED BY <2>4, <2>5, <2>9 DEF Counted
<1> QED BY <1>4, <1>5, <1>6, <1>7 DEF IInv

\* What deleting a configuration changes.
LEMMA DeleteDoes ==
    ASSUME UseAssumption, IInv, NEW k \in Configurations, Delete(k)
    PROVE  /\ config' \in [Configurations -> AnyConfiguration]
           /\ \A j \in Configurations :
                 /\ config'[j].count = config[j].count /\ config'[j].entry = config[j].entry
                 /\ config'[j].deleted = IF j = k THEN config[j].deleted + 1 ELSE config[j].deleted
           /\ manager' \in Seq(AnyManager) /\ Len(manager') = Len(manager)
           /\ \A n \in 1..Len(manager) :
                 /\ manager'[n].config = manager[n].config /\ manager'[n].options = manager[n].options
                 /\ manager'[n].deleted # 0 => config'[manager[n].config].deleted # 0
<1>1. /\ config' = [config EXCEPT ![k] = [config[k] EXCEPT !.deleted = @ + 1]]
      /\ config \in [Configurations -> AnyConfiguration] /\ config[k] \in AnyConfiguration
    BY DEF Delete, IInv, Types
<1>2. config' \in [Configurations -> AnyConfiguration]
    BY <1>1 DEF AnyConfiguration
<1>3. \A j \in Configurations :
                 /\ config'[j].count = config[j].count /\ config'[j].entry = config[j].entry
                 /\ config'[j].deleted = IF j = k THEN config[j].deleted + 1 ELSE config[j].deleted
    BY <1>1 DEF AnyConfiguration
<1>4. \A n \in 1..Len(manager) : /\ manager[n].config \in Configurations
                                 /\ manager[n].deleted # 0 => config[manager[n].config].deleted # 0
    BY Basics DEF IInv, Owned
<1>5. \A j \in Configurations : config[j].deleted # 0 => config'[j].deleted # 0
    BY <1>1, <1>3 DEF AnyConfiguration
<1>6. config'[k].deleted # 0
    BY <1>1, <1>3 DEF AnyConfiguration
<1> DEFINE m == module[config[k].entry].manager
<1>7. CASE config[k].entry = None \/ m = None
    <2>1. manager' = manager
        BY <1>7 DEF Delete
    <2> QED BY <1>2, <1>3, <1>4, <1>5, <2>1 DEF IInv, Types
<1>8. CASE ~(config[k].entry = None \/ m = None)
    <2>1. config[k].entry \in 1..Len(module)
        BY <1>8 DEF IInv, Types, Named, None
    <2>2. m \in 1..Len(manager) /\ manager[m].config = k
        BY <1>8, <2>1 DEF IInv, Types, Named, None, Owned
    <2> DEFINE v == [manager[m] EXCEPT !.deleted = @ + 1]
    <2>3. manager[m] \in AnyManager
        BY <2>2, Basics
    <2>4. v \in AnyManager /\ v.config = manager[m].config /\ v.options = manager[m].options
        BY <2>3 DEF AnyManager
    <2>5. manager \in Seq(AnyManager) /\ manager' = [manager EXCEPT ![m] = v]
        BY <1>8 DEF Delete, IInv, Types
    <2> HIDE DEF v, m
    <2>6. /\ manager' \in Seq(AnyManager) /\ Len(manager') = Len(manager)
          /\ \A n \in 1..Len(manager) : manager'[n] = IF n = m THEN v ELSE manager[n]
        BY <2>2, <2>4, <2>5, Updated
    <2>7. ASSUME NEW n \in 1..Len(manager)
          PROVE  /\ manager'[n].config = manager[n].config /\ manager'[n].options = manager[n].options
                 /\ manager'[n].deleted # 0 => config'[manager[n].config].deleted # 0
        <3>1. CASE n = m
            BY <1>6, <2>2, <2>4, <2>6, <3>1
        <3>2. CASE n # m
            BY <1>4, <1>5, <2>6, <3>2
        <3> QED BY <3>1, <3>2
    <2> QED BY <1>2, <1>3, <2>6, <2>7
<1> QED BY <1>7, <1>8

LEMMA SetConfigurationIInv == ASSUME UseAssumption, IInv, SetConfiguration PROVE IInv'
<1>0. PICK c \in Configurations : c = current
    BY DEF IInv, Types
<1> DEFINE d == c + 1
<1>1. /\ reload.at = "idle" /\ lock = Nobody /\ lock' = "reload" /\ current' = d
      /\ c \in Configurations /\ d \in Configurations /\ c < d /\ c \in Nat
      /\ module' = module /\ manager' = manager /\ request' = request /\ path' = path
    BY <1>0 DEF SetConfiguration, IInv, Types, Configurations, UseAssumption
<1>2. config[c] \in AnyConfiguration /\ config[d] \in AnyConfiguration /\ config \in [Configurations -> AnyConfiguration]
    BY <1>1 DEF IInv, Types
<1>3. config' = [config EXCEPT ![c] = [config[c] EXCEPT !.count = @ - 1], ![d] = [config[d] EXCEPT !.count = 1]]
    BY <1>0, <1>1, <1>2 DEF SetConfiguration
<1>4. /\ config'[c].count = config[c].count - 1 /\ config'[d].count = 1
      /\ \A k \in Configurations : /\ config'[k].entry = config[k].entry /\ config'[k].deleted = config[k].deleted
                                   /\ k \notin {c, d} => config'[k] = config[k]
    BY <1>1, <1>2, <1>3 DEF AnyConfiguration
<1>5. config[c].count = Cardinality(Holders(c)) + 1 /\ Cardinality(Holders(c)) \in Nat
    BY <1>0, <1>1, Basics DEF IInv, Counted, CountedFor
<1>6. Types'
    <2>1. config'[c] \in AnyConfiguration /\ config'[d] \in AnyConfiguration
        BY <1>1, <1>2, <1>3, <1>5 DEF AnyConfiguration
    <2>2. config' \in [Configurations -> AnyConfiguration]
        BY <1>1, <1>2, <1>3, <2>1
    <2>3. reload' \in [at : {"idle", "delete", "unlock"}, old : Nat]
        BY <1>0, <1>1 DEF SetConfiguration
    <2> QED BY <1>1, <2>2, <2>3 DEF IInv, Types, Configurations
<1>7. Named' /\ Owned' /\ Ready'
    <2>1. ASSUME NEW n \in 1..Len(manager), manager[n].deleted # 0 PROVE config'[manager[n].config].deleted # 0
        BY <1>4, <2>1, Basics DEF IInv, Owned
    <2>2. manager \in Seq(AnyManager)
        BY DEF IInv, Types
    <2>3. reload'.at = "delete" => reload'.old \in Configurations
        BY <1>0, <1>1 DEF SetConfiguration
    <2> QED BY <1>1, <1>4, <2>1, <2>2, <2>3, OutsideKeeps
<1>8. Copying'
    BY <1>1 DEF IInv, Copying, UseAssumption
<1>9. Counted'
    <2>1. \A k : Holders(k)' = Holders(k)
        BY <1>1 DEF Holders
    <2>2. \A s \in Requests, k \in Configurations : Deletes(s, k)' <=> Deletes(s, k)
        BY <1>1 DEF Deletes
    <2>3. /\ \A k \in Configurations : ~ReloadHas(k) /\ (k # c => ~ReloadHas(k)')
          /\ ReloadHas(c)' <=> config[c].count = 1
        BY <1>0, <1>1 DEF ReloadHas, SetConfiguration
    <2>4. Holders(d) = {}
        BY <1>0, <1>1 DEF IInv, Counted, CountedFor, Holders
    <2>5. Cardinality(Holders(d)) = 0
        BY <2>4, Basics
    <2>6. \A s \in Requests : ~Deletes(s, c) /\ ~Deletes(s, d)
        BY <1>0, <1>1 DEF IInv, Counted, CountedFor
    <2>7. config[c].deleted = 0 /\ config[d].deleted = 0
        BY <1>0, <1>1 DEF IInv, Counted, CountedFor
    <2>8. \A s \in Requests : request'[s].at \in Inside => request'[s].config <= current'
        <3>1. \A s \in Requests : request[s].at \in Inside => request[s].config \in Nat /\ request[s].config <= c
            BY <1>0, Basics DEF IInv, Counted, CountedFor, Named
        <3> QED BY <1>1, <3>1
    <2>9. Configurations' = Configurations
        BY DEF Configurations
    <2>10. ASSUME NEW k \in Configurations PROVE CountedFor(k)'
        <3>1. CASE k = c
            BY <1>1, <1>4, <1>5, <2>1, <2>2, <2>3, <2>6, <2>7, <3>1 DEF CountedFor
        <3>2. CASE k = d
            BY <1>1, <1>4, <2>1, <2>2, <2>3, <2>5, <2>6, <2>7, <3>2 DEF CountedFor
        <3>3. CASE k \notin {c, d}
            <4>1. k \in Nat /\ (k < d <=> k < c)
                <5>1. k \in Nat
                    BY Basics
                <5> QED BY <1>1, <3>3, <5>1
            <4>2. config'[k] = config[k] /\ ~ReloadHas(k) /\ ~ReloadHas(k)'
                BY <1>4, <2>3, <3>3
            <4>3. /\ config[k].count = Cardinality(Holders(k))
                  /\ \A s \in Requests : Deletes(s, k) => k < c /\ config[k].count = 0
                  /\ \A s, t \in Requests : Deletes(s, k) /\ Deletes(t, k) => s = t
                  /\ config[k].deleted =
                        IF k < c /\ config[k].count = 0 /\ (\A s \in Requests : ~Deletes(s, k)) THEN 1 ELSE 0
                <5>1. config[k].count = Cardinality(Holders(k)) + 0
                    BY <1>0, <3>3 DEF IInv, Counted, CountedFor
                <5>2. config[k].count = Cardinality(Holders(k))
                    BY <5>1, Basics
                <5> QED BY <1>0, <4>2, <5>2 DEF IInv, Counted, CountedFor
            <4>4. config'[k].count = Cardinality(Holders(k)') + 0
                BY <2>1, <4>2, <4>3, Basics
            <4> QED BY <1>1, <2>1, <2>2, <3>3, <4>1, <4>2, <4>3, <4>4 DEF CountedFor
        <3> QED BY <3>1, <3>2, <3>3
    <2> QED BY <2>8, <2>9, <2>10 DEF Counted
<1> QED BY <1>6, <1>7, <1>8, <1>9 DEF IInv

LEMMA ReloadDeletesIInv == ASSUME UseAssumption, IInv, ReloadDeletes PROVE IInv'
<1>0. PICK c \in Configurations : c = reload.old
    BY DEF IInv, Named, ReloadDeletes
<1>1. /\ reload.at = "delete" /\ lock = "reload" /\ reload' = [reload EXCEPT !.at = "unlock"]
      /\ reload \in [at : {"idle", "delete", "unlock"}, old : Nat]
      /\ UNCHANGED <<current, lock, module, request, path>> /\ Delete(c)
    BY <1>0 DEF ReloadDeletes, IInv, Copying, Types
<1>2. /\ config' \in [Configurations -> AnyConfiguration]
      /\ \A j \in Configurations :
            /\ config'[j].count = config[j].count /\ config'[j].entry = config[j].entry
            /\ config'[j].deleted = IF j = c THEN config[j].deleted + 1 ELSE config[j].deleted
      /\ manager' \in Seq(AnyManager) /\ Len(manager') = Len(manager)
      /\ \A n \in 1..Len(manager) :
            /\ manager'[n].config = manager[n].config /\ manager'[n].options = manager[n].options
            /\ manager'[n].deleted # 0 => config'[manager[n].config].deleted # 0
    BY <1>1, DeleteDoes
<1>3. Types'
    <2>1. AnyManager' = AnyManager /\ AnyConfiguration' = AnyConfiguration /\ Configurations' = Configurations
        BY DEF AnyManager, AnyConfiguration, Configurations
    <2> QED BY <1>1, <1>2, <2>1 DEF IInv, Types
<1>4. Named' /\ Owned' /\ Ready'
    <2>1. reload'.at # "delete"
        BY <1>1
    <2> QED BY <1>1, <1>2, <2>1, OutsideKeeps
<1>5. Copying'
    BY <1>1 DEF IInv, Copying
<1>6. Counted'
    <2>1. \A k : Holders(k)' = Holders(k)
        BY <1>1 DEF Holders
    <2>2. \A s \in Requests, k \in Configurations : Deletes(s, k)' <=> Deletes(s, k)
        BY <1>1 DEF Deletes
    <2>3. \A k \in Configurations : ~ReloadHas(k)' /\ (ReloadHas(k) <=> k = c)
        BY <1>0, <1>1 DEF ReloadHas
    <2>4. c < current /\ config[c].count = 0 /\ config[c].deleted = 0 /\ \A s \in Requests : ~Deletes(s, c)
        BY <2>3 DEF IInv, Counted, CountedFor
    <2>5. \A s \in Requests : request'[s].at \in Inside => request'[s].config <= current'
        BY <1>1 DEF IInv, Counted, CountedFor
    <2>6. Configurations' = Configurations
        BY DEF Configurations
    <2>7. ASSUME NEW k \in Configurations PROVE CountedFor(k)'
        <3>1. CASE k = c
            BY <1>1, <1>2, <2>1, <2>2, <2>3, <2>4, <3>1 DEF IInv, Counted, CountedFor
        <3>2. CASE k # c
            BY <1>1, <1>2, <2>1, <2>2, <2>3, <3>2 DEF IInv, Counted, CountedFor
        <3> QED BY <3>1, <3>2
    <2> QED BY <2>5, <2>6, <2>7 DEF Counted
<1> QED BY <1>3, <1>4, <1>5, <1>6 DEF IInv

LEMMA ReloadUnlocksIInv == ASSUME UseAssumption, IInv, ReloadUnlocks PROVE IInv'
<1>1. /\ reload.at = "unlock" /\ lock = "reload" /\ lock' = Nobody /\ reload' = [reload EXCEPT !.at = "idle"]
      /\ reload \in [at : {"idle", "delete", "unlock"}, old : Nat]
      /\ UNCHANGED <<current, config, module, manager, request, path>>
    BY DEF ReloadUnlocks, IInv, Copying, Types
<1>2. reload'.at = "idle" /\ reload' \in [at : {"idle", "delete", "unlock"}, old : Nat]
    BY <1>1
<1>3. Types'
    BY <1>1, <1>2 DEF IInv, Types, Configurations, AnyManager, AnyConfiguration
<1>4. Named' /\ Owned' /\ Ready'
    <2>1. \A n \in 1..Len(manager) : manager[n].deleted # 0 => config[manager[n].config].deleted # 0
        BY DEF IInv, Owned
    <2>2. manager \in Seq(AnyManager)
        BY DEF IInv, Types
    <2> QED BY <1>1, <1>2, <2>1, <2>2, OutsideKeeps
<1>5. Copying'
    BY <1>1, <1>2 DEF IInv, Copying, UseAssumption
<1>6. Counted'
    <2>1. \A k : Holders(k)' = Holders(k)
        BY <1>1 DEF Holders
    <2>2. \A s \in Requests, k \in Configurations : Deletes(s, k)' <=> Deletes(s, k)
        BY <1>1 DEF Deletes
    <2>3. \A k \in Configurations : ~ReloadHas(k)' /\ ~ReloadHas(k)
        BY <1>1, <1>2 DEF ReloadHas
    <2>4. Configurations' = Configurations
        BY DEF Configurations
    <2> QED BY <1>1, <2>1, <2>2, <2>3, <2>4 DEF IInv, Counted, CountedFor
<1> QED BY <1>3, <1>4, <1>5, <1>6 DEF IInv

LEMMA DecrementIInv == ASSUME UseAssumption, IInv, NEW r \in Requests, Decrement(r) PROVE IInv'
<1> DEFINE old == request[r]
<1>0. PICK c \in Configurations : c = request[r].config
    BY DEF Decrement, Leaves, IInv, Named, Inside
<1>1. /\ request[r].at \in {"find", "serving"} /\ config[c] \in AnyConfiguration
      /\ request' = [request EXCEPT ![r] = IF config[c].count = 1 THEN [New EXCEPT !.at = "delete", !.config = c]
                                                                  ELSE Gone]
      /\ config' = [config EXCEPT ![c] = [config[c] EXCEPT !.count = @ - 1]]
      /\ UNCHANGED <<current, lock, module, manager, path, reload>>
    BY <1>0 DEF Decrement, Leaves, Here, IInv, Types
<1>2. /\ \A s \in Requests \ {r} : request'[s] = request[s]
      /\ request'[r] = IF config[c].count = 1
                       THEN [at |-> "delete", config |-> c, module |-> 0, manager |-> 0, opened |-> 0]
                       ELSE [at |-> "gone", config |-> 0, module |-> 0, manager |-> 0, opened |-> 0]
    <2>1. Gone = [at |-> "gone", config |-> 0, module |-> 0, manager |-> 0, opened |-> 0]
        BY DEF New, Gone, None
    <2>2. [New EXCEPT !.at = "delete", !.config = c]
              = [at |-> "delete", config |-> c, module |-> 0, manager |-> 0, opened |-> 0]
        <3>1. New = [at |-> "new", config |-> 0, module |-> 0, manager |-> 0, opened |-> 0]
            BY DEF New, None
        <3>2. [New EXCEPT !.at = "delete"]
                  = [at |-> "delete", config |-> 0, module |-> 0, manager |-> 0, opened |-> 0]
            BY <3>1
        <3> DEFINE step == [New EXCEPT !.at = "delete"]
        <3>3. [step EXCEPT !.config = c]
                  = [at |-> "delete", config |-> c, module |-> 0, manager |-> 0, opened |-> 0]
            <4> HIDE DEF step
            <4>1. step = [at |-> "delete", config |-> 0, module |-> 0, manager |-> 0, opened |-> 0]
                BY <3>2 DEF step
            <4> QED BY <4>1
        <3> QED BY <3>3
    <2> QED BY <1>1, <2>1, <2>2 DEF IInv, Types
<1>3. /\ config'[c].count = config[c].count - 1
      /\ \A k \in Configurations : /\ config'[k].entry = config[k].entry /\ config'[k].deleted = config[k].deleted
                                   /\ k # c => config'[k] = config[k]
    BY <1>1 DEF IInv, Types, AnyConfiguration
<1>4. r \in Holders(c) /\ c <= current /\ c \in Nat /\ current \in Nat
    BY <1>0, <1>1, Basics DEF Holders, Inside, IInv, Counted, CountedFor
<1>5. Cardinality(Holders(c)) \in Nat /\ Cardinality(Holders(c)) # 0
    BY <1>4, Basics
<1>6. config[c].count = Cardinality(Holders(c)) + (IF c = current THEN 1 ELSE 0)
    BY DEF IInv, Counted, CountedFor
<1>7. config[c].count \in Nat \ {0} /\ config[c].deleted = 0
    BY <1>5, <1>6 DEF IInv, Counted, CountedFor
<1>8. Types'
    <2>1. request' \in [Requests -> AnyRequest]
        <3>1. request'[r] \in AnyRequest
            <4>1. CASE config[c].count = 1
                BY <1>2, <1>4, <4>1 DEF AnyRequest, Places
            <4>2. CASE config[c].count # 1
                BY <1>2, <4>2 DEF AnyRequest, Places
            <4> QED BY <4>1, <4>2
        <3> HIDE DEF AnyRequest
        <3> QED BY <1>1, <3>1 DEF IInv, Types
    <2>2. config'[c] \in AnyConfiguration
        <3>1. [config[c] EXCEPT !.count = @ - 1] \in AnyConfiguration
            BY <1>1, <1>7 DEF AnyConfiguration
        <3> QED BY <1>1, <3>1 DEF IInv, Types
    <2>3. config' \in [Configurations -> AnyConfiguration]
        BY <1>1, <2>2 DEF IInv, Types
    <2> QED BY <1>1, <2>1, <2>3 DEF IInv, Types, Configurations, AnyManager, AnyConfiguration
<1>9. Named' /\ Owned' /\ Ready'
    <2>1. \A n \in 1..Len(manager) : manager[n].deleted # 0 => config'[manager[n].config].deleted # 0
        BY <1>3, Basics DEF IInv, Owned
    <2>2. manager \in Seq(AnyManager) /\ (reload.at = "delete" => reload.old \in Configurations) /\ 0 \in 0..Len(manager)
        BY DEF IInv, Types, Named
    <2>3. \A s \in Requests :
               \/ request'[s] = request[s]
               \/ /\ request[s].at # "configure"
                  /\ request'[s].at \in Outside /\ request'[s].manager = None /\ request'[s].opened \in 0..Len(manager)
                  /\ request'[s].at # "gone" => request'[s].config \in Configurations
        <3>1. /\ request'[r].at \in {"delete", "gone"} /\ request'[r].manager = 0 /\ request'[r].opened = 0
              /\ request'[r].at = "delete" => request'[r].config = c
            <4>1. CASE config[c].count = 1
                BY <1>2, <4>1
            <4>2. CASE config[c].count # 1
                BY <1>2, <4>2
            <4> QED BY <4>1, <4>2
        <3> QED BY <1>1, <1>2, <2>2, <3>1 DEF Outside, None
    <2> QED BY <1>1, <1>3, <2>1, <2>2, <2>3, OutsideKeeps
<1>10. Copying'
    <2>1. request'[r].at # "copy"
        BY <1>2
    <2> QED BY <1>1, <1>2, <2>1 DEF IInv, Copying
<1>11. Counted'
    <2>1. Holders(c)' = Holders(c) \ {r} /\ \A k \in Configurations \ {c} : Holders(k)' = Holders(k)
        BY <1>0, <1>1, <1>2 DEF Holders, Inside
    <2>2. Cardinality(Holders(c)') = Cardinality(Holders(c)) - 1
        BY <1>4, <2>1, Basics, FS_RemoveElement
    <2>3. /\ \A k \in Configurations : ~Deletes(r, k) /\ (Deletes(r, k)' <=> k = c /\ config[c].count = 1)
          /\ \A s \in Requests \ {r}, k \in Configurations : Deletes(s, k)' <=> Deletes(s, k)
        BY <1>1, <1>2 DEF Deletes
    <2>4. \A k : ReloadHas(k)' <=> ReloadHas(k)
        BY <1>1 DEF ReloadHas
    <2>5. \A s \in Requests : request'[s].at \in Inside => request'[s].config <= current'
        BY <1>1, <1>2 DEF IInv, Counted, CountedFor, Inside
    <2>6. Configurations' = Configurations /\ current' = current
        BY <1>1 DEF Configurations
    <2>7. ~ReloadHas(c) /\ \A s \in Requests : ~Deletes(s, c)
        BY <1>7 DEF IInv, Counted, CountedFor
    <2>8. config[c].count = 1 => c < current
        BY <1>4, <1>5, <1>6
    <2>9. ASSUME NEW k \in Configurations PROVE CountedFor(k)'
        <3>1. CASE k = c
            <4>1. config'[k].count = Cardinality(Holders(k)') + (IF k = current' THEN 1 ELSE 0)
                BY <1>3, <1>5, <1>6, <2>2, <2>6, <3>1
            <4>2. config'[k].count = 0 <=> config[c].count = 1
                BY <1>3, <1>7, <3>1
            <4> QED BY <1>3, <1>7, <2>3, <2>4, <2>6, <2>7, <2>8, <3>1, <4>1, <4>2 DEF CountedFor
        <3>2. CASE k # c
            <4>1. config'[k] = config[k] /\ Holders(k)' = Holders(k) /\ \A s \in Requests : Deletes(s, k)' <=> Deletes(s, k)
                BY <1>3, <2>1, <2>3, <3>2
            <4> QED BY <2>4, <2>6, <4>1 DEF IInv, Counted, CountedFor
        <3> QED BY <3>1, <3>2
    <2> QED BY <2>5, <2>6, <2>9 DEF Counted
<1> QED BY <1>8, <1>9, <1>10, <1>11 DEF IInv

LEMMA DeleteLastIInv == ASSUME UseAssumption, IInv, NEW r \in Requests, DeleteLast(r) PROVE IInv'
<1>0. PICK c \in Configurations : c = request[r].config
    BY DEF DeleteLast, IInv, Named
<1>1. /\ request[r].at = "delete" /\ request' = [request EXCEPT ![r] = Gone] /\ Delete(c)
      /\ UNCHANGED <<current, lock, module, path, reload>>
    BY <1>0 DEF DeleteLast
<1>2. /\ config' \in [Configurations -> AnyConfiguration]
      /\ \A j \in Configurations :
            /\ config'[j].count = config[j].count /\ config'[j].entry = config[j].entry
            /\ config'[j].deleted = IF j = c THEN config[j].deleted + 1 ELSE config[j].deleted
      /\ manager' \in Seq(AnyManager) /\ Len(manager') = Len(manager)
      /\ \A n \in 1..Len(manager) :
            /\ manager'[n].config = manager[n].config /\ manager'[n].options = manager[n].options
            /\ manager'[n].deleted # 0 => config'[manager[n].config].deleted # 0
    BY <1>1, DeleteDoes
<1>3. /\ Gone \in AnyRequest /\ Gone.at = "gone" /\ Gone.manager = 0 /\ Gone.opened = 0
      /\ request'[r] = Gone /\ \A s \in Requests \ {r} : request'[s] = request[s]
    <2>1. Gone = [at |-> "gone", config |-> 0, module |-> 0, manager |-> 0, opened |-> 0]
        BY DEF New, Gone, None
    <2> QED BY <1>1, <2>1 DEF IInv, Types, AnyRequest, Places
<1>4. Types'
    <2>1. request' \in [Requests -> AnyRequest]
        BY <1>1, <1>3 DEF IInv, Types
    <2>2. AnyManager' = AnyManager /\ AnyConfiguration' = AnyConfiguration /\ Configurations' = Configurations
        BY DEF AnyManager, AnyConfiguration, Configurations
    <2> QED BY <1>1, <1>2, <2>1, <2>2 DEF IInv, Types
<1>5. Named' /\ Owned' /\ Ready'
    <2>1. (reload.at = "delete" => reload.old \in Configurations) /\ 0 \in 0..Len(manager)
        BY DEF IInv, Types, Named
    <2>2. \A s \in Requests :
               \/ request'[s] = request[s]
               \/ /\ request[s].at # "configure"
                  /\ request'[s].at \in Outside /\ request'[s].manager = None /\ request'[s].opened \in 0..Len(manager)
                  /\ request'[s].at # "gone" => request'[s].config \in Configurations
        BY <1>1, <1>3, <2>1 DEF Outside, None
    <2> QED BY <1>1, <1>2, <2>1, <2>2, OutsideKeeps
<1>6. Copying'
    BY <1>1, <1>3 DEF IInv, Copying
<1>7. Counted'
    <2>1. \A k : Holders(k)' = Holders(k)
        BY <1>1, <1>3 DEF Holders, Inside
    <2>2. /\ \A k \in Configurations : ~Deletes(r, k)' /\ (Deletes(r, k) <=> k = c)
          /\ \A s \in Requests \ {r}, k \in Configurations : Deletes(s, k)' <=> Deletes(s, k)
        BY <1>0, <1>1, <1>3 DEF Deletes
    <2>3. \A k : ReloadHas(k)' <=> ReloadHas(k)
        BY <1>1 DEF ReloadHas
    <2>4. Configurations' = Configurations /\ current' = current
        BY <1>1 DEF Configurations
    <2>5. /\ c < current /\ config[c].count = 0 /\ config[c].deleted = 0 /\ ~ReloadHas(c)
          /\ \A s \in Requests : ~Deletes(s, c)'
        BY <2>2 DEF IInv, Counted, CountedFor
    <2>6. \A s \in Requests : request'[s].at \in Inside => request'[s].config <= current'
        BY <1>1, <1>3 DEF IInv, Counted, CountedFor, Inside
    <2>7. ASSUME NEW k \in Configurations PROVE CountedFor(k)'
        <3>1. CASE k = c
            BY <1>2, <2>1, <2>3, <2>4, <2>5, <3>1 DEF IInv, Counted, CountedFor
        <3>2. CASE k # c
            <4>1. \A s \in Requests : Deletes(s, k)' <=> Deletes(s, k)
                BY <2>2, <3>2
            <4> QED BY <1>2, <2>1, <2>3, <2>4, <3>2, <4>1 DEF IInv, Counted, CountedFor
        <3> QED BY <3>1, <3>2
    <2> QED BY <2>4, <2>6, <2>7 DEF Counted
<1> QED BY <1>4, <1>5, <1>6, <1>7 DEF IInv

-----------------------------------------------------------------------------
(* VHost::getModuleConfiguration and ModuleConfiguration::getModuleManager. *)

\* What is named is there.
LEMMA NamedFacts ==
    ASSUME IInv
    PROVE  /\ \A m \in 1..Len(module) : module[m] \in AnyModule /\ module[m].manager \in 0..Len(manager)
           /\ \A m \in 1..Len(module) : module[m].manager # None => module[m].manager \in 1..Len(manager)
           /\ \A k \in Configurations : config[k].entry # None => config[k].entry \in 1..Len(module)
           /\ \A s \in Requests : request[s].at \in HasModule => request[s].module \in 1..Len(module)
           /\ \A s \in Requests : request[s].at = "serving" => request[s].manager \in 1..Len(manager)
           /\ \A s \in Requests : request[s] \in AnyRequest
           /\ Len(module) \in Nat /\ Len(manager) \in Nat
           /\ module \in Seq(AnyModule) /\ manager \in Seq(AnyManager)
<1>1. \A m \in 1..Len(module) : module[m] \in AnyModule
    BY ElementOfSeq DEF IInv, Types
<1> QED BY <1>1 DEF IInv, Types, Named, None

\* Flags of modules and managers change, no names: what a request has comes from its
\* configuration's entry, or from its module's manager.
LEMMA FlagsKeep ==
    ASSUME IInv, NEW r \in Requests, Uncounted(r), config' = config,
           Len(module') = Len(module), Len(manager') = Len(manager),
           \A m \in 1..Len(module) : module'[m].manager = module[m].manager,
           \A n \in 1..Len(manager) : manager'[n].config = manager[n].config /\ manager'[n].deleted = manager[n].deleted,
           request'[r].at \in {"merge", "get"} => config[request[r].config].entry # None,
           request'[r].at \in HasModule =>
               \/ request[r].at \in HasModule /\ request'[r].module = request[r].module
               \/ config[request[r].config].entry # None /\ request'[r].module = config[request[r].config].entry,
           IF request'[r].at = "serving"
           THEN \/ request[r].at = "serving" /\ request'[r].manager = request[r].manager
                \/ /\ request[r].at = "return" /\ request'[r].manager = module[request[r].module].manager
                   /\ request'[r].manager # None
           ELSE request'[r].manager = None,
           request'[r].opened \in 0..Len(manager)
    PROVE  Named' /\ Owned'
<1> DEFINE c == request[r].config
<1>1. c \in Configurations /\ Configurations' = Configurations
    BY DEF IInv, Named, Uncounted, Configurations
<1>2. \A s \in Requests : s = r \/ request'[s] = request[s]
    BY DEF Uncounted, Others
<1>3. request'[r].config = c /\ request[r].at \in Inside /\ request'[r].at \in Inside /\ reload' = reload
    BY DEF Uncounted
<1> HIDE DEF c
<1>4. request'[r].manager \in 0..Len(manager) /\ (request'[r].manager # None <=> request'[r].at = "serving")
    <2>1. CASE request'[r].at = "serving" /\ request[r].at = "serving" /\ request'[r].manager = request[r].manager
        BY <2>1 DEF IInv, Named
    <2>2. CASE /\ request'[r].at = "serving" /\ request[r].at = "return" /\ request'[r].manager # None
               /\ request'[r].manager = module[request[r].module].manager
        <3>1. request[r].module \in 1..Len(module)
            BY <2>2, NamedFacts DEF HasModule
        <3> QED BY <2>2, <3>1, NamedFacts
    <2>3. CASE request'[r].at # "serving" /\ request'[r].manager = None
        BY <2>3, NamedFacts DEF None
    <2> QED BY <2>1, <2>2, <2>3
<1>5. Named'
    <2>1. \A k \in Configurations : config'[k].entry \in 0..Len(module')
        BY DEF IInv, Named
    <2>2. \A m \in 1..Len(module') : module'[m].manager \in 0..Len(manager')
        BY DEF IInv, Named
    <2>3. \A s \in Requests : request'[s].at \in Inside \cup {"copy", "delete"} => request'[s].config \in Configurations
        BY <1>1, <1>2, <1>3 DEF IInv, Named
    <2>4. \A s \in Requests : request'[s].at \in {"merge", "get"} => config'[request'[s].config].entry # None
        BY <1>2, <1>3 DEF IInv, Named, c
    <2>5. \A s \in Requests : request'[s].at \in HasModule => request'[s].module \in 1..Len(module')
        <3>1. request'[r].at \in HasModule => request'[r].module \in 1..Len(module)
            BY <1>1, NamedFacts DEF c
        <3> QED BY <1>2, <3>1, NamedFacts
    <2>6. \A s \in Requests : request'[s].manager \in 0..Len(manager') /\ request'[s].opened \in 0..Len(manager')
        BY <1>2, <1>4 DEF IInv, Named
    <2>7. \A s \in Requests : request'[s].manager # None <=> request'[s].at = "serving"
        BY <1>2, <1>4 DEF IInv, Named
    <2> QED BY <1>1, <1>3, <2>1, <2>2, <2>3, <2>4, <2>5, <2>6, <2>7 DEF IInv, Named
<1>6. Owned'
    <2>1. ASSUME NEW s \in Requests, request'[s].at \in HasModule
          PROVE  \/ request[s].at \in HasModule /\ request'[s].module = request[s].module /\ request'[s].config = request[s].config
                 \/ s = r /\ config[c].entry # None /\ request'[s].module = config[c].entry /\ request'[s].config = c
        BY <1>2, <1>3, <2>1 DEF c
    <2>2. \A s \in Requests, k \in Configurations :
              request'[s].at \in HasModule /\ config[k].entry = request'[s].module => request'[s].config = k
        BY <1>1, <2>1 DEF IInv, Owned
    <2>3. \A s, t \in Requests :
              request'[s].at \in HasModule /\ request'[t].at \in HasModule /\ request'[s].module = request'[t].module
                  => request'[s].config = request'[t].config
        BY <1>1, <2>1 DEF IInv, Owned
    <2>4. ASSUME NEW k \in Configurations, config[k].entry # None, module'[config[k].entry].manager # None
          PROVE  manager'[module'[config[k].entry].manager].config = k
        <3>1. config[k].entry \in 1..Len(module)
            BY <2>4, NamedFacts
        <3>2. module'[config[k].entry].manager = module[config[k].entry].manager
            BY <3>1
        <3>3. module[config[k].entry].manager \in 1..Len(manager)
            BY <2>4, <3>1, <3>2, NamedFacts
        <3>4. manager[module[config[k].entry].manager].config = k
            BY <2>4, <3>2 DEF IInv, Owned
        <3> QED BY <3>2, <3>3, <3>4
    <2>5. ASSUME NEW s \in Requests, request'[s].at \in HasModule, module'[request'[s].module].manager # None
          PROVE  manager'[module'[request'[s].module].manager].config = request'[s].config
        <3>1. CASE request[s].at \in HasModule /\ request'[s].module = request[s].module /\ request'[s].config = request[s].config
            BY <2>5, <3>1, NamedFacts DEF IInv, Owned
        <3>2. CASE s = r /\ config[c].entry # None /\ request'[s].module = config[c].entry /\ request'[s].config = c
            BY <1>1, <2>4, <2>5, <3>2
        <3> QED BY <2>1, <2>5, <3>1, <3>2
    <2>6. ASSUME NEW s \in Requests, request'[s].at = "serving"
          PROVE  manager'[request'[s].manager].config = request'[s].config
        <3>1. CASE request[s].at = "serving" /\ request'[s].manager = request[s].manager /\ request'[s].config = request[s].config
            BY <3>1, NamedFacts DEF IInv, Owned
        <3>2. CASE s = r /\ request[r].at = "return" /\ request'[r].manager = module[request[r].module].manager /\ request'[r].manager # None
            <4>1. request[r].module \in 1..Len(module) /\ request[r].at \in HasModule
                BY <3>2, NamedFacts DEF HasModule
            <4>2. module[request[r].module].manager \in 1..Len(manager)
                BY <3>2, <4>1, NamedFacts
            <4>3. manager[module[request[r].module].manager].config = request[r].config
                BY <3>2, <4>1 DEF IInv, Owned
            <4> QED BY <1>3, <3>2, <4>2, <4>3 DEF c
        <3> QED BY <1>2, <1>3, <2>6, <3>1, <3>2 DEF c
    <2>7. \A n \in 1..Len(manager') : manager'[n].deleted # 0 => config'[manager'[n].config].deleted # 0
        BY DEF IInv, Owned
    <2>8. \A j, k \in Configurations : config[j].entry = config[k].entry => j = k \/ config[j].entry = None
        BY DEF IInv, Owned
    <2> QED BY <1>1, <2>2, <2>3, <2>4, <2>5, <2>6, <2>7, <2>8 DEF Owned
<1> QED BY <1>5, <1>6

\* What a request goes on with: its place, and the rest as it was.
LEMMA GoesFacts ==
    ASSUME IInv, NEW r \in Requests, NEW p \in Inside, request[r].at \in Inside,
           request' = [request EXCEPT ![r].at = p]
    PROVE  /\ request' \in [Requests -> AnyRequest] /\ Others(r)
           /\ request'[r].at = p /\ request'[r].config = request[r].config /\ request'[r].module = request[r].module
           /\ request'[r].manager = request[r].manager /\ request'[r].opened = request[r].opened
<1>1. request \in [Requests -> AnyRequest] /\ request[r] \in AnyRequest
    BY DEF IInv, Types
<1>2. [request[r] EXCEPT !.at = p] \in AnyRequest
    BY <1>1 DEF AnyRequest, Places
<1> QED BY <1>1, <1>2 DEF Others, AnyRequest

\* Somebody has the entry of its configuration: with its options, or early.
LEMMA TakeIInv ==
    ASSUME UseAssumption, IInv, NEW r \in Requests, request[r].at \in {"find", "get"},
           NEW e, e = config[request[r].config].entry, e # None, Has(r, e), Early(e),
           UNCHANGED <<current, lock, config, manager, path, reload>>
    PROVE  IInv'
<1>1. e \in 1..Len(module) /\ module[e] \in AnyModule /\ e \in Nat
    BY NamedFacts DEF IInv, Named, Inside
<1>2. /\ module' \in Seq(AnyModule) /\ Len(module') = Len(module)
      /\ \A j \in 1..Len(module) :
            /\ module'[j].merged = module[j].merged /\ module'[j].loaded = module[j].loaded
            /\ module'[j].manager = module[j].manager /\ module'[j].made = module[j].made
            /\ module[j].early => module'[j].early
      /\ module'[e].merged \/ module'[e].early
    <2>1. CASE module[e].merged
        BY <1>1, <2>1, NamedFacts DEF Early
    <2>2. CASE ~module[e].merged
        <3> DEFINE v == [module[e] EXCEPT !.early = TRUE]
        <3>1. /\ v \in AnyModule /\ v.merged = module[e].merged /\ v.loaded = module[e].loaded /\ v.early = TRUE
              /\ v.manager = module[e].manager /\ v.made = module[e].made
            BY <1>1 DEF AnyModule
        <3>2. module' = [module EXCEPT ![e] = v]
            BY <1>1, <2>2, NamedFacts DEF Early
        <3> HIDE DEF v
        <3>3. /\ module' \in Seq(AnyModule) /\ Len(module') = Len(module)
              /\ \A j \in 1..Len(module) : module'[j] = IF j = e THEN v ELSE module[j]
            BY <1>1, <3>1, <3>2, NamedFacts, Updated
        <3> QED BY <1>1, <3>1, <3>3
    <2> QED BY <2>1, <2>2
<1>3. /\ request'[r].at = "test" /\ request'[r].module = e /\ request'[r].config = request[r].config
      /\ request'[r].manager = request[r].manager /\ request'[r].opened = request[r].opened
      /\ Others(r) /\ request' \in [Requests -> AnyRequest]
    <2>1. request \in [Requests -> AnyRequest] /\ request[r] \in AnyRequest
        BY DEF IInv, Types
    <2>2. [request[r] EXCEPT !.at = "test", !.module = e] \in AnyRequest
        BY <1>1, <2>1 DEF AnyRequest, Places, Inside
    <2> QED BY <2>1, <2>2 DEF Has, Others, AnyRequest
<1>4. Uncounted(r)
    BY <1>3 DEF Uncounted, Inside
<1>5. Types'
    BY <1>2, <1>3 DEF IInv, Types, Configurations, AnyManager, AnyConfiguration
<1>6. Copying' /\ Counted'
    BY <1>4, InsideCounts
<1>7. Named' /\ Owned'
    <2>1. request'[r].manager = None /\ request'[r].opened \in 0..Len(manager)
        BY <1>3 DEF IInv, Named
    <2> QED BY <1>2, <1>3, <1>4, <2>1, FlagsKeep
<1>8. Ready'
    <2>1. \A s \in Requests \ {r} : request'[s] = request[s]
        BY <1>3 DEF Others
    <2>2. \A s \in Requests, m \in 1..Len(module) :
              (Configuring(s, m)' <=> Configuring(s, m)) /\ (Uses(s, m)' <=> Uses(s, m))
        BY <1>3, <2>1 DEF Configuring, Uses, Managed
    <2>3. \A s \in Requests :
              request'[s].at \in HasModule => module'[request'[s].module].early \/ module'[request'[s].module].merged
        BY <1>2, <1>3, <2>1, NamedFacts DEF IInv, Ready, ReadyFor
    <2>4. ASSUME NEW m \in 1..Len(module) PROVE ReadyFor(m)'
        BY <1>2, <2>2 DEF IInv, Ready, ReadyFor
    <2>5. \A s \in Requests :
              request'[s].at = "serving" =>
                  \/ manager'[request'[s].manager].options \/ module'[request'[s].module].early
                  \/ module'[request'[s].module].made > 1
        BY <1>2, <1>3, <2>1, NamedFacts DEF IInv, Ready, ReadyFor, HasModule
    <2> QED BY <1>2, <2>3, <2>4, <2>5 DEF Ready
<1> QED BY <1>5, <1>6, <1>7, <1>8 DEF IInv

LEMMA FindIInv == ASSUME UseAssumption, IInv, NEW r \in Requests, Find(r) PROVE IInv'
<1>1. CASE Here(r).entry # None /\ Has(r, Here(r).entry) /\ Early(Here(r).entry)
    BY <1>1, TakeIInv DEF Find, Here
<1>2. CASE Here(r).entry = None /\ Goes(r, "find", "insert") /\ UNCHANGED module
    <2>1. request[r].at = "find" /\ request' = [request EXCEPT ![r].at = "insert"]
          /\ UNCHANGED <<current, lock, config, module, manager, path, reload>>
        BY <1>2 DEF Find, Goes
    <2>2. /\ request' \in [Requests -> AnyRequest] /\ Others(r)
          /\ request'[r].at = "insert" /\ request'[r].config = request[r].config
          /\ request'[r].manager = request[r].manager /\ request'[r].opened = request[r].opened
        BY <2>1, GoesFacts DEF Inside
    <2>3. Uncounted(r)
        BY <2>1, <2>2 DEF Uncounted, Inside
    <2>4. Copying' /\ Counted'
        BY <2>3, InsideCounts
    <2>5. Types'
        BY <2>1, <2>2 DEF IInv, Types, Configurations, AnyManager, AnyConfiguration
    <2>6. Named' /\ Owned'
        <3>1. request'[r].manager = None /\ request'[r].opened \in 0..Len(manager)
            BY <2>1, <2>2 DEF IInv, Named
        <3> QED BY <2>1, <2>2, <2>3, <3>1, FlagsKeep DEF HasModule
    <2>7. Ready'
        <3>1. \A s \in Requests : request'[s].at \in HasModule \cup Managed => request'[s] = request[s]
            BY <2>2 DEF HasModule, Managed, Others
        <3>2. \A s \in Requests, m \in 1..Len(module) :
                  (Configuring(s, m)' <=> Configuring(s, m)) /\ (Uses(s, m)' <=> Uses(s, m))
            BY <2>1, <2>2 DEF Configuring, Uses, Managed, Others
        <3>3. \A s \in Requests :
                  request'[s].at \in HasModule => module'[request'[s].module].early \/ module'[request'[s].module].merged
            BY <2>1, <3>1 DEF IInv, Ready, ReadyFor
        <3>4. ASSUME NEW m \in 1..Len(module) PROVE ReadyFor(m)'
            BY <2>1, <3>2 DEF IInv, Ready, ReadyFor
        <3>5. \A s \in Requests :
                  request'[s].at = "serving" =>
                      \/ manager'[request'[s].manager].options \/ module'[request'[s].module].early
                      \/ module'[request'[s].module].made > 1
            BY <2>1, <3>1 DEF IInv, Ready, ReadyFor, HasModule
        <3> QED BY <2>1, <3>3, <3>4, <3>5 DEF Ready
    <2> QED BY <2>4, <2>5, <2>6, <2>7 DEF IInv
<1> QED BY <1>1, <1>2 DEF Find

LEMMA GetIInv == ASSUME UseAssumption, IInv, NEW r \in Requests, Get(r) PROVE IInv'
<1>1. Here(r).entry # None
    BY DEF Get, Here, IInv, Named
<1> QED BY <1>1, TakeIInv DEF Get, Here

LEMMA MergeIInv == ASSUME UseAssumption, IInv, NEW r \in Requests, Merge(r) PROVE IInv'
<1> DEFINE e == config[request[r].config].entry
<1>1. /\ request[r].at = "merge" /\ request' = [request EXCEPT ![r].at = "get"]
      /\ module' = [module EXCEPT ![e].merged = TRUE]
      /\ UNCHANGED <<current, lock, config, manager, path, reload>>
    BY DEF Merge, Goes, Here
<1>2. e # None /\ e \in 1..Len(module) /\ module[e] \in AnyModule
    BY <1>1, NamedFacts DEF IInv, Named, Inside
<1>3. /\ module' \in Seq(AnyModule) /\ Len(module') = Len(module)
      /\ \A j \in 1..Len(module) :
            /\ module'[j].early = module[j].early /\ module'[j].loaded = module[j].loaded
            /\ module'[j].manager = module[j].manager /\ module'[j].made = module[j].made
            /\ module[j].merged => module'[j].merged
    <2> DEFINE v == [module[e] EXCEPT !.merged = TRUE]
    <2>1. /\ v \in AnyModule /\ v.merged = TRUE /\ v.loaded = module[e].loaded /\ v.early = module[e].early
          /\ v.manager = module[e].manager /\ v.made = module[e].made
        BY <1>2 DEF AnyModule
    <2>2. module' = [module EXCEPT ![e] = v]
        BY <1>1, <1>2, NamedFacts
    <2> HIDE DEF v, e
    <2>3. /\ module' \in Seq(AnyModule) /\ Len(module') = Len(module)
          /\ \A j \in 1..Len(module) : module'[j] = IF j = e THEN v ELSE module[j]
        BY <1>2, <2>1, <2>2, NamedFacts, Updated
    <2> QED BY <1>2, <2>1, <2>3
<1>4. /\ request' \in [Requests -> AnyRequest] /\ Others(r)
      /\ request'[r].at = "get" /\ request'[r].config = request[r].config
      /\ request'[r].manager = request[r].manager /\ request'[r].opened = request[r].opened
    BY <1>1, GoesFacts DEF Inside
<1>5. Uncounted(r)
    BY <1>1, <1>4 DEF Uncounted, Inside
<1>6. Copying' /\ Counted'
    BY <1>5, InsideCounts
<1>7. Types'
    BY <1>1, <1>3, <1>4 DEF IInv, Types, Configurations, AnyManager, AnyConfiguration
<1>8. Named' /\ Owned'
    <2>1. request'[r].manager = None /\ request'[r].opened \in 0..Len(manager)
        BY <1>1, <1>4 DEF IInv, Named
    <2> QED BY <1>1, <1>2, <1>3, <1>4, <1>5, <2>1, FlagsKeep DEF HasModule
<1>9. Ready'
    <2>1. \A s \in Requests : request'[s].at \in HasModule \cup Managed => request'[s] = request[s]
        BY <1>4 DEF HasModule, Managed, Others
    <2>2. \A s \in Requests, m \in 1..Len(module) :
              (Configuring(s, m)' <=> Configuring(s, m)) /\ (Uses(s, m)' <=> Uses(s, m))
        BY <1>1, <1>4 DEF Configuring, Uses, Managed, Others
    <2>3. \A s \in Requests :
              request'[s].at \in HasModule => module'[request'[s].module].early \/ module'[request'[s].module].merged
        BY <1>3, <2>1, NamedFacts DEF IInv, Ready, ReadyFor
    <2>4. ASSUME NEW m \in 1..Len(module) PROVE ReadyFor(m)'
        BY <1>1, <1>3, <2>2 DEF IInv, Ready, ReadyFor
    <2>5. \A s \in Requests :
              request'[s].at = "serving" =>
                  \/ manager'[request'[s].manager].options \/ module'[request'[s].module].early
                  \/ module'[request'[s].module].made > 1
        <3> SUFFICES ASSUME NEW s \in Requests, request'[s].at = "serving"
                     PROVE  \/ manager'[request'[s].manager].options \/ module'[request'[s].module].early
                            \/ module'[request'[s].module].made > 1
            OBVIOUS
        <3>1. request'[s] = request[s] /\ request[s].at = "serving"
            BY <2>1 DEF HasModule
        <3>2. request[s].module \in 1..Len(module)
            BY <3>1, NamedFacts DEF HasModule
        <3> QED BY <1>1, <1>3, <3>1, <3>2 DEF IInv, Ready, ReadyFor
    <2> QED BY <1>3, <2>3, <2>4, <2>5 DEF Ready
<1> QED BY <1>6, <1>7, <1>8, <1>9 DEF IInv

LEMMA TestLoadedIInv == ASSUME UseAssumption, IInv, NEW r \in Requests, TestLoaded(r) PROVE IInv'
<1> DEFINE e == request[r].module
<1>0. PICK to \in {"return", "create"} : to = IF module[e].loaded THEN "return" ELSE "create"
    OBVIOUS
<1>1. /\ request[r].at = "test" /\ request' = [request EXCEPT ![r].at = to]
      /\ UNCHANGED <<current, lock, config, module, manager, path, reload>>
    BY <1>0 DEF TestLoaded, Goes, Mine
<1>2. e \in 1..Len(module) /\ to \in Inside
    BY <1>1, NamedFacts DEF HasModule, Inside
<1>3. /\ request' \in [Requests -> AnyRequest] /\ Others(r)
      /\ request'[r].at = to /\ request'[r].config = request[r].config /\ request'[r].module = e
      /\ request'[r].manager = request[r].manager /\ request'[r].opened = request[r].opened
    BY <1>1, <1>2, GoesFacts DEF Inside
<1>4. Uncounted(r)
    BY <1>1, <1>2, <1>3 DEF Uncounted, Inside
<1>5. Copying' /\ Counted'
    BY <1>4, InsideCounts
<1>6. Types'
    BY <1>1, <1>3 DEF IInv, Types, Configurations, AnyManager, AnyConfiguration
<1>7. Named' /\ Owned'
    <2>1. request'[r].manager = None /\ request'[r].opened \in 0..Len(manager)
        BY <1>1, <1>3 DEF IInv, Named
    <2> QED BY <1>1, <1>3, <1>4, <2>1, FlagsKeep DEF HasModule
<1>8. Ready'
    <2>1. \A s \in Requests \ {r} : request'[s] = request[s]
        BY <1>3 DEF Others
    <2>2. \A s \in Requests, m \in 1..Len(module) :
              /\ Configuring(s, m)' <=> Configuring(s, m)
              /\ Uses(s, m)' => Uses(s, m) \/ module[m].loaded
        BY <1>0, <1>1, <1>3, <2>1 DEF Configuring, Uses, Managed
    <2>3. \A s \in Requests :
              request'[s].at \in HasModule => module'[request'[s].module].early \/ module'[request'[s].module].merged
        BY <1>1, <1>3, <2>1 DEF IInv, Ready, ReadyFor, HasModule
    <2>4. ASSUME NEW m \in 1..Len(module) PROVE ReadyFor(m)'
        BY <1>1, <2>2 DEF IInv, Ready, ReadyFor
    <2>5. \A s \in Requests :
              request'[s].at = "serving" =>
                  \/ manager'[request'[s].manager].options \/ module'[request'[s].module].early
                  \/ module'[request'[s].module].made > 1
        BY <1>1, <1>3, <2>1 DEF IInv, Ready, ReadyFor
    <2> QED BY <1>1, <2>3, <2>4, <2>5 DEF Ready
<1> QED BY <1>5, <1>6, <1>7, <1>8 DEF IInv

LEMMA InsertIInv == ASSUME UseAssumption, IInv, NEW r \in Requests, Insert(r) PROVE IInv'
<1>0. PICK c \in Configurations : c = request[r].config
    BY DEF Insert, Goes, IInv, Named, Inside
<1> DEFINE new == [merged |-> FALSE, early |-> FALSE, loaded |-> FALSE, manager |-> 0, made |-> 0]
           l == Len(module)
<1>1. /\ request[r].at = "insert" /\ request' = [request EXCEPT ![r].at = "merge"]
      /\ module' = Append(module, new)
      /\ config' = [config EXCEPT ![c] = [config[c] EXCEPT !.entry = Len(module) + 1]]
      /\ config[c] \in AnyConfiguration /\ l \in Nat
      /\ UNCHANGED <<current, lock, manager, path, reload>>
    BY <1>0, NamedFacts DEF Insert, Goes, None, IInv, Types
<1>2. /\ module' \in Seq(AnyModule) /\ Len(module') = l + 1
      /\ module'[l + 1] = new /\ \A j \in 1..l : module'[j] = module[j]
    <2>1. new \in AnyModule
        BY DEF AnyModule
    <2> HIDE DEF new
    <2> QED BY <1>1, <2>1, NamedFacts, AppendProperties
<1>3. /\ request' \in [Requests -> AnyRequest] /\ Others(r)
      /\ request'[r].at = "merge" /\ request'[r].config = c
      /\ request'[r].manager = request[r].manager /\ request'[r].opened = request[r].opened
    BY <1>0, <1>1, GoesFacts DEF Inside
<1>4. /\ config'[c].count = config[c].count /\ config'[c].deleted = config[c].deleted /\ config'[c].entry = l + 1
      /\ config'[c] \in AnyConfiguration
      /\ \A k \in Configurations \ {c} : config'[k] = config[k]
    <2> DEFINE v == [config[c] EXCEPT !.entry = l + 1]
    <2>1. l + 1 \in Nat
        BY <1>1
    <2>2. v \in AnyConfiguration /\ v.count = config[c].count /\ v.deleted = config[c].deleted /\ v.entry = l + 1
        <3> HIDE DEF l
        <3> QED BY <1>1, <2>1 DEF AnyConfiguration
    <2>3. config' = [config EXCEPT ![c] = v] /\ config \in [Configurations -> AnyConfiguration]
        BY <1>1 DEF IInv, Types
    <2> HIDE DEF v
    <2> QED BY <2>2, <2>3
<1>5. config' \in [Configurations -> AnyConfiguration]
    BY <1>1, <1>4 DEF IInv, Types
<1>6. Uncounted(r)
    BY <1>0, <1>1, <1>3, <1>4 DEF Uncounted, Inside
<1>7. Copying' /\ Counted'
    BY <1>6, InsideCounts
<1>8. Types'
    BY <1>1, <1>2, <1>3, <1>5 DEF IInv, Types, Configurations, AnyManager, AnyConfiguration
<1>9. /\ \A k \in Configurations : config'[k].entry = IF k = c THEN l + 1 ELSE config[k].entry
      /\ \A s \in Requests : request'[s].at \in HasModule \cup {"get"} => request'[s] = request[s]
      /\ \A s \in Requests \ {r} : request'[s] = request[s]
      /\ Configurations' = Configurations
    BY <1>3, <1>4 DEF HasModule, Others, Configurations
<1>10. \A s \in Requests : request'[s].at \in HasModule =>
           request[s].at \in HasModule /\ request[s].module \in 1..l /\ request'[s] = request[s]
    BY <1>9, NamedFacts
<1> HIDE DEF l
<1>11. Named'
    <2>1. \A k \in Configurations : config'[k].entry \in 0..(l + 1)
        BY <1>1, <1>9 DEF IInv, Named, l
    <2>2. \A m \in 1..(l + 1) : module'[m].manager \in 0..Len(manager)
        <3> SUFFICES ASSUME NEW m \in 1..(l + 1) PROVE module'[m].manager \in 0..Len(manager)
            OBVIOUS
        <3>1. CASE m = l + 1
            BY <1>2, <3>1, NamedFacts
        <3>2. CASE m # l + 1
            <4>1. m \in 1..l
                BY <1>1, <3>2
            <4> QED BY <1>2, <4>1 DEF IInv, Named, l
        <3> QED BY <3>1, <3>2
    <2>3. \A s \in Requests : request'[s].at \in Inside \cup {"copy", "delete"} => request'[s].config \in Configurations
        BY <1>3, <1>9 DEF IInv, Named
    <2>4. ASSUME NEW s \in Requests, request'[s].at \in {"merge", "get"} PROVE config'[request'[s].config].entry # None
        <3>1. CASE request'[s].config = c
            BY <1>1, <1>4, <3>1 DEF None
        <3>2. CASE request'[s].config # c
            <4>1. s # r /\ request'[s] = request[s]
                BY <1>3, <1>9, <3>2
            <4> QED BY <1>9, <2>3, <2>4, <3>2, <4>1 DEF IInv, Named, Inside
        <3> QED BY <3>1, <3>2
    <2>5. \A s \in Requests : request'[s].at \in HasModule => request'[s].module \in 1..(l + 1)
        BY <1>1, <1>10
    <2>6. \A s \in Requests : request'[s].manager \in 0..Len(manager) /\ request'[s].opened \in 0..Len(manager)
        BY <1>3, <1>9 DEF IInv, Named
    <2>7. \A s \in Requests : request'[s].manager # None <=> request'[s].at = "serving"
        BY <1>1, <1>3, <1>9 DEF IInv, Named
    <2>8. reload'.at = "delete" => reload'.old \in Configurations
        BY <1>1 DEF IInv, Named
    <2> QED BY <1>1, <1>2, <1>9, <2>1, <2>2, <2>3, <2>4, <2>5, <2>6, <2>7, <2>8 DEF Named
<1>12. Owned'
    <2>1. \A k \in Configurations : config[k].entry \in 0..l
        BY DEF IInv, Named, l
    <2>2. \A j, k \in Configurations : config'[j].entry = config'[k].entry => j = k \/ config'[j].entry = None
        BY <1>1, <1>9, <2>1 DEF IInv, Owned
    <2>3. ASSUME NEW s \in Requests, NEW k \in Configurations, request'[s].at \in HasModule, config'[k].entry = request'[s].module
          PROVE  request'[s].config = k
        <3>1. config'[k].entry \in 1..l /\ request'[s] = request[s] /\ request[s].at \in HasModule
            BY <1>10, <2>3
        <3>2. k # c
            BY <1>1, <1>9, <3>1
        <3> QED BY <1>9, <2>3, <3>1, <3>2 DEF IInv, Owned
    <2>4. \A s, t \in Requests :
              request'[s].at \in HasModule /\ request'[t].at \in HasModule /\ request'[s].module = request'[t].module
                  => request'[s].config = request'[t].config
        BY <1>10 DEF IInv, Owned
    <2>5. ASSUME NEW k \in Configurations, config'[k].entry # None, module'[config'[k].entry].manager # None
          PROVE  manager'[module'[config'[k].entry].manager].config = k
        <3>1. k # c
            BY <1>2, <1>9, <2>5 DEF None
        <3>2. config'[k].entry = config[k].entry /\ config[k].entry \in 1..l
            BY <1>1, <1>9, <2>1, <2>5, <3>1 DEF None
        <3>3. module'[config[k].entry] = module[config[k].entry]
            BY <1>2, <3>2
        <3>4. config[k].entry # None /\ module[config[k].entry].manager # None
            BY <2>5, <3>2, <3>3
        <3>5. manager[module[config[k].entry].manager].config = k
            BY <3>4 DEF IInv, Owned
        <3> QED BY <1>1, <3>2, <3>3, <3>5
    <2>6. \A s \in Requests :
              request'[s].at \in HasModule /\ module'[request'[s].module].manager # None
                  => manager'[module'[request'[s].module].manager].config = request'[s].config
        BY <1>1, <1>2, <1>10 DEF IInv, Owned
    <2>7. \A s \in Requests : request'[s].at = "serving" => manager'[request'[s].manager].config = request'[s].config
        BY <1>1, <1>10 DEF IInv, Owned, HasModule
    <2>8. ASSUME NEW n \in 1..Len(manager), manager[n].deleted # 0 PROVE config'[manager[n].config].deleted # 0
        <3>1. manager[n].config \in Configurations /\ config[manager[n].config].deleted # 0
            BY <2>8, Basics DEF IInv, Owned
        <3> QED BY <1>4, <3>1
    <2> QED BY <1>1, <1>9, <2>2, <2>3, <2>4, <2>5, <2>6, <2>7, <2>8 DEF Owned
<1>13. Ready'
    <2>1. \A s \in Requests, m \in 1..(l + 1) :
              /\ Configuring(s, m)' <=> Configuring(s, m)
              /\ Uses(s, m)' <=> Uses(s, m)
        BY <1>1, <1>3, <1>9 DEF Configuring, Uses, Managed
    <2>2. \A s \in Requests : ~Configuring(s, l + 1) /\ ~Uses(s, l + 1)
        <3>1. \A s \in Requests : request[s].at \in HasModule => request[s].module # l + 1
            BY <1>1, NamedFacts DEF l
        <3> QED BY <3>1 DEF Configuring, Uses, Managed, HasModule
    <2>3. \A s \in Requests :
              request'[s].at \in HasModule => module'[request'[s].module].early \/ module'[request'[s].module].merged
        BY <1>2, <1>10 DEF IInv, Ready, ReadyFor
    <2>4. ASSUME NEW m \in 1..(l + 1) PROVE ReadyFor(m)'
        <3>1. CASE m = l + 1
            <4>1. ~module'[m].loaded /\ module'[m].manager = None /\ \A s \in Requests : ~Configuring(s, m)' /\ ~Uses(s, m)'
                BY <1>2, <2>1, <2>2, <3>1 DEF None
            <4> QED BY <4>1 DEF ReadyFor
        <3>2. CASE m # l + 1
            <4>1. m \in 1..l
                BY <1>1, <3>2
            <4>2. module'[m] = module[m] /\ manager' = manager
                BY <1>1, <1>2, <4>1
            <4> QED BY <2>1, <4>1, <4>2 DEF IInv, Ready, ReadyFor, l
        <3> QED BY <3>1, <3>2
    <2>5. \A s \in Requests :
              request'[s].at = "serving" =>
                  \/ manager'[request'[s].manager].options \/ module'[request'[s].module].early
                  \/ module'[request'[s].module].made > 1
        BY <1>1, <1>2, <1>10 DEF IInv, Ready, ReadyFor, HasModule
    <2> QED BY <1>2, <2>3, <2>4, <2>5 DEF Ready
<1> QED BY <1>7, <1>8, <1>11, <1>12, <1>13 DEF IInv

LEMMA CreateIInv == ASSUME UseAssumption, IInv, NEW r \in Requests, Create(r) PROVE IInv'
<1>0. PICK c \in Configurations : c = request[r].config
    BY DEF Create, Goes, IInv, Named, Inside
<1>1. PICK m \in 1..Len(module) : m = request[r].module
    BY NamedFacts DEF Create, Goes, HasModule
<1> DEFINE new == [options |-> FALSE, deleted |-> 0, config |-> c]
           l == Len(manager)
           v == [module[m] EXCEPT !.manager = l + 1, !.made = @ + 1]
<1>2. /\ request[r].at = "create" /\ request' = [request EXCEPT ![r].at = "configure"]
      /\ manager' = Append(manager, new) /\ l \in Nat /\ module[m] \in AnyModule
      /\ UNCHANGED <<current, lock, config, path, reload>>
    BY <1>0, NamedFacts DEF Create, Goes
<1>3. /\ manager' \in Seq(AnyManager) /\ Len(manager') = l + 1
      /\ manager'[l + 1] = new /\ \A j \in 1..l : manager'[j] = manager[j]
    <2>1. new \in AnyManager
        BY DEF AnyManager
    <2> HIDE DEF new
    <2> QED BY <1>2, <2>1, NamedFacts, AppendProperties
<1>4. /\ v \in AnyModule /\ v.manager = l + 1 /\ v.made = module[m].made + 1 /\ module[m].made \in Nat
      /\ v.merged = module[m].merged /\ v.early = module[m].early /\ v.loaded = module[m].loaded
    <2> HIDE DEF l
    <2>1. l + 1 \in Nat /\ module[m].made \in Nat /\ module[m].made + 1 \in Nat
        BY <1>2 DEF AnyModule
    <2> QED BY <1>2, <2>1 DEF AnyModule
<1>5. module' = [module EXCEPT ![m] = v]
    BY <1>1, <1>2, NamedFacts DEF Create
<1> HIDE DEF v, l
<1>6. /\ module' \in Seq(AnyModule) /\ Len(module') = Len(module)
      /\ \A j \in 1..Len(module) : module'[j] = IF j = m THEN v ELSE module[j]
    BY <1>4, <1>5, NamedFacts, Updated
<1>7. /\ request' \in [Requests -> AnyRequest] /\ Others(r)
      /\ request'[r].at = "configure" /\ request'[r].config = c /\ request'[r].module = m
      /\ request'[r].manager = request[r].manager /\ request'[r].opened = request[r].opened
    BY <1>0, <1>1, <1>2, GoesFacts DEF Inside
<1>8. Uncounted(r)
    BY <1>0, <1>2, <1>7 DEF Uncounted, Inside
<1>9. Copying' /\ Counted'
    BY <1>8, InsideCounts
<1>10. Configurations' = Configurations /\ AnyManager' = AnyManager /\ AnyConfiguration' = AnyConfiguration
    BY DEF Configurations, AnyManager, AnyConfiguration
<1>11. Types'
    <2>1. path \in 0..(l + 1)
        BY <1>2 DEF IInv, Types, l
    <2> QED BY <1>2, <1>3, <1>6, <1>7, <1>10, <2>1 DEF IInv, Types
<1>12. /\ \A s \in Requests \ {r} : request'[s] = request[s]
       /\ \A s \in Requests : /\ request'[s].at \in HasModule <=> request[s].at \in HasModule
                              /\ request'[s].module = request[s].module /\ request'[s].config = request[s].config
                              /\ request'[s].manager = request[s].manager /\ request'[s].opened = request[s].opened
                              /\ request'[s].at = "serving" <=> request[s].at = "serving"
                              /\ request'[s].at \in {"merge", "get"} => request[s].at \in {"merge", "get"}
                              /\ request'[s].at \in Inside \cup {"copy", "delete"} =>
                                     request[s].at \in Inside \cup {"copy", "delete"}
    BY <1>0, <1>1, <1>2, <1>7 DEF Others, HasModule, Inside
<1>13. Named'
    <2>1. \A k \in Configurations : config'[k].entry \in 0..Len(module')
        BY <1>2, <1>6 DEF IInv, Named
    <2>2. \A j \in 1..Len(module') : module'[j].manager \in 0..Len(manager')
        <3>1. \A j \in 1..Len(module) : module[j].manager \in 0..(l + 1)
            BY <1>2, NamedFacts DEF l
        <3> QED BY <1>2, <1>3, <1>4, <1>6, <3>1
    <2>3. \A s \in Requests : request'[s].at \in Inside \cup {"copy", "delete"} => request'[s].config \in Configurations
        BY <1>12 DEF IInv, Named
    <2>4. \A s \in Requests : request'[s].at \in {"merge", "get"} => config'[request'[s].config].entry # None
        BY <1>2, <1>12 DEF IInv, Named
    <2>5. \A s \in Requests : request'[s].at \in HasModule => request'[s].module \in 1..Len(module')
        BY <1>6, <1>12, NamedFacts
    <2>6. \A s \in Requests : request'[s].manager \in 0..Len(manager') /\ request'[s].opened \in 0..Len(manager')
        <3>1. \A s \in Requests : request[s].manager \in 0..(l + 1) /\ request[s].opened \in 0..(l + 1)
            BY <1>2 DEF IInv, Named, l
        <3> QED BY <1>3, <1>12, <3>1
    <2>7. \A s \in Requests : request'[s].manager # None <=> request'[s].at = "serving"
        BY <1>12 DEF IInv, Named
    <2> QED BY <1>2, <1>10, <2>1, <2>2, <2>3, <2>4, <2>5, <2>6, <2>7 DEF IInv, Named
<1>14. Owned'
    <2>1. \A j, k \in Configurations : config[j].entry = config[k].entry => j = k \/ config[j].entry = None
        BY DEF IInv, Owned
    <2>2. \A s \in Requests, k \in Configurations :
              request'[s].at \in HasModule /\ config[k].entry = request'[s].module => request'[s].config = k
        BY <1>12 DEF IInv, Owned
    <2>3. \A s, t \in Requests :
              request'[s].at \in HasModule /\ request'[t].at \in HasModule /\ request'[s].module = request'[t].module
                  => request'[s].config = request'[t].config
        BY <1>12 DEF IInv, Owned
    <2>4. ASSUME NEW k \in Configurations, config[k].entry # None, module'[config[k].entry].manager # None
          PROVE  manager'[module'[config[k].entry].manager].config = k
        <3>1. config[k].entry \in 1..Len(module)
            BY <2>4, NamedFacts
        <3>2. CASE config[k].entry = m
            <4>1. k = c
                BY <1>7, <2>2, <3>2 DEF HasModule
            <4> QED BY <1>3, <1>4, <1>6, <3>1, <3>2, <4>1
        <3>3. CASE config[k].entry # m
            <4>1. module'[config[k].entry] = module[config[k].entry]
                BY <1>6, <3>1, <3>3
            <4>2. module[config[k].entry].manager \in 1..l
                BY <2>4, <3>1, <4>1, NamedFacts DEF l
            <4>3. manager[module[config[k].entry].manager].config = k
                BY <2>4, <4>1 DEF IInv, Owned
            <4> QED BY <1>3, <4>1, <4>2, <4>3
        <3> QED BY <3>2, <3>3
    <2>5. ASSUME NEW s \in Requests, request'[s].at \in HasModule, module'[request'[s].module].manager # None
          PROVE  manager'[module'[request'[s].module].manager].config = request'[s].config
        <3>1. request[s].at \in HasModule /\ request[s].module \in 1..Len(module)
            BY <1>12, <2>5, NamedFacts
        <3>2. CASE request[s].module = m
            <4>1. request'[s].config = c
                BY <1>7, <1>12, <2>3, <2>5, <3>2 DEF HasModule
            <4> QED BY <1>3, <1>4, <1>6, <1>12, <3>1, <3>2, <4>1
        <3>3. CASE request[s].module # m
            <4>1. module'[request[s].module] = module[request[s].module]
                BY <1>6, <3>1, <3>3
            <4>2. module[request[s].module].manager # None
                BY <1>12, <2>5, <4>1
            <4>3. module[request[s].module].manager \in 1..l
                BY <3>1, <4>2, NamedFacts DEF l
            <4>4. manager[module[request[s].module].manager].config = request[s].config
                BY <3>1, <4>2 DEF IInv, Owned
            <4> QED BY <1>3, <1>12, <4>1, <4>3, <4>4
        <3> QED BY <3>2, <3>3
    <2>6. ASSUME NEW s \in Requests, request'[s].at = "serving"
          PROVE  manager'[request'[s].manager].config = request'[s].config
        <3>1. request[s].at = "serving" /\ request[s].manager \in 1..l
            BY <1>12, <2>6, NamedFacts DEF l
        <3>2. manager[request[s].manager].config = request[s].config
            BY <3>1 DEF IInv, Owned
        <3> QED BY <1>3, <1>12, <3>1, <3>2
    <2>7. ASSUME NEW n \in 1..(l + 1), manager'[n].deleted # 0 PROVE config[manager'[n].config].deleted # 0
        <3>1. n # l + 1
            BY <1>3, <2>7
        <3>2. n \in 1..l
            BY <1>2, <3>1
        <3> QED BY <1>3, <2>7, <3>2 DEF IInv, Owned, l
    <2> QED BY <1>2, <1>3, <1>10, <2>1, <2>2, <2>3, <2>4, <2>5, <2>6, <2>7 DEF Owned
<1>15. Ready'
    <2>1. /\ \A s \in Requests, j \in 1..Len(module) : j # m \/ s # r =>
                 (Configuring(s, j)' <=> Configuring(s, j)) /\ (Uses(s, j)' <=> Uses(s, j))
          /\ Configuring(r, m)' /\ Uses(r, m)'
        BY <1>1, <1>2, <1>7, <1>12 DEF Configuring, Uses, Managed
    <2>2. \A s \in Requests :
              request'[s].at \in HasModule => module'[request'[s].module].early \/ module'[request'[s].module].merged
        <3> SUFFICES ASSUME NEW s \in Requests, request'[s].at \in HasModule
                     PROVE  module'[request'[s].module].early \/ module'[request'[s].module].merged
            OBVIOUS
        <3>1. request[s].at \in HasModule /\ request[s].module \in 1..Len(module) /\ request'[s].module = request[s].module
            BY <1>12, NamedFacts
        <3>2. module[request[s].module].early \/ module[request[s].module].merged
            BY <3>1 DEF IInv, Ready, ReadyFor
        <3> QED BY <1>4, <1>6, <3>1, <3>2
    <2>3. ASSUME NEW j \in 1..Len(module) PROVE ReadyFor(j)'
        <3>1. CASE j = m
            <4>1. module'[m] = v /\ module'[m].made >= 1 /\ module'[m].manager # None
                BY <1>2, <1>4, <1>6 DEF None
            <4>2. module[m].loaded \/ (\E s \in Requests : Uses(s, m)) => module'[m].made >= 2
                <5>1. module[m].loaded \/ (\E s \in Requests : Uses(s, m)) => module[m].made >= 1
                    BY DEF IInv, Ready, ReadyFor
                <5> QED BY <1>4, <4>1, <5>1
            <4>3. \A s \in Requests : Configuring(s, m) => Uses(s, m)
                BY DEF Configuring, Uses, Managed
            <4> QED BY <1>4, <2>1, <3>1, <4>1, <4>2, <4>3 DEF ReadyFor
        <3>2. CASE j # m
            <4>1. module'[j] = module[j]
                BY <1>6, <3>2
            <4>2. module[j].manager # None => manager'[module[j].manager] = manager[module[j].manager]
                BY <1>3, NamedFacts DEF l
            <4> QED BY <2>1, <3>2, <4>1, <4>2 DEF IInv, Ready, ReadyFor
        <3> QED BY <3>1, <3>2
    <2>4. ASSUME NEW s \in Requests, request'[s].at = "serving"
          PROVE  \/ manager'[request'[s].manager].options \/ module'[request'[s].module].early
                 \/ module'[request'[s].module].made > 1
        <3>1. /\ request[s].at = "serving" /\ request[s].manager \in 1..l /\ request[s].module \in 1..Len(module)
              /\ request'[s].manager = request[s].manager /\ request'[s].module = request[s].module
            BY <1>12, <2>4, NamedFacts DEF HasModule, l
        <3>2. \/ manager[request[s].manager].options \/ module[request[s].module].early
              \/ module[request[s].module].made > 1
            BY <3>1 DEF IInv, Ready, ReadyFor
        <3>3. CASE request[s].module = m
            BY <1>3, <1>4, <1>6, <3>1, <3>2, <3>3
        <3>4. CASE request[s].module # m
            BY <1>3, <1>6, <3>1, <3>2, <3>4
        <3> QED BY <3>3, <3>4
    <2> QED BY <1>6, <2>2, <2>3, <2>4 DEF Ready
<1> QED BY <1>9, <1>11, <1>13, <1>14, <1>15 DEF IInv

LEMMA SetOptionsIInv == ASSUME UseAssumption, IInv, NEW r \in Requests, SetOptions(r) PROVE IInv'
<1>1. PICK m \in 1..Len(module) : m = request[r].module
    BY NamedFacts DEF SetOptions, Goes, HasModule
<1>2. /\ request[r].at = "configure" /\ request' = [request EXCEPT ![r].at = "load"] /\ module[m] \in AnyModule
      /\ UNCHANGED <<current, lock, config, module, path, reload>>
    BY NamedFacts DEF SetOptions, Goes
<1>3. Uses(r, m) /\ Configuring(r, m)
    BY <1>1, <1>2 DEF Uses, Configuring, Managed
<1>4. PICK n \in 1..Len(manager) : n = module[m].manager
    BY <1>3, NamedFacts DEF IInv, Ready, ReadyFor
<1> DEFINE v == [manager[n] EXCEPT !.options = @ \/ module[m].merged]
<1>5. /\ v \in AnyManager /\ v.deleted = manager[n].deleted /\ v.config = manager[n].config
      /\ v.options <=> manager[n].options \/ module[m].merged
    <2>1. manager[n] \in AnyManager /\ module[m].merged \in BOOLEAN
        BY <1>2, Basics DEF AnyModule
    <2> QED BY <2>1 DEF AnyManager
<1>6. manager' = [manager EXCEPT ![n] = v]
    BY <1>1, <1>4, NamedFacts DEF SetOptions, Mine
<1> HIDE DEF v
<1>7. /\ manager' \in Seq(AnyManager) /\ Len(manager') = Len(manager)
      /\ \A j \in 1..Len(manager) : manager'[j] = IF j = n THEN v ELSE manager[j]
    BY <1>5, <1>6, NamedFacts, Updated
<1>8. \A j \in 1..Len(manager) : /\ manager'[j].config = manager[j].config /\ manager'[j].deleted = manager[j].deleted
                                 /\ manager[j].options => manager'[j].options
    BY <1>5, <1>7
<1>9. /\ request' \in [Requests -> AnyRequest] /\ Others(r)
      /\ request'[r].at = "load" /\ request'[r].config = request[r].config /\ request'[r].module = m
      /\ request'[r].manager = request[r].manager /\ request'[r].opened = request[r].opened
    BY <1>1, <1>2, GoesFacts DEF Inside
<1>10. Uncounted(r)
    BY <1>2, <1>9 DEF Uncounted, Inside
<1>11. Copying' /\ Counted'
    BY <1>10, InsideCounts
<1>12. Types'
    BY <1>2, <1>7, <1>9 DEF IInv, Types, Configurations, AnyManager, AnyConfiguration
<1>13. Named' /\ Owned'
    <2>1. request'[r].manager = None /\ request'[r].opened \in 0..Len(manager)
        BY <1>2, <1>9 DEF IInv, Named
    <2> QED BY <1>1, <1>2, <1>7, <1>8, <1>9, <1>10, <2>1, FlagsKeep DEF HasModule
<1>14. Ready'
    <2>1. \A s \in Requests \ {r} : request'[s] = request[s]
        BY <1>9 DEF Others
    <2>2. /\ \A s \in Requests, j \in 1..Len(module) : Uses(s, j)' <=> Uses(s, j)
          /\ \A s \in Requests, j \in 1..Len(module) : Configuring(s, j)' => Configuring(s, j)
          /\ \A s \in Requests, j \in 1..Len(module) : Configuring(s, j) => Configuring(s, j)' \/ j = m
        BY <1>1, <1>2, <1>9, <2>1 DEF Configuring, Uses, Managed
    <2>3. \A s \in Requests :
              request'[s].at \in HasModule => module'[request'[s].module].early \/ module'[request'[s].module].merged
        BY <1>1, <1>2, <1>9, <2>1 DEF IInv, Ready, ReadyFor, HasModule
    <2>4. module[m].early \/ module[m].merged
        BY <1>1, <1>2 DEF IInv, Ready, ReadyFor, HasModule
    <2>5. ASSUME NEW j \in 1..Len(module) PROVE ReadyFor(j)'
        <3>1. module[j].manager # None => module[j].manager \in 1..Len(manager)
            BY NamedFacts
        <3>2. CASE j = m
            <4>1. ~module[j].early => manager'[module[j].manager].options
                BY <1>4, <1>5, <1>7, <2>4, <3>2
            <4> QED BY <1>2, <2>2, <4>1 DEF IInv, Ready, ReadyFor
        <3>3. CASE j # m
            BY <1>2, <1>8, <2>2, <3>1, <3>3 DEF IInv, Ready, ReadyFor
        <3> QED BY <3>2, <3>3
    <2>6. ASSUME NEW s \in Requests, request'[s].at = "serving"
          PROVE  \/ manager'[request'[s].manager].options \/ module'[request'[s].module].early
                 \/ module'[request'[s].module].made > 1
        <3>1. request'[s] = request[s] /\ request[s].at = "serving" /\ request[s].manager \in 1..Len(manager)
            BY <1>9, <2>1, <2>6, NamedFacts
        <3> QED BY <1>2, <1>8, <3>1 DEF IInv, Ready, ReadyFor
    <2> QED BY <1>2, <2>3, <2>5, <2>6 DEF Ready
<1> QED BY <1>11, <1>12, <1>13, <1>14 DEF IInv

LEMMA LoadIInv == ASSUME UseAssumption, IInv, NEW r \in Requests, Load(r) PROVE IInv'
<1>1. PICK m \in 1..Len(module) : m = request[r].module
    BY NamedFacts DEF Load, Goes, HasModule
<1>2. /\ request[r].at = "load" /\ request' = [request EXCEPT ![r].at = "return"] /\ module[m] \in AnyModule
      /\ UNCHANGED <<current, lock, config, manager, path, reload>>
    BY NamedFacts DEF Load, Goes
<1> DEFINE v == [module[m] EXCEPT !.loaded = TRUE]
<1>3. /\ v \in AnyModule /\ v.merged = module[m].merged /\ v.early = module[m].early /\ v.loaded
      /\ v.manager = module[m].manager /\ v.made = module[m].made
    BY <1>2 DEF AnyModule
<1>4. module' = [module EXCEPT ![m] = v]
    BY <1>1, NamedFacts DEF Load
<1> HIDE DEF v
<1>5. /\ module' \in Seq(AnyModule) /\ Len(module') = Len(module)
      /\ \A j \in 1..Len(module) : module'[j] = IF j = m THEN v ELSE module[j]
    BY <1>3, <1>4, NamedFacts, Updated
<1>6. \A j \in 1..Len(module) :
          /\ module'[j].merged = module[j].merged /\ module'[j].early = module[j].early
          /\ module'[j].manager = module[j].manager /\ module'[j].made = module[j].made
          /\ module'[j].loaded => module[j].loaded \/ j = m
    BY <1>3, <1>5
<1>7. /\ request' \in [Requests -> AnyRequest] /\ Others(r)
      /\ request'[r].at = "return" /\ request'[r].config = request[r].config /\ request'[r].module = m
      /\ request'[r].manager = request[r].manager /\ request'[r].opened = request[r].opened
    BY <1>1, <1>2, GoesFacts DEF Inside
<1>8. Uncounted(r)
    BY <1>2, <1>7 DEF Uncounted, Inside
<1>9. Copying' /\ Counted'
    BY <1>8, InsideCounts
<1>10. Types'
    BY <1>2, <1>5, <1>7 DEF IInv, Types, Configurations, AnyManager, AnyConfiguration
<1>11. Named' /\ Owned'
    <2>1. request'[r].manager = None /\ request'[r].opened \in 0..Len(manager)
        BY <1>2, <1>7 DEF IInv, Named
    <2> QED BY <1>1, <1>2, <1>5, <1>6, <1>7, <1>8, <2>1, FlagsKeep DEF HasModule
<1>12. Ready'
    <2>1. \A s \in Requests \ {r} : request'[s] = request[s]
        BY <1>7 DEF Others
    <2>2. \A s \in Requests, j \in 1..Len(module) :
              (Uses(s, j)' <=> Uses(s, j)) /\ (Configuring(s, j)' <=> Configuring(s, j))
        BY <1>1, <1>2, <1>7, <2>1 DEF Configuring, Uses, Managed
    <2>3. Uses(r, m) /\ ~Configuring(r, m)
        BY <1>1, <1>2 DEF Configuring, Uses, Managed
    <2>4. ASSUME NEW s \in Requests, request'[s].at \in HasModule
          PROVE  module'[request'[s].module].early \/ module'[request'[s].module].merged
        <3>1. request[s].at \in HasModule /\ request'[s].module = request[s].module /\ request[s].module \in 1..Len(module)
            BY <1>1, <1>2, <1>7, <2>1, <2>4, NamedFacts DEF HasModule
        <3>2. module[request[s].module].early \/ module[request[s].module].merged
            BY <3>1 DEF IInv, Ready, ReadyFor
        <3> QED BY <1>6, <3>1, <3>2
    <2>5. ASSUME NEW j \in 1..Len(module) PROVE ReadyFor(j)'
        <3>1. CASE j = m
            <4>1. \A s \in Requests : Configuring(s, m) => r \in Requests \ {s} /\ module[m].made >= 2
                BY <2>3 DEF IInv, Ready, ReadyFor
            <4>2. module[m].made >= 1 /\ module[m].manager # None
                BY <2>3 DEF IInv, Ready, ReadyFor
            <4>3. module[m].manager # None /\ ~module[m].early =>
                      manager[module[m].manager].options \/ \E s \in Requests : Configuring(s, m)
                BY DEF IInv, Ready, ReadyFor
            <4> QED BY <1>2, <1>6, <2>2, <3>1, <4>1, <4>2, <4>3 DEF ReadyFor
        <3>2. CASE j # m
            <4>1. module'[j] = module[j]
                BY <1>5, <3>2
            <4> QED BY <1>2, <2>2, <4>1 DEF IInv, Ready, ReadyFor
        <3> QED BY <3>1, <3>2
    <2>6. ASSUME NEW s \in Requests, request'[s].at = "serving"
          PROVE  \/ manager'[request'[s].manager].options \/ module'[request'[s].module].early
                 \/ module'[request'[s].module].made > 1
        <3>1. request'[s] = request[s] /\ request[s].at = "serving" /\ request[s].module \in 1..Len(module)
            BY <1>7, <2>1, <2>6, NamedFacts DEF HasModule
        <3> QED BY <1>2, <1>6, <3>1 DEF IInv, Ready, ReadyFor
    <2> QED BY <1>5, <2>4, <2>5, <2>6 DEF Ready
<1> QED BY <1>9, <1>10, <1>11, <1>12 DEF IInv

LEMMA ReturnIInv == ASSUME UseAssumption, IInv, NEW r \in Requests, Return(r) PROVE IInv'
<1>1. PICK m \in 1..Len(module) : m = request[r].module
    BY NamedFacts DEF Return, HasModule
<1>2. /\ request[r].at = "return" /\ module[m] \in AnyModule
      /\ UNCHANGED <<current, lock, config, module, manager, path, reload>>
    BY NamedFacts DEF Return
<1>3. Uses(r, m) /\ ~Configuring(r, m)
    BY <1>1, <1>2 DEF Uses, Configuring, Managed
<1>4. PICK n \in 1..Len(manager) : n = module[m].manager
    BY <1>3, NamedFacts DEF IInv, Ready, ReadyFor
<1>5. n # None /\ n \in Nat
    BY NamedFacts DEF None
<1>6. /\ request' \in [Requests -> AnyRequest] /\ Others(r)
      /\ request'[r].at = "serving" /\ request'[r].config = request[r].config /\ request'[r].module = m
      /\ request'[r].manager = n /\ request'[r].opened = request[r].opened
    <2>1. request \in [Requests -> AnyRequest] /\ request[r] \in AnyRequest
        BY DEF IInv, Types
    <2>2. [request[r] EXCEPT !.at = "serving", !.manager = n] \in AnyRequest
        BY <1>5, <2>1 DEF AnyRequest, Places, Inside
    <2>3. request' = [request EXCEPT ![r] = [request[r] EXCEPT !.at = "serving", !.manager = n]]
        BY <1>1, <1>4, <2>1 DEF Return, Mine
    <2> QED BY <1>1, <2>1, <2>2, <2>3 DEF Others, AnyRequest
<1>7. Uncounted(r)
    BY <1>2, <1>6 DEF Uncounted, Inside
<1>8. Copying' /\ Counted'
    BY <1>7, InsideCounts
<1>9. Types'
    BY <1>2, <1>6 DEF IInv, Types, Configurations, AnyManager, AnyConfiguration
<1>10. Named' /\ Owned'
    <2>1. request'[r].opened \in 0..Len(manager)
        BY <1>6 DEF IInv, Named
    <2> QED BY <1>1, <1>2, <1>4, <1>5, <1>6, <1>7, <2>1, FlagsKeep DEF HasModule
<1>11. Ready'
    <2>1. \A s \in Requests \ {r} : request'[s] = request[s]
        BY <1>6 DEF Others
    <2>2. \A s \in Requests, j \in 1..Len(module) :
              (Uses(s, j)' <=> Uses(s, j)) /\ (Configuring(s, j)' <=> Configuring(s, j))
        BY <1>1, <1>2, <1>6, <2>1 DEF Configuring, Uses, Managed
    <2>3. \A s \in Requests :
              request'[s].at \in HasModule => module'[request'[s].module].early \/ module'[request'[s].module].merged
        BY <1>1, <1>2, <1>6, <2>1 DEF IInv, Ready, ReadyFor, HasModule
    <2>4. ASSUME NEW j \in 1..Len(module) PROVE ReadyFor(j)'
        BY <1>2, <2>2 DEF IInv, Ready, ReadyFor
    <2>5. manager[n].options \/ module[m].early \/ module[m].made > 1
        <3>1. ~module[m].early => manager[n].options \/ \E s \in Requests : Configuring(s, m)
            BY <1>4, <1>5 DEF IInv, Ready, ReadyFor
        <3>2. ASSUME NEW s \in Requests, Configuring(s, m) PROVE module[m].made >= 2
            BY <1>3, <3>2 DEF IInv, Ready, ReadyFor
        <3>3. module[m].made \in Nat
            BY <1>2 DEF AnyModule
        <3> QED BY <3>1, <3>2, <3>3
    <2>6. \A s \in Requests :
              request'[s].at = "serving" =>
                  \/ manager'[request'[s].manager].options \/ module'[request'[s].module].early
                  \/ module'[request'[s].module].made > 1
        BY <1>2, <1>6, <2>1, <2>5 DEF IInv, Ready, ReadyFor
    <2> QED BY <1>2, <2>3, <2>4, <2>6 DEF Ready
<1> QED BY <1>8, <1>9, <1>10, <1>11 DEF IInv

LEMMA OpenDatabaseIInv == ASSUME UseAssumption, IInv, NEW r \in Requests, OpenDatabase(r) PROVE IInv'
<1>1. /\ request[r].at = "serving" /\ request[r].manager \in 0..Len(manager) /\ path' \in 0..Len(manager)
      /\ UNCHANGED <<current, lock, config, module, manager, reload>> /\ Len(manager) \in Nat
    BY NamedFacts DEF OpenDatabase, IInv, Named, Types
<1>2. /\ request' \in [Requests -> AnyRequest] /\ Others(r)
      /\ request'[r].at = "serving" /\ request'[r].config = request[r].config /\ request'[r].module = request[r].module
      /\ request'[r].manager = request[r].manager /\ request'[r].opened = path'
    <2>1. request \in [Requests -> AnyRequest] /\ request[r] \in AnyRequest
        BY DEF IInv, Types
    <2>2. [request[r] EXCEPT !.opened = path'] \in AnyRequest
        BY <1>1, <2>1 DEF AnyRequest
    <2>3. request' = [request EXCEPT ![r] = [request[r] EXCEPT !.opened = path']]
        BY DEF OpenDatabase
    <2> QED BY <1>1, <2>1, <2>2, <2>3 DEF Others, AnyRequest
<1>3. Uncounted(r)
    BY <1>1, <1>2 DEF Uncounted, Inside
<1>4. Copying' /\ Counted'
    BY <1>3, InsideCounts
<1>5. Types'
    BY <1>1, <1>2 DEF IInv, Types, Configurations, AnyManager, AnyConfiguration
<1>6. Named' /\ Owned'
    BY <1>1, <1>2, <1>3, FlagsKeep DEF HasModule
<1>7. Ready'
    <2>1. \A s \in Requests : /\ request'[s].at = request[s].at /\ request'[s].module = request[s].module
                              /\ request'[s].manager = request[s].manager
        BY <1>1, <1>2 DEF Others
    <2>2. \A s \in Requests, j \in 1..Len(module) :
              (Uses(s, j)' <=> Uses(s, j)) /\ (Configuring(s, j)' <=> Configuring(s, j))
        BY <2>1 DEF Configuring, Uses
    <2>3. ASSUME NEW j \in 1..Len(module) PROVE ReadyFor(j)'
        BY <1>1, <2>2 DEF IInv, Ready, ReadyFor
    <2> QED BY <1>1, <2>1, <2>3 DEF IInv, Ready, ReadyFor
<1> QED BY <1>4, <1>5, <1>6, <1>7 DEF IInv

-----------------------------------------------------------------------------
(* The results.                                                             *)

LEMMA InitIInv == ASSUME UseAssumption, Init PROVE IInv
<1>1. /\ current = 1 /\ 1 \in Configurations /\ lock = Nobody /\ module = <<>> /\ manager = <<>> /\ path = 0
      /\ reload = [at |-> "idle", old |-> 0]
      /\ config = [k \in Configurations |-> [count |-> IF k = 1 THEN 1 ELSE 0, deleted |-> 0, entry |-> 0]]
      /\ \A r \in Requests : request[r] = [at |-> "new", config |-> 0, module |-> 0, manager |-> 0, opened |-> 0]
      /\ request = [r \in Requests |-> New]
    BY DEF UseAssumption, Init, New, None, Configurations
<1>2. Len(module) = 0 /\ Len(manager) = 0 /\ module \in Seq(AnyModule) /\ manager \in Seq(AnyManager)
    BY <1>1, EmptySeq
<1>3. \A r \in Requests : request[r].at = "new" /\ request[r].manager = 0 /\ request[r].opened = 0
    BY <1>1
<1>4. \A k \in Configurations : config[k].count = (IF k = 1 THEN 1 ELSE 0) /\ config[k].deleted = 0 /\ config[k].entry = 0
    BY <1>1
<1>5. Types
    <2>1. config \in [Configurations -> AnyConfiguration]
        BY <1>1 DEF AnyConfiguration
    <2>2. request \in [Requests -> AnyRequest]
        BY <1>1, <1>3 DEF AnyRequest, Places
    <2> QED BY <1>1, <1>2, <2>1, <2>2 DEF Types
<1>6. Named
    BY <1>1, <1>2, <1>3, <1>4 DEF Named, None, HasModule, Inside
<1>7. Copying
    BY <1>1, <1>3 DEF Copying
<1>8. Counted
    <2>1. \A k : Holders(k) = {}
        BY <1>3 DEF Holders, Inside
    <2>2. Cardinality({}) = 0
        BY FS_EmptySet
    <2>3. \A k \in Configurations : ~(k < 1)
        BY DEF Configurations
    <2>4. \A k \in Configurations : ~ReloadHas(k) /\ \A r \in Requests : ~Deletes(r, k)
        BY <1>1, <1>3 DEF ReloadHas, Deletes
    <2>5. ASSUME NEW k \in Configurations
          PROVE  config[k].count = Cardinality(Holders(k)) + (IF k = current THEN 1 ELSE 0)
        <3>1. Cardinality(Holders(k)) = 0
            BY <2>1, <2>2
        <3>2. config[k].count = IF k = current THEN 1 ELSE 0
            BY <1>1, <1>4
        <3> QED BY <3>1, <3>2
    <2> QED BY <1>1, <1>3, <1>4, <2>3, <2>4, <2>5 DEF Counted, CountedFor, Inside
<1>9. Owned
    BY <1>2, <1>3, <1>4 DEF Owned, HasModule, None
<1>10. Ready
    BY <1>2, <1>3 DEF Ready, HasModule
<1> QED BY <1>5, <1>6, <1>7, <1>8, <1>9, <1>10 DEF IInv

LEMMA StutterIInv == ASSUME IInv, UNCHANGED vars PROVE IInv'
<1>1. /\ current' = current /\ lock' = lock /\ config' = config /\ module' = module /\ manager' = manager
      /\ request' = request /\ path' = path /\ reload' = reload
    BY DEF vars
<1>2. Types' /\ Named' /\ Copying'
    BY <1>1 DEF IInv, Types, Named, Copying, Configurations, AnyManager, AnyConfiguration
<1>3. Counted'
    <2>1. /\ \A k : Holders(k)' = Holders(k) /\ (ReloadHas(k)' <=> ReloadHas(k))
          /\ \A r, k : Deletes(r, k)' <=> Deletes(r, k)
          /\ Configurations' = Configurations
        BY <1>1 DEF Configurations, Holders, Deletes, ReloadHas
    <2>2. ASSUME NEW k \in Configurations PROVE CountedFor(k)'
        BY <1>1, <2>1 DEF IInv, Counted, CountedFor
    <2> QED BY <1>1, <2>1, <2>2 DEF IInv, Counted
<1>4. Owned'
    BY <1>1 DEF IInv, Owned, Configurations
<1>5. Ready'
    BY <1>1 DEF IInv, Ready, ReadyFor, Uses, Configuring
<1> QED BY <1>2, <1>3, <1>4, <1>5 DEF IInv

LEMMA NextIInv == ASSUME UseAssumption, IInv, [Next]_vars PROVE IInv'
<1>1. CASE UNCHANGED vars \/ Over
    BY <1>1, StutterIInv DEF Over
<1>2. CASE SetConfiguration \/ ReloadDeletes \/ ReloadUnlocks
    BY <1>2, SetConfigurationIInv, ReloadDeletesIInv, ReloadUnlocksIInv
<1>3. ASSUME NEW r \in Requests,
             \/ Copy(r) \/ Increment(r) \/ Find(r) \/ Insert(r) \/ Merge(r) \/ Get(r)
             \/ TestLoaded(r) \/ Create(r) \/ SetOptions(r) \/ Load(r) \/ Return(r) \/ OpenDatabase(r)
             \/ Decrement(r) \/ DeleteLast(r)
      PROVE  IInv'
    BY <1>3, CopyIInv, IncrementIInv, FindIInv, InsertIInv, MergeIInv, GetIInv, TestLoadedIInv, CreateIInv,
       SetOptionsIInv, LoadIInv, ReturnIInv, OpenDatabaseIInv, DecrementIInv, DeleteLastIInv
<1> QED BY <1>1, <1>2, <1>3 DEF Next

LEMMA Inductive == ASSUME UseAssumption PROVE Spec => []IInv
<1>1. Init => IInv
    BY InitIInv
<1>2. IInv /\ [Next]_vars => IInv'
    BY NextIInv
<1> QED BY <1>1, <1>2, PTL DEF Spec

\* What a request has is alive: it is counted.
LEMMA Outlives == ASSUME UseAssumption, IInv PROVE ConfigurationOutlivesRequest
<1> SUFFICES ASSUME NEW r \in Requests, request[r].at \in Inside
             PROVE  /\ Here(r).deleted = 0
                    /\ request[r].manager # None => manager[request[r].manager].deleted = 0
    BY DEF ConfigurationOutlivesRequest
<1> DEFINE c == request[r].config
<1>1. c \in Configurations /\ r \in Holders(c)
    BY DEF IInv, Named, Holders
<1>2. Cardinality(Holders(c)) \in Nat /\ Cardinality(Holders(c)) # 0
    BY <1>1, Basics
<1>3. config[c].count # 0
    BY <1>1, <1>2 DEF IInv, Counted, CountedFor
<1>4. config[c].deleted = 0
    BY <1>1, <1>3 DEF IInv, Counted, CountedFor
<1>5. ASSUME request[r].manager # None PROVE manager[request[r].manager].deleted = 0
    <2>1. request[r].manager \in 1..Len(manager) /\ request[r].at = "serving"
        BY <1>5, NamedFacts DEF IInv, Named
    <2>2. manager[request[r].manager].config = c
        BY <2>1 DEF IInv, Owned
    <2> QED BY <1>4, <2>1, <2>2 DEF IInv, Owned
<1> QED BY <1>4, <1>5 DEF Here

\* A request has its configuration, and the manager of its module, until it is over,
\* whatever is reloaded meanwhile (ConfigurationOutlivesRequest).
THEOREM ConfigurationStaysAlive == ASSUME UseAssumption PROVE Spec => []ConfigurationOutlivesRequest
<1>1. IInv => ConfigurationOutlivesRequest
    BY Outlives
<1> QED BY <1>1, Inductive, PTL

\* A configuration lives as long as its requests and no longer, is deleted once, and gives
\* them managers that are ready (ConfigurationIsKept), for any number of requests and of
\* reloads.
THEOREM ConfigurationStaysKept == ASSUME UseAssumption PROVE Spec => []ConfigurationIsKept
<1>1. IInv => ConfigurationIsKept
    <2> SUFFICES ASSUME IInv PROVE ConfigurationIsKept
        OBVIOUS
    <2>1. TypeOK
        BY NamedFacts DEF TypeOK, IInv, Types, Named
    <2>2. ReplacedIsDeleted
        <3> SUFFICES ASSUME \A r \in Requests : request[r].at \in {"new", "gone"}, reload.at = "idle",
                            NEW k \in Configurations
                     PROVE  config[k].deleted = (IF k < current THEN 1 ELSE 0)
            BY DEF ReplacedIsDeleted
        <3>1. Holders(k) = {} /\ ~ReloadHas(k) /\ \A r \in Requests : ~Deletes(r, k)
            BY DEF Holders, Inside, ReloadHas, Deletes
        <3>2. Cardinality(Holders(k)) = 0
            BY <3>1, Basics
        <3>3. k < current => k # current
            BY Basics
        <3>4. k < current => config[k].count = 0
            BY <3>2, <3>3 DEF IInv, Counted, CountedFor
        <3> QED BY <3>1, <3>4 DEF IInv, Counted, CountedFor
    <2>3. ManagerIsReady
        BY DEF ManagerIsReady, Mine, IInv, Ready, ReadyFor
    <2>4. LoadedIsConfigured
        <3> SUFFICES ASSUME NEW m \in 1..Len(module), module[m].loaded, ~module[m].early,
                            \A r \in Requests : request[r].module = m => request[r].at \notin {"create", "configure", "load"}
                     PROVE  manager[module[m].manager].options
            BY NamedFacts DEF LoadedIsConfigured
        <3>1. \A r \in Requests : ~Configuring(r, m)
            BY DEF Configuring
        <3>2. module[m].manager # None
            BY DEF IInv, Ready, ReadyFor
        <3> QED BY <3>1, <3>2 DEF IInv, Ready, ReadyFor
    <2>5. PathIsStaleOnlyAfterReload
        <3> SUFFICES ASSUME NEW r \in Requests, request[r].at = "serving", request[r].opened # None,
                            manager[request[r].opened].deleted # 0,
                            manager[request[r].opened].config = request[r].config
                     PROVE  FALSE
            BY DEF PathIsStaleOnlyAfterReload
        <3>1. request[r].opened \in 1..Len(manager)
            BY NamedFacts DEF IInv, Named, None
        <3>2. config[request[r].config].deleted # 0
            BY <3>1 DEF IInv, Owned
        <3> QED BY <3>2, Outlives DEF ConfigurationOutlivesRequest, Inside, Here
    <2> QED BY <2>1, <2>2, <2>3, <2>4, <2>5, Outlives DEF ConfigurationIsKept
<1> QED BY <1>1, Inductive, PTL
=============================================================================
