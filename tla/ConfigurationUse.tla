--------------------------- MODULE ConfigurationUse ---------------------------
(***************************************************************************)
(* server/core/ConfigurationManager.hpp, server/utils/SmartPtr.hpp and     *)
(* server/configuration: who has the configuration, and how the requests   *)
(* make the manager of a module in it.                                     *)
(*                                                                         *)
(* A reload replaces the configuration while requests use the old one; the *)
(* last that lets go of it deletes it with its managers.  One module is    *)
(* modelled, of the root virtual host, with options that only the          *)
(* configuration as a whole has.  The map of the virtual host and the      *)
(* ModuleConfiguration have no lock: each access is a step.  The module    *)
(* keeps a static pointer to an option of its manager, as barbaz does.     *)
(* Its factory does not fail: a module without one has no manager and no   *)
(* part in any request.                                                    *)
(***************************************************************************)
EXTENDS Naturals, FiniteSets, Sequences

CONSTANTS
    Requests,
    Nobody,
    MaxConfigurations   \* bound of this model: loads

VARIABLES
    current,    \* ConfigurationManager::_configuration
    lock,       \* who has its mutex: a request, "reload" or Nobody
    config,     \* each configuration: SmartPtr's _count, if it is deleted, the vhost's _modules entry
    module,     \* the ModuleConfigurations, in the order they were made
    manager,    \* the module managers, in the order they were made
    request,    \* of each request: where it is and what it has
    path,       \* BarbazModuleManager's static path: the manager in whose options it is
    reload      \* where Server::reload is, and the configuration it takes off
vars == <<current, lock, config, module, manager, request, path, reload>>

None == 0
Configurations == 1..MaxConfigurations
New == [at |-> "new", config |-> None, module |-> None, manager |-> None, opened |-> None]
Gone == [New EXCEPT !.at = "gone"]
Init ==
    /\ current = 1 /\ lock = Nobody
    /\ config = [k \in Configurations |-> [count |-> IF k = 1 THEN 1 ELSE 0, deleted |-> 0, entry |-> None]]
    /\ module = <<>> /\ manager = <<>>
    /\ request = [r \in Requests |-> New]
    /\ path = None /\ reload = [at |-> "idle", old |-> None]

Goes(r, from, to) == request[r].at = from /\ request' = [request EXCEPT ![r].at = to]
Here(r) == config[request[r].config]
Mine(r) == module[request[r].module]

-----------------------------------------------------------------------------
(* ConfigurationManager.                                                    *)

\* Mutant: getConfiguration takes no mutex.
CopyUnlocked(r) ==
    /\ request[r].at = "new"
    /\ request' = [request EXCEPT ![r].at = "copy", ![r].config = current]
    /\ lock' = r
    /\ UNCHANGED <<current, config, module, manager, path, reload>>

\* getConfiguration: SmartPtr's copy takes the pointer, then counts.
Copy(r) ==
    /\ request[r].at = "new" /\ lock = Nobody /\ lock' = r
    /\ request' = [request EXCEPT ![r].at = "copy", ![r].config = current]
    /\ UNCHANGED <<current, config, module, manager, path, reload>>

Increment(r) ==
    /\ Goes(r, "copy", "find") /\ lock' = Nobody
    /\ config' = [config EXCEPT ![request[r].config].count = @ + 1]
    /\ UNCHANGED <<current, module, manager, path, reload>>

\* Deletes the configuration, its virtual hosts and their managers.
Delete(k) ==
    /\ config' = [config EXCEPT ![k].deleted = @ + 1]
    /\ manager' = IF config[k].entry = None \/ module[config[k].entry].manager = None THEN manager
                  ELSE [manager EXCEPT ![module[config[k].entry].manager].deleted = @ + 1]

\* setConfiguration, with the one that reload has read.
SetConfiguration ==
    /\ reload.at = "idle" /\ current < MaxConfigurations /\ lock = Nobody /\ lock' = "reload"
    /\ current' = current + 1
    /\ config' = [config EXCEPT ![current].count = @ - 1, ![current + 1].count = 1]
    /\ reload' = [at |-> IF config[current].count = 1 THEN "delete" ELSE "unlock", old |-> current]
    /\ UNCHANGED <<module, manager, request, path>>

ReloadDeletes ==
    /\ reload.at = "delete" /\ reload' = [reload EXCEPT !.at = "unlock"]
    /\ Delete(reload.old)
    /\ UNCHANGED <<current, lock, module, request, path>>

ReloadUnlocks ==
    /\ reload.at = "unlock" /\ reload' = [reload EXCEPT !.at = "idle"] /\ lock' = Nobody
    /\ UNCHANGED <<current, config, module, manager, request, path>>

-----------------------------------------------------------------------------
(* VHost::getModuleConfiguration, by Builder.                               *)
Has(r, m) == request' = [request EXCEPT ![r].at = "test", ![r].module = m]

\* Somebody has it before the options are in it.
Early(m) == module' = IF module[m].merged THEN module ELSE [module EXCEPT ![m].early = TRUE]

Find(r) ==
    /\ request[r].at = "find"
    /\ \/ Here(r).entry = None /\ Goes(r, "find", "insert") /\ UNCHANGED module
       \/ Here(r).entry # None /\ Has(r, Here(r).entry) /\ Early(Here(r).entry)
    /\ UNCHANGED <<current, lock, config, manager, path, reload>>

\* Whoever found nothing puts its own in the place of another's.
Insert(r) ==
    /\ Goes(r, "insert", "merge")
    /\ module' = Append(module, [merged |-> FALSE, early |-> FALSE, loaded |-> FALSE, manager |-> None, made |-> 0])
    /\ config' = [config EXCEPT ![request[r].config].entry = Len(module) + 1]
    /\ UNCHANGED <<current, lock, manager, path, reload>>

Merge(r) ==
    /\ Goes(r, "merge", "get")
    /\ module' = [module EXCEPT ![Here(r).entry].merged = TRUE]
    /\ UNCHANGED <<current, lock, config, manager, path, reload>>

Get(r) ==
    /\ request[r].at = "get" /\ Has(r, Here(r).entry) /\ Early(Here(r).entry)
    /\ UNCHANGED <<current, lock, config, manager, path, reload>>

-----------------------------------------------------------------------------
(* ModuleConfiguration::getModuleManager.                                   *)
TestLoaded(r) ==
    /\ Goes(r, "test", IF Mine(r).loaded THEN "return" ELSE "create")
    /\ UNCHANGED <<current, lock, config, module, manager, path, reload>>

\* Mutant: _loaded is set as soon as there is a manager.
CreateLoads(r) ==
    /\ Goes(r, "create", "configure")
    /\ manager' = Append(manager, [options |-> FALSE, deleted |-> 0, config |-> request[r].config])
    /\ module' = [module EXCEPT ![request[r].module].manager = Len(manager) + 1,
                                ![request[r].module].made = @ + 1, ![request[r].module].loaded = TRUE]
    /\ UNCHANGED <<current, lock, config, path, reload>>

\* The manager of another request that was in here is overwritten.
Create(r) ==
    /\ Goes(r, "create", "configure")
    /\ manager' = Append(manager, [options |-> FALSE, deleted |-> 0, config |-> request[r].config])
    /\ module' = [module EXCEPT ![request[r].module].manager = Len(manager) + 1,
                                ![request[r].module].made = @ + 1]
    /\ UNCHANGED <<current, lock, config, path, reload>>

\* Mutant: the options merged from the configuration are not given.
SetOptionsOwn(r) ==
    /\ Goes(r, "configure", "load")
    /\ UNCHANGED <<current, lock, config, module, manager, path, reload>>

\* _setConfiguration gives _manager what options there are now.
SetOptions(r) ==
    /\ Goes(r, "configure", "load")
    /\ manager' = [manager EXCEPT ![Mine(r).manager].options = @ \/ Mine(r).merged]
    /\ UNCHANGED <<current, lock, config, module, path, reload>>

Load(r) ==
    /\ Goes(r, "load", "return")
    /\ module' = [module EXCEPT ![request[r].module].loaded = TRUE]
    /\ UNCHANGED <<current, lock, config, manager, path, reload>>

\* getInstance: the request has a module of this manager.
Return(r) ==
    /\ request[r].at = "return"
    /\ request' = [request EXCEPT ![r].at = "serving", ![r].manager = Mine(r).manager]
    /\ UNCHANGED <<current, lock, config, module, manager, path, reload>>

\* BarbazModuleManager::getNewDBConnection: the first one sets the path for all.
OpenDatabase(r) ==
    /\ request[r].at = "serving" /\ request[r].opened = None
    /\ path' = IF path = None THEN request[r].manager ELSE path
    /\ request' = [request EXCEPT ![r].opened = path']
    /\ UNCHANGED <<current, lock, config, module, manager, reload>>

-----------------------------------------------------------------------------
(* ~Request: the modules first, then _configuration.                        *)

\* What the request had is not needed any more, but for the configuration it deletes.
\* One that its header ends comes here before Builder asks for a module.
Leaves(r, last) ==
    /\ request[r].at \in {"find", "serving"}
    /\ request' = [request EXCEPT ![r] =
                      IF last THEN [New EXCEPT !.at = "delete", !.config = request[r].config] ELSE Gone]

\* Mutant: one that is left counts as none.
DecrementEarly(r) ==
    /\ Leaves(r, Here(r).count <= 2)
    /\ config' = [config EXCEPT ![request[r].config].count = @ - 1]
    /\ UNCHANGED <<current, lock, module, manager, path, reload>>

Decrement(r) ==
    /\ Leaves(r, Here(r).count = 1)
    /\ config' = [config EXCEPT ![request[r].config].count = @ - 1]
    /\ UNCHANGED <<current, lock, module, manager, path, reload>>

DeleteLast(r) ==
    /\ request[r].at = "delete" /\ request' = [request EXCEPT ![r] = Gone] /\ Delete(request[r].config)
    /\ UNCHANGED <<current, lock, module, path, reload>>

Over == (\A r \in Requests : request[r].at = "gone") /\ UNCHANGED vars

Next ==
    \/ SetConfiguration \/ ReloadDeletes \/ ReloadUnlocks \/ Over
    \/ \E r \in Requests :
          \/ Copy(r) \/ Increment(r) \/ Find(r) \/ Insert(r) \/ Merge(r) \/ Get(r)
          \/ TestLoaded(r) \/ Create(r) \/ SetOptions(r) \/ Load(r) \/ Return(r) \/ OpenDatabase(r)
          \/ Decrement(r) \/ DeleteLast(r)

Spec == Init /\ [][Next]_vars

-----------------------------------------------------------------------------
(* Properties.                                                              *)
Inside == {"find", "insert", "merge", "get", "test", "create", "configure", "load", "return", "serving"}

\* Type invariant.
TypeOK ==
    /\ current \in Configurations /\ lock \in Requests \cup {"reload", Nobody}
    /\ \A k \in Configurations : config[k].entry \in 0..Len(module)
    /\ \A m \in DOMAIN module : module[m].manager \in 0..Len(manager)

\* A request has its configuration, and the manager that its module is going to be
\* given back to, until it is over, whatever is reloaded meanwhile.
ConfigurationOutlivesRequest ==
    \A r \in Requests : request[r].at \in Inside =>
        Here(r).deleted = 0 /\ (request[r].manager # None => manager[request[r].manager].deleted = 0)

\* When all requests of a configuration are over, it is deleted, once, if another
\* one has taken its place, and it is there for the next request if not.
ReplacedIsDeleted ==
    (\A r \in Requests : request[r].at \in {"new", "gone"}) /\ reload.at = "idle" =>
        \A k \in Configurations : config[k].deleted = (IF k < current THEN 1 ELSE 0)

\* A request is given a manager without its options only if somebody had the
\* module's configuration before it was merged, or if two requests made a manager
\* at once: the first of them has it loaded, the second has just put its own there.
ManagerIsReady ==
    \A r \in Requests : request[r].at = "serving" =>
        manager[request[r].manager].options \/ Mine(r).early \/ Mine(r).made > 1

\* The path that a request opens is in freed memory only after a reload: it was
\* that of a manager of another configuration.
PathIsStaleOnlyAfterReload ==
    \A r \in Requests : request[r].at = "serving" /\ request[r].opened # None =>
        manager[request[r].opened].deleted = 0 \/ manager[request[r].opened].config # request[r].config

\* Nobody is between the test and the load: then the manager that later requests get
\* has its options, even if two were made, unless somebody came before the merge.
LoadedIsConfigured ==
    \A m \in DOMAIN module :
        module[m].loaded /\ ~module[m].early
        /\ (\A r \in Requests : request[r].module = m => request[r].at \notin {"create", "configure", "load"})
            => manager[module[m].manager].options

\* A configuration lives as long as its requests and no longer, and gives them
\* managers that are ready.
ConfigurationIsKept ==
    /\ TypeOK /\ ConfigurationOutlivesRequest /\ ReplacedIsDeleted
    /\ ManagerIsReady /\ LoadedIsConfigured /\ PathIsStaleOnlyAfterReload
=============================================================================
