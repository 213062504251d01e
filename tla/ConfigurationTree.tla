--------------------------- MODULE ConfigurationTree --------------------------
(***************************************************************************)
(* server/parser and server/configuration: the tree of virtual hosts that  *)
(* is made of a file, which one a request gets, and the options that a     *)
(* module has there.                                                       *)
(*                                                                         *)
(* The file is read in its order: base modules, then the virtual hosts,    *)
(* one in the other.  One module name is modelled: mod_error or another.   *)
(* The value of an option is the number of the element that sets it (0:    *)
(* not set).  Requests ask one after the other; ConfigurationUse has what  *)
(* they do at once.                                                        *)
(*                                                                         *)
(* A port that names no io-module makes a configuration of mod_network     *)
(* before the base modules are read, the one that an enabled element       *)
(* without options would make (Configuration.cpp:97-100).                  *)
(*                                                                         *)
(* Builder asks for modules that the factory has, so that getModuleManager *)
(* disables none of them (ModuleConfiguration.cpp:62): that happens to the *)
(* io-module of a port, in the Configuration, and nobody asks a virtual    *)
(* host for that one.                                                      *)
(***************************************************************************)
EXTENDS Naturals, Sequences, FiniteSets, SequencesExt, FiniteSetsExt

CONSTANTS
    Keys,
    MaxVHosts, MaxElements   \* bounds of this model: virtual hosts, module elements

VARIABLES
    name,     \* of the module
    parser,   \* where the parser is, and the virtual hosts that are open
    vhost,    \* VHost, in the order they are opened; 0 stands for the Configuration
    base,     \* Configuration::_modules_configuration
    module,   \* ModuleConfiguration, in the order they are made, and which element it is of
    element,  \* the elements read: of which virtual host, their keys and enabled
    deleted,  \* the ModuleConfigurations deleted, once for each time
    match     \* what a request was given, and the virtual hosts whose guidelines accept it
vars == <<name, parser, vhost, base, module, element, deleted, match>>

None == 0
NoRequest == [vhost |-> None, accept |-> {}]
Unset == [k \in Keys |-> 0]
Made(options, enabled, e) == [options |-> options, enabled |-> enabled, element |-> e]

Init ==
    /\ name \in {"mod_error", "other"}
    /\ parser = [at |-> "modules", open |-> <<>>]
    /\ vhost = <<>> /\ base = None /\ module = <<>> /\ element = <<>> /\ deleted = <<>>
    /\ match = NoRequest

Own(keys) == [k \in Keys |-> IF k \in keys THEN Len(element) + 1 ELSE 0]
Element(v, keys, enabled) == Append(element, [vhost |-> v, keys |-> keys, enabled |-> enabled])

\* ModuleParser::parseModule for the configuration: an older one is deleted.
ParseBaseModule(keys, enabled) ==
    /\ parser.at = "modules" /\ Len(element) < MaxElements
    /\ element' = Element(None, keys, enabled)
    /\ module' = Append(module, Made(Own(keys), enabled, Len(element) + 1)) /\ base' = Len(module) + 1
    /\ deleted' = IF base = None THEN deleted ELSE Append(deleted, base)
    /\ UNCHANGED <<name, parser, vhost, match>>

OpenVHost ==
    /\ parser.at \in {"modules", "vhosts"} /\ Len(vhost) < MaxVHosts
    /\ parser.at = "vhosts" => parser.open # <<>>
    /\ LET parent == IF parser.open = <<>> THEN None ELSE Last(parser.open) IN
       vhost' = Append(vhost, [parent |-> parent, childs |-> <<>>, entry |-> None, opened |-> Len(element),
                               above |-> IF parent = None THEN {} ELSE vhost[parent].above \cup {parent}])
    /\ parser' = [at |-> "vhosts", open |-> Append(parser.open, Len(vhost) + 1)]
    /\ UNCHANGED <<name, base, module, element, deleted, match>>

\* addChild or setVHost, when the element is over.
CloseVHost ==
    /\ parser.at = "vhosts" /\ parser.open # <<>>
    /\ LET v == Last(parser.open)  parent == vhost[v].parent IN
       /\ vhost' = IF parent = None THEN vhost ELSE [vhost EXCEPT ![parent].childs = Append(@, v)]
       /\ parser' = [at |-> IF parent = None THEN "parsed" ELSE "vhosts", open |-> Front(parser.open)]
    /\ UNCHANGED <<name, base, module, element, deleted, match>>

-----------------------------------------------------------------------------
(* VHost::getModuleConfiguration                                            *)

\* The virtual hosts from v up that have no configuration of the module; the first
\* above them that has one, or None.
Having(v) == {a \in vhost[v].above \cup {v} : vhost[a].entry # None}
Nearest(v) == IF v = None \/ Having(v) = {} THEN None ELSE Max(Having(v))
Missing(v) == IF v = None THEN {} ELSE {a \in vhost[v].above \cup {v} : a > Nearest(v)}

\* Mutant: no module is enabled by default.
BaseDisabled(v) ==
    IF Nearest(v) # None THEN module[vhost[Nearest(v)].entry]
    ELSE IF base # None THEN module[base] ELSE Made(Unset, FALSE, 0)

\* The configuration makes one if it has none, and enables that of mod_error only.
BaseOf(v) ==
    IF Nearest(v) # None THEN module[vhost[Nearest(v)].entry]
    ELSE IF base # None THEN module[base] ELSE Made(Unset, name = "mod_error", 0)
MakesBase(v) == Nearest(v) = None /\ base = None

\* Every one that has none gets a copy, from the top down; then v has one.
Copies(v) ==
    LET news == (IF MakesBase(v) THEN {None} ELSE {}) \cup Missing(v) IN
    [modules |-> module \o [n \in 1 .. Cardinality(news) |-> [BaseOf(v) EXCEPT !.element = 0]],
     base    |-> IF MakesBase(v) THEN Len(module) + 1 ELSE base,
     vhosts  |-> [a \in DOMAIN vhost |->
                     IF a \in Missing(v) THEN [vhost[a] EXCEPT !.entry = Len(module) + Cardinality({b \in news : b <= a})]
                     ELSE vhost[a]]]

\* Mutant: what the parent says goes before what the element says.
MergeOver(own, parent) == [k \in Keys |-> IF parent[k] # 0 THEN parent[k] ELSE own[k]]

\* addModule merges before the options of the element are read, which override.
Merge(own, parent) == [k \in Keys |-> IF own[k] # 0 THEN own[k] ELSE parent[k]]

\* VHost::addModule: the new one takes the place of an older one before the parent
\* is asked.
ParseModule(keys, enabled) ==
    /\ parser.at = "vhosts" /\ parser.open # <<>> /\ Len(element) < MaxElements
    /\ LET v == Last(parser.open)
           parent == vhost[v].parent
           new == Copies(parent)
       IN  /\ element' = Element(v, keys, enabled)
           /\ module' = Append(new.modules, Made(Merge(Own(keys), BaseOf(parent).options), enabled, Len(element) + 1))
           /\ base' = new.base
           /\ vhost' = [new.vhosts EXCEPT ![v].entry = Len(module')]
    /\ UNCHANGED <<name, parser, deleted, match>>

\* An element is wrong: parse deletes the configuration, which has no virtual host
\* yet; those that are open, and what is in them, are lost.
Fail ==
    /\ parser.at \in {"modules", "vhosts"} /\ parser' = [parser EXCEPT !.at = "failed"]
    /\ deleted' = IF base = None THEN deleted ELSE Append(deleted, base)
    /\ UNCHANGED <<name, vhost, base, module, element, match>>

-----------------------------------------------------------------------------
(* Requests.                                                                *)
Root == 1

\* Mutant: the children are asked from the last to the first.
MatchLast(accept) ==
    LET in[v \in DOMAIN vhost] ==
        IF v \notin accept THEN None
        ELSE LET found == SelectSeq([i \in DOMAIN vhost[v].childs |-> in[vhost[v].childs[i]]], LAMBDA m : m # None)
             IN  IF found = <<>> THEN v ELSE Last(found)
    IN  in[Root]

\* VHost::match: the guidelines, then the children in their order.
Match(accept) ==
    LET in[v \in DOMAIN vhost] ==
        IF v \notin accept THEN None
        ELSE LET found == SelectSeq([i \in DOMAIN vhost[v].childs |-> in[vhost[v].childs[i]]], LAMBDA m : m # None)
             IN  IF found = <<>> THEN v ELSE Head(found)
    IN  in[Root]

\* Builder asks the virtual host for the module, unless one of its category before it
\* takes the request.
Request(accept) ==
    /\ parser.at = "parsed" /\ match = NoRequest
    /\ match' = [vhost |-> Match(accept), accept |-> accept]
    /\ \/ UNCHANGED <<vhost, base, module>>
       \/ /\ match'.vhost # None
          /\ LET new == Copies(match'.vhost) IN vhost' = new.vhosts /\ base' = new.base /\ module' = new.modules
    /\ UNCHANGED <<name, parser, element, deleted>>

\* Request::raiseError asks for mod_error in the configuration.
RaiseError ==
    /\ parser.at = "parsed" /\ name = "mod_error" /\ MakesBase(None)
    /\ base' = Copies(None).base /\ module' = Copies(None).modules
    /\ UNCHANGED <<name, parser, vhost, element, deleted, match>>

\* The request is over.
Forget ==
    /\ match # NoRequest /\ match' = NoRequest
    /\ UNCHANGED <<name, parser, vhost, base, module, element, deleted>>

\* Mutant: a virtual host deletes its children, not what they have.
EntriesOfRoot == {vhost[Root].entry, base} \ {None}

Entries == ({vhost[v].entry : v \in DOMAIN vhost} \cup {base}) \ {None}

\* ~Configuration, when no request uses it any more (ConfigurationUse).
Delete ==
    /\ parser.at = "parsed" /\ parser' = [parser EXCEPT !.at = "deleted"]
    /\ match = NoRequest
    /\ deleted' = deleted \o SetToSeq(Entries)
    /\ UNCHANGED <<name, vhost, base, module, element, match>>

Over == parser.at \in {"deleted", "failed"} /\ UNCHANGED vars

Next ==
    \/ OpenVHost \/ CloseVHost \/ Fail \/ RaiseError \/ Forget \/ Delete \/ Over
    \/ \E keys \in SUBSET Keys, enabled \in BOOLEAN : ParseBaseModule(keys, enabled) \/ ParseModule(keys, enabled)
    \/ \E accept \in SUBSET DOMAIN vhost : Request(accept)

Spec == Init /\ [][Next]_vars

-----------------------------------------------------------------------------
(* Properties.                                                              *)

\* What the file says of v, whatever its order: the last element of a virtual host
\* counts, and for what it does not set the nearest one above that sets it.
LastOf(v) ==
    LET es == {e \in DOMAIN element : element[e].vhost = v} IN IF es = {} THEN 0 ELSE Max(es)
Line(v) == vhost[v].above \cup {v, None}
Says(v, k) ==
    LET those == {a \in Line(v) : LastOf(a) # 0 /\ k \in element[LastOf(a)].keys} IN
    IF those = {} THEN 0 ELSE LastOf(Max(those))
SaysEnabled(v) ==
    LET those == {a \in Line(v) : LastOf(a) # 0} IN
    IF those = {} THEN name = "mod_error" ELSE element[LastOf(Max(those))].enabled

\* An element comes after a virtual host in the same one, which v is or is in.
Late(v) ==
    \E e \in DOMAIN element : \E a \in vhost[v].above :
        element[e].vhost = a /\ \E w \in vhost[v].above \cup {v} : vhost[w].parent = a /\ e > vhost[w].opened

\* Type invariant.
TypeOK ==
    /\ name \in {"mod_error", "other"}
    /\ \A v \in DOMAIN vhost : vhost[v].entry \in 0 .. Len(module) /\ vhost[v].parent < v
    /\ base \in 0 .. Len(module) /\ ToSet(deleted) \subseteq DOMAIN module
    /\ \A m \in DOMAIN module : module[m].options \in [Keys -> 0 .. Len(element)]

\* A module has the options that the file says, and is enabled as it says or as it is
\* where the file is silent, where an element of it is and where a request has asked
\* for it; unless an element further
\* up comes after the virtual host.
OptionsAreInherited ==
    \A v \in DOMAIN vhost : vhost[v].entry # None /\ ~Late(v) =>
        /\ \A k \in Keys : module[vhost[v].entry].options[k] = Says(v, k)
        /\ module[vhost[v].entry].enabled = SaysEnabled(v)

\* A request gets a virtual host that accepts it, as all above it do, and neither one
\* in it does nor one before it in the same virtual host.
MatchIsFirst ==
    parser.at = "parsed" /\ match.accept # {} =>
        LET v == match.vhost IN
        IF v = None THEN Root \notin match.accept
        ELSE /\ Line(v) \ {None} \subseteq match.accept
             /\ \A w \in match.accept : vhost[w].parent # v
             /\ \A a \in Line(v) \ {None}, w \in match.accept :
                    vhost[w].parent = vhost[a].parent => w >= a

\* A module configuration is deleted once with the configuration; left is one that
\* another took the place of: the file has the module again in the same virtual host,
\* or after one inside, for which a copy had been made.
DeletedOnce ==
    parser.at = "deleted" =>
        /\ IsInjective(deleted)
        /\ \A m \in DOMAIN module \ ToSet(deleted) :
              \/ module[m].element # 0
                 /\ \E e \in DOMAIN element : e > module[m].element /\ element[e].vhost = element[module[m].element].vhost
              \/ module[m].element = 0 /\ \E v \in DOMAIN vhost : Late(v)

\* The tree has what the file says, a request finds its place in it, and it is taken
\* down as it was built.
TreeIsTheFile == TypeOK /\ OptionsAreInherited /\ MatchIsFirst /\ DeletedOnce
=============================================================================
