----------------------------- MODULE SslSessions ------------------------------
(***************************************************************************)
(* modules/ssl: SSLNetwork.cpp and SSLNetworkManager.cpp, the SSL object   *)
(* that the two ends of a request share.                                   *)
(*                                                                         *)
(* The input module of a request makes the SSL and puts it in the          *)
(* manager's map under the descriptor; the output module finds it there,   *)
(* takes it out at ON_END and frees it when it is deleted.  Descriptors    *)
(* and addresses are used again.  The first getInstance makes the context  *)
(* without a lock, and listeners call it from several threads, once for    *)
(* each of the two modules of a request.                                   *)
(*                                                                         *)
(* The request of a connection that is kept is made by the task manager    *)
(* before the old one on its descriptor is deleted.  It only tests the     *)
(* context then, which the old one does not look at any more, so that both *)
(* are in the order of Arrive; where the test throws, the program ends,    *)
(* which is not modelled.                                                  *)
(***************************************************************************)
EXTENDS Naturals, FiniteSets, FiniteSetsExt

CONSTANTS
    Connections,   \* bound of this model: requests, one for each connection
    Sockets,       \* descriptors, in the order of the map
    Addresses,     \* bound of this model: where an SSL may be
    Nothing

VARIABLES
    request,   \* of each connection: where it is, its descriptor, if it has its input module, _ssl of both
    ssl,       \* SSLNetworkManager::_ssl
    used,      \* the addresses where there is an SSL
    ctx,       \* _ctx: who made it
    certified  \* the contexts that have a certificate and a key
vars == <<request, ssl, used, ctx, certified>>

Init ==
    /\ request = [c \in Connections |-> [at |-> "none", fd |-> Nothing, first |-> FALSE, in |-> Nothing, out |-> Nothing]]
    /\ ssl = [fd \in Sockets |-> Nothing] /\ used = {} /\ ctx = Nothing /\ certified = {}

At(c, a) == request[c].at = a
Goes(c, a) == request' = [request EXCEPT ![c].at = a]
Inside == {"test", "new", "certify", "ready", "serving", "ended", "broken"}
FdInUse(fd) == \E c \in Connections : request[c].at \in Inside /\ request[c].fd = fd

\* A connection on a descriptor that is free; its request asks for the modules.
Arrive(c, fd) ==
    /\ At(c, "none") /\ ~FdInUse(fd)
    /\ request' = [request EXCEPT ![c].at = "test", ![c].fd = fd]
    /\ UNCHANGED <<ssl, used, ctx, certified>>

\* getInstance returns: handleNewRequest asks for the input module, then for the
\* output module.
Returns(c) ==
    request' = [request EXCEPT ![c].at = IF request[c].first THEN "ready" ELSE "test", ![c].first = TRUE]

\* SSLNetworkManager::getInstance tests _ctx without a lock.
GetInstance(c) ==
    /\ At(c, "test") /\ IF ctx = Nothing THEN Goes(c, "new") ELSE Returns(c)
    /\ UNCHANGED <<ssl, used, ctx, certified>>

\* _initSsl: SSL_CTX_new is assigned before the certificate is read.
NewContext(c) ==
    /\ At(c, "new") /\ Goes(c, "certify") /\ ctx' = c
    /\ UNCHANGED <<ssl, used, certified>>

\* Mutant: the catch clause leaves _ctx as it is.
CertifyKeeps(c) ==
    /\ At(c, "certify") /\ UNCHANGED <<ssl, used, ctx>>
    /\ \/ Returns(c) /\ certified' = certified \cup {ctx}
       \/ Goes(c, "gone") /\ UNCHANGED certified

\* The certificate and the key go to the context that _ctx names now.  Without
\* one the library fails; the exception is the end of the connection.
Certify(c) ==
    /\ At(c, "certify") /\ UNCHANGED <<ssl, used>>
    /\ \/ /\ ctx # Nothing /\ Returns(c)
          /\ certified' = certified \cup {ctx} /\ UNCHANGED ctx
       \/ Goes(c, "gone") /\ ctx' = Nothing /\ UNCHANGED certified

\* Mutant: the map keeps what it had for the descriptor.
AddSslOnce(fd, a) == ssl' = [ssl EXCEPT ![fd] = IF @ = Nothing THEN a ELSE @]

addSsl(fd, a) == ssl' = [ssl EXCEPT ![fd] = a]

\* Mutant: every SSL that the manager knows of is taken out.
DelAll(a) == ssl' = [fd \in Sockets |-> Nothing]

\* delSsl takes out the first entry that has this address.
delSsl(a) ==
    LET holders == {fd \in Sockets : ssl[fd] = a} IN
    ssl' = IF holders = {} THEN ssl ELSE [ssl EXCEPT ![Min(holders)] = Nothing]

\* The first event of the input module: SSL_new, SSL_accept.  Without a
\* certificate, or with a client that fails, it throws, which breaks the chain;
\* nobody frees the SSL then.
Accept(c) ==
    /\ At(c, "ready")
    /\ \/ \E a \in Addresses \ used :
             /\ used' = used \cup {a}
             /\ \/ /\ ctx \in certified /\ addSsl(request[c].fd, a)
                   /\ request' = [request EXCEPT ![c].at = "serving", ![c].in = a]
                \/ request' = [request EXCEPT ![c].at = "broken", ![c].in = a] /\ UNCHANGED ssl
       \/ Goes(c, "broken") /\ UNCHANGED <<used, ssl>>
    /\ UNCHANGED <<ctx, certified>>

\* An event of the output module, ON_RESPONSE_DATA, ON_CAN_WRITE or ON_END: the
\* first one finds the SSL.
Found(c) == IF request[c].out = Nothing THEN ssl[request[c].fd] ELSE request[c].out
Respond(c) ==
    /\ At(c, "serving")
    /\ request' = [request EXCEPT ![c].out = Found(c), ![c].at = IF Found(c) = Nothing THEN "broken" ELSE @]
    /\ UNCHANGED <<ssl, used, ctx, certified>>

RespondEnd(c) ==
    /\ At(c, "serving")
    /\ request' = [request EXCEPT ![c].out = Found(c), ![c].at = IF Found(c) = Nothing THEN "broken" ELSE "ended"]
    /\ IF Found(c) = Nothing THEN UNCHANGED ssl ELSE delSsl(Found(c))
    /\ UNCHANGED <<used, ctx, certified>>

\* Mutant: the input module frees the SSL too.
DestroyTwice(c) ==
    /\ request[c].at \in {"ready", "serving", "ended", "broken"} /\ Goes(c, "gone")
    /\ used' = used \ {request[c].in, request[c].out}
    /\ UNCHANGED <<ssl, ctx, certified>>

\* The request is deleted, after its end or before: ~SSLNetwork of the output
\* module frees the SSL, whether or not it is still in the map; then the session
\* closes the descriptor.
Destroy(c) ==
    /\ request[c].at \in {"ready", "serving", "ended", "broken"} /\ Goes(c, "gone")
    /\ used' = used \ {request[c].out}
    /\ UNCHANGED <<ssl, ctx, certified>>

Over == (\A c \in Connections : At(c, "gone")) /\ UNCHANGED vars

Next ==
    \/ Over
    \/ \E c \in Connections :
          \/ \E fd \in Sockets : Arrive(c, fd)
          \/ GetInstance(c) \/ NewContext(c) \/ Certify(c) \/ Accept(c)
          \/ Respond(c) \/ RespondEnd(c) \/ Destroy(c)

Spec == Init /\ [][Next]_vars

-----------------------------------------------------------------------------
(* Properties.                                                              *)
Here(c) == request[c].at \in Inside

\* Type invariant.
TypeOK ==
    /\ used \subseteq Addresses /\ ctx \in Connections \cup {Nothing}
    /\ \A fd \in Sockets : ssl[fd] \in Addresses \cup {Nothing}

\* The two modules of a request have the same SSL, though the map keeps the
\* entries of requests that were over without ON_END, whose SSL is freed.
ModulesShareSsl ==
    \A c \in Connections : Here(c) /\ request[c].out # Nothing => request[c].out = request[c].in

\* An SSL that the output module is going to ask for is in the map, though
\* delSsl looks for an address, which an entry that was left may have as well.
EntryIsKept ==
    \A c \in Connections : At(c, "serving") => ssl[request[c].fd] = request[c].in

\* Every SSL is freed once: there is one for each request that made it and is
\* here, or whose output module never got it (those are never freed).
SslCount ==
    Cardinality(used) = Cardinality({c \in Connections :
        request[c].in # Nothing /\ (Here(c) \/ request[c].out = Nothing)})

\* A context that nobody is making any more is complete; only those that come
\* while the first one makes it can meet a context without a certificate.
ContextIsComplete ==
    (\A c \in Connections : request[c].at \notin {"new", "certify"}) /\ ctx # Nothing => ctx \in certified

\* Each request has the SSL of its own connection, complete, from its first module to
\* its last, and each SSL is freed once.
SslIsKept == TypeOK /\ ModulesShareSsl /\ EntryIsKept /\ SslCount /\ ContextIsComplete
=============================================================================
