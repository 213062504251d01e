------------------------------- MODULE UserStore ------------------------------
(***************************************************************************)
(* modules/barbaz: broker/Users.cpp and traversal/{Login,Subscribe}.cpp on *)
(* sqlite/Cursor.cpp, the accounts and sessions of the users.              *)
(*                                                                         *)
(* A request has a connection of its own and no transaction.  A cursor     *)
(* keeps what it executes pending until somebody asks for the result, the  *)
(* next execute or its own end; the last two ignore what came of it.       *)
(*                                                                         *)
(* SQLite is external: a statement is atomic, and is told that the         *)
(* database is busy when another connection still reads, or by chance      *)
(* when another is at work; nothing keeps an email from two users (the     *)
(* schema is not in the repository).  There is one email; passwords are    *)
(* right.                                                                  *)
(***************************************************************************)
EXTENDS Naturals, FiniteSets

CONSTANTS Clients   \* bound of this model: requests; the hash of a session is its request

VARIABLES
    users,     \* how many rows users has; the id of a row is its number
    auth,      \* the users of auth_local
    sessions,  \* the pairs of a user and a hash
    conn,      \* each request, its connection and its cursors
    aborted    \* an assertion has failed
vars == <<users, auth, sessions, conn, aborted>>

Nothing == [op |-> "none", id |-> 0]
Closed == [at |-> "new", does |-> "none", id |-> 0, reading |-> FALSE, pending |-> Nothing,
           answer |-> "none", busy |-> FALSE, raced |-> FALSE]
Init ==
    /\ users = 0 /\ auth = {} /\ sessions = {} /\ aborted = FALSE
    /\ conn = [c \in Clients |-> Closed]

At(c, a) == conn[c].at = a
Becomes(c, r) == conn' = [conn EXCEPT ![c] = r]
Others(c) == {d \in Clients \ {c} : conn[d].at \notin {"new", "gone"}}
MayBeBusy(c) == Others(c) # {}
MustBeBusy(c) == \E d \in Others(c) : conn[d].reading
UnchangedTables == UNCHANGED <<users, auth, sessions>>

\* Statement::step, for the statements that write.
Write(c, s) ==
    /\ ~MustBeBusy(c)
    /\ users' = IF s.op = "insertUser" THEN users + 1 ELSE users
    /\ auth' = IF s.op = "insertAuth" THEN auth \cup {s.id} ELSE auth
    /\ sessions' = CASE s.op = "insertSession" -> sessions \cup {<<s.id, c>>}
                     [] s.op = "deleteSessions" -> {p \in sessions : p[1] # s.id}
                     [] OTHER -> sessions
Busy(c) == MayBeBusy(c) /\ UnchangedTables

\* hasData throws if the database is busy; the connection is closed on the way.
Throws(c) == Busy(c) /\ Becomes(c, [conn[c] EXCEPT !.at = "close", !.answer = "exception", !.busy = TRUE])

\* hasData leaves the statement open if there is a row, else finalizes it.
Reads(c, row) == UnchangedTables /\ Becomes(c, [row EXCEPT !.at = "close", !.answer = "error"])

-----------------------------------------------------------------------------
(* Subscribe::new_account                                                   *)
IsUserExists(c) ==
    /\ At(c, "new") /\ ~aborted /\ UNCHANGED aborted
    /\ \/ users > 0 /\ Reads(c, [Closed EXCEPT !.does = "subscribe", !.reading = TRUE])
       \/ users = 0 /\ UnchangedTables /\ Becomes(c, [Closed EXCEPT !.does = "subscribe", !.at = "register"])
       \/ Throws(c)

\* registerUser: lastrowid steps the first INSERT, and is 0 if that did not go; the
\* second INSERT stays pending.
RegisterUser(c) ==
    /\ At(c, "register") /\ ~aborted
    /\ \/ /\ Write(c, [op |-> "insertUser", id |-> 0]) /\ UNCHANGED aborted
          /\ Becomes(c, [conn[c] EXCEPT !.at = "close", !.answer = "success", !.id = users',
                                        !.pending = [op |-> "insertAuth", id |-> users']])
       \/ Busy(c) /\ aborted' = TRUE /\ UNCHANGED conn

-----------------------------------------------------------------------------
(* Login::login and Login::loginWithHash                                    *)
Authenticate(c) ==
    /\ At(c, "new") /\ ~aborted /\ UNCHANGED aborted
    /\ \/ users = 0 /\ Reads(c, [Closed EXCEPT !.does = "login"])
       \/ users > 0 /\ UnchangedTables
          /\ Becomes(c, [Closed EXCEPT !.does = "login", !.at = "password", !.id = 1, !.reading = TRUE])
       \/ Throws(c)

\* The second execute finalizes the first statement.
CheckPassword(c) ==
    /\ At(c, "password") /\ ~aborted /\ UNCHANGED aborted
    /\ \/ conn[c].id \notin auth /\ Reads(c, [conn[c] EXCEPT !.reading = FALSE])
       \/ conn[c].id \in auth /\ UnchangedTables /\ Becomes(c, [conn[c] EXCEPT !.at = "renew"])
       \/ Throws(c)

GetUserIdFromHash(c, does) ==
    /\ At(c, "new") /\ ~aborted /\ UNCHANGED aborted
    /\ \/ \E p \in sessions : UnchangedTables
             /\ Becomes(c, [Closed EXCEPT !.does = does, !.id = p[1], !.reading = TRUE,
                                          !.at = IF does = "logout" THEN "user" ELSE "renew"])
       \/ Reads(c, [Closed EXCEPT !.does = does])
       \/ Throws(c)

Renewing(c) == {d \in Others(c) : conn[d].pending = [op |-> "insertSession", id |-> conn[c].id]}

\* Mutant: the second execute forgets what the first has left pending.
RenewForgets(c) ==
    /\ At(c, "renew") /\ ~aborted /\ UNCHANGED aborted
    /\ Becomes(c, [conn[c] EXCEPT !.at = "close", !.answer = "success",
                                  !.pending = [op |-> "insertSession", id |-> conn[c].id]])
    /\ UnchangedTables

\* Mutant: the INSERT comes first.
RenewSwapped(c) ==
    /\ At(c, "renew") /\ ~aborted /\ UNCHANGED aborted
    /\ \E busy \in BOOLEAN :
          /\ IF busy THEN Busy(c) ELSE Write(c, [op |-> "insertSession", id |-> conn[c].id])
          /\ Becomes(c, [conn[c] EXCEPT !.at = "close", !.answer = "success", !.busy = busy,
                                        !.raced = Renewing(c) # {},
                                        !.pending = [op |-> "deleteSessions", id |-> conn[c].id]])

\* renewSessionHash: the second execute steps the DELETE, whatever comes of it; the
\* INSERT stays pending.
RenewSessionHash(c) ==
    /\ At(c, "renew") /\ ~aborted /\ UNCHANGED aborted
    /\ \E busy \in BOOLEAN :
          /\ IF busy THEN Busy(c) ELSE Write(c, [op |-> "deleteSessions", id |-> conn[c].id])
          /\ Becomes(c, [conn[c] EXCEPT !.at = "close", !.answer = "success", !.busy = busy,
                                        !.raced = Renewing(c) # {},
                                        !.pending = [op |-> "insertSession", id |-> conn[c].id]])

-----------------------------------------------------------------------------
(* Login::logout: getUser has a connection of its own, which is closed before the *)
(* second one deletes.                                                      *)
GetUser(c) ==
    /\ At(c, "user") /\ ~aborted /\ UNCHANGED aborted
    /\ \/ UnchangedTables
          /\ Becomes(c, [conn[c] EXCEPT !.at = "close", !.answer = "success", !.reading = FALSE,
                                        !.pending = [op |-> "deleteSessions", id |-> conn[c].id]])
       \/ Throws(c)

-----------------------------------------------------------------------------
(* Connection::close deletes the cursors in the order they were made: the one that *)
(* reads first.                                                             *)
CloseReading(c) ==
    /\ At(c, "close") /\ ~aborted /\ UNCHANGED aborted
    /\ Becomes(c, [conn[c] EXCEPT !.at = IF conn[c].pending = Nothing THEN "gone" ELSE "step", !.reading = FALSE])
    /\ UnchangedTables

\* Mutant: what is pending is given up.
CloseForgets(c) ==
    /\ At(c, "step") /\ ~aborted /\ UNCHANGED aborted
    /\ Becomes(c, [conn[c] EXCEPT !.at = "gone", !.pending = Nothing])
    /\ UnchangedTables

\* ~Cursor steps what is pending, and does not look at the result.
ClosePending(c) ==
    /\ At(c, "step") /\ ~aborted /\ UNCHANGED aborted
    /\ \E busy \in BOOLEAN :
          /\ IF busy THEN Busy(c) ELSE Write(c, conn[c].pending)
          /\ Becomes(c, [conn[c] EXCEPT !.at = "gone", !.pending = Nothing, !.busy = @ \/ busy])

Over == (aborted \/ \A c \in Clients : At(c, "gone")) /\ UNCHANGED vars

Next ==
    \/ Over
    \/ \E c \in Clients :
          \/ IsUserExists(c) \/ RegisterUser(c) \/ Authenticate(c) \/ CheckPassword(c)
          \/ GetUserIdFromHash(c, "login") \/ GetUserIdFromHash(c, "logout")
          \/ RenewSessionHash(c) \/ GetUser(c) \/ CloseReading(c) \/ ClosePending(c)

Spec == Init /\ [][Next]_vars

-----------------------------------------------------------------------------
(* Properties.                                                              *)

\* Type invariant.
TypeOK ==
    /\ users \in 0 .. Cardinality(Clients) /\ auth \subseteq 1..users
    /\ sessions \subseteq (1..users) \X Clients
    /\ \A c \in Clients : conn[c].id \in 0..users

\* The account of who was told that it is made has its password, unless the
\* database was busy when the connection closed, which nobody is told.
RegisteredIsComplete ==
    \A c \in Clients :
        At(c, "gone") /\ conn[c].does = "subscribe" /\ conn[c].answer = "success" =>
            conn[c].id \in auth \/ conn[c].busy

\* The hash that a login answered is that of a session, unless the database was busy
\* or another request has put its own in its place or ended the session.
AnsweredHashIsStored ==
    \A c \in Clients :
        At(c, "gone") /\ conn[c].does = "login" /\ conn[c].answer = "success" =>
            \/ <<conn[c].id, c>> \in sessions \/ conn[c].busy
            \/ \E d \in Clients \ {c} : conn[d].id = conn[c].id /\ conn[d].does # "subscribe" /\ conn[d].answer = "success"

\* Between requests a user has one session at most, unless the database was busy or
\* two logins deleted before either had inserted.
OneSession ==
    (\A c \in Clients : conn[c].at \in {"new", "gone"}) =>
        \A id \in 1..users :
            \/ Cardinality({p \in sessions : p[1] = id}) <= 1
            \/ \E c \in Clients : conn[c].id = id /\ (conn[c].busy \/ conn[c].raced)

\* What a client was told of its account and of its session is in the tables.
AccountsAreKept == TypeOK /\ RegisteredIsComplete /\ AnsweredHashIsStored /\ OneSession
=============================================================================
