------------------------------ MODULE CgiProcess ------------------------------
(***************************************************************************)
(* modules/cgi: CGI.cpp and UnixProcess.cpp, the processes that answer     *)
(* requests.                                                               *)
(*                                                                         *)
(* Each request has a child and two pipes, stdin and stdout.  A worker     *)
(* runs the module's events, one at a time: the body is written to the     *)
(* child; after ON_END the module asks to be called later, reads, and asks *)
(* waitpid for the child.  Whoever takes the request down closes the pipes *)
(* and waits for the child with the manager's mutex.  A child inherits all *)
(* that the server has open.                                               *)
(*                                                                         *)
(* The children are external: one writes its output and exits, reads its   *)
(* input to the end first (filter), or cannot be executed (fails); each    *)
(* may be killed.  The output is a sequence of units, of which s1 s2 is    *)
(* the empty line after the headers and "b" is body.                       *)
(***************************************************************************)
EXTENDS Naturals, Sequences, FiniteSets, SequencesExt

CONSTANTS
    Requests,
    Together,      \* bound of this model: the sets of requests that are there at one time
    Server,        \* the server process, as a holder of descriptors
    Output,        \* what the child of each request writes
    BodyParts,     \* the buffers of the body of each request
    PartSize, InSize, PipeSize, ReadSize   \* bounds: units of a buffer, of stdin, of stdout and of a read

VARIABLES
    cgi,         \* each module: where it is, _status, _end, _headers, and what it gave
    child,       \* each process
    stdin,       \* units in the pipe to the child
    stdout,      \* the units in the pipe from the child
    serverEnds,  \* who has the server's ends of the pipes open
    childEnds,   \* who has the child's ends open
    manager      \* who has the mutex of the module manager ({}: nobody)
vars == <<cgi, child, stdin, stdout, serverEnds, childEnds, manager>>

\* CGI::CGI and UnixProcess::UnixProcess; the events of a request start with the
\* body.
Module(r) == [at |-> "new", status |-> "STARTED", end |-> FALSE, headers |-> TRUE, given |-> <<>>,
              body |-> BodyParts[r], left |-> 0, later |-> FALSE, read |-> 0]

Init ==
    /\ \E present \in Together :
          cgi = [r \in Requests |-> IF r \in present THEN Module(r) ELSE [Module(r) EXCEPT !.at = "gone"]]
    /\ child = [r \in Requests |-> [state |-> "none", kind |-> "none", wrote |-> 0, reaped |-> FALSE, stolen |-> FALSE]]
    /\ stdin = [r \in Requests |-> 0] /\ stdout = [r \in Requests |-> <<>>]
    /\ serverEnds = [r \in Requests |-> {}] /\ childEnds = [r \in Requests |-> {}]
    /\ manager = {}

At(r, a) == cgi[r].at = a
Goes(r, a) == cgi' = [cgi EXCEPT ![r].at = a]
Alive(r) == child[r].state = "running"
Open(ends) == \E h \in ends : h = Server \/ (h \in Requests /\ Alive(h))
UnchangedPipes == UNCHANGED <<stdin, stdout, serverEnds, childEnds>>

-----------------------------------------------------------------------------
(* UnixProcess::create, by the first event.                                 *)
Pipes(r) ==
    /\ At(r, "new") /\ manager = {} /\ Goes(r, "piped")
    /\ serverEnds' = [serverEnds EXCEPT ![r] = {Server}]
    /\ childEnds' = [childEnds EXCEPT ![r] = {Server}]
    /\ UNCHANGED <<child, stdin, stdout, manager>>

\* fork: the child has what the server has open, but closes its own server's ends.
Fork(r) ==
    /\ At(r, "piped") /\ Goes(r, "forked")
    /\ \E kind \in {"plain", "filter"} \cup (IF Output[r] = <<>> THEN {} ELSE {"fails"}) :
          child' = [child EXCEPT ![r].state = "running", ![r].kind = kind]
    /\ serverEnds' = [s \in Requests |-> IF s # r /\ Server \in serverEnds[s] THEN serverEnds[s] \cup {r} ELSE serverEnds[s]]
    /\ childEnds' = [s \in Requests |-> IF Server \in childEnds[s] THEN childEnds[s] \cup {r} ELSE childEnds[s]]
    /\ UNCHANGED <<stdin, stdout, manager>>

Parent(r) ==
    /\ At(r, "forked") /\ cgi' = [cgi EXCEPT ![r].at = "idle", ![r].status = "RUN"]
    /\ childEnds' = [childEnds EXCEPT ![r] = @ \ {Server}]
    /\ UNCHANGED <<child, stdin, stdout, serverEnds, manager>>

(* ON_REQUEST_DATA: what select() finds no room for is dropped; write()     *)
(* blocks until all of the buffer is in the pipe, and fails when nobody can *)
(* read it: the exception leaves the chain of the request broken.           *)
Data(r) ==
    /\ At(r, "idle") /\ ~cgi[r].later /\ cgi[r].body > 0
    /\ IF stdin[r] = InSize /\ Open(childEnds[r])
       THEN cgi' = [cgi EXCEPT ![r].body = @ - 1]
       ELSE cgi' = [cgi EXCEPT ![r].body = @ - 1, ![r].at = "writing", ![r].left = PartSize]
    /\ UnchangedPipes /\ UNCHANGED <<child, manager>>

\* Mutant: what was written is not taken off.
WriteAgain(r) ==
    /\ At(r, "writing")
    /\ \/ ~Open(childEnds[r]) /\ Goes(r, "broken") /\ UNCHANGED stdin
       \/ /\ Open(childEnds[r]) /\ stdin[r] < InSize
          /\ stdin' = [stdin EXCEPT ![r] = @ + 1] /\ UNCHANGED cgi
    /\ UNCHANGED <<child, stdout, serverEnds, childEnds, manager>>

Write(r) ==
    /\ At(r, "writing")
    /\ \/ ~Open(childEnds[r]) /\ Goes(r, "broken") /\ UNCHANGED stdin
       \/ /\ Open(childEnds[r]) /\ stdin[r] < InSize
          /\ stdin' = [stdin EXCEPT ![r] = @ + 1]
          /\ cgi' = [cgi EXCEPT ![r].left = @ - 1, ![r].at = IF cgi[r].left = 1 THEN "idle" ELSE @]
    /\ UNCHANGED <<child, stdout, serverEnds, childEnds, manager>>

\* ON_END
End(r) ==
    /\ At(r, "idle") /\ ~cgi[r].later /\ cgi[r].body = 0
    /\ cgi' = [cgi EXCEPT ![r].later = TRUE]
    /\ UnchangedPipes /\ UNCHANGED <<child, manager>>

-----------------------------------------------------------------------------
(* ON_IDLE                                                                  *)
Idle(r) ==
    /\ At(r, "idle") /\ cgi[r].later /\ Goes(r, "reading")
    /\ UnchangedPipes /\ UNCHANGED <<child, manager>>

Separator(units) == {i \in 1 .. (Len(units) - 1) : units[i] = "s1" /\ units[i + 1] = "s2"}

\* Mutant: the second unit of the empty line is not passed.
ExtractEarly(m, units) ==
    IF ~m.headers THEN [m EXCEPT !.given = @ \o units]
    ELSE IF Separator(units) = {} THEN m
    ELSE [m EXCEPT !.headers = FALSE, !.given = @ \o SubSeq(units, Min(Separator(units)) + 1, Len(units))]

\* _extractHeaders looks at this read alone: what comes before the empty line is
\* not data, and a read without it is dropped.
Extract(m, units) ==
    IF ~m.headers THEN [m EXCEPT !.given = @ \o units]
    ELSE IF Separator(units) = {} THEN m
    ELSE [m EXCEPT !.headers = FALSE, !.given = @ \o SubSeq(units, Min(Separator(units)) + 2, Len(units))]

\* read: only select() keeps it from blocking, and it is not asked once the
\* process is FINISHED.
Read(r) ==
    LET n == Min({Len(stdout[r]), ReadSize}) IN
    /\ At(r, "reading")
    /\ n > 0 \/ cgi[r].status # "FINISHED" \/ ~Open(childEnds[r])
    /\ cgi' = [cgi EXCEPT ![r] = [Extract(@, SubSeq(stdout[r], 1, n)) EXCEPT !.at = "polling", !.read = n]]
    /\ stdout' = [stdout EXCEPT ![r] = SubSeq(@, n + 1, Len(@))]
    /\ UNCHANGED <<child, stdin, serverEnds, childEnds, manager>>

\* waitpid has something to tell of r's child.
Waitable(r) == child[r].state \in {"exited", "killed"} /\ ~child[r].reaped

\* The answers of getStatus: when waitpid has nothing to tell, status is not
\* written and WIFEXITED reads an uninitialised variable.
Status(r) ==
    IF cgi[r].status = "FINISHED" THEN {"FINISHED"}
    ELSE IF Waitable(r) THEN {IF child[r].state = "exited" THEN "FINISHED" ELSE "RUN"}
    ELSE {"RUN", "FINISHED"}

\* Mutant: _end is kept when something was read.
PollEarly(r) ==
    /\ At(r, "polling")
    /\ \/ cgi[r].end /\ Goes(r, "ended") /\ UNCHANGED child
       \/ /\ ~cgi[r].end
          /\ \E status \in Status(r) :
                cgi' = [cgi EXCEPT ![r].at = "idle", ![r].status = status, ![r].end = (status = "FINISHED")]
          /\ child' = [child EXCEPT ![r].reaped = @ \/ (cgi[r].status # "FINISHED" /\ Waitable(r))]
    /\ UnchangedPipes /\ UNCHANGED manager

\* Mutant: _end is not set.
PollForgets(r) ==
    /\ At(r, "polling")
    /\ \E status \in Status(r) : cgi' = [cgi EXCEPT ![r].at = "idle", ![r].status = status]
    /\ child' = [child EXCEPT ![r].reaped = @ \/ (cgi[r].status # "FINISHED" /\ Waitable(r))]
    /\ UnchangedPipes /\ UNCHANGED manager

\* The rest of _processOnIdle, and the status of the child.
Poll(r) ==
    /\ At(r, "polling")
    /\ \/ cgi[r].end /\ cgi[r].read = 0 /\ Goes(r, "ended") /\ UNCHANGED child
       \/ /\ ~(cgi[r].end /\ cgi[r].read = 0)
          /\ \E status \in Status(r) :
                cgi' = [cgi EXCEPT ![r].at = "idle", ![r].status = status, ![r].end = (status = "FINISHED")]
          /\ child' = [child EXCEPT ![r].reaped = @ \/ (cgi[r].status # "FINISHED" /\ Waitable(r))]
    /\ UnchangedPipes /\ UNCHANGED manager

-----------------------------------------------------------------------------
(* ~UnixProcess, when the request is over, its client has gone or create has *)
(* failed (raiseError puts the error module in this one's place); no other  *)
(* event of the request is being handled.                                   *)
Alone(r) == cgi[r].at \in {"new", "piped"}
Leaves(r, to) == cgi' = [cgi EXCEPT ![r] = [Module(r) EXCEPT !.at = to]]

\* Mutant: the pipes stay open.
DestroyOpen(r) ==
    /\ cgi[r].at \in {"new", "piped", "idle", "ended", "broken"} /\ manager = {} /\ manager' = {r}
    /\ Leaves(r, IF Alone(r) THEN "waiting" ELSE "destroying")
    /\ UNCHANGED <<child, stdin, stdout, serverEnds, childEnds>>

Destroy(r) ==
    /\ cgi[r].at \in {"new", "piped", "idle", "ended", "broken"} /\ manager = {} /\ manager' = {r}
    /\ Leaves(r, IF Alone(r) THEN "waiting" ELSE "destroying")
    /\ serverEnds' = [serverEnds EXCEPT ![r] = @ \ {Server}]
    /\ UNCHANGED <<child, stdin, stdout, childEnds>>

Gone(r) == Goes(r, "gone") /\ manager' = {}

WaitOwn(r) ==
    /\ At(r, "destroying") /\ (Waitable(r) \/ child[r].reaped)
    /\ Gone(r) /\ child' = [child EXCEPT ![r].reaped = TRUE]
    /\ UnchangedPipes

\* No process was created: _pid was never written.  It names nobody, or it is 0
\* and any child will do.
WaitAny(r) ==
    /\ At(r, "waiting") /\ Gone(r)
    /\ \/ UNCHANGED child
       \/ \E s \in Requests : Waitable(s) /\ child' = [child EXCEPT ![s].reaped = TRUE, ![s].stolen = TRUE]
    /\ UnchangedPipes

-----------------------------------------------------------------------------
(* The children.                                                            *)
Target(r) == IF child[r].kind = "fails" THEN 0 ELSE Len(Output[r])
Becomes(r, s) == child' = [child EXCEPT ![r].state = s]
InputOver(r) == stdin[r] = 0 /\ ~Open(serverEnds[r])

ChildReads(r) ==
    /\ Alive(r) /\ child[r].kind = "filter" /\ stdin[r] > 0
    /\ stdin' = [stdin EXCEPT ![r] = @ - 1]
    /\ UNCHANGED <<cgi, child, stdout, serverEnds, childEnds, manager>>

ChildWrites(r) ==
    /\ Alive(r) /\ child[r].wrote < Target(r)
    /\ IF Open(serverEnds[r])
       THEN /\ Len(stdout[r]) < PipeSize
            /\ stdout' = [stdout EXCEPT ![r] = Append(@, Output[r][child[r].wrote + 1])]
            /\ child' = [child EXCEPT ![r].wrote = @ + 1]
       ELSE Becomes(r, "killed") /\ UNCHANGED stdout
    /\ UNCHANGED <<cgi, stdin, serverEnds, childEnds, manager>>

ChildExits(r) ==
    /\ Alive(r) /\ child[r].wrote = Target(r) /\ (child[r].kind = "filter" => InputOver(r))
    /\ Becomes(r, "exited")
    /\ UnchangedPipes /\ UNCHANGED <<cgi, manager>>

ChildIsKilled(r) ==
    /\ Alive(r) /\ Becomes(r, "killed")
    /\ UnchangedPipes /\ UNCHANGED <<cgi, manager>>

Over == (\A r \in Requests : At(r, "gone")) /\ UNCHANGED vars

Next ==
    \/ Over
    \/ \E r \in Requests :
          \/ Pipes(r) \/ Fork(r) \/ Parent(r) \/ Data(r) \/ Write(r) \/ End(r) \/ Idle(r) \/ Read(r) \/ Poll(r)
          \/ Destroy(r) \/ WaitOwn(r) \/ WaitAny(r)
          \/ ChildReads(r) \/ ChildWrites(r) \/ ChildExits(r) \/ ChildIsKilled(r)

Worker(r) == Pipes(r) \/ Fork(r) \/ Parent(r) \/ Data(r) \/ Write(r) \/ End(r) \/ Idle(r) \/ Read(r) \/ Poll(r)
Destructor(r) == WaitOwn(r) \/ WaitAny(r)
Child(r) == ChildReads(r) \/ ChildWrites(r) \/ ChildExits(r)

Spec == Init /\ [][Next]_vars
FairSpec == Spec /\ \A r \in Requests : WF_vars(Worker(r)) /\ WF_vars(Destructor(r)) /\ WF_vars(Child(r))

-----------------------------------------------------------------------------
(* Properties.                                                              *)

\* Type invariant.
TypeOK ==
    /\ \A r \in Requests :
          /\ cgi[r].status \in {"STARTED", "RUN", "FINISHED"} /\ cgi[r].left \in 0..PartSize
          /\ stdin[r] \in 0..InSize /\ Len(stdout[r]) \in 0..PipeSize
          /\ childEnds[r] \cup serverEnds[r] \subseteq Requests \cup {Server}
    /\ manager \subseteq Requests /\ Cardinality(manager) <= 1

\* The module ends the answer only when nothing more can come: FINISHED, which
\* may be garbage or come while the pipe is full, is not enough.
EndIsEndOfOutput ==
    \A r \in Requests : At(r, "ended") => stdout[r] = <<>> /\ ~Open(childEnds[r])

\* Then all that the child wrote after an empty line was given, once and in order, if
\* one read had the whole of that line.
GivenIsBody ==
    \A r \in Requests :
        LET wrote == SubSeq(Output[r], 1, child[r].wrote) IN
        At(r, "ended") =>
            IF cgi[r].headers THEN cgi[r].given = <<>>
            ELSE \E i \in Separator(wrote) : cgi[r].given = SubSeq(wrote, i + 2, Len(wrote))

\* A request whose child has exited is ended, unless another child has its pipe or
\* somebody else's destructor has waited for it.
ExitEndsRequest ==
    \A r \in Requests :
        (child[r].state = "exited" /\ cgi[r].later)
            ~> \/ cgi[r].at \in {"ended", "destroying", "gone"}
               \/ child[r].stolen \/ \E s \in childEnds[r] \ {r, Server} : Alive(s)

\* The thread that destroys a process comes back, unless a child of another
\* request has the pipes that it has closed.
DestructorEnds ==
    \A r \in Requests :
        At(r, "destroying") ~> (At(r, "gone") \/ \E s \in serverEnds[r] \ {Server} : Alive(s))

\* A worker that writes the body comes back, unless the child waits for it to
\* read what it has written, or does not read, or a sibling has the child's end.
WriteEnds ==
    \A r \in {r \in Requests : BodyParts[r] > 0} :
        At(r, "writing") ~> \/ ~At(r, "writing") \/ Len(stdout[r]) = PipeSize
                            \/ \E s \in childEnds[r] \ {r, Server} : Alive(s)

\* The answer is the body of what the child wrote, to its end.
CgiAnswerIsWhole == TypeOK /\ EndIsEndOfOutput /\ GivenIsBody

\* Nobody who works for a request waits for its child for ever.
CgiEnds == ExitEndsRequest /\ DestructorEnds /\ WriteEnds
=============================================================================
