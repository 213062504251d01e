---------------------------- MODULE SelectSelector ----------------------------
(***************************************************************************)
(* server/socket/BasicSocketSelector.cpp, the selector of the socket pool  *)
(* where there is no epoll.                                                *)
(*                                                                         *)
(* The socket pool's thread copies the registered descriptors, sleeps in   *)
(* select() and notifies; other threads register, and write to a pair of   *)
(* sockets so that it wakes up and copies again.  Of the two events of a   *)
(* descriptor there is one, "ready".                                       *)
(***************************************************************************)
EXTENDS Naturals, FiniteSets, FiniteSetsExt

CONSTANTS
    Fds,          \* the descriptors, without those of the selector
    FD_SETSIZE,   \* the first descriptor that is too large is one less
    MaxBytes,     \* bound of this model: bytes that wait in the pair of sockets
    Nobody

Interrupt == 0    \* _read_interrupt_socket

VARIABLES
    fdlist,     \* _fdlist
    mutex,      \* the descriptor for which somebody has _mutex, or Nobody
    selector,   \* where the thread is, its copy of the list, what is left of it, and the sets
    pipe,       \* bytes written to _write_interrupt_socket
    ready,      \* the descriptors that are ready
    refused,    \* the registered descriptors that were told HAS_ERROR
    signalled   \* select() was interrupted by a signal (at most once)
vars == <<fdlist, mutex, selector, pipe, ready, refused, signalled>>

Init ==
    /\ fdlist = {} /\ mutex = Nobody /\ pipe = 0 /\ ready = {} /\ refused = {} /\ signalled = FALSE
    /\ selector = [at |-> "copy", copy |-> {}, todo |-> {}, sets |-> {}]

At(a) == selector.at = a

-----------------------------------------------------------------------------
(* The threads that register.                                               *)
RegisterInserts(fd) ==
    /\ fd \notin fdlist /\ mutex = Nobody /\ mutex' = fd /\ pipe < MaxBytes
    /\ fdlist' = fdlist \cup {fd}
    /\ UNCHANGED <<selector, pipe, ready, refused, signalled>>

\* Mutant: only a thread that sleeps is woken up.
RegisterInterruptsSleeper ==
    /\ mutex # Nobody /\ mutex' = Nobody
    /\ pipe' = IF At("select") THEN pipe + 1 ELSE pipe
    /\ UNCHANGED <<fdlist, selector, ready, refused, signalled>>

RegisterInterrupts ==
    /\ mutex # Nobody /\ mutex' = Nobody /\ pipe' = pipe + 1
    /\ UNCHANGED <<fdlist, selector, ready, refused, signalled>>

\* unregisterFileDescriptor does not wake the thread up.
Unregister(fd) ==
    /\ fd \in fdlist /\ mutex = Nobody
    /\ fdlist' = fdlist \ {fd} /\ refused' = refused \ {fd}
    /\ UNCHANGED <<mutex, selector, pipe, ready, signalled>>

\* The peer sends; whoever has the socket, which is not registered then, reads.
Arrives(fd) ==
    /\ fd \notin ready /\ ready' = ready \cup {fd}
    /\ UNCHANGED <<fdlist, mutex, selector, pipe, refused, signalled>>
Consume(fd) ==
    /\ fd \in ready \ fdlist /\ ready' = ready \ {fd}
    /\ UNCHANGED <<fdlist, mutex, selector, pipe, refused, signalled>>

-----------------------------------------------------------------------------
(* watchSockets                                                             *)
Copy ==
    /\ At("copy") /\ mutex = Nobody
    /\ selector' = [at |-> "prepare", copy |-> fdlist, todo |-> fdlist, sets |-> {Interrupt}]
    /\ UNCHANGED <<fdlist, mutex, pipe, ready, refused, signalled>>

\* _prepareSockets, in the order of the descriptors; the handler that is told
\* HAS_ERROR may unregister.
Prepare ==
    /\ At("prepare") /\ selector.todo # {}
    /\ LET fd == Min(selector.todo) IN
          \/ /\ fd < FD_SETSIZE - 1
             /\ selector' = [selector EXCEPT !.todo = @ \ {fd}, !.sets = @ \cup {fd}]
             /\ UNCHANGED <<fdlist, refused>>
          \/ /\ fd >= FD_SETSIZE - 1 /\ mutex = Nobody
             /\ selector' = [selector EXCEPT !.todo = @ \ {fd}]
             /\ \/ fd \in fdlist /\ refused' = refused \cup {fd} /\ UNCHANGED fdlist
                \/ fdlist' = fdlist \ {fd} /\ refused' = refused \ {fd}
    /\ UNCHANGED <<mutex, pipe, ready, signalled>>

Prepared ==
    /\ At("prepare") /\ selector.todo = {} /\ selector' = [selector EXCEPT !.at = "select"]
    /\ UNCHANGED <<fdlist, mutex, pipe, ready, refused, signalled>>

Reported == (selector.sets \cap ready) \cup {f \in {Interrupt} : pipe > 0}

\* Mutant: select() is given copies of the sets.
SelectCopies ==
    /\ At("select") /\ Reported # {} /\ selector' = [selector EXCEPT !.at = "interrupt"]
    /\ UNCHANGED <<fdlist, mutex, pipe, ready, refused, signalled>>

Select ==
    /\ At("select") /\ Reported # {} /\ selector' = [selector EXCEPT !.at = "interrupt", !.sets = Reported]
    /\ UNCHANGED <<fdlist, mutex, pipe, ready, refused, signalled>>

\* EINTR is not a failure for the code, which goes on with the sets as they were.
SelectInterrupted ==
    /\ At("select") /\ ~signalled /\ signalled' = TRUE
    /\ selector' = [selector EXCEPT !.at = "interrupt"]
    /\ UNCHANGED <<fdlist, mutex, pipe, ready, refused>>

\* Another failure, as when a descriptor was closed after the copy: watchSockets
\* returns, and is called again.
SelectFails ==
    /\ At("select") /\ selector' = [selector EXCEPT !.at = "copy"]
    /\ UNCHANGED <<fdlist, mutex, pipe, ready, refused, signalled>>

\* The read of the interrupting socket blocks when it is empty.
ReadInterrupt ==
    /\ At("interrupt") /\ selector' = [selector EXCEPT !.at = "update", !.todo = selector.copy]
    /\ \/ Interrupt \in selector.sets /\ pipe > 0 /\ pipe' = 0
       \/ Interrupt \notin selector.sets /\ UNCHANGED pipe
    /\ UNCHANGED <<fdlist, mutex, ready, refused, signalled>>

\* _updateEvents; the handler that is told may unregister.
Update ==
    /\ At("update") /\ selector.todo # {}
    /\ selector' = [selector EXCEPT !.todo = @ \ {Min(@)}]
    /\ \/ UNCHANGED <<fdlist, refused>>
       \/ /\ Min(selector.todo) \in selector.sets /\ mutex = Nobody
          /\ fdlist' = fdlist \ {Min(selector.todo)} /\ refused' = refused \ {Min(selector.todo)}
    /\ UNCHANGED <<mutex, pipe, ready, signalled>>

Updated ==
    /\ At("update") /\ selector.todo = {} /\ selector' = [selector EXCEPT !.at = "copy"]
    /\ UNCHANGED <<fdlist, mutex, pipe, ready, refused, signalled>>

Next ==
    \/ RegisterInterrupts \/ Copy \/ Prepare \/ Prepared \/ Select \/ SelectInterrupted \/ SelectFails
    \/ ReadInterrupt \/ Update \/ Updated
    \/ \E fd \in Fds : RegisterInserts(fd) \/ Unregister(fd) \/ Arrives(fd) \/ Consume(fd)

Spec == Init /\ [][Next]_vars

-----------------------------------------------------------------------------
(* Properties.                                                              *)

\* The thread never sleeps without a descriptor that was registered before: it is
\* in the set, was told that it is too large, or a byte is there to wake it up.
RegisteredIsSeen ==
    At("select") /\ mutex = Nobody =>
        \A fd \in fdlist : fd \in selector.sets \/ pipe > 0 \/ fd \in refused

\* The thread blocks in select() alone: the read after it has something to read,
\* but for a signal, after which it may have nothing.
BlocksInSelect ==
    At("interrupt") /\ Interrupt \in selector.sets => pipe > 0 \/ signalled

\* The selector misses nothing that was registered, and sleeps in select() alone.
SelectorIsAwake == RegisteredIsSeen /\ BlocksInSelect
=============================================================================
