------------------------------ MODULE ObjectPool ------------------------------
(***************************************************************************)
(* server/utils: MemoryPool, LockedAllocator and SafeAllocator, and the    *)
(* policy of server/modules/common/AbstractManager.hpp that gives modules  *)
(* to requests: who may use an object, and what becomes of it at the end.  *)
(*                                                                         *)
(* Each of the three has a mutex around a pool of free blocks (manager,    *)
(* locked) or around new and delete (safe, the debug build's allocator of  *)
(* sessions and requests).  Threads take objects and give them back; some  *)
(* still have one when the owner of the pool is deleted.                   *)
(***************************************************************************)
EXTENDS Naturals, Sequences, FiniteSets, SequencesExt

CONSTANTS
    Threads,
    NoThread,
    MaxObjects    \* bound of this model: objects that are made with new

VARIABLES
    kind,     \* "manager", "locked" or "safe"
    mutex,    \* who has _memory_mutex, or _mutex
    thread,   \* where each thread is, and its object (0: none)
    blocks,   \* MemoryPool::_blocks
    free,     \* MemoryPool::_free_blocks
    known,    \* _allocated_modules (manager) or _objects (safe)
    object,   \* what became of each object
    deleted   \* how often the memory of each object was given back
vars == <<kind, mutex, thread, blocks, free, known, object, deleted>>

Objects == 1 .. MaxObjects
NoObject == 0

Init ==
    /\ kind \in {"manager", "locked", "safe"}
    /\ mutex = NoThread
    /\ thread = [t \in Threads |-> [at |-> "idle", object |-> NoObject]]
    /\ blocks = {} /\ free = <<>> /\ known = {}
    /\ object = [o \in Objects |-> "none"] /\ deleted = [o \in Objects |-> 0]

Made == {o \in Objects : object[o] # "none"}
Fresh == Cardinality(Made) + 1
Asking == {t \in Threads : thread[t].at \in {"allocate", "find"}}
Step(t, from, to) == thread[t].at = from /\ thread' = [thread EXCEPT ![t].at = to]

\* allocate or release is called.
Call(t) ==
    /\ \/ /\ thread[t].object = NoObject /\ Step(t, "idle", "allocate")
          /\ Cardinality(Asking) + Cardinality(Made) < MaxObjects + Len(free)
       \/ thread[t].object # NoObject /\ Step(t, "idle", "release")
    /\ UNCHANGED <<kind, mutex, blocks, free, known, object, deleted>>

\* Mutant: the mutex is not taken.
LockNot(t) ==
    /\ \/ Step(t, "allocate", "find") \/ Step(t, "release", "push")
    /\ UNCHANGED <<kind, mutex, blocks, free, known, object, deleted>>

Lock(t) ==
    /\ mutex = NoThread /\ mutex' = t
    /\ \/ Step(t, "allocate", "find") \/ Step(t, "release", "push")
    /\ UNCHANGED <<kind, blocks, free, known, object, deleted>>

Find(t, o) == thread[t].at = "find" /\ thread' = [thread EXCEPT ![t] = [at |-> "construct", object |-> o]]

\* A block is found: the last one that was freed, or a new one.
FindBlock(t) ==
    /\ \/ /\ kind # "safe" /\ free # <<>>
          /\ Find(t, Last(free)) /\ free' = Front(free) /\ UNCHANGED <<blocks, object>>
       \/ /\ kind = "safe" \/ free = <<>>
          /\ Fresh \in Objects /\ Find(t, Fresh) /\ object' = [object EXCEPT ![Fresh] = "raw"]
          /\ blocks' = IF kind = "safe" THEN blocks ELSE blocks \cup {Fresh}
          /\ UNCHANGED free
    /\ UNCHANGED <<kind, mutex, known, deleted>>

\* The constructor, in place, and the debug build's record of it.
Construct(t) ==
    /\ Step(t, "construct", "unlock")
    /\ object' = [object EXCEPT ![thread[t].object] = "built"]
    /\ known' = IF kind = "locked" THEN known ELSE known \cup {thread[t].object}
    /\ UNCHANGED <<kind, mutex, blocks, free, deleted>>

\* Mutant: the mutex is given back before the destructor runs.
PushBlockEarly(t) ==
    /\ Step(t, "push", "destroy")
    /\ free' = IF kind = "safe" THEN free ELSE Append(free, thread[t].object)
    /\ mutex' = NoThread
    /\ UNCHANGED <<kind, blocks, known, object, deleted>>

\* MemoryPool::release makes the block free before it runs the destructor.
PushBlock(t) ==
    /\ Step(t, "push", "destroy")
    /\ free' = IF kind = "safe" THEN free ELSE Append(free, thread[t].object)
    /\ UNCHANGED <<kind, mutex, blocks, known, object, deleted>>

Destroy(t) ==
    LET o == thread[t].object IN
    /\ thread[t].at = "destroy"
    /\ thread' = [thread EXCEPT ![t] = [at |-> "unlock", object |-> NoObject]]
    /\ object' = [object EXCEPT ![o] = "destroyed"]
    /\ deleted' = IF kind = "safe" THEN [deleted EXCEPT ![o] = @ + 1] ELSE deleted
    /\ known' = known \ {o}
    /\ UNCHANGED <<kind, mutex, blocks, free>>

Unlock(t) ==
    /\ Step(t, "unlock", "idle") /\ mutex' = NoThread
    /\ UNCHANGED <<kind, blocks, free, known, object, deleted>>

\* What is left is released (manager, debug build) or deleted (safe), then MemoryPool::clean
\* deletes each block that is free; the blocks of LockedAllocator that somebody
\* still has are left.
Freed == ToSet(free) \cup (IF kind = "manager" THEN known ELSE {})
GivenBack(objects) == deleted' = [o \in Objects |-> deleted[o] + (IF o \in objects THEN 1 ELSE 0)]

\* Mutant: the manager deletes only what was given back.
DeleteLeaving ==
    /\ \A t \in Threads : thread[t].at = "idle"
    /\ thread' = [t \in Threads |-> [thread[t] EXCEPT !.at = "joined"]]
    /\ GivenBack(blocks \cap ToSet(free))
    /\ blocks' = blocks \ ToSet(free) /\ free' = <<>> /\ known' = {}
    /\ UNCHANGED <<kind, mutex, object>>

Delete ==
    /\ \A t \in Threads : thread[t].at = "idle"
    /\ thread' = [t \in Threads |-> [thread[t] EXCEPT !.at = "joined"]]
    /\ object' = [o \in Objects |-> IF o \in known /\ kind # "locked" THEN "destroyed" ELSE object[o]]
    /\ GivenBack(IF kind = "safe" THEN known ELSE blocks \cap Freed)
    /\ blocks' = blocks \ Freed /\ free' = <<>> /\ known' = {}
    /\ UNCHANGED <<kind, mutex>>

Over == (\A t \in Threads : thread[t].at = "joined") /\ UNCHANGED vars

Next ==
    \/ \E t \in Threads : Call(t) \/ Lock(t) \/ FindBlock(t) \/ Construct(t) \/ PushBlock(t)
                            \/ Destroy(t) \/ Unlock(t)
    \/ Delete \/ Over

Spec == Init /\ [][Next]_vars

-----------------------------------------------------------------------------
Inside(t) == thread[t].at \in {"find", "construct", "push", "destroy", "unlock"}

\* Type invariant; a block is free once, and never both free and known.
TypeOK ==
    /\ mutex \in Threads \cup {NoThread}
    /\ \A t \in Threads : thread[t].object \in Objects \cup {NoObject}
    /\ object \in [Objects -> {"none", "raw", "built", "destroyed"}]
    /\ ToSet(free) \subseteq blocks /\ IsInjective(free)
    /\ known \subseteq Objects

\* Two threads never have the same object, and nobody's object is constructed
\* while its last user destroys it (the pool makes it free first).
ObjectsHaveOneUser ==
    \A s, t \in Threads : s # t /\ thread[s].object # NoObject => thread[s].object # thread[t].object

\* A thread has a constructed object between its calls.
UsedIsBuilt ==
    \A t \in Threads :
        thread[t].at \in {"idle", "release", "push"} /\ thread[t].object # NoObject
            => object[thread[t].object] = "built"

\* One thread at a time is in the pool, which has no lock of its own: the debug
\* build asserts it (ZHTTPD_ASSERT_LOCK in MemoryPool).
PoolIsLocked == \A s, t \in Threads : Inside(s) /\ Inside(t) => s = t

\* In the end the memory of every object was given back once; only
\* LockedAllocator leaves the objects that somebody still has.
AllGivenBack ==
    (\A t \in Threads : thread[t].at = "joined") =>
        \A o \in Objects :
            deleted[o] = IF o \in Made /\ (kind = "locked" => \A t \in Threads : thread[t].object # o)
                         THEN 1 ELSE 0

\* An object has one user, who finds it built, and its memory is given back once.
ObjectsAreKept == TypeOK /\ ObjectsHaveOneUser /\ UsedIsBuilt /\ PoolIsLocked /\ AllGivenBack
=============================================================================
