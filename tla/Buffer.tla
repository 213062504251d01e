-------------------------------- MODULE Buffer --------------------------------
(***************************************************************************)
(* server/core/Buffer.hpp and server/utils/BufferAllocator: the memory of  *)
(* the buffers of one BufferManager.                                       *)
(*                                                                         *)
(* Up to BLOCK_SIZE bytes a buffer lives in a block of the allocator, which *)
(* goes back to a list of free blocks; above, in an array of its own.      *)
(* Which one it is is told from the size alone, at each resize and at the  *)
(* release.  The buffers are used the way the modules use them: filled,    *)
(* cut (Network, Parser) or enlarged (Gzip), then written to the socket,   *)
(* in several parts if need be, and released.  A byte is its position.     *)
(***************************************************************************)
EXTENDS Integers, Sequences, FiniteSets

CONSTANTS
    Buffers,      \* bound of this model: each is allocated once
    BLOCK_SIZE,
    MaxSize,      \* bound of this model: the largest buffer
    MaxOffset     \* bound of this model: bytes written in parts

ASSUME BufferAssumption ==
    /\ IsFiniteSet(Buffers)
    /\ BLOCK_SIZE \in Nat \ {0} /\ MaxSize \in Nat \ {0} /\ MaxOffset \in Nat

VARIABLES
    buffer,    \* _data, _size and _offset of each Buffer, and the bytes it was given
    capacity,  \* the arrays allocated with new [], in order: their sizes
    blocks,    \* _blocks
    free,      \* _free_blocks
    deleted    \* the arrays deleted, once for each time
vars == <<buffer, capacity, blocks, free, deleted>>

Fresh == [stage |-> "new", data |-> 0, size |-> 0, offset |-> 0, given |-> 0]

Init ==
    /\ buffer = [b \in Buffers |-> Fresh]
    /\ capacity = <<>> /\ blocks = {} /\ free = <<>> /\ deleted = <<>>

Live(b) == buffer[b].stage \in {"filled", "sending"}
Set(b, s) == buffer' = [buffer EXCEPT ![b] = s]
NewArray(n) == capacity' = Append(capacity, n)
TheNew == Len(capacity) + 1

\* BufferAllocator::allocate; the last block freed is the first one used.
Allocate(b, n) ==
    /\ buffer[b].stage = "new"
    /\ \E data \in 1..TheNew :
          /\ Set(b, [stage |-> "filled", data |-> data, size |-> n, offset |-> 0, given |-> n])
          /\ \/ /\ n > BLOCK_SIZE /\ data = TheNew
                /\ NewArray(n) /\ UNCHANGED <<blocks, free>>
             \/ /\ n <= BLOCK_SIZE /\ free = <<>> /\ data = TheNew
                /\ NewArray(BLOCK_SIZE) /\ blocks' = blocks \cup {data} /\ UNCHANGED free
             \/ /\ n <= BLOCK_SIZE /\ free # <<>> /\ data = free[Len(free)]
                /\ free' = SubSeq(free, 1, Len(free) - 1) /\ UNCHANGED <<capacity, blocks>>
    /\ UNCHANGED deleted

\* Mutant: the last byte is cut off too.
CutTooMuch(b, n) ==
    /\ buffer[b].stage = "filled" /\ n < buffer[b].size /\ buffer[b].size <= BLOCK_SIZE
    /\ Set(b, [buffer[b] EXCEPT !.size = n - 1, !.given = n])
    /\ UNCHANGED <<capacity, blocks, free, deleted>>

\* Network::_processOnCanRead, which asked for less than a block, and Parser keep
\* the first n bytes; resize to less returns the same memory.
Cut(b, n) ==
    /\ buffer[b].stage = "filled" /\ n < buffer[b].size /\ buffer[b].size <= BLOCK_SIZE
    /\ Set(b, [buffer[b] EXCEPT !.size = n, !.given = n])
    /\ UNCHANGED <<capacity, blocks, free, deleted>>

\* Mutant: resize asks if the new size needs an array before it asks if the old
\* one was an array.
EnlargeReleases(b, n) ==
    /\ buffer[b].stage = "filled" /\ n > buffer[b].size
    /\ LET old == buffer[b] IN
       IF n > BLOCK_SIZE
       THEN /\ NewArray(n) /\ free' = Append(free, old.data)
            /\ Set(b, [old EXCEPT !.data = TheNew, !.size = n, !.given = n])
       ELSE /\ Set(b, [old EXCEPT !.size = n, !.given = n])
            /\ UNCHANGED <<capacity, free>>
    /\ UNCHANGED <<blocks, deleted>>

\* Gzip::_deflate enlarges its buffer and fills it: setSize(size) and the rest of
\* resize.
Enlarge(b, n) ==
    /\ buffer[b].stage = "filled" /\ n > buffer[b].size
    /\ LET old == buffer[b]
           moved == [old EXCEPT !.data = TheNew, !.size = n, !.given = n]
       IN  \/ /\ old.size > BLOCK_SIZE
              /\ NewArray(n) /\ deleted' = Append(deleted, old.data) /\ Set(b, moved)
              /\ UNCHANGED free
           \/ /\ old.size <= BLOCK_SIZE /\ n > BLOCK_SIZE
              /\ NewArray(n) /\ free' = Append(free, old.data) /\ Set(b, moved)
              /\ UNCHANGED deleted
           \/ /\ n <= BLOCK_SIZE
              /\ Set(b, [old EXCEPT !.size = n, !.given = n])
              /\ UNCHANGED <<capacity, free, deleted>>
    /\ UNCHANGED blocks

\* Mutant: the size of the buffer is what is left of it.
SentLeaves(b, n) ==
    /\ Live(b) /\ n < buffer[b].size
    /\ Set(b, [buffer[b] EXCEPT !.stage = "sending", !.offset = @ + n, !.size = @ - n])
    /\ UNCHANGED <<capacity, blocks, free, deleted>>

\* send() took n bytes: Network calls setSize(n, size - n), which moves the
\* offset and sets the size to n + (size - n).  The sizes it gives resize are
\* equal, so the memory stays.
Sent(b, n) ==
    /\ Live(b) /\ n < buffer[b].size /\ buffer[b].offset + n <= MaxOffset
    /\ Set(b, [buffer[b] EXCEPT !.stage = "sending", !.offset = @ + n, !.size = n + (@ - n)])
    /\ UNCHANGED <<capacity, blocks, free, deleted>>

\* Mutant: the array of a large buffer is kept as a free block.
ReleaseToFree(b) ==
    /\ Live(b) /\ Set(b, [buffer[b] EXCEPT !.stage = "released"])
    /\ free' = Append(free, buffer[b].data)
    /\ UNCHANGED <<capacity, blocks, deleted>>

\* ~Buffer: BufferAllocator::release(_data, _size)
Release(b) ==
    /\ Live(b) /\ Set(b, [buffer[b] EXCEPT !.stage = "released"])
    /\ IF buffer[b].size > BLOCK_SIZE
       THEN deleted' = Append(deleted, buffer[b].data) /\ UNCHANGED free
       ELSE free' = Append(free, buffer[b].data) /\ UNCHANGED deleted
    /\ UNCHANGED <<capacity, blocks>>

\* ~BufferAllocator, when the server stops: clean deletes the free blocks it
\* knows.
FreeSet == {free[i] : i \in 1..Len(free)}
Clean ==
    /\ \A b \in Buffers : buffer[b].stage = "released"
    /\ \E order \in [1..Cardinality(blocks \cap FreeSet) -> blocks \cap FreeSet] :
          /\ \A i, j \in DOMAIN order : i < j => order[i] > order[j]
          /\ deleted' = deleted \o order
    /\ blocks' = blocks \ FreeSet /\ free' = <<>>
    /\ buffer' = [b \in Buffers |-> [Fresh EXCEPT !.stage = "gone"]]
    /\ UNCHANGED capacity

Over == (\A b \in Buffers : buffer[b].stage = "gone") /\ UNCHANGED vars

Next ==
    \/ Clean \/ Over
    \/ \E b \in Buffers :
          \/ Release(b)
          \/ \E n \in 1..MaxSize : Allocate(b, n) \/ Cut(b, n) \/ Enlarge(b, n) \/ Sent(b, n)

Spec == Init /\ [][Next]_vars

-----------------------------------------------------------------------------
(* Properties.                                                              *)

TypeOK ==
    /\ buffer \in [Buffers -> [stage : {"new", "filled", "sending", "released", "gone"},
                               data : 0..Len(capacity), size : 0..MaxSize,
                               offset : 0..MaxOffset, given : 0..MaxSize]]
    /\ \A b \in Buffers : Live(b) => buffer[b].size > 0
    /\ capacity \in Seq(1..(MaxSize + BLOCK_SIZE)) /\ free \in Seq(1..Len(capacity)) /\ deleted \in Seq(1..Len(capacity))
    /\ blocks \subseteq 1..Len(capacity)

Times(x, s) == Cardinality({i \in 1..Len(s) : s[i] = x})

\* Every array has one owner: a live buffer, the list of free blocks, or nobody
\* once it is deleted; it is never deleted twice, nor used by two buffers.
OneOwner ==
    \A x \in 1..Len(capacity) :
        Times(x, free) + Times(x, deleted) + Cardinality({b \in Buffers : Live(b) /\ buffer[b].data = x}) = 1

\* The size tells what the memory of a buffer is, as release and resize need: a
\* block of the allocator up to BLOCK_SIZE, else an array of its own.
SizeTellsMemory ==
    \A b \in Buffers : Live(b) =>
        /\ buffer[b].size > BLOCK_SIZE <=> buffer[b].data \notin blocks
        /\ buffer[b].given <= capacity[buffer[b].data]

\* What is free is a block the allocator knows, so clean leaves nothing behind
\* ("Double free detected...").
FreeIsKnown == FreeSet \subseteq blocks

\* The memory of the buffers: owned once, of the kind that its size tells, and known
\* to the allocator while it is free.
MemoryIsSound == TypeOK /\ OneOwner /\ SizeTellsMemory /\ FreeIsKnown

\* IBuffer.hpp:31-38, setSize(start, size): the buffer contains what follows
\* start, as in "b contains "cdef"".
RemainderKept ==
    \A b \in Buffers : Live(b) => buffer[b].offset + buffer[b].size = buffer[b].given
=============================================================================
