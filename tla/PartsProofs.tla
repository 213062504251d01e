------------------------------ MODULE PartsProofs ------------------------------
(***************************************************************************)
(* Proofs about the parts that MCParts puts together.  A behaviour of the  *)
(* parts is a behaviour of each of them, so what is proved of a part by    *)
(* itself holds of it there: Buffer, SelectSelector, UserStore,            *)
(* ObjectPool, SslSessions, FileRange and ThreadPool here,                 *)
(* ConfigurationUse in ConfigurationUseProofs.                             *)
(***************************************************************************)
EXTENDS MCParts, FiniteSetTheorems, SequenceTheorems, WellFoundedInduction, TLAPS


-----------------------------------------------------------------------------
(* Together.                                                                *)

\* A step of the parts is one of the part that the behaviour is of.
LEMMA PartsSteps ==
    ASSUME PartsNext
    PROVE  \/ InBuffer /\ Next
           \/ InPool /\ Pool!Next
           \/ InSsl /\ Ssl!Next
           \/ InUse /\ Use!Next
           \/ InSelect /\ Selector!Next
           \/ InUsers /\ Store!Next
           \/ InRange /\ FileReader!Next
           \/ InThreads /\ Threads!Next
           \/ InTree \/ InHeader
<1>1. 0 .. MaxFile = FileReader!Numbers /\ -1 .. MaxFile = FileReader!Numbers \cup {FileReader!NoNumber}
  BY PartsAssumption DEF FileReader!Numbers, FileReader!NoNumber
<1> QED
  BY <1>1, Zenon DEF PartsNext, Next, Pool!Next, Ssl!Next, Use!Next, Selector!Next, Store!Next, FileReader!Next,
                      Threads!Next, Threads!WorkerStep

LEMMA PartsStepsAlone ==
    ASSUME [PartsNext]_partsVars
    PROVE  /\ [Next]_vars /\ [Pool!Next]_(Pool!vars) /\ [Ssl!Next]_(Ssl!vars) /\ [Use!Next]_(Use!vars)
           /\ [Selector!Next]_(Selector!vars) /\ [Store!Next]_(Store!vars) /\ [FileReader!Next]_(FileReader!vars)
           /\ [Threads!Next]_(Threads!vars)
<1> USE DEF vars, Pool!vars, Ssl!vars, Use!vars, Selector!vars, Store!vars, FileReader!vars, Threads!vars,
            threadVars, poolVars, sslVars, useVars, selectVars, userVars, rangeVars
<1>1. CASE UNCHANGED partsVars  BY <1>1 DEF partsVars
<1>2. CASE InBuffer /\ Next  BY <1>2 DEF InBuffer
<1>3. CASE InPool /\ Pool!Next  BY <1>3 DEF InPool
<1>4. CASE InSsl /\ Ssl!Next  BY <1>4 DEF InSsl
<1>5. CASE InUse /\ Use!Next  BY <1>5 DEF InUse
<1>6. CASE InSelect /\ Selector!Next  BY <1>6 DEF InSelect
<1>7. CASE InUsers /\ Store!Next  BY <1>7 DEF InUsers
<1>8. CASE InTree \/ InHeader  BY <1>8 DEF InTree, InHeader
<1>9. CASE InRange /\ FileReader!Next  BY <1>9 DEF InRange
<1>10. CASE InThreads /\ Threads!Next  BY <1>10 DEF InThreads
<1> QED  BY <1>1, <1>2, <1>3, <1>4, <1>5, <1>6, <1>7, <1>8, <1>9, <1>10, PartsSteps

\* A behaviour of the parts is one of each part.
THEOREM PartsRunAlone ==
    PartsSpec => Spec /\ Pool!Spec /\ Ssl!Spec /\ Use!Spec /\ Selector!Spec /\ Store!Spec /\ FileReader!Spec /\ Threads!Spec
<1>1. PartsInit => Init /\ Pool!Init /\ Ssl!Init /\ Use!Init /\ Selector!Init /\ Store!Init /\ FileReader!Init /\ Threads!Init
  BY DEF PartsInit
<1> QED  BY <1>1, PartsStepsAlone, PTL DEF PartsSpec, Spec, Pool!Spec, Ssl!Spec, Use!Spec, Selector!Spec, Store!Spec, FileReader!Spec, Threads!Spec
-----------------------------------------------------------------------------
(* Buffer: every array has one owner, and the size tells what the memory is, *)
(* for any set of buffers and any size of a block.                          *)

Arrays == 1..Len(capacity)
Users(x) == {b \in Buffers : Live(b) /\ buffer[b].data = x}
Owners(x) == Times(x, free) + Times(x, deleted) + Cardinality(Users(x))

LiveHaveArrays == \A b \in Buffers : Live(b) => buffer[b].data \in Arrays

\* The blocks are all of one size.
BlocksAreBlocks == \A x \in blocks : capacity[x] = BLOCK_SIZE

BufferInv == TypeOK /\ LiveHaveArrays /\ BlocksAreBlocks /\ SizeTellsMemory /\ FreeIsKnown /\ OneOwner

(* How often something is in a sequence.                                    *)

Where(x, s) == {i \in 1..Len(s) : s[i] = x}

LEMMA WhereFinite ==
    ASSUME NEW S, NEW s \in Seq(S), NEW x
    PROVE  IsFiniteSet(Where(x, s)) /\ Times(x, s) = Cardinality(Where(x, s)) /\ Times(x, s) \in Nat
<1>1. IsFiniteSet(1..Len(s))
  <2>1. Len(s) \in Nat  OBVIOUS
  <2> QED  BY <2>1, FS_Interval
<1>2. Where(x, s) \in SUBSET (1..Len(s))  BY DEF Where
<1>3. IsFiniteSet(Where(x, s))  BY <1>1, <1>2, FS_Subset
<1>4. Times(x, s) = Cardinality(Where(x, s))  BY DEF Times, Where
<1> QED  BY <1>3, <1>4, FS_CardinalityType

LEMMA TimesAppend ==
    ASSUME NEW S, NEW s \in Seq(S), NEW y \in S, NEW x
    PROVE  Times(x, Append(s, y)) = IF x = y THEN Times(x, s) + 1 ELSE Times(x, s)
<1>1. Append(s, y) \in Seq(S) /\ Len(Append(s, y)) = Len(s) + 1 /\ Len(s) \in Nat  OBVIOUS
<1>2. Where(x, Append(s, y)) = IF x = y THEN Where(x, s) \cup {Len(s) + 1} ELSE Where(x, s)
  BY <1>1 DEF Where
<1>3. Len(s) + 1 \notin Where(x, s)  BY <1>1 DEF Where
<1>4. IsFiniteSet(Where(x, s))  BY WhereFinite
<1>5. Cardinality(Where(x, s) \cup {Len(s) + 1}) = Cardinality(Where(x, s)) + 1
  BY <1>3, <1>4, FS_AddElement
<1> QED  BY <1>1, <1>2, <1>5, WhereFinite

LEMMA Prefixes ==
    ASSUME NEW S, NEW s \in Seq(S), NEW m \in Nat, \A i \in 1..m : s[i] \in S
    PROVE  /\ SubSeq(s, 1, m) \in Seq(S) /\ Len(SubSeq(s, 1, m)) = m
           /\ \A i \in 1..m : SubSeq(s, 1, m)[i] = s[i]
<1> DEFINE f == SubSeq(s, 1, m)
<1>1. /\ f \in Seq(S) /\ Len(f) = IF 1 <= m THEN m - 1 + 1 ELSE 0
      /\ \A i \in 1 .. (m - 1 + 1) : f[i] = s[1 + i - 1]
  BY SubSeqProperties
<1> HIDE DEF f
<1>2. Len(f) = m /\ m - 1 + 1 = m  BY <1>1
<1>3. \A i \in 1..m : f[i] = s[i]
  <2> TAKE i \in 1..m
  <2>1. i \in 1 .. (m - 1 + 1) /\ 1 + i - 1 = i  OBVIOUS
  <2> QED  BY <1>1, <2>1
<1> QED  BY <1>1, <1>2, <1>3 DEF f

LEMMA TimesFront ==
    ASSUME NEW S, NEW s \in Seq(S), s # <<>>, NEW x
    PROVE  /\ SubSeq(s, 1, Len(s) - 1) \in Seq(S)
           /\ Len(SubSeq(s, 1, Len(s) - 1)) = Len(s) - 1
           /\ \A i \in 1..(Len(s) - 1) : SubSeq(s, 1, Len(s) - 1)[i] = s[i]
           /\ Times(x, SubSeq(s, 1, Len(s) - 1)) =
                 IF x = s[Len(s)] THEN Times(x, s) - 1 ELSE Times(x, s)
<1> DEFINE f == SubSeq(s, 1, Len(s) - 1)
<1>1. Len(s) \in Nat \ {0}  OBVIOUS
<1>2. f \in Seq(S) /\ Len(f) = Len(s) - 1 /\ \A i \in 1..Len(f) : f[i] = s[i]
  <2> DEFINE m == Len(s) - 1
  <2>1. m \in Nat /\ \A i \in 1..m : s[i] \in S  BY <1>1
  <2> HIDE DEF m
  <2> QED  BY <2>1, Prefixes DEF m
<1>3. Where(x, f) = IF x = s[Len(s)] THEN Where(x, s) \ {Len(s)} ELSE Where(x, s)
  BY <1>1, <1>2 DEF Where
<1>4. x = s[Len(s)] => Len(s) \in Where(x, s)  BY <1>1 DEF Where
<1> HIDE DEF f
<1>5. Times(x, f) = IF x = s[Len(s)] THEN Times(x, s) - 1 ELSE Times(x, s)
  BY <1>2, <1>3, <1>4, WhereFinite, FS_RemoveElement
<1> QED  BY <1>2, <1>5 DEF f

\* Something is in a sequence if it is there once or more.
LEMMA TimesPositive ==
    ASSUME NEW S, NEW s \in Seq(S), NEW i \in 1..Len(s)
    PROVE  Times(s[i], s) >= 1
<1>1. i \in Where(s[i], s)  BY DEF Where
<1> QED  BY <1>1, WhereFinite, FS_EmptySet

LEMMA TimesNone ==
    ASSUME NEW S, NEW s \in Seq(S), NEW x, \A i \in 1..Len(s) : s[i] # x
    PROVE  Times(x, s) = 0
<1>1. Where(x, s) = {}  BY DEF Where
<1> QED  BY <1>1, WhereFinite, FS_EmptySet

\* A sequence without repetition adds one for each of its elements.
LEMMA TimesConcat ==
    ASSUME NEW S, NEW s \in Seq(S), NEW n \in Nat, NEW t \in [1..n -> S],
           \A i, j \in 1..n : i < j => t[i] # t[j], NEW x
    PROVE  Times(x, s \o t) = IF \E i \in 1..n : t[i] = x THEN Times(x, s) + 1 ELSE Times(x, s)
<1>1. t \in Seq(S) /\ Len(t) = n /\ Len(s) \in Nat  OBVIOUS
<1>2. s \o t \in Seq(S) /\ Len(s \o t) = Len(s) + n
      /\ \A i \in 1..(Len(s) + n) : (s \o t)[i] = IF i <= Len(s) THEN s[i] ELSE t[i - Len(s)]
  BY <1>1, ConcatProperties
<1>3. CASE \E i \in 1..n : t[i] = x
  <2> PICK i \in 1..n : t[i] = x  BY <1>3
  <2>1. \A j \in 1..n : t[j] = x => j = i  OBVIOUS
  <2>2. Where(x, s \o t) = Where(x, s) \cup {Len(s) + i}
    <3>1. ASSUME NEW k \in Where(x, s \o t) PROVE k \in Where(x, s) \cup {Len(s) + i}
      <4>1. k \in 1..(Len(s) + n) /\ (s \o t)[k] = x  BY <1>2 DEF Where
      <4>2. CASE k <= Len(s)  BY <1>1, <1>2, <4>1, <4>2 DEF Where
      <4>3. CASE k > Len(s)
        <5>1. k - Len(s) \in 1..n /\ t[k - Len(s)] = x  BY <1>1, <1>2, <4>1, <4>3
        <5> QED  BY <1>1, <2>1, <4>1, <5>1
      <4> QED  BY <1>1, <4>1, <4>2, <4>3
    <3>2. Where(x, s) \subseteq Where(x, s \o t)  BY <1>1, <1>2 DEF Where
    <3>3. Len(s) + i \in 1..(Len(s) + n) /\ ~(Len(s) + i <= Len(s)) /\ (Len(s) + i) - Len(s) = i  BY <1>1
    <3>4. Len(s) + i \in Where(x, s \o t)  BY <1>2, <3>3 DEF Where
    <3> QED  BY <3>1, <3>2, <3>4
  <2>3. Len(s) + i \notin Where(x, s)  BY <1>1 DEF Where
  <2>4. IsFiniteSet(Where(x, s))  BY WhereFinite
  <2>5. Cardinality(Where(x, s) \cup {Len(s) + i}) = Cardinality(Where(x, s)) + 1
    BY <2>3, <2>4, FS_AddElement
  <2>6. Times(x, s \o t) = Times(x, s) + 1  BY <1>2, <2>2, <2>5, WhereFinite
  <2> QED  BY <1>3, <2>6
<1>4. CASE ~ \E i \in 1..n : t[i] = x
  <2>1. Where(x, s \o t) = Where(x, s)
    <3>1. ASSUME NEW k \in Where(x, s \o t) PROVE k \in Where(x, s)
      <4>1. k \in 1..(Len(s) + n) /\ (s \o t)[k] = x  BY <1>2 DEF Where
      <4>2. CASE k <= Len(s)  BY <1>1, <1>2, <4>1, <4>2 DEF Where
      <4>3. CASE k > Len(s)
        <5>1. k - Len(s) \in 1..n /\ t[k - Len(s)] = x  BY <1>1, <1>2, <4>1, <4>3
        <5> QED  BY <1>4, <5>1
      <4> QED  BY <1>1, <4>1, <4>2, <4>3
    <3>2. Where(x, s) \subseteq Where(x, s \o t)  BY <1>1, <1>2 DEF Where
    <3> QED  BY <3>1, <3>2
  <2> QED  BY <1>2, <1>4, <2>1, WhereFinite
<1> QED  BY <1>3, <1>4

-----------------------------------------------------------------------------
(* Who uses an array, when one buffer changes.                              *)

LiveStages == {"filled", "sending"}

LEMMA UsersChange ==
    ASSUME TypeOK, NEW b \in Buffers, NEW r, Set(b, r), NEW x
    PROVE  /\ Cardinality(Users(x)) \in Nat
           /\ Cardinality(Users(x)') =
                 (Cardinality(Users(x)) - (IF b \in Users(x) THEN 1 ELSE 0))
                     + (IF r.stage \in LiveStages /\ r.data = x THEN 1 ELSE 0)
<1> DEFINE rest == Users(x) \ {b}
<1>1. IsFiniteSet(Users(x))
  BY BufferAssumption, FS_Subset, Users(x) \in SUBSET Buffers DEF Users
<1>2. /\ IsFiniteSet(rest)
      /\ Cardinality(rest) = IF b \in Users(x) THEN Cardinality(Users(x)) - 1 ELSE Cardinality(Users(x))
  BY <1>1, FS_RemoveElement
<1>3. Users(x)' = IF r.stage \in LiveStages /\ r.data = x THEN rest \cup {b} ELSE rest
  <2>1. buffer' = [buffer EXCEPT ![b] = r] /\ DOMAIN buffer = Buffers  BY DEF Set, TypeOK
  <2>2. buffer'[b] = r /\ \A c \in Buffers \ {b} : buffer'[c] = buffer[c]  BY <2>1
  <2>3. Users(x)' = {c \in Buffers : buffer'[c].stage \in LiveStages /\ buffer'[c].data = x}
    BY DEF Users, Live, LiveStages
  <2>4. Users(x) = {c \in Buffers : buffer[c].stage \in LiveStages /\ buffer[c].data = x}
    BY DEF Users, Live, LiveStages
  <2> QED  BY <2>2, <2>3, <2>4
<1>4. Cardinality(rest \cup {b}) = Cardinality(rest) + 1  BY <1>2, FS_AddElement
<1>5. Cardinality(Users(x)) \in Nat /\ Cardinality(rest) \in Nat  BY <1>1, <1>2, FS_CardinalityType
<1> QED  BY <1>2, <1>3, <1>4, <1>5

LEMMA NobodyUses ==
    ASSUME NEW x, \A b \in Buffers : Live(b) => buffer[b].data # x
    PROVE  Cardinality(Users(x)) = 0
BY FS_EmptySet, Users(x) = {} DEF Users

-----------------------------------------------------------------------------
(* The invariant.                                                           *)

Stages == {"new", "filled", "sending", "released", "gone"}

\* What the invariant says of the sequences, in the form the lemmas need.
LEMMA Sequences ==
    ASSUME BufferInv
    PROVE  /\ Len(capacity) \in Nat /\ capacity \in Seq(Int)
           /\ free \in Seq(Arrays) /\ deleted \in Seq(Arrays) /\ Arrays \subseteq Int
           /\ \A i \in 1..Len(free) : free[i] \in blocks
           /\ blocks \subseteq Arrays
           /\ \A x : Times(x, free) \in Nat /\ Times(x, deleted) \in Nat
           /\ \A x \in Arrays : Owners(x) = 1
<1>1. capacity \in Seq(1..(MaxSize + BLOCK_SIZE)) /\ 1..(MaxSize + BLOCK_SIZE) \subseteq Int
  BY BufferAssumption DEF BufferInv, TypeOK
<1>2. capacity \in Seq(Int) /\ Len(capacity) \in Nat
  <2>1. capacity \in Seq(Int)  BY <1>1, SeqMonotonic
  <2> QED  BY <2>1, LenProperties
<1>3. free \in Seq(Arrays) /\ deleted \in Seq(Arrays)  BY DEF BufferInv, TypeOK, Arrays
<1>4. \A i \in 1..Len(free) : free[i] \in blocks  BY DEF BufferInv, FreeIsKnown, FreeSet
<1>5. \A x \in Arrays : Owners(x) = 1  BY DEF BufferInv, OneOwner, Owners, Users, Arrays
<1> QED  BY <1>1, <1>2, <1>3, <1>4, <1>5, WhereFinite DEF BufferInv, TypeOK, Arrays

LEMMA NewIsUnowned ==
    ASSUME BufferInv
    PROVE  Times(TheNew, free) = 0 /\ Times(TheNew, deleted) = 0 /\ Cardinality(Users(TheNew)) = 0
<1>1. Len(capacity) \in Nat /\ free \in Seq(Arrays) /\ deleted \in Seq(Arrays)  BY Sequences
<1>2. TheNew \notin Arrays  BY <1>1 DEF TheNew, Arrays
<1>3. Times(TheNew, free) = 0  BY <1>1, <1>2, TimesNone
<1>4. Times(TheNew, deleted) = 0  BY <1>1, <1>2, TimesNone
<1>5. Cardinality(Users(TheNew)) = 0  BY <1>2, NobodyUses DEF BufferInv, LiveHaveArrays
<1> QED  BY <1>3, <1>4, <1>5

\* The type of the sequences grows with the arrays.
LEMMA GrowingArrays ==
    ASSUME BufferInv, NEW n \in 1..(MaxSize + BLOCK_SIZE), NewArray(n)
    PROVE  /\ Len(capacity') = Len(capacity) + 1 /\ Arrays' = Arrays \cup {TheNew}
           /\ capacity' \in Seq(1..(MaxSize + BLOCK_SIZE))
           /\ capacity'[TheNew] = n /\ TheNew \notin Arrays
           /\ \A x \in Arrays : capacity'[x] = capacity[x]
           /\ free \in Seq(Arrays') /\ deleted \in Seq(Arrays')
<1>1. Len(capacity) \in Nat /\ free \in Seq(Arrays) /\ deleted \in Seq(Arrays)  BY Sequences
<1>2. capacity \in Seq(1..(MaxSize + BLOCK_SIZE))  BY DEF BufferInv, TypeOK
<1>3. capacity' = Append(capacity, n)  BY DEF NewArray
<1>4. Len(capacity') = Len(capacity) + 1 /\ capacity' \in Seq(1..(MaxSize + BLOCK_SIZE))  BY <1>2, <1>3
<1>5. Arrays' = Arrays \cup {TheNew} /\ TheNew \notin Arrays  BY <1>1, <1>4 DEF Arrays, TheNew
<1>6. free \in Seq(Arrays') /\ deleted \in Seq(Arrays')  BY <1>1, <1>5, SeqMonotonic
<1>7. capacity'[TheNew] = n /\ \A x \in Arrays : capacity'[x] = capacity[x]
  BY <1>1, <1>2, <1>3 DEF Arrays, TheNew
<1> QED  BY <1>4, <1>5, <1>6, <1>7

LEMMA InitBufferInv == Init => BufferInv
<1> SUFFICES ASSUME Init PROVE BufferInv  OBVIOUS
<1>1. capacity = <<>> /\ free = <<>> /\ deleted = <<>> /\ blocks = {} /\ \A b \in Buffers : buffer[b] = Fresh
  BY DEF Init
<1>2. Len(capacity) = 0 /\ Len(free) = 0  BY <1>1
<1>3. \A b \in Buffers : ~Live(b)  BY <1>1 DEF Live, Fresh
<1>4. TypeOK
  <2>1. <<>> \in Seq(1..(MaxSize + BLOCK_SIZE)) /\ <<>> \in Seq(1..Len(capacity))  BY EmptySeq
  <2>2. Fresh \in [stage : Stages, data : 0..Len(capacity), size : 0..MaxSize,
                   offset : 0..MaxOffset, given : 0..MaxSize]
    BY <1>2, BufferAssumption DEF Fresh, Stages
  <2> QED  BY <1>1, <1>3, <2>1, <2>2 DEF Init, TypeOK, Stages
<1>5. FreeIsKnown /\ OneOwner /\ BlocksAreBlocks  BY <1>1, <1>2 DEF FreeIsKnown, FreeSet, OneOwner, BlocksAreBlocks
<1> QED  BY <1>3, <1>4, <1>5 DEF BufferInv, LiveHaveArrays, SizeTellsMemory

\* Buffers that change without their memory: the rest of the invariant stays.
LEMMA SameMemory ==
    ASSUME BufferInv, NEW b \in Buffers, Live(b), NEW r, Set(b, r),
           UNCHANGED <<capacity, blocks, free, deleted>>,
           r \in [stage : LiveStages, data : {buffer[b].data}, size : 1..MaxSize,
                  offset : 0..MaxOffset, given : 0..MaxSize],
           r.size > BLOCK_SIZE <=> buffer[b].size > BLOCK_SIZE,
           r.given <= capacity[buffer[b].data]
    PROVE  BufferInv'
<1>1. /\ buffer' = [buffer EXCEPT ![b] = r] /\ DOMAIN buffer = Buffers
      /\ buffer'[b] = r /\ \A c \in Buffers \ {b} : buffer'[c] = buffer[c]
  BY DEF Set, BufferInv, TypeOK
<1>2. TypeOK'
  <2>1. r \in [stage : Stages, data : 0..Len(capacity), size : 0..MaxSize,
               offset : 0..MaxOffset, given : 0..MaxSize]
    BY DEF BufferInv, LiveHaveArrays, Arrays, Stages, LiveStages
  <2>2. buffer' \in [Buffers -> [stage : Stages, data : 0..Len(capacity), size : 0..MaxSize,
                                 offset : 0..MaxOffset, given : 0..MaxSize]]
    <3>1. buffer \in [Buffers -> [stage : Stages, data : 0..Len(capacity), size : 0..MaxSize,
                                  offset : 0..MaxOffset, given : 0..MaxSize]]
      BY DEF BufferInv, TypeOK, Stages
    <3> QED  BY <1>1, <2>1, <3>1, Zenon
  <2>3. \A c \in Buffers : Live(c)' => buffer'[c].size > 0
    BY <1>1 DEF BufferInv, TypeOK, Live
  <2> QED  BY <2>2, <2>3 DEF BufferInv, TypeOK, Stages
<1>3. (LiveHaveArrays /\ BlocksAreBlocks /\ FreeIsKnown)'
  BY <1>1 DEF BufferInv, LiveHaveArrays, BlocksAreBlocks, FreeIsKnown, FreeSet, Live, Arrays, LiveStages
<1>4. SizeTellsMemory'
  BY <1>1 DEF BufferInv, SizeTellsMemory, Live
<1>5. OneOwner'
  <2> SUFFICES ASSUME NEW x \in Arrays PROVE Owners(x)' = 1
    BY DEF OneOwner, Owners, Users, Arrays
  <2>1. Owners(x) = 1  BY Sequences
  <2>2. Cardinality(Users(x)') = Cardinality(Users(x))
    <3>1. b \in Users(x) <=> buffer[b].data = x  BY DEF Users
    <3>2. r.stage \in LiveStages /\ r.data = buffer[b].data  OBVIOUS
    <3>3. TypeOK  BY DEF BufferInv
    <3> QED  BY <3>1, <3>2, <3>3, UsersChange
  <2> QED  BY <2>1, <2>2 DEF Owners, Times
<1> QED  BY <1>2, <1>3, <1>4, <1>5 DEF BufferInv

LEMMA CutBufferInv ==
    ASSUME BufferInv, NEW b \in Buffers, NEW n \in 1..MaxSize, Cut(b, n)
    PROVE  BufferInv'
<1> DEFINE r == [buffer[b] EXCEPT !.size = n, !.given = n]
<1>1. /\ buffer[b].stage = "filled" /\ n < buffer[b].size /\ buffer[b].size <= BLOCK_SIZE
      /\ Set(b, r) /\ UNCHANGED <<capacity, blocks, free, deleted>>
  BY DEF Cut
<1>2. buffer[b] \in [stage : Stages, data : 0..Len(capacity), size : 0..MaxSize,
                     offset : 0..MaxOffset, given : 0..MaxSize]
  BY DEF BufferInv, TypeOK, Stages
<1>3. buffer[b].data \in blocks /\ capacity[buffer[b].data] = BLOCK_SIZE
  BY <1>1, <1>2, BufferAssumption DEF BufferInv, SizeTellsMemory, BlocksAreBlocks, Live
<1>4. r \in [stage : LiveStages, data : {buffer[b].data}, size : 1..MaxSize,
             offset : 0..MaxOffset, given : 0..MaxSize]
      /\ (r.size > BLOCK_SIZE <=> buffer[b].size > BLOCK_SIZE) /\ r.given <= capacity[buffer[b].data]
  <2>1. r.size = n /\ r.given = n  BY <1>2
  <2>2. buffer[b].size \in Nat /\ n \in 0..MaxSize  BY <1>2
  <2>3. buffer[b] \in [stage : LiveStages, data : {buffer[b].data}, size : 0..MaxSize,
                       offset : 0..MaxOffset, given : 0..MaxSize]
    BY <1>1, <1>2 DEF LiveStages
  <2>4. r \in [stage : LiveStages, data : {buffer[b].data}, size : 1..MaxSize,
               offset : 0..MaxOffset, given : 0..MaxSize]
    BY <2>2, <2>3
  <2> HIDE DEF r
  <2> QED  BY <1>1, <1>3, <2>1, <2>2, <2>4, BufferAssumption
<1>5. Live(b)  BY <1>1 DEF Live
<1> QED  BY <1>1, <1>4, <1>5, SameMemory

LEMMA SentBufferInv ==
    ASSUME BufferInv, NEW b \in Buffers, NEW n \in 1..MaxSize, Sent(b, n)
    PROVE  BufferInv'
<1> DEFINE r == [buffer[b] EXCEPT !.stage = "sending", !.offset = @ + n, !.size = n + (@ - n)]
<1>1. /\ Live(b) /\ n < buffer[b].size /\ buffer[b].offset + n <= MaxOffset
      /\ Set(b, r) /\ UNCHANGED <<capacity, blocks, free, deleted>>
  BY DEF Sent
<1>2. buffer[b] \in [stage : Stages, data : 0..Len(capacity), size : 0..MaxSize,
                     offset : 0..MaxOffset, given : 0..MaxSize]
  BY DEF BufferInv, TypeOK, Stages
<1>3. buffer[b].given <= capacity[buffer[b].data]  BY <1>1 DEF BufferInv, SizeTellsMemory
<1>4. r \in [stage : LiveStages, data : {buffer[b].data}, size : 1..MaxSize,
             offset : 0..MaxOffset, given : 0..MaxSize]
      /\ r.size = buffer[b].size /\ r.given = buffer[b].given
  <2>1. buffer[b].size \in 1..MaxSize /\ buffer[b].offset \in 0..MaxOffset /\ buffer[b].given \in 0..MaxSize
    BY <1>1, <1>2
  <2>2. n + (buffer[b].size - n) = buffer[b].size /\ buffer[b].offset + n \in 0..MaxOffset
    BY <1>1, <2>1, BufferAssumption
  <2>3. r.size = n + (buffer[b].size - n) /\ r.given = buffer[b].given  BY <1>2
  <2>4. buffer[b] \in [stage : {"filled", "sending"}, data : {buffer[b].data}, size : 1..MaxSize,
                       offset : 0..MaxOffset, given : 0..MaxSize]
    BY <1>1, <1>2, <2>1 DEF Live
  <2>5. r \in [stage : LiveStages, data : {buffer[b].data}, size : 1..MaxSize,
               offset : 0..MaxOffset, given : 0..MaxSize]
    BY <2>1, <2>2, <2>4 DEF LiveStages
  <2> QED  BY <2>2, <2>3, <2>5
<1> HIDE DEF r
<1> QED  BY <1>1, <1>3, <1>4, SameMemory

\* A buffer is released: its array is free if it is a block, deleted if not.
LEMMA ReleaseBufferInv ==
    ASSUME BufferInv, NEW b \in Buffers, Release(b)
    PROVE  BufferInv'
<1> DEFINE r == [buffer[b] EXCEPT !.stage = "released"]
           d == buffer[b].data
<1>1. /\ Live(b) /\ Set(b, r) /\ UNCHANGED <<capacity, blocks>>
      /\ \/ buffer[b].size > BLOCK_SIZE /\ deleted' = Append(deleted, d) /\ UNCHANGED free
         \/ ~(buffer[b].size > BLOCK_SIZE) /\ free' = Append(free, d) /\ UNCHANGED deleted
  BY DEF Release
<1>2. buffer[b] \in [stage : Stages, data : 0..Len(capacity), size : 0..MaxSize,
                     offset : 0..MaxOffset, given : 0..MaxSize]
  BY DEF BufferInv, TypeOK, Stages
<1>3. d \in Arrays /\ r.stage = "released" /\ Arrays' = Arrays
  BY <1>1, <1>2 DEF BufferInv, LiveHaveArrays, Arrays
<1>4. /\ buffer' = [buffer EXCEPT ![b] = r] /\ DOMAIN buffer = Buffers
      /\ buffer'[b] = r /\ \A c \in Buffers \ {b} : buffer'[c] = buffer[c]
  BY <1>1 DEF Set, BufferInv, TypeOK
<1>5. TypeOK'
  <2>1. r \in [stage : Stages, data : 0..Len(capacity), size : 0..MaxSize,
               offset : 0..MaxOffset, given : 0..MaxSize]
    BY <1>2 DEF Stages
  <2>2. free' \in Seq(Arrays) /\ deleted' \in Seq(Arrays)
    <3>1. free \in Seq(Arrays) /\ deleted \in Seq(Arrays)  BY Sequences
    <3>2. Append(free, d) \in Seq(Arrays) /\ Append(deleted, d) \in Seq(Arrays)  BY <1>3, <3>1
    <3> QED  BY <1>1, <3>1, <3>2
  <2>3. \A c \in Buffers : Live(c)' => buffer'[c].size > 0  BY <1>3, <1>4 DEF BufferInv, TypeOK, Live
  <2>4. buffer' \in [Buffers -> [stage : Stages, data : 0..Len(capacity), size : 0..MaxSize,
                                 offset : 0..MaxOffset, given : 0..MaxSize]]
    BY <1>4, <2>1 DEF BufferInv, TypeOK, Stages
  <2> HIDE DEF r, d
  <2> QED  BY <1>1, <2>2, <2>3, <2>4 DEF BufferInv, TypeOK, Arrays, Stages
<1>6. (LiveHaveArrays /\ BlocksAreBlocks /\ SizeTellsMemory)'
  BY <1>1, <1>3, <1>4 DEF BufferInv, LiveHaveArrays, BlocksAreBlocks, SizeTellsMemory, Live
<1>7. FreeIsKnown'
  <2>1. ~(buffer[b].size > BLOCK_SIZE) => d \in blocks  BY <1>1 DEF BufferInv, SizeTellsMemory
  <2>2. \A i \in 1..Len(free) : free[i] \in blocks  BY Sequences
  <2>3. \A i \in 1..Len(free') : free'[i] \in blocks  BY <1>1, <1>3, <2>1, <2>2, Sequences
  <2> QED  BY <1>1, <2>3 DEF FreeIsKnown, FreeSet
<1>8. OneOwner'
  <2> SUFFICES ASSUME NEW x \in Arrays PROVE Owners(x)' = 1
    BY <1>3 DEF OneOwner, Owners, Users, Arrays
  <2>1. Owners(x) = 1 /\ Times(x, free) \in Nat /\ Times(x, deleted) \in Nat
        /\ free \in Seq(Arrays) /\ deleted \in Seq(Arrays)
    BY Sequences
  <2>2. Cardinality(Users(x)) \in Nat
        /\ Cardinality(Users(x)') = Cardinality(Users(x)) - (IF x = d THEN 1 ELSE 0)
    <3>1. b \in Users(x) <=> x = d  BY <1>1 DEF Users
    <3>2. r.stage \notin LiveStages /\ TypeOK  BY <1>3 DEF LiveStages, BufferInv
    <3> HIDE DEF r, d
    <3>3. /\ Cardinality(Users(x)) \in Nat
          /\ Cardinality(Users(x)') = (Cardinality(Users(x)) - (IF b \in Users(x) THEN 1 ELSE 0))
                                          + (IF r.stage \in LiveStages /\ r.data = x THEN 1 ELSE 0)
      BY <1>1, <3>2, UsersChange
    <3> QED  BY <3>1, <3>2, <3>3
  <2>3. Times(x, Append(deleted, d)) = IF x = d THEN Times(x, deleted) + 1 ELSE Times(x, deleted)
    BY <1>3, <2>1, TimesAppend
  <2>4. Times(x, Append(free, d)) = IF x = d THEN Times(x, free) + 1 ELSE Times(x, free)
    BY <1>3, <2>1, TimesAppend
  <2>5. Owners(x)' = Times(x, free') + Times(x, deleted') + Cardinality(Users(x)')  BY DEF Owners, Times
  <2>6. Times(x, free) + Times(x, deleted) + Cardinality(Users(x)) = 1  BY <2>1 DEF Owners
  <2> HIDE DEF r, d
  <2>7. CASE deleted' = Append(deleted, d) /\ UNCHANGED free
    BY <2>1, <2>2, <2>3, <2>5, <2>6, <2>7
  <2>8. CASE free' = Append(free, d) /\ UNCHANGED deleted
    BY <2>1, <2>2, <2>4, <2>5, <2>6, <2>8
  <2> QED  BY <1>1, <2>7, <2>8
<1> QED  BY <1>5, <1>6, <1>7, <1>8 DEF BufferInv

\* A buffer gets a new array, of its own or a block; what it had goes where its
\* size tells.
LEMMA NewMemory ==
    ASSUME BufferInv, NEW b \in Buffers, NEW r, Set(b, r), NEW m \in 1..(MaxSize + BLOCK_SIZE), NewArray(m),
           r \in [stage : LiveStages, data : {TheNew}, size : 1..MaxSize,
                  offset : 0..MaxOffset, given : 0..MaxSize],
           r.given <= m,
           \/ r.size > BLOCK_SIZE /\ UNCHANGED blocks
           \/ ~(r.size > BLOCK_SIZE) /\ m = BLOCK_SIZE /\ blocks' = blocks \cup {TheNew},
           \/ ~Live(b) /\ UNCHANGED <<free, deleted>>
           \/ /\ Live(b) /\ buffer[b].size > BLOCK_SIZE
              /\ deleted' = Append(deleted, buffer[b].data) /\ UNCHANGED free
           \/ /\ Live(b) /\ ~(buffer[b].size > BLOCK_SIZE)
              /\ free' = Append(free, buffer[b].data) /\ UNCHANGED deleted
    PROVE  BufferInv'
<1> DEFINE d == buffer[b].data
<1>1. /\ Len(capacity') = Len(capacity) + 1 /\ Arrays' = Arrays \cup {TheNew} /\ Len(capacity) \in Nat
      /\ capacity' \in Seq(1..(MaxSize + BLOCK_SIZE)) /\ capacity'[TheNew] = m /\ TheNew \notin Arrays
      /\ \A x \in Arrays : capacity'[x] = capacity[x]
      /\ free \in Seq(Arrays) /\ deleted \in Seq(Arrays) /\ blocks \subseteq Arrays
      /\ free \in Seq(Arrays') /\ deleted \in Seq(Arrays')
  BY GrowingArrays, Sequences
<1>2. Live(b) => d \in Arrays  BY DEF BufferInv, LiveHaveArrays
<1>3. /\ buffer' = [buffer EXCEPT ![b] = r] /\ DOMAIN buffer = Buffers
      /\ buffer'[b] = r /\ \A c \in Buffers \ {b} : buffer'[c] = buffer[c]
  BY DEF Set, BufferInv, TypeOK
<1>4. r.stage \in LiveStages /\ r.data = TheNew /\ r.size > 0  OBVIOUS
<1>5. /\ free' \in Seq(Arrays') /\ deleted' \in Seq(Arrays') /\ blocks' \subseteq Arrays'
  <2>1. Live(b) => /\ Append(free, d) \in Seq(Arrays') /\ Append(deleted, d) \in Seq(Arrays')
    BY <1>1, <1>2
  <2> HIDE DEF d
  <2> QED  BY <1>1, <2>1 DEF d
<1>6. TypeOK'
  <2>1. 0..Len(capacity) \subseteq 0..Len(capacity') /\ TheNew \in 0..Len(capacity')
    BY <1>1 DEF TheNew
  <2>2. r \in [stage : Stages, data : 0..Len(capacity'), size : 0..MaxSize,
               offset : 0..MaxOffset, given : 0..MaxSize]
    BY <2>1 DEF Stages, LiveStages
  <2>3. \A c \in Buffers : buffer[c] \in [stage : Stages, data : 0..Len(capacity'), size : 0..MaxSize,
                                          offset : 0..MaxOffset, given : 0..MaxSize]
    BY <2>1 DEF BufferInv, TypeOK, Stages
  <2>4. buffer' \in [Buffers -> [stage : Stages, data : 0..Len(capacity'), size : 0..MaxSize,
                                 offset : 0..MaxOffset, given : 0..MaxSize]]
    BY <1>3, <2>2, <2>3
  <2>5. \A c \in Buffers : Live(c)' => buffer'[c].size > 0  BY <1>3, <1>4 DEF BufferInv, TypeOK, Live
  <2> QED  BY <1>1, <1>5, <2>4, <2>5 DEF TypeOK, Arrays, Stages
<1>7. LiveHaveArrays'
  BY <1>1, <1>3, <1>4 DEF BufferInv, LiveHaveArrays, Live
<1>8. BlocksAreBlocks'
  BY <1>1 DEF BufferInv, BlocksAreBlocks
<1>9. SizeTellsMemory'
  <2> SUFFICES ASSUME NEW c \in Buffers, Live(c)'
               PROVE  /\ buffer'[c].size > BLOCK_SIZE <=> buffer'[c].data \notin blocks'
                      /\ buffer'[c].given <= capacity'[buffer'[c].data]
    BY DEF SizeTellsMemory
  <2>1. CASE c = b  BY <1>1, <1>3, <1>4, <2>1
  <2>2. CASE c # b
    <3>1. buffer'[c] = buffer[c] /\ Live(c)  BY <1>3, <2>2 DEF Live
    <3>2. buffer[c].data \in Arrays  BY <3>1 DEF BufferInv, LiveHaveArrays
    <3> QED  BY <1>1, <3>1, <3>2 DEF BufferInv, SizeTellsMemory
  <2> QED  BY <2>1, <2>2
<1>10. FreeIsKnown'
  <2>1. Live(b) /\ ~(buffer[b].size > BLOCK_SIZE) => d \in blocks  BY DEF BufferInv, SizeTellsMemory
  <2>2. \A i \in 1..Len(free) : free[i] \in blocks  BY Sequences
  <2> HIDE DEF d
  <2>3. \A i \in 1..Len(free') : free'[i] \in blocks  BY <1>1, <1>2, <2>1, <2>2 DEF d
  <2> QED  BY <2>3 DEF FreeIsKnown, FreeSet
<1>11. OneOwner'
  <2> SUFFICES ASSUME NEW x \in Arrays' PROVE Owners(x)' = 1
    BY DEF OneOwner, Owners, Users, Arrays
  <2>1. Owners(x)' = Times(x, free') + Times(x, deleted') + Cardinality(Users(x)')  BY DEF Owners, Times
  <2>2. /\ Times(x, free) \in Nat /\ Times(x, deleted) \in Nat
        /\ Times(x, free) + Times(x, deleted) + Cardinality(Users(x)) = IF x = TheNew THEN 0 ELSE 1
    BY <1>1, Sequences, NewIsUnowned DEF Owners
  <2>3. /\ Cardinality(Users(x)) \in Nat
        /\ Cardinality(Users(x)') = (Cardinality(Users(x)) - (IF b \in Users(x) THEN 1 ELSE 0))
                                        + (IF r.stage \in LiveStages /\ r.data = x THEN 1 ELSE 0)
    BY UsersChange DEF BufferInv
  <2>4. b \in Users(x) <=> Live(b) /\ x = d  BY DEF Users
  <2>5. Live(b) => Times(x, Append(deleted, d)) = IF x = d THEN Times(x, deleted) + 1 ELSE Times(x, deleted)
    BY <1>1, <1>2, TimesAppend
  <2>6. Live(b) => Times(x, Append(free, d)) = IF x = d THEN Times(x, free) + 1 ELSE Times(x, free)
    BY <1>1, <1>2, TimesAppend
  <2> HIDE DEF d
  <2>7. Cardinality(Users(x)') = (Cardinality(Users(x)) - (IF Live(b) /\ x = d THEN 1 ELSE 0))
                                    + (IF x = TheNew THEN 1 ELSE 0)
    BY <1>4, <2>3, <2>4
  <2>8. CASE ~Live(b) /\ UNCHANGED <<free, deleted>>
    BY <2>1, <2>2, <2>3, <2>7, <2>8
  <2>9. CASE Live(b) /\ deleted' = Append(deleted, d) /\ UNCHANGED free
    BY <2>1, <2>2, <2>3, <2>5, <2>7, <2>9
  <2>10. CASE Live(b) /\ free' = Append(free, d) /\ UNCHANGED deleted
    BY <2>1, <2>2, <2>3, <2>6, <2>7, <2>10
  <2> QED  BY <2>8, <2>9, <2>10 DEF d
<1> QED  BY <1>6, <1>7, <1>8, <1>9, <1>10, <1>11 DEF BufferInv

\* A buffer takes the block that was freed last.
LEMMA Reuse ==
    ASSUME BufferInv, NEW b \in Buffers, ~Live(b), NEW n \in 1..MaxSize, ~(n > BLOCK_SIZE), free # <<>>,
           Set(b, [stage |-> "filled", data |-> free[Len(free)], size |-> n, offset |-> 0, given |-> n]),
           free' = SubSeq(free, 1, Len(free) - 1), UNCHANGED <<capacity, blocks, deleted>>
    PROVE  BufferInv'
<1> DEFINE d == free[Len(free)]
           r == [stage |-> "filled", data |-> d, size |-> n, offset |-> 0, given |-> n]
<1>1. /\ free \in Seq(Arrays) /\ deleted \in Seq(Arrays) /\ Len(capacity) \in Nat /\ Arrays' = Arrays
      /\ Len(free) \in Nat \ {0} /\ blocks \subseteq Arrays
  BY Sequences DEF Arrays
<1>2. d \in blocks /\ d \in Arrays /\ capacity[d] = BLOCK_SIZE  BY <1>1, Sequences DEF BufferInv, BlocksAreBlocks
<1>3. /\ buffer' = [buffer EXCEPT ![b] = r] /\ DOMAIN buffer = Buffers
      /\ buffer'[b] = r /\ \A c \in Buffers \ {b} : buffer'[c] = buffer[c]
  BY DEF Set, BufferInv, TypeOK
<1>4. r.stage \in LiveStages /\ r.data = d /\ r.size = n /\ r.given = n /\ n > 0 /\ n <= BLOCK_SIZE
  BY BufferAssumption DEF LiveStages
<1>5. free' \in Seq(Arrays) /\ \A x : Times(x, free') = IF x = d THEN Times(x, free) - 1 ELSE Times(x, free)
  BY <1>1, TimesFront
<1>6. \A i \in 1..Len(free') : free'[i] \in blocks
  <2>1. Len(free') = Len(free) - 1 /\ \A i \in 1..Len(free') : free'[i] = free[i]
    BY <1>1, TimesFront
  <2> QED  BY <1>1, <2>1, Sequences
<1>7. TypeOK'
  <2>1. r \in [stage : Stages, data : 0..Len(capacity), size : 0..MaxSize,
               offset : 0..MaxOffset, given : 0..MaxSize]
    BY <1>1, <1>2, BufferAssumption DEF Stages, Arrays
  <2> HIDE DEF r, d
  <2>2. \A c \in Buffers : Live(c)' => buffer'[c].size > 0  BY <1>3, <1>4 DEF BufferInv, TypeOK, Live
  <2>3. buffer' \in [Buffers -> [stage : Stages, data : 0..Len(capacity), size : 0..MaxSize,
                                 offset : 0..MaxOffset, given : 0..MaxSize]]
    BY <1>3, <2>1 DEF BufferInv, TypeOK, Stages
  <2> QED  BY <1>1, <1>5, <2>2, <2>3 DEF BufferInv, TypeOK, Arrays, Stages
<1> HIDE DEF r, d
<1>8. (LiveHaveArrays /\ BlocksAreBlocks)'
  BY <1>1, <1>2, <1>3, <1>4 DEF BufferInv, LiveHaveArrays, BlocksAreBlocks, Live
<1>9. SizeTellsMemory'
  <2> SUFFICES ASSUME NEW c \in Buffers, Live(c)'
               PROVE  /\ buffer'[c].size > BLOCK_SIZE <=> buffer'[c].data \notin blocks'
                      /\ buffer'[c].given <= capacity'[buffer'[c].data]
    BY DEF SizeTellsMemory
  <2>1. CASE c = b  BY <1>2, <1>3, <1>4, <2>1
  <2>2. CASE c # b  BY <1>3, <2>2 DEF BufferInv, SizeTellsMemory, Live
  <2> QED  BY <2>1, <2>2
<1>10. FreeIsKnown'  BY <1>6 DEF FreeIsKnown, FreeSet
<1>11. OneOwner'
  <2> SUFFICES ASSUME NEW x \in Arrays PROVE Owners(x)' = 1
    BY <1>1 DEF OneOwner, Owners, Users, Arrays
  <2>1. Owners(x)' = Times(x, free') + Times(x, deleted) + Cardinality(Users(x)')  BY DEF Owners, Times
  <2>2. /\ Times(x, free) \in Nat /\ Times(x, deleted) \in Nat
        /\ Times(x, free) + Times(x, deleted) + Cardinality(Users(x)) = 1
    BY Sequences DEF Owners
  <2>3. /\ Cardinality(Users(x)) \in Nat
        /\ Cardinality(Users(x)') = (Cardinality(Users(x)) - (IF b \in Users(x) THEN 1 ELSE 0))
                                        + (IF r.stage \in LiveStages /\ r.data = x THEN 1 ELSE 0)
    BY UsersChange DEF BufferInv, r, d
  <2>4. b \notin Users(x)  BY DEF Users
  <2>5. Cardinality(Users(x)') = Cardinality(Users(x)) + (IF x = d THEN 1 ELSE 0)  BY <1>4, <2>3, <2>4
  <2> QED  BY <1>5, <2>1, <2>2, <2>3, <2>5
<1> QED  BY <1>7, <1>8, <1>9, <1>10, <1>11 DEF BufferInv

LEMMA AllocateBufferInv ==
    ASSUME BufferInv, NEW b \in Buffers, NEW n \in 1..MaxSize, Allocate(b, n)
    PROVE  BufferInv'
<1> PICK data \in 1..TheNew :
          /\ Set(b, [stage |-> "filled", data |-> data, size |-> n, offset |-> 0, given |-> n])
          /\ \/ /\ n > BLOCK_SIZE /\ data = TheNew
                /\ NewArray(n) /\ UNCHANGED <<blocks, free>>
             \/ /\ ~(n > BLOCK_SIZE) /\ data = TheNew
                /\ NewArray(BLOCK_SIZE) /\ blocks' = blocks \cup {data} /\ UNCHANGED free
             \/ /\ ~(n > BLOCK_SIZE) /\ free # <<>> /\ data = free[Len(free)]
                /\ free' = SubSeq(free, 1, Len(free) - 1) /\ UNCHANGED <<capacity, blocks>>
  BY BufferAssumption DEF Allocate
<1> DEFINE r == [stage |-> "filled", data |-> data, size |-> n, offset |-> 0, given |-> n]
<1>1. ~Live(b) /\ UNCHANGED deleted /\ n \in 1..(MaxSize + BLOCK_SIZE) /\ BLOCK_SIZE \in 1..(MaxSize + BLOCK_SIZE)
      /\ n \in 0..MaxSize
  BY BufferAssumption DEF Allocate, Live
<1>2. r \in [stage : LiveStages, data : {data}, size : 1..MaxSize, offset : 0..MaxOffset, given : 0..MaxSize]
      /\ r.size = n /\ r.given = n
  BY <1>1, BufferAssumption DEF LiveStages
<1>3. CASE n > BLOCK_SIZE /\ data = TheNew /\ NewArray(n) /\ UNCHANGED <<blocks, free>>
  <2> HIDE DEF r
  <2> QED  BY <1>1, <1>2, <1>3, NewMemory DEF r
<1>4. CASE /\ ~(n > BLOCK_SIZE) /\ data = TheNew
           /\ NewArray(BLOCK_SIZE) /\ blocks' = blocks \cup {data} /\ UNCHANGED free
  <2>1. r.given <= BLOCK_SIZE  BY <1>1, <1>2, <1>4, BufferAssumption
  <2> QED  BY <1>1, <1>2, <1>4, <2>1, NewMemory
<1>5. CASE /\ ~(n > BLOCK_SIZE) /\ free # <<>> /\ data = free[Len(free)]
           /\ free' = SubSeq(free, 1, Len(free) - 1) /\ UNCHANGED <<capacity, blocks>>
  BY <1>1, <1>5, Reuse
<1> QED  BY <1>3, <1>4, <1>5

LEMMA EnlargeBufferInv ==
    ASSUME BufferInv, NEW b \in Buffers, NEW n \in 1..MaxSize, Enlarge(b, n)
    PROVE  BufferInv'
<1> DEFINE old == buffer[b]
           moved == [old EXCEPT !.data = TheNew, !.size = n, !.given = n]
           same == [old EXCEPT !.size = n, !.given = n]
<1>1. old \in [stage : LiveStages, data : {old.data}, size : 1..MaxSize,
               offset : 0..MaxOffset, given : 0..MaxSize]
      /\ old.stage = "filled" /\ Live(b) /\ n > old.size
  <2>1. old \in [stage : Stages, data : 0..Len(capacity), size : 0..MaxSize,
                 offset : 0..MaxOffset, given : 0..MaxSize] /\ old.stage = "filled" /\ n > old.size
    BY DEF BufferInv, TypeOK, Stages, Enlarge
  <2>2. Live(b)  BY <2>1 DEF Live
  <2>3. old.size > 0  BY <2>2 DEF BufferInv, TypeOK
  <2> HIDE DEF old
  <2>4. old.size \in 1..MaxSize  BY <2>1, <2>3
  <2> QED  BY <2>1, <2>2, <2>4 DEF LiveStages
<1>2. /\ moved \in [stage : LiveStages, data : {TheNew}, size : 1..MaxSize,
                    offset : 0..MaxOffset, given : 0..MaxSize]
      /\ moved.size = n /\ moved.given = n
  <2>1. n \in 0..MaxSize  OBVIOUS
  <2>2. moved.size = n  BY <1>1
  <2>3. moved.given = n  BY <1>1
  <2>4. moved \in [stage : LiveStages, data : {TheNew}, size : 1..MaxSize, offset : 0..MaxOffset, given : 0..MaxSize]
    BY <1>1, <2>1
  <2> QED  BY <2>2, <2>3, <2>4
<1>3. /\ same \in [stage : LiveStages, data : {old.data}, size : 1..MaxSize,
                   offset : 0..MaxOffset, given : 0..MaxSize]
      /\ same.size = n /\ same.given = n
  <2>1. n \in 0..MaxSize  OBVIOUS
  <2>2. same.size = n  BY <1>1
  <2>3. same.given = n  BY <1>1
  <2>4. same \in [stage : LiveStages, data : {old.data}, size : 1..MaxSize, offset : 0..MaxOffset, given : 0..MaxSize]
    BY <1>1, <2>1
  <2> QED  BY <2>2, <2>3, <2>4
<1>4. UNCHANGED blocks /\ n \in 1..(MaxSize + BLOCK_SIZE) /\ n <= n  BY BufferAssumption DEF Enlarge
<1>5. CASE /\ old.size > BLOCK_SIZE /\ NewArray(n) /\ deleted' = Append(deleted, old.data)
           /\ Set(b, moved) /\ UNCHANGED free
  <2>1. n > BLOCK_SIZE  BY <1>1, <1>5, BufferAssumption
  <2> HIDE DEF moved
  <2> QED  BY <1>1, <1>2, <1>4, <1>5, <2>1, NewMemory
<1>6. CASE /\ ~(old.size > BLOCK_SIZE) /\ n > BLOCK_SIZE /\ NewArray(n) /\ free' = Append(free, old.data)
           /\ Set(b, moved) /\ UNCHANGED deleted
  <2> HIDE DEF moved
  <2> QED  BY <1>1, <1>2, <1>4, <1>6, NewMemory
<1>7. CASE n <= BLOCK_SIZE /\ Set(b, same) /\ UNCHANGED <<capacity, free, deleted>>
  <2>1. ~(n > BLOCK_SIZE) /\ ~(old.size > BLOCK_SIZE)  BY <1>1, <1>7, BufferAssumption
  <2>2. old.data \in blocks /\ capacity[old.data] = BLOCK_SIZE
    BY <1>1, <2>1 DEF BufferInv, SizeTellsMemory, BlocksAreBlocks
  <2> HIDE DEF same
  <2> QED  BY <1>1, <1>3, <1>4, <1>7, <2>1, <2>2, SameMemory
<1> QED  BY <1>1, <1>5, <1>6, <1>7, BufferAssumption DEF Enlarge

\* ~BufferAllocator deletes every free block once: nobody uses one any more, and
\* each is in the list once.
LEMMA CleanBufferInv ==
    ASSUME BufferInv, Clean
    PROVE  BufferInv'
<1> DEFINE n == Cardinality(FreeSet)
<1>1. /\ free \in Seq(Arrays) /\ deleted \in Seq(Arrays) /\ Len(capacity) \in Nat
      /\ \A i \in 1..Len(free) : free[i] \in blocks
      /\ FreeSet \subseteq Arrays /\ FreeSet \subseteq blocks /\ blocks \cap FreeSet = FreeSet
      /\ blocks \subseteq Arrays /\ Len(free) \in Nat
  BY Sequences DEF FreeSet
<1>2. IsFiniteSet(FreeSet) /\ n \in Nat /\ IsFiniteSet(1..n) /\ Cardinality(1..n) = n
  <2>1. IsFiniteSet(Arrays)  BY <1>1, FS_Interval DEF Arrays
  <2>2. IsFiniteSet(FreeSet)  BY <1>1, <2>1, FS_Subset
  <2>3. n \in Nat  BY <2>2, FS_CardinalityType
  <2> QED  BY <2>2, <2>3, FS_Interval
<1>3. PICK order \in [1..n -> FreeSet] :
          /\ \A i, j \in 1..n : i < j => order[i] > order[j]
          /\ deleted' = deleted \o order
  <2>1. \E order \in [1..Cardinality(FreeSet) -> FreeSet] :
            /\ \A i, j \in DOMAIN order : i < j => order[i] > order[j]
            /\ deleted' = deleted \o order
    BY <1>1 DEF Clean
  <2> QED  BY <2>1
<1>4. /\ blocks' = blocks \ FreeSet /\ free' = <<>> /\ UNCHANGED capacity /\ Arrays' = Arrays
      /\ buffer' = [b \in Buffers |-> [Fresh EXCEPT !.stage = "gone"]]
      /\ \A b \in Buffers : buffer[b].stage = "released"
  BY DEF Clean, Arrays
<1> HIDE DEF n
<1>5. \A i, j \in 1..n : i < j => order[i] # order[j]
  <2> SUFFICES ASSUME NEW i \in 1..n, NEW j \in 1..n, i < j PROVE order[i] # order[j]  OBVIOUS
  <2>1. order[i] \in Arrays /\ order[j] \in Arrays  BY <1>1
  <2>2. order[i] \in Int /\ order[j] \in Int  BY <1>1, <2>1 DEF Arrays
  <2> QED  BY <1>3, <2>2
<1>6. \A x \in FreeSet : \E i \in 1..n : order[i] = x
  <2>1. order \in Injection(1..n, FreeSet)
    <3>1. ASSUME NEW i \in 1..n, NEW j \in 1..n, order[i] = order[j] PROVE i = j
      BY <1>2, <1>5, <3>1
    <3> QED  BY <1>3, <3>1 DEF Injection, IsInjective
  <2>2. order \in Surjection(1..n, FreeSet)  BY <1>2, <2>1, FS_Injection DEF n
  <2> QED  BY <2>2 DEF Surjection
<1>7. \A b \in Buffers : ~Live(b) /\ ~Live(b)'  BY <1>4 DEF Live, Fresh
<1>8. order \in [1..n -> Arrays]  BY <1>1, <1>3
<1>9. deleted' \in Seq(Arrays)
  <2>1. order \in Seq(Arrays)  BY <1>2, <1>8
  <2>2. deleted \in Seq(Arrays) /\ deleted' = deleted \o order  BY <1>1, <1>3
  <2> QED  BY <2>1, <2>2, ConcatProperties
<1>10. TypeOK'
  <2>1. [Fresh EXCEPT !.stage = "gone"] \in [stage : Stages, data : 0..Len(capacity), size : 0..MaxSize,
                                             offset : 0..MaxOffset, given : 0..MaxSize]
    BY <1>1, BufferAssumption DEF Fresh, Stages
  <2>2. free' \in Seq(Arrays)  BY <1>4, EmptySeq
  <2> QED  BY <1>1, <1>4, <1>7, <1>9, <2>1, <2>2 DEF BufferInv, TypeOK, Arrays, Stages
<1>11. (LiveHaveArrays /\ SizeTellsMemory)'  BY <1>7 DEF LiveHaveArrays, SizeTellsMemory
<1>12. (BlocksAreBlocks /\ FreeIsKnown)'
  <2>1. BlocksAreBlocks'  BY <1>4 DEF BufferInv, BlocksAreBlocks
  <2>2. FreeIsKnown'  BY <1>4 DEF FreeIsKnown, FreeSet
  <2> QED  BY <2>1, <2>2
<1>13. OneOwner'
  <2> SUFFICES ASSUME NEW x \in Arrays PROVE Owners(x)' = 1
    BY <1>4 DEF OneOwner, Owners, Users, Arrays
  <2>1. Owners(x)' = Times(x, free') + Times(x, deleted') + Cardinality(Users(x)')  BY DEF Owners, Times
  <2>2. Users(x) = {} /\ Users(x)' = {}  BY <1>7 DEF Users
  <2>3. Cardinality(Users(x)) = 0 /\ Cardinality(Users(x)') = 0  BY <2>2, FS_EmptySet
  <2>4. Times(x, free') = 0
    <3>1. <<>> \in Seq(Arrays) /\ \A i \in 1..Len(<<>>) : <<>>[i] # x  BY EmptySeq
    <3>2. Times(x, <<>>) = 0  BY <3>1, TimesNone
    <3> QED  BY <1>4, <3>2
  <2>5. Times(x, deleted') = IF \E i \in 1..n : order[i] = x THEN Times(x, deleted) + 1 ELSE Times(x, deleted)
    BY <1>1, <1>2, <1>3, <1>5, <1>8, TimesConcat
  <2>6. /\ Times(x, free) \in Nat /\ Times(x, deleted) \in Nat
        /\ Times(x, free) + Times(x, deleted) = 1
    BY <2>3, Sequences DEF Owners
  <2>7. CASE x \in FreeSet
    <3>1. Times(x, free) >= 1
      <4> PICK i \in 1..Len(free) : free[i] = x  BY <2>7 DEF FreeSet
      <4> QED  BY <1>1, TimesPositive
    <3>2. \E i \in 1..n : order[i] = x  BY <1>6, <2>7
    <3>3. Times(x, deleted') = Times(x, deleted) + 1  BY <2>5, <3>2
    <3> QED  BY <2>1, <2>3, <2>4, <2>6, <3>1, <3>3
  <2>8. CASE x \notin FreeSet
    <3>1. Times(x, free) = 0  BY <1>1, <2>8, TimesNone DEF FreeSet
    <3>2. ~ \E i \in 1..n : order[i] = x  BY <1>3, <2>8
    <3>3. Times(x, deleted') = Times(x, deleted)  BY <2>5, <3>2
    <3> QED  BY <2>1, <2>3, <2>4, <2>6, <3>1, <3>3
  <2> QED  BY <2>7, <2>8
<1> QED  BY <1>10, <1>11, <1>12, <1>13 DEF BufferInv

LEMMA NextBufferInv == BufferInv /\ [Next]_vars => BufferInv'
<1> SUFFICES ASSUME BufferInv, [Next]_vars PROVE BufferInv'  OBVIOUS
<1>1. CASE UNCHANGED vars
  <2>1. UNCHANGED <<buffer, capacity, blocks, free, deleted>>  BY <1>1 DEF vars
  <2> QED
    BY <2>1 DEF BufferInv, TypeOK, Live, LiveHaveArrays, Arrays, BlocksAreBlocks, SizeTellsMemory, FreeIsKnown,
                FreeSet, OneOwner, Times
<1>2. CASE Clean  BY <1>2, CleanBufferInv
<1>3. CASE Over  BY <1>1, <1>3 DEF Over
<1>4. CASE \E b \in Buffers : Release(b)  BY <1>4, ReleaseBufferInv
<1>5. CASE \E b \in Buffers : \E n \in 1..MaxSize : Allocate(b, n) \/ Cut(b, n) \/ Enlarge(b, n) \/ Sent(b, n)
  BY <1>5, AllocateBufferInv, CutBufferInv, EnlargeBufferInv, SentBufferInv
<1> QED  BY <1>1, <1>2, <1>3, <1>4, <1>5 DEF Next

THEOREM BufferInvariant == Spec => []BufferInv
BY InitBufferInv, NextBufferInv, PTL DEF Spec

\* Every array has one owner at any time: no double free and no buffer that shares
\* its memory, whatever is cut, enlarged, sent in parts and released, and however
\* many buffers there are (BufferAllocator.cpp:23-132).
THEOREM ArraysHaveOneOwner == Spec => []OneOwner
<1>1. BufferInv => OneOwner  BY DEF BufferInv
<1> QED  BY <1>1, BufferInvariant, PTL

\* release and resize tell from the size what the memory is, for any size of a block
\* (BufferAllocator.cpp:76-132).
THEOREM SizesTellMemory == Spec => []SizeTellsMemory
<1>1. BufferInv => SizeTellsMemory  BY DEF BufferInv
<1> QED  BY <1>1, BufferInvariant, PTL

\* What is free is known, so that clean deletes it (BufferAllocator.cpp:23-49).
THEOREM FreeBlocksAreKnown == Spec => []FreeIsKnown
<1>1. BufferInv => FreeIsKnown  BY DEF BufferInv
<1> QED  BY <1>1, BufferInvariant, PTL

\* The memory of any number of buffers, of blocks of any size, stays sound whatever is
\* done with them (Buffer.hpp, BufferAllocator.cpp).
THEOREM MemoryStaysSound == Spec => []MemoryIsSound
<1>1. BufferInv => MemoryIsSound  BY DEF BufferInv, MemoryIsSound
<1> QED  BY <1>1, BufferInvariant, PTL

-----------------------------------------------------------------------------
(* SelectSelector, for any set of descriptors.                              *)

\* What is ready is a descriptor, never the selector's own socket.
ReadyAreFds == ready \subseteq Fds /\ fdlist \subseteq Fds

\* A registered descriptor will be seen: before select() it may also be still to
\* prepare, and the one that is being registered has its wake-up to come.
WillBeSeen(fd) ==
    \/ fd = selectorMutex
    \/ pipe > 0
    \/ fd \in selector.sets
    \/ fd \in refused
    \/ Selector!At("prepare") /\ fd \in selector.todo

SelectorInv ==
    /\ ReadyAreFds
    /\ pipe \in Nat
    /\ selector = [at |-> selector.at, copy |-> selector.copy, todo |-> selector.todo, sets |-> selector.sets]
    /\ Selector!At("prepare") \/ Selector!At("select") => \A fd \in fdlist : WillBeSeen(fd)
    /\ Selector!BlocksInSelect

LEMMA InitSelectorInv == Selector!Init => SelectorInv
BY DEF Selector!Init, SelectorInv, ReadyAreFds, WillBeSeen, Selector!At, Selector!BlocksInSelect, Selector!Interrupt

\* Threads other than the socket pool's.
LEMMA RegisterSelectorInv ==
    ASSUME SelectorInv, NEW fd \in Fds,
           Selector!RegisterInserts(fd) \/ Selector!RegisterInterrupts \/ Selector!Unregister(fd)
           \/ Selector!Arrives(fd) \/ Selector!Consume(fd)
    PROVE  SelectorInv'
<1> USE DEF SelectorInv, ReadyAreFds, WillBeSeen, Selector!At, Selector!BlocksInSelect
<1>1. CASE Selector!RegisterInserts(fd)  BY <1>1, PartsAssumption DEF Selector!RegisterInserts
<1>2. CASE Selector!RegisterInterrupts  BY <1>2 DEF Selector!RegisterInterrupts
<1>3. CASE Selector!Unregister(fd)  BY <1>3 DEF Selector!Unregister
<1>4. CASE Selector!Arrives(fd)  BY <1>4 DEF Selector!Arrives
<1>5. CASE Selector!Consume(fd)  BY <1>5 DEF Selector!Consume
<1> QED  BY <1>1, <1>2, <1>3, <1>4, <1>5

LEMMA WatchSelectorInv ==
    ASSUME SelectorInv,
           Selector!Copy \/ Selector!Prepare \/ Selector!Prepared \/ Selector!Select
           \/ Selector!SelectInterrupted \/ Selector!SelectFails \/ Selector!ReadInterrupt \/ Selector!Update \/ Selector!Updated
    PROVE  SelectorInv'
<1> USE DEF SelectorInv, ReadyAreFds, WillBeSeen, Selector!At, Selector!BlocksInSelect
<1>1. CASE Selector!Copy  BY <1>1, PartsAssumption DEF Selector!Copy, Selector!Interrupt
<1>2. CASE Selector!Prepare
  <2> DEFINE m == Selector!Min(selector.todo)
  <2>1. /\ Selector!At("prepare") /\ UNCHANGED <<selectorMutex, pipe, ready>>
        /\ \/ /\ m < FD_SETSIZE - 1
              /\ selector' = [selector EXCEPT !.todo = @ \ {m}, !.sets = @ \cup {m}]
              /\ UNCHANGED <<fdlist, refused>>
           \/ /\ selector' = [selector EXCEPT !.todo = @ \ {m}]
              /\ \/ m \in fdlist /\ refused' = refused \cup {m} /\ UNCHANGED fdlist
                 \/ fdlist' = fdlist \ {m} /\ refused' = refused \ {m}
    BY <1>2 DEF Selector!Prepare
  <2> HIDE DEF m
  <2> QED  BY <2>1
<1>3. CASE Selector!Prepared  BY <1>3 DEF Selector!Prepared
<1>4. CASE Selector!Select  BY <1>4, PartsAssumption DEF Selector!Select, Selector!Reported, Selector!Interrupt
<1>5. CASE Selector!SelectInterrupted  BY <1>5 DEF Selector!SelectInterrupted
<1>6. CASE Selector!ReadInterrupt
  <2>1. /\ selector' = [selector EXCEPT !.at = "update", !.todo = selector.copy]
        /\ UNCHANGED <<fdlist, ready>>
    BY <1>6 DEF Selector!ReadInterrupt
  <2>2. pipe' \in Nat  BY <1>6 DEF Selector!ReadInterrupt
  <2>3. selector'.at = "update"  BY <2>1
  <2> QED  BY <2>1, <2>2, <2>3
<1>7. CASE Selector!Update
  <2> DEFINE m == Selector!Min(selector.todo)
  <2>1. /\ Selector!At("update") /\ UNCHANGED <<selectorMutex, pipe, ready>>
        /\ selector' = [selector EXCEPT !.todo = @ \ {m}]
        /\ UNCHANGED fdlist \/ fdlist' = fdlist \ {m}
    BY <1>7 DEF Selector!Update
  <2> HIDE DEF m
  <2> QED  BY <2>1
<1>8. CASE Selector!Updated  BY <1>8 DEF Selector!Updated
<1>9. CASE Selector!SelectFails  BY <1>9 DEF Selector!SelectFails
<1> QED  BY <1>1, <1>2, <1>3, <1>4, <1>5, <1>6, <1>7, <1>8, <1>9

LEMMA NextSelectorInv ==
    ASSUME SelectorInv, [Selector!Next]_(Selector!vars)
    PROVE  SelectorInv'
<1>1. CASE UNCHANGED Selector!vars
  BY <1>1 DEF Selector!vars, SelectorInv, ReadyAreFds, WillBeSeen, Selector!At, Selector!BlocksInSelect
<1>2. CASE \E fd \in Fds :
               Selector!RegisterInserts(fd) \/ Selector!Unregister(fd) \/ Selector!Arrives(fd) \/ Selector!Consume(fd)
  BY <1>2, RegisterSelectorInv
<1>3. CASE Selector!RegisterInterrupts
  BY <1>3 DEF SelectorInv, ReadyAreFds, WillBeSeen, Selector!At, Selector!BlocksInSelect, Selector!RegisterInterrupts
<1>4. CASE Selector!Copy \/ Selector!Prepare \/ Selector!Prepared \/ Selector!Select
           \/ Selector!SelectInterrupted \/ Selector!SelectFails \/ Selector!ReadInterrupt \/ Selector!Update \/ Selector!Updated
  BY <1>4, WatchSelectorInv
<1> QED  BY <1>1, <1>2, <1>3, <1>4 DEF Selector!Next

\* While the socket pool sleeps, whatever was registered is in its sets, was
\* refused, or has written the byte that wakes it up: no wake-up is lost, with
\* any number of descriptors and of threads (BasicSocketSelector.cpp:78-84, 34-53).
THEOREM SelectorSees == Selector!Spec => []Selector!RegisteredIsSeen
<1>1. SelectorInv => Selector!RegisteredIsSeen
  BY PartsAssumption DEF SelectorInv, ReadyAreFds, WillBeSeen, Selector!RegisteredIsSeen, Selector!At
<1>2. Selector!Init => SelectorInv  BY InitSelectorInv
<1>3. SelectorInv /\ [Selector!Next]_(Selector!vars) => SelectorInv'  BY NextSelectorInv
<1> QED  BY <1>1, <1>2, <1>3, PTL DEF Selector!Spec

\* Without a signal the read of the interrupting socket never blocks
\* (BasicSocketSelector.cpp:55-73).
THEOREM SelectorBlocksInSelect == Selector!Spec => []Selector!BlocksInSelect
<1>1. SelectorInv => Selector!BlocksInSelect  BY DEF SelectorInv
<1>2. Selector!Init => SelectorInv  BY InitSelectorInv
<1>3. SelectorInv /\ [Selector!Next]_(Selector!vars) => SelectorInv'  BY NextSelectorInv
<1> QED  BY <1>1, <1>2, <1>3, PTL DEF Selector!Spec

\* The selector misses nothing that was registered and sleeps in select() alone, for
\* any descriptors and any threads that register them.
THEOREM SelectorStaysAwake == PartsSpec => []SelectorIsAwake
<1>1. Selector!RegisteredIsSeen /\ Selector!BlocksInSelect => SelectorIsAwake
  BY DEF SelectorIsAwake, Selector!SelectorIsAwake
<1> QED  BY <1>1, SelectorSees, SelectorBlocksInSelect, PartsRunAlone, PTL

-----------------------------------------------------------------------------
(* UserStore, for any number of clients.                                    *)

Statement == [op : {"none", "insertAuth", "insertSession", "deleteSessions"}, id : Nat]
Client == [at : {"new", "register", "password", "renew", "user", "close", "step", "gone"},
           does : {"none", "subscribe", "login", "logout"}, id : Nat, reading : BOOLEAN,
           pending : Statement, answer : {"none", "error", "exception", "success"},
           busy : BOOLEAN, raced : BOOLEAN]

Makes(r) == r.does = "subscribe" /\ r.answer = "success"
Registered == {c \in Actors : Makes(conn[c])}

\* Somebody else was told that his session has taken the place of the client's, or that
\* the user's sessions are ended.
Takes(d, c) == conn[d].id = conn[c].id /\ conn[d].does # "subscribe" /\ conn[d].answer = "success"
Replaced(c) == \E d \in Actors \ {c} : Takes(d, c)

\* A client by itself, and what it can still do to the tables.
Row(c) ==
    LET r == conn[c]
        after == r.at \in {"close", "step", "gone"} IN
    /\ r.id <= users
    /\ r.at = "new" => r = Store!Closed
    /\ r.at = "register" => r.does = "subscribe"
    /\ r.at \in {"password", "renew"} => r.does = "login" /\ r.id > 0
    /\ r.at = "user" => r.does = "logout" /\ r.id > 0
    /\ r.answer = "success" \/ r.busy \/ r.raced => after
    /\ r.pending # Store!Nothing =>
          /\ r.at \in {"close", "step"} /\ r.answer = "success" /\ r.pending.id = r.id /\ r.id > 0
          /\ r.pending.op = "insertAuth" <=> r.does = "subscribe"
          /\ r.pending.op = "insertSession" <=> r.does = "login"
          /\ r.pending.op # "none"
    /\ Makes(r) => r.pending # Store!Nothing \/ r.id \in auth \/ r.busy
    /\ r.does = "login" /\ r.answer = "success" =>
          r.pending # Store!Nothing \/ <<r.id, c>> \in sessions \/ r.busy \/ Replaced(c)

Inserts(c, id) == conn[c].pending = [op |-> "insertSession", id |-> id]
Flawed(id) == \E c \in Actors : conn[c].id = id /\ (conn[c].busy \/ conn[c].raced)

\* A user has a session, or a client that is going to insert one, and not two of them.
OneOf(id) ==
    \/ Flawed(id)
    \/ /\ \A p, q \in sessions : p[1] = id /\ q[1] = id => p = q
       /\ \A c, d \in Actors : Inserts(c, id) /\ Inserts(d, id) => c = d
       /\ \A c \in Actors, p \in sessions : Inserts(c, id) => p[1] # id

Tables ==
    /\ users \in Nat /\ users = Cardinality(Registered)
    /\ auth \subseteq 1..users /\ sessions \subseteq (1..users) \X Actors

StoreInv ==
    /\ conn \in [Actors -> Client] /\ Tables
    /\ \A c \in Actors : Row(c)
    /\ \A id \in Nat : OneOf(id)

\* What a client was told, and that something went wrong, stays.
Lasting(q, r) ==
    /\ q.answer = "success" => r.answer = "success" /\ r.id = q.id /\ r.does = q.does
    /\ q.busy \/ q.raced => r.id = q.id /\ (r.busy \/ r.raced)

LEMMA RegisteredFinite ==
    ASSUME conn \in [Actors -> Client]
    PROVE  IsFiniteSet(Registered) /\ Cardinality(Registered) \in Nat /\ Cardinality(Registered) <= Cardinality(Actors)
<1>1. Registered \in SUBSET Actors  BY DEF Registered
<1> QED  BY <1>1, PartsAssumption, FS_Subset, FS_CardinalityType

LEMMA StoreRegistered ==
    ASSUME conn \in [Actors -> Client], NEW c \in Actors, NEW r \in Client, conn' = [conn EXCEPT ![c] = r],
           Makes(conn[c]) => Makes(r), users \in Nat, users = Cardinality(Registered),
           users' = IF Makes(r) /\ ~Makes(conn[c]) THEN users + 1 ELSE users
    PROVE  users' \in Nat /\ users' = Cardinality(Registered)'
<1>1. CASE Makes(r) /\ ~Makes(conn[c])
  <2>1. Registered' = Registered \cup {c} /\ c \notin Registered  BY <1>1 DEF Registered
  <2>2. Cardinality(Registered \cup {c}) = Cardinality(Registered) + 1
    BY <2>1, RegisteredFinite, FS_AddElement
  <2> QED  BY <1>1, <2>1, <2>2
<1>2. CASE ~(Makes(r) /\ ~Makes(conn[c]))
  <2>1. Registered' = Registered  BY <1>2 DEF Registered
  <2> QED  BY <1>2, <2>1
<1> QED  BY <1>1, <1>2

LEMMA StoreOthers ==
    ASSUME StoreInv, NEW c \in Actors, NEW r \in Client, conn' = [conn EXCEPT ![c] = r], Lasting(conn[c], r),
           users' \in Nat, users <= users', auth \subseteq auth', NEW d \in Actors \ {c},
           <<conn[d].id, d>> \in sessions => <<conn[d].id, d>> \in sessions' \/ Takes(c, d)'
    PROVE  Row(d)'
<1>1. conn'[d] = conn[d] /\ conn[d] \in Client /\ Row(d) /\ users \in Nat /\ conn'[c] = r
  BY DEF StoreInv, Tables
<1>2. Replaced(d) => Replaced(d)'
  <2>1. ASSUME NEW e \in Actors \ {d}, Takes(e, d) PROVE Takes(e, d)'
    <3>1. CASE e = c  BY <1>1, <2>1, <3>1 DEF Takes, Lasting
    <3>2. CASE e # c  BY <1>1, <2>1, <3>2 DEF Takes, StoreInv
    <3> QED  BY <3>1, <3>2
  <2> QED  BY <2>1 DEF Replaced
<1>3. Takes(c, d)' => Replaced(d)'  BY DEF Replaced
<1>4. conn[d].id \in Nat  BY <1>1 DEF Client
<1>5. conn[d].id <= users'  BY <1>1, <1>4 DEF Row
<1>6. <<conn[d].id, d>> \in sessions \/ Replaced(d) => <<conn[d].id, d>> \in sessions' \/ Replaced(d)'
  BY <1>2, <1>3
<1> QED  BY <1>1, <1>5, <1>6 DEF Row

\* A step of one client keeps the invariant if what it does to the tables is right.
LEMMA StoreStep ==
    ASSUME StoreInv, NEW c \in Actors, NEW r \in Client, conn' = [conn EXCEPT ![c] = r], Lasting(conn[c], r),
           users' = IF Makes(r) /\ ~Makes(conn[c]) THEN users + 1 ELSE users,
           auth \subseteq auth', auth' \subseteq 1..users', sessions' \subseteq (1..users') \X Actors,
           \A d \in Actors \ {c} : <<conn[d].id, d>> \in sessions => <<conn[d].id, d>> \in sessions' \/ Takes(c, d)',
           Row(c)', \A id \in Nat : OneOf(id)'
    PROVE  StoreInv'
<1>1. users \in Nat /\ users = Cardinality(Registered) /\ conn \in [Actors -> Client]  BY DEF StoreInv, Tables
<1>2. Makes(conn[c]) => Makes(r)  BY DEF Makes, Lasting
<1>3. users' \in Nat /\ users' = Cardinality(Registered)'  BY <1>1, <1>2, StoreRegistered
<1>4. users <= users'  BY <1>1
<1>5. \A d \in Actors \ {c} : Row(d)'  BY <1>3, <1>4, StoreOthers
<1>6. conn' \in [Actors -> Client]  BY <1>1
<1>7. Tables'  BY <1>3 DEF Tables
<1>8. \A d \in Actors : Row(d)'  BY <1>5
<1> QED  BY <1>6, <1>7, <1>8 DEF StoreInv

\* The step neither inserts a session nor plans to.
LEMMA StoreOneOf ==
    ASSUME StoreInv, NEW c \in Actors, NEW r \in Client, conn' = [conn EXCEPT ![c] = r], Lasting(conn[c], r),
           sessions' \subseteq sessions, r.pending = conn[c].pending \/ r.pending.op # "insertSession",
           NEW id \in Nat
    PROVE  OneOf(id)'
<1>1. OneOf(id) /\ conn \in [Actors -> Client] /\ conn'[c] = r /\ \A d \in Actors : d # c => conn'[d] = conn[d]
  BY DEF StoreInv
<1>2. CASE Flawed(id)
  <2>1. PICK d \in Actors : conn[d].id = id /\ (conn[d].busy \/ conn[d].raced)  BY <1>2 DEF Flawed
  <2>2. conn'[d].id = id /\ (conn'[d].busy \/ conn'[d].raced)
    <3>1. CASE d = c  BY <1>1, <2>1, <3>1 DEF Lasting
    <3>2. CASE d # c  BY <1>1, <2>1, <3>2
    <3> QED  BY <3>1, <3>2
  <2> QED  BY <2>2 DEF Flawed, OneOf
<1>3. CASE ~Flawed(id)
  <2>1. \A d \in Actors : Inserts(d, id)' => Inserts(d, id)  BY <1>1 DEF Inserts
  <2> QED  BY <1>1, <1>3, <2>1 DEF OneOf
<1> QED  BY <1>2, <1>3

\* The step leaves the tables as they are.
LEMMA StoreQuiet ==
    ASSUME StoreInv, NEW c \in Actors, NEW r \in Client, conn' = [conn EXCEPT ![c] = r], Lasting(conn[c], r),
           UNCHANGED <<users, auth, sessions>>, Makes(r) => Makes(conn[c]),
           r.pending = conn[c].pending \/ r.pending.op # "insertSession", Row(c)'
    PROVE  StoreInv'
<1>1. users' = IF Makes(r) /\ ~Makes(conn[c]) THEN users + 1 ELSE users  OBVIOUS
<1>2. auth' \subseteq 1..users' /\ sessions' \subseteq (1..users') \X Actors /\ auth \subseteq auth' /\ sessions = sessions'
  BY DEF StoreInv, Tables
<1>3. \A id \in Nat : OneOf(id)'  BY <1>2, StoreOneOf
<1> QED  BY <1>1, <1>2, <1>3, StoreStep

LEMMA StoreRow ==
    ASSUME StoreInv, NEW c \in Actors
    PROVE  conn[c] \in Client /\ Row(c) /\ users \in Nat /\ conn \in [Actors -> Client]
BY DEF StoreInv, Tables

\* A client that has not answered answers with something other than success.
LEMMA StoreAnswers ==
    ASSUME StoreInv, NEW c \in Actors, NEW r \in Client, conn' = [conn EXCEPT ![c] = r],
           UNCHANGED <<users, auth, sessions>>,
           conn[c].at \in {"new", "register", "password", "renew", "user"}, r.at = "close", r.answer # "success",
           ~r.raced, r.pending = Store!Nothing, r.id <= users
    PROVE  StoreInv'
<1>1. conn[c].answer # "success" /\ ~conn[c].busy /\ ~conn[c].raced /\ conn'[c] = r
  BY StoreRow DEF Row
<1>2. Row(c)'  BY <1>1 DEF Row, Makes, Store!Nothing
<1>3. Lasting(conn[c], r)  BY <1>1 DEF Lasting
<1>4. Makes(r) => Makes(conn[c])  BY DEF Makes
<1>5. r.pending.op # "insertSession"  BY DEF Store!Nothing
<1> QED  BY <1>2, <1>3, <1>4, <1>5, StoreQuiet

\* A client goes on to its next statement.
LEMMA StoreGoesOn ==
    ASSUME StoreInv, NEW c \in Actors, NEW r \in Client, conn' = [conn EXCEPT ![c] = r],
           UNCHANGED <<users, auth, sessions>>,
           conn[c].at \in {"new", "password"}, r.at \in {"register", "password", "renew", "user"},
           r.at = "register" => r.does = "subscribe",
           r.at \in {"password", "renew"} => r.does = "login" /\ r.id > 0,
           r.at = "user" => r.does = "logout" /\ r.id > 0,
           r.answer = "none", ~r.busy, ~r.raced, r.pending = Store!Nothing, r.id <= users
    PROVE  StoreInv'
<1>1. conn[c].answer # "success" /\ ~conn[c].busy /\ ~conn[c].raced /\ conn'[c] = r
  BY StoreRow DEF Row
<1>2. Row(c)'  BY <1>1 DEF Row, Makes, Store!Nothing
<1>3. Lasting(conn[c], r)  BY <1>1 DEF Lasting
<1>4. Makes(r) => Makes(conn[c])  BY DEF Makes
<1>5. r.pending.op # "insertSession"  BY DEF Store!Nothing
<1> QED  BY <1>2, <1>3, <1>4, <1>5, StoreQuiet

LEMMA StoreClosed == Store!Closed \in Client /\ Store!Nothing \in Statement
BY DEF Store!Closed, Store!Nothing, Client, Statement

LEMMA StoreThrows ==
    ASSUME StoreInv, NEW c \in Actors, Store!Throws(c), conn[c].at \in {"new", "password", "user"}
    PROVE  StoreInv'
<1> DEFINE r == [conn[c] EXCEPT !.at = "close", !.answer = "exception", !.busy = TRUE]
<1>1. conn[c] \in Client /\ Row(c)  BY StoreRow
<1>2. r \in Client /\ r.at = "close" /\ r.answer = "exception" /\ r.raced = conn[c].raced
      /\ r.pending = conn[c].pending /\ r.id = conn[c].id
  BY <1>1 DEF Client
<1>3. conn' = [conn EXCEPT ![c] = r] /\ UNCHANGED <<users, auth, sessions>>
  BY DEF Store!Throws, Store!Busy, Store!UnchangedTables, Store!Becomes
<1>4. ~r.raced /\ r.pending = Store!Nothing /\ r.id <= users
  BY <1>1, <1>2 DEF Row
<1> HIDE DEF r
<1> QED  BY <1>2, <1>3, <1>4, StoreAnswers

LEMMA IsUserExistsStep ==
    ASSUME StoreInv, NEW c \in Actors, Store!IsUserExists(c)
    PROVE  StoreInv'
<1> USE DEF Store!UnchangedTables, Store!Becomes
<1>1. conn[c].at = "new" /\ users \in Nat  BY StoreRow DEF Store!IsUserExists, Store!At
<1>2. CASE Store!Throws(c)  BY <1>1, <1>2, StoreThrows
<1>3. CASE users > 0 /\ Store!Reads(c, [Store!Closed EXCEPT !.does = "subscribe", !.reading = TRUE])
  <2> DEFINE r == [[Store!Closed EXCEPT !.does = "subscribe", !.reading = TRUE] EXCEPT !.at = "close", !.answer = "error"]
  <2>1. r \in Client /\ r.at = "close" /\ r.answer = "error" /\ ~r.raced /\ r.pending = Store!Nothing /\ r.id = 0
    BY StoreClosed DEF Client, Store!Closed
  <2>2. conn' = [conn EXCEPT ![c] = r] /\ UNCHANGED <<users, auth, sessions>>  BY <1>3 DEF Store!Reads
  <2>3. r.id <= users  BY <1>1, <2>1
  <2> HIDE DEF r
  <2> QED  BY <1>1, <2>1, <2>2, <2>3, StoreAnswers
<1>4. CASE users = 0 /\ Store!UnchangedTables
           /\ Store!Becomes(c, [Store!Closed EXCEPT !.does = "subscribe", !.at = "register"])
  <2> DEFINE r == [Store!Closed EXCEPT !.does = "subscribe", !.at = "register"]
  <2>1. r \in Client /\ r.at = "register" /\ r.does = "subscribe" /\ r.answer = "none" /\ ~r.busy /\ ~r.raced
        /\ r.pending = Store!Nothing /\ r.id = 0
    BY StoreClosed DEF Client, Store!Closed
  <2>2. conn' = [conn EXCEPT ![c] = r] /\ UNCHANGED <<users, auth, sessions>>  BY <1>4
  <2>3. r.id <= users  BY <1>1, <2>1
  <2> HIDE DEF r
  <2> QED  BY <1>1, <2>1, <2>2, <2>3, StoreGoesOn
<1> QED  BY <1>2, <1>3, <1>4 DEF Store!IsUserExists

LEMMA AuthenticateStep ==
    ASSUME StoreInv, NEW c \in Actors, Store!Authenticate(c)
    PROVE  StoreInv'
<1> USE DEF Store!UnchangedTables, Store!Becomes
<1>1. conn[c].at = "new" /\ users \in Nat  BY StoreRow DEF Store!Authenticate, Store!At
<1>2. CASE Store!Throws(c)  BY <1>1, <1>2, StoreThrows
<1>3. CASE users = 0 /\ Store!Reads(c, [Store!Closed EXCEPT !.does = "login"])
  <2> DEFINE r == [[Store!Closed EXCEPT !.does = "login"] EXCEPT !.at = "close", !.answer = "error"]
  <2>1. r \in Client /\ r.at = "close" /\ r.answer = "error" /\ ~r.raced /\ r.pending = Store!Nothing /\ r.id = 0
    BY StoreClosed DEF Client, Store!Closed
  <2>2. conn' = [conn EXCEPT ![c] = r] /\ UNCHANGED <<users, auth, sessions>>  BY <1>3 DEF Store!Reads
  <2>3. r.id <= users  BY <1>1, <2>1
  <2> HIDE DEF r
  <2> QED  BY <1>1, <2>1, <2>2, <2>3, StoreAnswers
<1>4. CASE users > 0 /\ Store!UnchangedTables
           /\ Store!Becomes(c, [Store!Closed EXCEPT !.does = "login", !.at = "password", !.id = 1, !.reading = TRUE])
  <2> DEFINE r == [Store!Closed EXCEPT !.does = "login", !.at = "password", !.id = 1, !.reading = TRUE]
  <2>1. r \in Client /\ r.at = "password" /\ r.does = "login" /\ r.answer = "none" /\ ~r.busy /\ ~r.raced
        /\ r.pending = Store!Nothing /\ r.id = 1
    BY StoreClosed DEF Client, Store!Closed
  <2>2. conn' = [conn EXCEPT ![c] = r] /\ UNCHANGED <<users, auth, sessions>>  BY <1>4
  <2>3. r.id <= users /\ r.id > 0  BY <1>1, <1>4, <2>1
  <2> HIDE DEF r
  <2> QED  BY <1>1, <2>1, <2>2, <2>3, StoreGoesOn
<1> QED  BY <1>2, <1>3, <1>4 DEF Store!Authenticate

LEMMA CheckPasswordStep ==
    ASSUME StoreInv, NEW c \in Actors, Store!CheckPassword(c)
    PROVE  StoreInv'
<1> USE DEF Store!UnchangedTables, Store!Becomes
<1>1. conn[c].at = "password" /\ conn[c] \in Client  BY StoreRow DEF Store!CheckPassword, Store!At
<1>2. CASE Store!Throws(c)  BY <1>1, <1>2, StoreThrows
<1>3. ~conn[c].raced /\ ~conn[c].busy /\ conn[c].pending = Store!Nothing /\ conn[c].id <= users
      /\ conn[c].does = "login" /\ conn[c].id > 0 /\ conn[c].answer # "success"
  BY <1>1, StoreRow DEF Row
<1>4. CASE Store!Reads(c, [conn[c] EXCEPT !.reading = FALSE])
  <2> DEFINE r == [[conn[c] EXCEPT !.reading = FALSE] EXCEPT !.at = "close", !.answer = "error"]
  <2>1. r \in Client /\ r.at = "close" /\ r.answer = "error" /\ ~r.raced /\ r.pending = Store!Nothing /\ r.id <= users
    BY <1>1, <1>3 DEF Client
  <2>2. conn' = [conn EXCEPT ![c] = r] /\ UNCHANGED <<users, auth, sessions>>  BY <1>4 DEF Store!Reads
  <2>3. r.id <= users  BY <1>1, <2>1
  <2> HIDE DEF r
  <2> QED  BY <1>1, <2>1, <2>2, <2>3, StoreAnswers
<1>5. CASE Store!UnchangedTables /\ Store!Becomes(c, [conn[c] EXCEPT !.at = "renew"])
  <2> DEFINE r == [conn[c] EXCEPT !.at = "renew"]
  <2>1. r \in Client /\ r = [conn[c] EXCEPT !.at = "renew"] /\ r.at = "renew" /\ conn'[c] = r
        /\ conn' = [conn EXCEPT ![c] = r] /\ UNCHANGED <<users, auth, sessions>>
    BY <1>1, <1>5, StoreRow DEF Client
  <2> HIDE DEF r
  <2>2. r.does = "login" /\ r.id = conn[c].id /\ r.answer = conn[c].answer /\ ~r.busy /\ ~r.raced
        /\ r.pending = Store!Nothing
    BY <1>1, <1>3, <2>1 DEF Client
  <2>3. Row(c)'  BY <1>3, <2>1, <2>2 DEF Row, Makes
  <2> QED  BY <1>3, <2>1, <2>2, <2>3, StoreQuiet DEF Lasting, Makes
<1> QED  BY <1>2, <1>4, <1>5 DEF Store!CheckPassword

LEMMA GetUserIdStep ==
    ASSUME StoreInv, NEW c \in Actors, NEW does \in {"login", "logout"}, Store!GetUserIdFromHash(c, does)
    PROVE  StoreInv'
<1> USE DEF Store!UnchangedTables, Store!Becomes
<1>1. conn[c].at = "new" /\ users \in Nat  BY StoreRow DEF Store!GetUserIdFromHash, Store!At
<1>2. CASE Store!Throws(c)  BY <1>1, <1>2, StoreThrows
<1>3. CASE Store!Reads(c, [Store!Closed EXCEPT !.does = does])
  <2> DEFINE r == [[Store!Closed EXCEPT !.does = does] EXCEPT !.at = "close", !.answer = "error"]
  <2>1. r \in Client /\ r.at = "close" /\ r.answer = "error" /\ ~r.raced /\ r.pending = Store!Nothing /\ r.id = 0
    BY StoreClosed DEF Client, Store!Closed
  <2>2. conn' = [conn EXCEPT ![c] = r] /\ UNCHANGED <<users, auth, sessions>>  BY <1>3 DEF Store!Reads
  <2>3. r.id <= users  BY <1>1, <2>1
  <2> HIDE DEF r
  <2> QED  BY <1>1, <2>1, <2>2, <2>3, StoreAnswers
<1>4. ASSUME NEW p \in sessions, Store!UnchangedTables,
             Store!Becomes(c, [Store!Closed EXCEPT !.does = does, !.id = p[1], !.reading = TRUE,
                                                   !.at = IF does = "logout" THEN "user" ELSE "renew"])
      PROVE  StoreInv'
  <2> DEFINE r == [Store!Closed EXCEPT !.does = does, !.id = p[1], !.reading = TRUE,
                                       !.at = IF does = "logout" THEN "user" ELSE "renew"]
  <2>1. p[1] \in Nat /\ p[1] > 0 /\ p[1] <= users
    BY <1>1 DEF StoreInv, Tables
  <2>2. r \in Client /\ r.at = (IF does = "logout" THEN "user" ELSE "renew") /\ r.does = does /\ r.answer = "none"
        /\ ~r.busy /\ ~r.raced /\ r.pending = Store!Nothing /\ r.id = p[1]
    BY <2>1, StoreClosed DEF Client, Store!Closed
  <2>3. conn' = [conn EXCEPT ![c] = r] /\ UNCHANGED <<users, auth, sessions>>  BY <1>4
  <2> HIDE DEF r
  <2> QED  BY <1>1, <2>1, <2>2, <2>3, StoreGoesOn
<1> QED  BY <1>2, <1>3, <1>4 DEF Store!GetUserIdFromHash

LEMMA GetUserStep ==
    ASSUME StoreInv, NEW c \in Actors, Store!GetUser(c)
    PROVE  StoreInv'
<1> USE DEF Store!UnchangedTables, Store!Becomes
<1>1. conn[c].at = "user" /\ conn[c] \in Client  BY StoreRow DEF Store!GetUser, Store!At
<1>2. CASE Store!Throws(c)  BY <1>1, <1>2, StoreThrows
<1>3. ~conn[c].raced /\ ~conn[c].busy /\ conn[c].id <= users /\ conn[c].id \in Nat
      /\ conn[c].does = "logout" /\ conn[c].id > 0 /\ conn[c].answer # "success"
  BY <1>1, StoreRow DEF Row, Client
<1>4. CASE Store!UnchangedTables
           /\ Store!Becomes(c, [conn[c] EXCEPT !.at = "close", !.answer = "success", !.reading = FALSE,
                                               !.pending = [op |-> "deleteSessions", id |-> conn[c].id]])
  <2> DEFINE r == [conn[c] EXCEPT !.at = "close", !.answer = "success", !.reading = FALSE,
                                  !.pending = [op |-> "deleteSessions", id |-> conn[c].id]]
  <2>1. /\ r \in Client /\ r.at = "close" /\ r.answer = "success" /\ r.id = conn[c].id /\ r.does = conn[c].does
        /\ r.pending = [op |-> "deleteSessions", id |-> conn[c].id] /\ r.raced = conn[c].raced /\ r.busy = conn[c].busy
    BY <1>1, <1>3 DEF Client, Statement
  <2>2. conn' = [conn EXCEPT ![c] = r] /\ UNCHANGED <<users, auth, sessions>> /\ conn'[c] = r
    BY <1>4, StoreRow
  <2> HIDE DEF r
  <2>3. Row(c)'  BY <1>3, <2>1, <2>2 DEF Row, Makes, Store!Nothing
  <2>4. Lasting(conn[c], r) /\ ~Makes(r) /\ r.pending.op # "insertSession"  BY <1>3, <2>1 DEF Lasting, Makes
  <2> QED  BY <2>1, <2>2, <2>3, <2>4, StoreQuiet
<1> QED  BY <1>2, <1>4 DEF Store!GetUser

LEMMA CloseReadingStep ==
    ASSUME StoreInv, NEW c \in Actors, Store!CloseReading(c)
    PROVE  StoreInv'
<1> DEFINE r == [conn[c] EXCEPT !.at = IF conn[c].pending = Store!Nothing THEN "gone" ELSE "step", !.reading = FALSE]
<1>1. conn[c].at = "close" /\ conn[c] \in Client /\ Row(c)  BY StoreRow DEF Store!CloseReading, Store!At
<1>2. /\ r \in Client /\ r.at = (IF conn[c].pending = Store!Nothing THEN "gone" ELSE "step")
      /\ r.answer = conn[c].answer /\ r.id = conn[c].id /\ r.does = conn[c].does
      /\ r.pending = conn[c].pending /\ r.raced = conn[c].raced /\ r.busy = conn[c].busy
  BY <1>1 DEF Client
<1>3. conn' = [conn EXCEPT ![c] = r] /\ UNCHANGED <<users, auth, sessions>> /\ conn'[c] = r
  BY StoreRow DEF Store!CloseReading, Store!Becomes, Store!UnchangedTables
<1> HIDE DEF r
<1>4. Replaced(c)' <=> Replaced(c)
  BY <1>2, <1>3, StoreRow DEF Replaced, Takes
<1>5. Row(c)'  BY <1>1, <1>2, <1>3, <1>4 DEF Row, Makes
<1>6. Lasting(conn[c], r) /\ (Makes(r) => Makes(conn[c]))  BY <1>2 DEF Lasting, Makes
<1> QED  BY <1>2, <1>3, <1>5, <1>6, StoreQuiet

LEMMA RegisterUserStep ==
    ASSUME StoreInv, NEW c \in Actors, Store!RegisterUser(c)
    PROVE  StoreInv'
<1>1. conn[c].at = "register" /\ conn[c] \in Client /\ Row(c) /\ users \in Nat
  BY StoreRow DEF Store!RegisterUser, Store!At
<1>2. CASE Store!Busy(c) /\ UNCHANGED conn
  <2>1. UNCHANGED <<users, auth, sessions, conn>>  BY <1>2 DEF Store!Busy, Store!UnchangedTables
  <2> QED  BY <2>1 DEF StoreInv, Tables, Registered, Row, Replaced, Takes, OneOf, Flawed, Inserts, Makes
<1>3. CASE /\ Store!Write(c, [op |-> "insertUser", id |-> 0])
           /\ Store!Becomes(c, [conn[c] EXCEPT !.at = "close", !.answer = "success", !.id = users',
                                               !.pending = [op |-> "insertAuth", id |-> users']])
  <2>1. users' = users + 1 /\ auth' = auth /\ sessions' = sessions
    BY <1>3 DEF Store!Write
  <2> DEFINE r == [conn[c] EXCEPT !.at = "close", !.answer = "success", !.id = users + 1,
                                  !.pending = [op |-> "insertAuth", id |-> users + 1]]
  <2>11. [op |-> "insertAuth", id |-> users + 1] \in Statement /\ users + 1 \in Nat
    BY <1>1 DEF Statement
  <2>2. /\ r \in Client /\ r.at = "close" /\ r.answer = "success" /\ r.id = users + 1 /\ r.does = conn[c].does
        /\ r.pending = [op |-> "insertAuth", id |-> users + 1] /\ r.raced = conn[c].raced /\ r.busy = conn[c].busy
    BY <1>1, <2>11 DEF Client
  <2>3. conn' = [conn EXCEPT ![c] = r] /\ conn'[c] = r  BY <1>3, <2>1, StoreRow DEF Store!Becomes
  <2> HIDE DEF r
  <2>4. ~conn[c].raced /\ ~conn[c].busy /\ conn[c].does = "subscribe" /\ conn[c].answer # "success"
    BY <1>1 DEF Row
  <2>5. Row(c)'  BY <1>1, <2>1, <2>2, <2>3, <2>4 DEF Row, Makes, Store!Nothing
  <2>6. Lasting(conn[c], r) /\ Makes(r) /\ ~Makes(conn[c]) /\ r.pending.op # "insertSession"
    BY <2>2, <2>4 DEF Lasting, Makes
  <2>7. \A id \in Nat : OneOf(id)'  BY <2>1, <2>2, <2>3, <2>6, StoreOneOf
  <2>8. auth' \subseteq 1..users' /\ sessions' \subseteq (1..users') \X Actors
    BY <1>1, <2>1 DEF StoreInv, Tables
  <2>9. users' = IF Makes(r) /\ ~Makes(conn[c]) THEN users + 1 ELSE users  BY <2>1, <2>6
  <2>10. auth \subseteq auth' /\ sessions \subseteq sessions'  BY <2>1
  <2> QED  BY <2>2, <2>3, <2>5, <2>6, <2>7, <2>8, <2>9, <2>10, StoreStep
<1> QED  BY <1>2, <1>3 DEF Store!RegisterUser

\* renewSessionHash, whether its DELETE goes or the database is busy.
LEMMA RenewStep ==
    ASSUME StoreInv, NEW c \in Actors, Store!RenewSessionHash(c)
    PROVE  StoreInv'
<1>1. conn[c].at = "renew" /\ conn[c] \in Client /\ Row(c) /\ users \in Nat /\ conn \in [Actors -> Client]
  BY StoreRow DEF Store!RenewSessionHash, Store!At
<1>2. ~conn[c].raced /\ ~conn[c].busy /\ conn[c].does = "login" /\ conn[c].answer # "success"
      /\ conn[c].id > 0 /\ conn[c].id <= users /\ conn[c].pending = Store!Nothing /\ conn[c].id \in Nat
  BY <1>1 DEF Row, Client
<1>3. PICK busy \in BOOLEAN :
          /\ IF busy THEN Store!Busy(c) ELSE Store!Write(c, [op |-> "deleteSessions", id |-> conn[c].id])
          /\ Store!Becomes(c, [conn[c] EXCEPT !.at = "close", !.answer = "success", !.busy = busy,
                                              !.raced = Store!Renewing(c) # {},
                                              !.pending = [op |-> "insertSession", id |-> conn[c].id]])
  BY DEF Store!RenewSessionHash
<1> DEFINE r == [conn[c] EXCEPT !.at = "close", !.answer = "success", !.busy = busy,
                                !.raced = Store!Renewing(c) # {},
                                !.pending = [op |-> "insertSession", id |-> conn[c].id]]
<1>4. /\ r \in Client /\ r.at = "close" /\ r.answer = "success" /\ r.id = conn[c].id /\ r.does = "login"
      /\ r.pending = [op |-> "insertSession", id |-> conn[c].id] /\ r.busy = busy
      /\ r.raced = (Store!Renewing(c) # {})
  BY <1>1, <1>2 DEF Client, Statement
<1>5. conn' = [conn EXCEPT ![c] = r] /\ conn'[c] = r /\ \A d \in Actors : d # c => conn'[d] = conn[d]
  BY <1>1, <1>3 DEF Store!Becomes
<1> HIDE DEF r
<1>6. users' = users /\ auth' = auth
      /\ sessions' = IF busy THEN sessions ELSE {p \in sessions : p[1] # conn[c].id}
  BY <1>3 DEF Store!Busy, Store!UnchangedTables, Store!Write
<1>7. Row(c)'  BY <1>2, <1>4, <1>5, <1>6 DEF Row, Makes, Store!Nothing
<1>8. Lasting(conn[c], r) /\ ~Makes(r)  BY <1>2, <1>4 DEF Lasting, Makes
<1>9. ASSUME NEW d \in Actors \ {c}, <<conn[d].id, d>> \in sessions
      PROVE  <<conn[d].id, d>> \in sessions' \/ Takes(c, d)'
  <2>1. CASE conn[d].id = conn[c].id  BY <1>4, <1>5, <2>1 DEF Takes
  <2>2. CASE conn[d].id # conn[c].id  BY <1>6, <1>9, <2>2
  <2> QED  BY <2>1, <2>2
<1>10. ASSUME NEW id \in Nat PROVE OneOf(id)'
  <2>1. OneOf(id)  BY DEF StoreInv
  <2>2. CASE Flawed(id)
    <3>1. PICK d \in Actors : conn[d].id = id /\ (conn[d].busy \/ conn[d].raced)  BY <2>2 DEF Flawed
    <3>2. d # c  BY <1>2, <3>1
    <3> QED  BY <1>5, <3>1, <3>2 DEF Flawed, OneOf
  <2>3. CASE ~Flawed(id) /\ id # conn[c].id
    <3>1. \A d \in Actors : Inserts(d, id)' => Inserts(d, id)  BY <1>4, <1>5, <2>3 DEF Inserts
    <3>2. sessions' \subseteq sessions  BY <1>6
    <3> QED  BY <2>1, <2>3, <3>1, <3>2 DEF OneOf
  <2>4. CASE ~Flawed(id) /\ id = conn[c].id /\ (busy \/ Store!Renewing(c) # {})
    <3>1. conn'[c].id = id /\ (conn'[c].busy \/ conn'[c].raced)  BY <1>4, <1>5, <2>4
    <3> QED  BY <3>1 DEF Flawed, OneOf
  <2>5. CASE id = conn[c].id /\ ~busy /\ Store!Renewing(c) = {}
    <3>1. \A p \in sessions' : p[1] # id  BY <1>6, <2>5
    <3>2. ASSUME NEW d \in Actors \ {c}, Inserts(d, id) PROVE FALSE
      <4>1. conn[d].pending = [op |-> "insertSession", id |-> conn[c].id]  BY <2>5, <3>2 DEF Inserts
      <4>2. conn[d].at \in {"close", "step"}
        <5>1. conn[d].pending # Store!Nothing  BY <4>1 DEF Store!Nothing
        <5> QED  BY <5>1, StoreRow DEF Row
      <4>3. d \in Store!Others(c)  BY <4>2 DEF Store!Others
      <4>4. d \in Store!Renewing(c)  BY <4>1, <4>3 DEF Store!Renewing
      <4> QED  BY <2>5, <4>4
    <3>3. \A d \in Actors : Inserts(d, id)' => d = c  BY <1>5, <3>2 DEF Inserts
    <3> QED  BY <3>1, <3>3 DEF OneOf
  <2> QED  BY <2>1, <2>2, <2>3, <2>4, <2>5
<1>11. auth \subseteq auth' /\ auth' \subseteq 1..users' /\ sessions' \subseteq (1..users') \X Actors
  BY <1>6 DEF StoreInv, Tables
<1>12. users' = IF Makes(r) /\ ~Makes(conn[c]) THEN users + 1 ELSE users  BY <1>6, <1>8
<1> QED  BY <1>4, <1>5, <1>7, <1>8, <1>9, <1>10, <1>11, <1>12, StoreStep

\* Connection::close runs what is pending, or ignores that the database is busy.
LEMMA ClosePendingStep ==
    ASSUME StoreInv, NEW c \in Actors, Store!ClosePending(c)
    PROVE  StoreInv'
<1>1. conn[c].at = "step" /\ conn[c] \in Client /\ Row(c) /\ users \in Nat /\ conn \in [Actors -> Client]
  BY StoreRow DEF Store!ClosePending, Store!At
<1>2. PICK busy \in BOOLEAN :
          /\ IF busy THEN Store!Busy(c) ELSE Store!Write(c, conn[c].pending)
          /\ Store!Becomes(c, [conn[c] EXCEPT !.at = "gone", !.pending = Store!Nothing, !.busy = @ \/ busy])
  BY DEF Store!ClosePending
<1> DEFINE r == [conn[c] EXCEPT !.at = "gone", !.pending = Store!Nothing, !.busy = @ \/ busy]
           p == conn[c].pending
<1>3. /\ r \in Client /\ r.at = "gone" /\ r.answer = conn[c].answer /\ r.id = conn[c].id /\ r.does = conn[c].does
      /\ r.pending = Store!Nothing /\ r.raced = conn[c].raced /\ r.busy = (conn[c].busy \/ busy)
  BY <1>1, StoreClosed DEF Client
<1>4. conn' = [conn EXCEPT ![c] = r] /\ conn'[c] = r /\ \A d \in Actors : d # c => conn'[d] = conn[d]
  BY <1>1, <1>2 DEF Store!Becomes
<1> HIDE DEF r
<1>5. p \in Statement /\ p = [op |-> p.op, id |-> p.id]
  BY <1>1 DEF Client, Statement
<1>6. /\ p # Store!Nothing => p.id = conn[c].id /\ p.id > 0 /\ p.op # "none" /\ conn[c].answer = "success"
                              /\ (p.op = "insertAuth" <=> conn[c].does = "subscribe")
                              /\ (p.op = "insertSession" <=> conn[c].does = "login")
      /\ p = Store!Nothing => p.op = "none"
      /\ conn[c].id \in Nat /\ conn[c].id <= users
  BY <1>1 DEF Row, Store!Nothing, Client
<1> HIDE DEF p
<1>7. /\ users' = users /\ auth \subseteq auth'
      /\ auth' = IF ~busy /\ p.op = "insertAuth" THEN auth \cup {conn[c].id} ELSE auth
      /\ sessions' = IF busy \/ p.op \notin {"insertSession", "deleteSessions"} THEN sessions
                     ELSE IF p.op = "insertSession" THEN sessions \cup {<<conn[c].id, c>>}
                     ELSE {q \in sessions : q[1] # conn[c].id}
  <2>1. CASE busy  BY <1>2, <2>1 DEF Store!Busy, Store!UnchangedTables
  <2>2. CASE ~busy
    <3>1. Store!Write(c, p)  BY <1>2, <2>2 DEF p
    <3>2. p.op \in {"none", "insertAuth", "insertSession", "deleteSessions"}  BY <1>5 DEF Statement
    <3>3. p.op # "none" => p.id = conn[c].id  BY <1>6
    <3>4. users' = users /\ auth' = (IF p.op = "insertAuth" THEN auth \cup {p.id} ELSE auth)
      BY <3>1, <3>2 DEF Store!Write
    <3>5. CASE p.op = "insertSession"  BY <2>2, <3>1, <3>3, <3>4, <3>5 DEF Store!Write
    <3>6. CASE p.op = "deleteSessions"  BY <2>2, <3>1, <3>3, <3>4, <3>6 DEF Store!Write
    <3>7. CASE p.op \in {"none", "insertAuth"}  BY <2>2, <3>1, <3>3, <3>4, <3>7 DEF Store!Write
    <3> QED  BY <3>2, <3>5, <3>6, <3>7
  <2> QED  BY <2>1, <2>2
<1>8. Lasting(conn[c], r) /\ (Makes(r) <=> Makes(conn[c]))  BY <1>3 DEF Lasting, Makes
<1>9. Row(c)'
  <2>1. Makes(r) => r.id \in auth' \/ r.busy
    <3>1. CASE p = Store!Nothing  BY <1>1, <1>3, <1>7, <1>8, <3>1 DEF Row, p, Makes
    <3>2. CASE p # Store!Nothing  BY <1>3, <1>6, <1>7, <3>2 DEF Makes
    <3> QED  BY <3>1, <3>2
  <2>2. r.does = "login" /\ r.answer = "success" => <<r.id, c>> \in sessions' \/ r.busy \/ Replaced(c)'
    <3>1. Replaced(c) => Replaced(c)'  BY <1>3, <1>4 DEF Replaced, Takes
    <3>2. CASE p = Store!Nothing
      <4>1. p.op = "none"  BY <1>6, <3>2
      <4>2. sessions' = sessions  BY <1>7, <4>1
      <4>3. r.does = "login" /\ r.answer = "success" => <<conn[c].id, c>> \in sessions \/ conn[c].busy \/ Replaced(c)
        BY <1>1, <1>3, <3>2 DEF Row, p
      <4> QED  BY <1>3, <3>1, <4>2, <4>3
    <3>3. CASE p # Store!Nothing  BY <1>3, <1>6, <1>7, <3>3
    <3> QED  BY <3>2, <3>3
  <2> QED  BY <1>1, <1>3, <1>4, <1>6, <1>7, <2>1, <2>2 DEF Row
<1>10. ASSUME NEW d \in Actors \ {c}, <<conn[d].id, d>> \in sessions
       PROVE  <<conn[d].id, d>> \in sessions' \/ Takes(c, d)'
  <2>1. CASE <<conn[d].id, d>> \in sessions'  BY <2>1
  <2>2. CASE <<conn[d].id, d>> \notin sessions'
    <3>1. ~busy /\ p.op = "deleteSessions" /\ conn[d].id = conn[c].id  BY <1>7, <1>10, <2>2
    <3>2. p # Store!Nothing  BY <3>1 DEF Store!Nothing
    <3>3. conn[c].answer = "success" /\ conn[c].does # "subscribe"  BY <1>6, <3>1, <3>2
    <3> QED  BY <1>3, <1>4, <3>1, <3>3 DEF Takes
  <2> QED  BY <2>1, <2>2
<1>11. ASSUME NEW id \in Nat PROVE OneOf(id)'
  <2>1. CASE busy \/ p.op # "insertSession"
    <3>1. sessions' \subseteq sessions  BY <1>7, <2>1
    <3>2. r.pending.op # "insertSession"  BY <1>3 DEF Store!Nothing
    <3> QED  BY <1>3, <1>4, <1>8, <3>1, <3>2, StoreOneOf
  <2>2. CASE ~busy /\ p.op = "insertSession"
    <3>1. p # Store!Nothing  BY <2>2 DEF Store!Nothing
    <3>2. sessions' = sessions \cup {<<conn[c].id, c>>}  BY <1>7, <2>2
    <3>3. conn[c].pending = [op |-> "insertSession", id |-> conn[c].id]  BY <1>5, <1>6, <2>2, <3>1 DEF p
    <3>4. \A d \in Actors : Inserts(d, id)' => Inserts(d, id) /\ d # c
      BY <1>3, <1>4 DEF Inserts, Store!Nothing
    <3>5. Flawed(id) => Flawed(id)'
      <4>1. ASSUME NEW d \in Actors, conn[d].id = id, conn[d].busy \/ conn[d].raced
            PROVE  conn'[d].id = id /\ (conn'[d].busy \/ conn'[d].raced)
        BY <1>3, <1>4, <4>1
      <4> QED  BY <4>1 DEF Flawed
    <3>6. OneOf(id)  BY DEF StoreInv
    <3>7. CASE ~Flawed(id) /\ id # conn[c].id
      <4>1. \A q \in sessions' : q[1] = id => q \in sessions  BY <3>2, <3>7
      <4> QED  BY <3>4, <3>6, <3>7, <4>1 DEF OneOf
    <3>8. CASE ~Flawed(id) /\ id = conn[c].id
      <4>1. Inserts(c, id)  BY <3>3, <3>8 DEF Inserts
      <4>2. \A q \in sessions : q[1] # id  BY <3>6, <3>8, <4>1 DEF OneOf
      <4>3. \A q \in sessions' : q[1] = id => q = <<id, c>>  BY <3>2, <3>8, <4>2
      <4>4. \A d \in Actors : ~Inserts(d, id)'  BY <3>4, <3>6, <3>8, <4>1 DEF OneOf
      <4> QED  BY <4>3, <4>4 DEF OneOf
    <3> QED  BY <3>5, <3>6, <3>7, <3>8 DEF OneOf
  <2> QED  BY <2>1, <2>2
<1>12. auth' \subseteq 1..users' /\ sessions' \subseteq (1..users') \X Actors
  <2>1. auth \subseteq 1..users /\ sessions \subseteq (1..users) \X Actors  BY DEF StoreInv, Tables
  <2>2. p.op \in {"insertAuth", "insertSession"} => conn[c].id \in 1..users
    <3>1. p.op \in {"insertAuth", "insertSession"} => p # Store!Nothing  BY DEF Store!Nothing
    <3> QED  BY <1>1, <1>6, <3>1
  <2>3. auth' \subseteq 1..users  BY <1>7, <2>1, <2>2
  <2>4. sessions' \subseteq sessions \/ (p.op = "insertSession" /\ sessions' = sessions \cup {<<conn[c].id, c>>})
    BY <1>7
  <2>5. sessions' \subseteq (1..users) \X Actors
    <3>1. CASE sessions' \subseteq sessions  BY <2>1, <3>1
    <3>2. CASE p.op = "insertSession" /\ sessions' = sessions \cup {<<conn[c].id, c>>}
      BY <2>1, <2>2, <3>2
    <3> QED  BY <2>4, <3>1, <3>2
  <2> QED  BY <1>7, <2>3, <2>5
<1>13. users' = IF Makes(r) /\ ~Makes(conn[c]) THEN users + 1 ELSE users  BY <1>7, <1>8
<1>14. auth \subseteq auth'  BY <1>7
<1> QED  BY <1>3, <1>4, <1>8, <1>9, <1>10, <1>11, <1>12, <1>13, <1>14, StoreStep

LEMMA NextStoreInv ==
    ASSUME StoreInv, [Store!Next]_(Store!vars)
    PROVE  StoreInv'
<1>1. CASE UNCHANGED Store!vars
  BY <1>1 DEF Store!vars, StoreInv, Tables, Registered, Row, Replaced, Takes, OneOf, Flawed, Inserts, Makes
<1>2. ASSUME NEW c \in Actors,
             \/ Store!IsUserExists(c) \/ Store!RegisterUser(c) \/ Store!Authenticate(c) \/ Store!CheckPassword(c)
             \/ Store!GetUserIdFromHash(c, "login") \/ Store!GetUserIdFromHash(c, "logout")
             \/ Store!RenewSessionHash(c) \/ Store!GetUser(c) \/ Store!CloseReading(c) \/ Store!ClosePending(c)
      PROVE  StoreInv'
  BY <1>2, IsUserExistsStep, RegisterUserStep, AuthenticateStep, CheckPasswordStep, GetUserIdStep, RenewStep,
     GetUserStep, CloseReadingStep, ClosePendingStep
<1> QED  BY <1>1, <1>2 DEF Store!Next, Store!Over

LEMMA InitStoreInv == Store!Init => StoreInv
<1> SUFFICES ASSUME Store!Init PROVE StoreInv  OBVIOUS
<1>1. conn = [c \in Actors |-> Store!Closed] /\ users = 0 /\ auth = {} /\ sessions = {}  BY DEF Store!Init
<1>2. Registered = {}  BY <1>1 DEF Registered, Makes, Store!Closed
<1>3. Tables  BY <1>1, <1>2, FS_EmptySet DEF Tables
<1>4. \A c \in Actors : Row(c)  BY <1>1 DEF Row, Makes, Store!Closed
<1>5. \A id \in Nat : OneOf(id)  BY <1>1 DEF OneOf, Inserts, Store!Closed, Store!Nothing
<1> QED  BY <1>1, <1>3, <1>4, <1>5, StoreClosed DEF StoreInv

LEMMA StoreCardinality == \A S : Store!Cardinality(S) = Cardinality(S)
BY DEF Store!Cardinality, Cardinality

\* Users.cpp, Login.cpp, Subscribe.cpp, Cursor.cpp: who was told that his account is made
\* has it with its password, who was told that he is logged in has his session, and a
\* user has one session, unless the database was busy when nobody looks at its answer
\* or two logins of the user met; with any number of clients (AccountsAreKept).
THEOREM AccountsStayKept == PartsSpec => []AccountsAreKept
<1>1. StoreInv => AccountsAreKept
  <2> SUFFICES ASSUME StoreInv PROVE AccountsAreKept  OBVIOUS
  <2>1. Store!TypeOK
    <3>1. users <= Cardinality(Actors)  BY RegisteredFinite DEF StoreInv, Tables
    <3>2. Cardinality(Actors) \in Nat  BY PartsAssumption, FS_CardinalityType
    <3>3. users \in Nat /\ auth \subseteq 1..users /\ sessions \subseteq (1..users) \X Actors
      BY DEF StoreInv, Tables
    <3>4. ASSUME NEW c \in Actors PROVE conn[c].id \in 0..users
      <4>1. conn[c] \in Client /\ conn[c].id <= users  BY StoreRow DEF Row
      <4>2. conn[c].id \in Nat  BY <4>1 DEF Client
      <4> QED  BY <3>3, <4>1, <4>2
    <3>5. users \in 0..Cardinality(Actors)  BY <3>1, <3>2, <3>3
    <3> QED  BY <3>3, <3>4, <3>5, StoreCardinality DEF Store!TypeOK
  <2>2. ASSUME NEW c \in Actors, conn[c].at = "gone" PROVE conn[c].pending = Store!Nothing
    BY <2>2, StoreRow DEF Row
  <2>3. Store!RegisteredIsComplete
    BY <2>2, StoreRow DEF Store!RegisteredIsComplete, Store!At, Row, Makes
  <2>4. Store!AnsweredHashIsStored
    BY <2>2, StoreRow DEF Store!AnsweredHashIsStored, Store!At, Row, Replaced, Takes
  <2>5. Store!OneSession
    <3>1. ASSUME NEW id \in 1..users, ~Flawed(id) PROVE Cardinality({p \in sessions : p[1] = id}) <= 1
      <4> DEFINE P == {p \in sessions : p[1] = id}
      <4>1. \A p, q \in P : p = q  BY <3>1 DEF StoreInv, OneOf
      <4> SUFFICES Cardinality(P) <= 1  OBVIOUS
      <4> HIDE DEF P
      <4>2. CASE P = {}
        <5>1. Cardinality(P) = 0  BY <4>2, FS_EmptySet
        <5> QED  BY <5>1
      <4>3. CASE P # {}
        <5>1. PICK p \in P : TRUE  BY <4>3
        <5>2. P = {p}  BY <4>1, <5>1
        <5>3. Cardinality(P) = 1  BY <5>2, FS_Singleton
        <5> QED  BY <5>3
      <4> QED  BY <4>2, <4>3
    <3>2. ASSUME NEW id \in 1..users, ~Flawed(id) PROVE Store!Cardinality({p \in sessions : p[1] = id}) <= 1
      BY <3>1, <3>2, StoreCardinality
    <3> QED  BY <3>2 DEF Store!OneSession, Flawed
  <2> QED  BY <2>1, <2>3, <2>4, <2>5 DEF AccountsAreKept, Store!AccountsAreKept
<1>2. Store!Init => StoreInv  BY InitStoreInv
<1>3. StoreInv /\ [Store!Next]_(Store!vars) => StoreInv'  BY NextStoreInv
<1> QED  BY <1>1, <1>2, <1>3, PartsRunAlone, PTL DEF Store!Spec

-----------------------------------------------------------------------------
(* SslSessions, for any number of requests, descriptors and addresses.      *)

SslRow == [at : Ssl!Inside \cup {"none", "gone"}, fd : Sockets \cup {Nobody}, first : BOOLEAN,
           in : Addresses \cup {Nobody}, out : Addresses \cup {Nobody}]

\* The requests whose SSL is not freed: those that are here, and those whose output
\* module never got it.
Owning == {c \in Actors : sslRequest[c].in # Nobody /\ (Ssl!Here(c) \/ sslRequest[c].out = Nobody)}

\* A request by itself and its entry in the map.
SslOf(c) ==
    LET r == sslRequest[c] IN
    /\ r.at \in Ssl!Inside => r.fd \in Sockets
    /\ r.at \in {"none", "test", "new", "certify", "ready"} => r.in = Nobody
    /\ r.at \in {"serving", "ended"} => r.in # Nobody
    /\ r.out # Nobody => r.out = r.in
    /\ r.at = "serving" => ssl[r.fd] = r.in

\* No two of them have the same descriptor, or the same SSL.
Apart ==
    \A c, d \in Actors : c # d =>
        /\ Ssl!Here(c) /\ Ssl!Here(d) => sslRequest[c].fd # sslRequest[d].fd
        /\ c \in Owning /\ d \in Owning => sslRequest[c].in # sslRequest[d].in

SslInv ==
    /\ sslRequest \in [Actors -> SslRow] /\ Ssl!TypeOK /\ ssl \in [Sockets -> Addresses \cup {Nobody}]
    /\ \A c \in Actors : SslOf(c)
    /\ Apart
    /\ used = {sslRequest[c].in : c \in Owning}
    /\ ctx # Nobody /\ ctx \notin certified => sslRequest[ctx].at = "certify"

LEMMA SmallestDescriptor ==
    ASSUME NEW T \in SUBSET Nat, T # {}
    PROVE  Ssl!Min(T) \in T
<1>1. \E x \in T : \A y \in T : ~(<<y, x>> \in OpToRel(<, Nat))
  BY NatLessThanWellFounded, WFMin
<1>2. PICK x \in T : \A y \in T : ~(<<y, x>> \in OpToRel(<, Nat))
  BY <1>1
<1>3. ASSUME NEW y \in T PROVE x <= y
  <2>1. ~(y < x)  BY <1>2 DEF OpToRel
  <2> QED  BY <2>1
<1> QED  BY <1>3 DEF Ssl!Min

LEMMA SslFacts ==
    ASSUME SslInv, NEW c \in Actors
    PROVE  /\ sslRequest \in [Actors -> SslRow] /\ sslRequest[c] \in SslRow /\ SslOf(c)
           /\ used \subseteq Addresses /\ ctx \in Actors \cup {Nobody}
           /\ ssl \in [Sockets -> Addresses \cup {Nobody}]
BY DEF SslInv, Ssl!TypeOK

\* A step of one request that owns what it did, or something new.
LEMMA SslStep ==
    ASSUME SslInv, NEW c \in Actors, NEW r \in SslRow, sslRequest' = [sslRequest EXCEPT ![c] = r],
           ssl' \in [Sockets -> Addresses \cup {Nobody}], used' \subseteq Addresses, ctx' \in Actors \cup {Nobody},
           SslOf(c)', ctx' # Nobody /\ ctx' \notin certified' => sslRequest'[ctx'].at = "certify",
           r.at \in Ssl!Inside => \A d \in Actors \ {c} : Ssl!Here(d) => sslRequest[d].fd # r.fd,
           \A d \in Actors \ {c} : sslRequest[d].at = "serving" => ssl'[sslRequest[d].fd] = ssl[sslRequest[d].fd],
           \/ (c \in Owning)' /\ c \in Owning /\ r.in = sslRequest[c].in /\ used' = used
           \/ (c \in Owning)' /\ c \notin Owning /\ r.in \notin used /\ used' = used \cup {r.in}
           \/ (c \notin Owning)' /\ c \in Owning /\ used' = used \ {sslRequest[c].in}
           \/ (c \notin Owning)' /\ c \notin Owning /\ used' = used
    PROVE  SslInv'
<1>1. /\ sslRequest \in [Actors -> SslRow] /\ sslRequest' \in [Actors -> SslRow] /\ sslRequest'[c] = r
      /\ \A d \in Actors : d # c => sslRequest'[d] = sslRequest[d]
      /\ \A d \in Actors : sslRequest[d] \in SslRow /\ SslOf(d)
  BY DEF SslInv
<1>2. \A d \in Actors : d # c => (Ssl!Here(d)' <=> Ssl!Here(d)) /\ (d \in Owning' <=> d \in Owning)
  BY <1>1 DEF Owning, Ssl!Here
<1>3. \A d \in Actors : SslOf(d)'
  <2>1. ASSUME NEW d \in Actors \ {c} PROVE SslOf(d)'  BY <1>1, <2>1 DEF SslOf
  <2> QED  BY <2>1
<1>4. used = {sslRequest[d].in : d \in Owning} /\ Owning \subseteq Actors /\ Owning' \subseteq Actors
  BY DEF SslInv, Owning
<1>5. ASSUME NEW d \in Actors, d # c, d \in Owning, c \in Owning' PROVE sslRequest[d].in # r.in
  <2>1. CASE c \in Owning  BY <1>5, <2>1 DEF SslInv, Apart
  <2>2. CASE c \notin Owning
    <3>1. r.in \notin used  BY <1>5, <2>2
    <3>2. sslRequest[d].in \in used  BY <1>4, <1>5
    <3> QED  BY <3>1, <3>2
  <2> QED  BY <2>1, <2>2
<1>6. Apart'
  <2>1. ASSUME NEW d \in Actors, NEW e \in Actors, d # e, Ssl!Here(d)', Ssl!Here(e)'
        PROVE  sslRequest'[d].fd # sslRequest'[e].fd
    <3>1. CASE d = c  BY <1>1, <1>2, <2>1, <3>1 DEF Ssl!Here
    <3>2. CASE e = c  BY <1>1, <1>2, <2>1, <3>2 DEF Ssl!Here
    <3>3. CASE d # c /\ e # c  BY <1>1, <1>2, <2>1, <3>3 DEF SslInv, Apart
    <3> QED  BY <3>1, <3>2, <3>3
  <2>2. ASSUME NEW d \in Actors, NEW e \in Actors, d # e, d \in Owning', e \in Owning'
        PROVE  sslRequest'[d].in # sslRequest'[e].in
    <3>1. CASE d = c  BY <1>1, <1>2, <1>5, <2>2, <3>1
    <3>2. CASE e = c  BY <1>1, <1>2, <1>5, <2>2, <3>2
    <3>3. CASE d # c /\ e # c  BY <1>1, <1>2, <2>2, <3>3 DEF SslInv, Apart
    <3> QED  BY <3>1, <3>2, <3>3
  <2> QED  BY <2>1, <2>2 DEF Apart
<1>7. used' = {sslRequest'[d].in : d \in Owning'}
  <2>1. CASE c \in Owning' /\ c \in Owning /\ r.in = sslRequest[c].in /\ used' = used
    <3>3. \A d \in Actors : d \in Owning' <=> d \in Owning  BY <1>2, <2>1
    <3>1. Owning' = Owning  BY <1>4, <3>3
    <3>2. \A d \in Owning : sslRequest'[d].in = sslRequest[d].in  BY <1>1, <1>4, <2>1
    <3> QED  BY <1>4, <2>1, <3>1, <3>2
  <2>2. CASE c \in Owning' /\ c \notin Owning /\ used' = used \cup {r.in}
    <3>1. Owning' = Owning \cup {c}  BY <1>2, <1>4, <2>2
    <3>2. \A d \in Owning : sslRequest'[d].in = sslRequest[d].in  BY <1>1, <1>4, <2>2
    <3> QED  BY <1>1, <1>4, <2>2, <3>1, <3>2
  <2>3. CASE c \notin Owning' /\ c \in Owning /\ used' = used \ {sslRequest[c].in}
    <3>1. Owning' = Owning \ {c}  BY <1>2, <1>4, <2>3
    <3>2. \A d \in Owning' : sslRequest'[d].in = sslRequest[d].in  BY <1>1, <1>4, <3>1
    <3>3. \A d \in Owning' : sslRequest[d].in # sslRequest[c].in
      BY <1>4, <2>3, <3>1 DEF SslInv, Apart
    <3> QED  BY <1>4, <2>3, <3>1, <3>2, <3>3
  <2>4. CASE c \notin Owning' /\ c \notin Owning /\ used' = used
    <3>3. \A d \in Actors : d \in Owning' <=> d \in Owning  BY <1>2, <2>4
    <3>1. Owning' = Owning  BY <1>4, <3>3
    <3>2. \A d \in Owning : sslRequest'[d].in = sslRequest[d].in  BY <1>1, <1>4, <2>4
    <3> QED  BY <1>4, <2>4, <3>1, <3>2
  <2> QED  BY <2>1, <2>2, <2>3, <2>4
<1>8. Ssl!TypeOK'  BY DEF Ssl!TypeOK
<1> QED  BY <1>1, <1>3, <1>6, <1>7, <1>8 DEF SslInv

LEMMA SslHere ==
    ASSUME SslInv, NEW c \in Actors
    PROVE  Ssl!Here(c) <=> sslRequest[c].at \notin {"none", "gone"}
BY SslFacts DEF SslRow, Ssl!Here, Ssl!Inside

\* A step that only moves a request that goes on, or arrives.
LEMMA SslMoves ==
    ASSUME SslInv, NEW c \in Actors, NEW at \in Ssl!Inside \cup {"gone"}, NEW first \in BOOLEAN,
           sslRequest' = [sslRequest EXCEPT ![c] = [sslRequest[c] EXCEPT !.at = at, !.first = first]],
           UNCHANGED <<ssl, used>>,
           ctx' \in Actors \cup {Nobody}, ctx' # Nobody /\ ctx' \notin certified' => sslRequest'[ctx'].at = "certify",
           \/ sslRequest[c].at \in {"test", "new", "certify"} /\ at \in {"test", "new", "certify", "ready", "gone"}
           \/ at = "broken" /\ sslRequest[c].at \in {"ready", "serving"}
    PROVE  SslInv'
<1> DEFINE r == [sslRequest[c] EXCEPT !.at = at, !.first = first]
<1>1. /\ sslRequest \in [Actors -> SslRow] /\ sslRequest[c] \in SslRow /\ SslOf(c) /\ Ssl!Here(c)
      /\ used \subseteq Addresses /\ ssl \in [Sockets -> Addresses \cup {Nobody}]
  BY SslFacts, SslHere
<1>2. /\ r \in SslRow /\ r.at = at /\ r.in = sslRequest[c].in /\ r.out = sslRequest[c].out /\ r.fd = sslRequest[c].fd
      /\ sslRequest' = [sslRequest EXCEPT ![c] = r] /\ sslRequest'[c] = r
  BY <1>1 DEF SslRow
<1> HIDE DEF r
<1>3. SslOf(c)'  BY <1>1, <1>2 DEF SslOf, Ssl!Inside
<1>4. c \in Owning' <=> c \in Owning
  <2>1. CASE sslRequest[c].in = Nobody  BY <1>2, <2>1 DEF Owning
  <2>2. CASE sslRequest[c].in # Nobody
    <3>1. at = "broken"  BY <1>1, <2>2 DEF SslOf
    <3> QED  BY <1>1, <1>2, <3>1 DEF Owning, Ssl!Here, Ssl!Inside
  <2> QED  BY <2>1, <2>2
<1>5. \A d \in Actors \ {c} : Ssl!Here(d) => sslRequest[d].fd # r.fd
  BY <1>1, <1>2 DEF SslInv, Apart
<1> QED  BY <1>1, <1>2, <1>3, <1>4, <1>5, SslStep

LEMMA ArriveStep ==
    ASSUME SslInv, NEW c \in Actors, NEW fd \in Sockets, Ssl!Arrive(c, fd)
    PROVE  SslInv'
<1> DEFINE r == [[sslRequest[c] EXCEPT !.at = "test"] EXCEPT !.fd = fd]
<1>1. /\ sslRequest \in [Actors -> SslRow] /\ sslRequest[c] \in SslRow /\ SslOf(c)
      /\ used \subseteq Addresses /\ ssl \in [Sockets -> Addresses \cup {Nobody}] /\ ctx \in Actors \cup {Nobody}
  BY SslFacts
<1>2. sslRequest[c].at = "none" /\ ~Ssl!FdInUse(fd) /\ UNCHANGED <<ssl, used, ctx, certified>>
      /\ sslRequest' = [sslRequest EXCEPT ![c] = r]
  BY <1>1 DEF Ssl!Arrive, Ssl!At
<1>3. r \in SslRow /\ r.at = "test" /\ r.in = sslRequest[c].in /\ r.out = sslRequest[c].out /\ r.fd = fd
      /\ sslRequest'[c] = r
  BY <1>1, <1>2 DEF SslRow, Ssl!Inside
<1> HIDE DEF r
<1>4. r.in = Nobody  BY <1>1, <1>2, <1>3 DEF SslOf
<1>5. SslOf(c)'  BY <1>1, <1>2, <1>3, <1>4 DEF SslOf, Ssl!Inside
<1>6. c \notin Owning' /\ c \notin Owning  BY <1>3, <1>4 DEF Owning
<1>7. \A d \in Actors \ {c} : Ssl!Here(d) => sslRequest[d].fd # r.fd
  BY <1>2, <1>3 DEF Ssl!Here, Ssl!FdInUse
<1>8. ctx' # Nobody /\ ctx' \notin certified' => sslRequest'[ctx'].at = "certify"
  BY <1>1, <1>2 DEF SslInv
<1> QED  BY <1>1, <1>2, <1>3, <1>5, <1>6, <1>7, <1>8, SslStep

\* The context, which is made without a lock.
LEMMA ContextSteps ==
    ASSUME SslInv, NEW c \in Actors, Ssl!GetInstance(c) \/ Ssl!NewContext(c) \/ Ssl!Certify(c)
    PROVE  SslInv'
<1>1. sslRequest \in [Actors -> SslRow] /\ ctx \in Actors \cup {Nobody}
      /\ (ctx # Nobody /\ ctx \notin certified => sslRequest[ctx].at = "certify")
  BY SslFacts DEF SslInv
<1>5. sslRequest[c] \in SslRow /\ sslRequest[c].first \in BOOLEAN
      /\ \A at : [sslRequest[c] EXCEPT !.at = at] = [sslRequest[c] EXCEPT !.at = at, !.first = sslRequest[c].first]
  BY <1>1 DEF SslRow
<1>2. CASE Ssl!GetInstance(c)
  <2>1. sslRequest[c].at = "test" /\ UNCHANGED <<ssl, used, ctx, certified>>
    BY <1>2 DEF Ssl!GetInstance, Ssl!At
  <2>2. PICK at \in {"new", "test", "ready"}, first \in BOOLEAN :
           sslRequest' = [sslRequest EXCEPT ![c] = [sslRequest[c] EXCEPT !.at = at, !.first = first]]
    <3>1. CASE ctx = Nobody
      <4>1. sslRequest' = [sslRequest EXCEPT ![c] = [sslRequest[c] EXCEPT !.at = "new"]]
        BY <1>1, <1>2, <3>1 DEF Ssl!GetInstance, Ssl!Goes
      <4> QED  BY <1>5, <4>1
    <3>2. CASE ctx # Nobody
      <4> DEFINE at == IF sslRequest[c].first THEN "ready" ELSE "test"
      <4>1. sslRequest' = [sslRequest EXCEPT ![c] = [sslRequest[c] EXCEPT !.at = at, !.first = TRUE]]
        BY <1>1, <1>2, <3>2 DEF Ssl!GetInstance, Ssl!Returns
      <4>2. at \in {"new", "test", "ready"}  OBVIOUS
      <4> HIDE DEF at
      <4> QED  BY <4>1, <4>2
    <3> QED  BY <3>1, <3>2
  <2>3. at \in Ssl!Inside \cup {"gone"}  BY DEF Ssl!Inside
  <2>4. ctx' # Nobody /\ ctx' \notin certified' => sslRequest'[ctx'].at = "certify"  BY <1>1, <2>1, <2>2
  <2> QED  BY <1>1, <2>1, <2>2, <2>3, <2>4, SslMoves
<1>3. CASE Ssl!NewContext(c)
  <2>1. sslRequest[c].at = "new" /\ UNCHANGED <<ssl, used, certified>> /\ ctx' = c
        /\ sslRequest' = [sslRequest EXCEPT ![c] = [sslRequest[c] EXCEPT !.at = "certify", !.first = sslRequest[c].first]]
    BY <1>1, <1>3, <1>5 DEF Ssl!NewContext, Ssl!At, Ssl!Goes
  <2>2. "certify" \in Ssl!Inside \cup {"gone"}  BY DEF Ssl!Inside
  <2>4. sslRequest'[ctx'].at = "certify"  BY <1>1, <1>5, <2>1 DEF SslRow
  <2> QED  BY <1>5, <2>1, <2>2, <2>4, SslMoves
<1>4. CASE Ssl!Certify(c)
  <2>1. sslRequest[c].at = "certify" /\ UNCHANGED <<ssl, used>>
    BY <1>4 DEF Ssl!Certify, Ssl!At
  <2>2. PICK at \in {"ready", "test", "gone"}, first \in BOOLEAN :
           /\ sslRequest' = [sslRequest EXCEPT ![c] = [sslRequest[c] EXCEPT !.at = at, !.first = first]]
           /\ \/ ctx' = ctx /\ ctx \in certified'
              \/ ctx' = Nobody
    <3>1. CASE Ssl!Returns(c) /\ ctx' = ctx /\ ctx \in certified'
      <4> DEFINE at == IF sslRequest[c].first THEN "ready" ELSE "test"
      <4>1. sslRequest' = [sslRequest EXCEPT ![c] = [sslRequest[c] EXCEPT !.at = at, !.first = TRUE]]
        BY <1>1, <3>1 DEF Ssl!Returns
      <4>2. at \in {"ready", "test", "gone"}  OBVIOUS
      <4> HIDE DEF at
      <4> QED  BY <3>1, <4>1, <4>2
    <3>2. CASE Ssl!Goes(c, "gone") /\ ctx' = Nobody
      <4>1. sslRequest' = [sslRequest EXCEPT ![c] = [sslRequest[c] EXCEPT !.at = "gone"]]
        BY <1>1, <3>2 DEF Ssl!Goes
      <4> QED  BY <1>5, <3>2, <4>1
    <3> QED  BY <1>4, <3>1, <3>2 DEF Ssl!Certify
  <2>3. at \in Ssl!Inside \cup {"gone"}  BY DEF Ssl!Inside
  <2>4. ctx' # Nobody /\ ctx' \notin certified' => sslRequest'[ctx'].at = "certify"  BY <2>2
  <2> QED  BY <1>1, <2>1, <2>2, <2>3, <2>4, SslMoves
<1> QED  BY <1>2, <1>3, <1>4

\* The first event of the input module.
LEMMA AcceptStep ==
    ASSUME SslInv, NEW c \in Actors, Ssl!Accept(c)
    PROVE  SslInv'
<1>1. /\ sslRequest \in [Actors -> SslRow] /\ sslRequest[c] \in SslRow /\ SslOf(c)
      /\ used \subseteq Addresses /\ ssl \in [Sockets -> Addresses \cup {Nobody}] /\ ctx \in Actors \cup {Nobody}
      /\ sslRequest[c].at = "ready" /\ Ssl!Here(c) /\ UNCHANGED <<ctx, certified>>
  BY SslFacts, SslHere DEF Ssl!Accept, Ssl!At
<1>2. sslRequest[c].in = Nobody /\ sslRequest[c].out = Nobody /\ sslRequest[c].fd \in Sockets
  BY <1>1 DEF SslOf, Ssl!Inside
<1>3. ctx # Nobody /\ ctx \notin certified => ctx # c /\ sslRequest[ctx].at = "certify"
  BY <1>1 DEF SslInv
<1>4. ASSUME NEW a \in Addresses \ used, used' = used \cup {a}, NEW at \in {"serving", "broken"},
             sslRequest' = [sslRequest EXCEPT ![c].at = at, ![c].in = a],
             ssl' = IF at = "serving" THEN [ssl EXCEPT ![sslRequest[c].fd] = a] ELSE ssl
      PROVE  SslInv'
  <2> DEFINE r == [[sslRequest[c] EXCEPT !.at = at] EXCEPT !.in = a]
  <2>1. r \in SslRow /\ r.at = at /\ r.in = a /\ r.out = sslRequest[c].out /\ r.fd = sslRequest[c].fd
        /\ sslRequest' = [sslRequest EXCEPT ![c] = r] /\ sslRequest'[c] = r
    BY <1>1, <1>4 DEF SslRow, Ssl!Inside
  <2> HIDE DEF r
  <2>2. a # Nobody  BY PartsAssumption
  <2>3. ssl' \in [Sockets -> Addresses \cup {Nobody}] /\ used' \subseteq Addresses  BY <1>1, <1>2, <1>4
  <2>4. SslOf(c)'  BY <1>1, <1>2, <1>4, <2>1, <2>2 DEF SslOf, Ssl!Inside
  <2>5. \A d \in Actors \ {c} : Ssl!Here(d) => sslRequest[d].fd # sslRequest[c].fd
    BY <1>1 DEF SslInv, Apart
  <2>6. ASSUME NEW d \in Actors \ {c}, sslRequest[d].at = "serving"
        PROVE  ssl'[sslRequest[d].fd] = ssl[sslRequest[d].fd]
    <3>1. Ssl!Here(d)  BY <2>6, SslHere
    <3>2. sslRequest[d].fd # sslRequest[c].fd  BY <2>5, <3>1
    <3> QED  BY <1>1, <1>4, <3>2
  <2>7. c \in Owning' /\ c \notin Owning  BY <1>2, <2>1, <2>2 DEF Owning
  <2>8. ctx' # Nobody /\ ctx' \notin certified' => sslRequest'[ctx'].at = "certify"  BY <1>1, <1>3, <2>1
  <2>9. \A d \in Actors \ {c} : Ssl!Here(d) => sslRequest[d].fd # r.fd  BY <2>1, <2>5
  <2>10. r.in \notin used /\ used' = used \cup {r.in}  BY <1>4, <2>1
  <2>11. ctx' \in Actors \cup {Nobody}  BY <1>1
  <2> QED  BY <2>1, <2>3, <2>4, <2>6, <2>7, <2>8, <2>9, <2>10, <2>11, SslStep
<1>5. CASE Ssl!Goes(c, "broken") /\ UNCHANGED <<used, ssl>>
  <2>1. sslRequest[c].first \in BOOLEAN
        /\ sslRequest' = [sslRequest EXCEPT ![c] = [sslRequest[c] EXCEPT !.at = "broken", !.first = sslRequest[c].first]]
    <3>1. sslRequest' = [sslRequest EXCEPT ![c] = [sslRequest[c] EXCEPT !.at = "broken"]]
      BY <1>1, <1>5 DEF Ssl!Goes
    <3>2. sslRequest[c].first \in BOOLEAN
          /\ [sslRequest[c] EXCEPT !.at = "broken"] = [sslRequest[c] EXCEPT !.at = "broken", !.first = sslRequest[c].first]
      BY <1>1 DEF SslRow
    <3> QED  BY <3>1, <3>2
  <2>2. "broken" \in Ssl!Inside \cup {"gone"}  BY DEF Ssl!Inside
  <2>3. ctx' # Nobody /\ ctx' \notin certified' => sslRequest'[ctx'].at = "certify"  BY <1>1, <1>3, <2>1
  <2> QED  BY <1>1, <1>5, <2>1, <2>2, <2>3, SslMoves
<1>6. ASSUME NEW a \in Addresses \ used, used' = used \cup {a},
             ctx \in certified, Ssl!addSsl(sslRequest[c].fd, a),
             sslRequest' = [sslRequest EXCEPT ![c].at = "serving", ![c].in = a]
      PROVE  SslInv'
  <2>1. ssl' = [ssl EXCEPT ![sslRequest[c].fd] = a]  BY <1>6 DEF Ssl!addSsl
  <2> QED  BY <1>4, <1>6, <2>1
<1>7. ASSUME NEW a \in Addresses \ used, used' = used \cup {a},
             sslRequest' = [sslRequest EXCEPT ![c].at = "broken", ![c].in = a], UNCHANGED ssl
      PROVE  SslInv'
  BY <1>4, <1>7
<1> QED  BY <1>5, <1>6, <1>7 DEF Ssl!Accept

\* The output module finds the SSL that the input module has made.
LEMMA FoundIsOwn ==
    ASSUME SslInv, NEW c \in Actors, sslRequest[c].at = "serving"
    PROVE  Ssl!Found(c) = sslRequest[c].in /\ sslRequest[c].in # Nobody
BY SslFacts DEF SslOf, Ssl!Found

\* delSsl takes out an entry with the SSL's address, so none of a request that serves.
LEMMA DelSslLeavesOthers ==
    ASSUME SslInv, NEW c \in Actors, sslRequest[c].at = "serving", Ssl!delSsl(sslRequest[c].in),
           NEW d \in Actors \ {c}, sslRequest[d].at = "serving"
    PROVE  ssl'[sslRequest[d].fd] = ssl[sslRequest[d].fd]
<1> DEFINE holders == {fd \in Sockets : ssl[fd] = sslRequest[c].in}
<1>1. SslOf(c) /\ SslOf(d) /\ Ssl!Here(c) /\ Ssl!Here(d) /\ ssl \in [Sockets -> Addresses \cup {Nobody}]
  BY SslFacts, SslHere
<1>2. c \in Owning /\ d \in Owning  BY <1>1 DEF Owning, SslOf
<1>3. sslRequest[c].in # sslRequest[d].in  BY <1>2 DEF SslInv, Apart
<1>4. ssl[sslRequest[d].fd] = sslRequest[d].in /\ sslRequest[c].fd \in Sockets /\ ssl[sslRequest[c].fd] = sslRequest[c].in
  BY <1>1 DEF SslOf, Ssl!Inside
<1>5. ssl' = IF holders = {} THEN ssl ELSE [ssl EXCEPT ![Ssl!Min(holders)] = Nobody]
  BY DEF Ssl!delSsl
<1>6. holders # {} /\ holders \in SUBSET Nat  BY <1>4, PartsAssumption
<1>7. Ssl!Min(holders) \in holders  BY <1>6, SmallestDescriptor
<1>8. ssl[Ssl!Min(holders)] = sslRequest[c].in  BY <1>7
<1> HIDE DEF holders
<1>9. Ssl!Min(holders) # sslRequest[d].fd  BY <1>3, <1>4, <1>8
<1> QED  BY <1>1, <1>5, <1>9

LEMMA RespondSteps ==
    ASSUME SslInv, NEW c \in Actors, Ssl!Respond(c) \/ Ssl!RespondEnd(c)
    PROVE  SslInv'
<1>1. /\ sslRequest \in [Actors -> SslRow] /\ sslRequest[c] \in SslRow /\ SslOf(c)
      /\ used \subseteq Addresses /\ ssl \in [Sockets -> Addresses \cup {Nobody}] /\ ctx \in Actors \cup {Nobody}
      /\ sslRequest[c].at = "serving" /\ Ssl!Here(c) /\ UNCHANGED <<used, ctx, certified>>
  BY SslFacts, SslHere DEF Ssl!Respond, Ssl!RespondEnd, Ssl!At
<1>2. Ssl!Found(c) = sslRequest[c].in /\ sslRequest[c].in # Nobody  BY <1>1, FoundIsOwn
<1>3. PICK at \in {"serving", "ended"} :
         /\ sslRequest' = [sslRequest EXCEPT ![c] = [[sslRequest[c] EXCEPT !.out = sslRequest[c].in] EXCEPT !.at = at]]
         /\ IF at = "serving" THEN UNCHANGED ssl ELSE Ssl!delSsl(sslRequest[c].in)
  <2>1. CASE Ssl!Respond(c)
    <3>1. sslRequest' = [sslRequest EXCEPT ![c] = [[sslRequest[c] EXCEPT !.out = sslRequest[c].in] EXCEPT !.at = "serving"]]
      BY <1>1, <1>2, <2>1 DEF Ssl!Respond, SslRow
    <3>2. UNCHANGED ssl  BY <2>1 DEF Ssl!Respond
    <3> QED  BY <3>1, <3>2
  <2>2. CASE Ssl!RespondEnd(c)
    <3>1. sslRequest' = [sslRequest EXCEPT ![c] = [[sslRequest[c] EXCEPT !.out = sslRequest[c].in] EXCEPT !.at = "ended"]]
      BY <1>1, <1>2, <2>2 DEF Ssl!RespondEnd, SslRow
    <3>2. Ssl!delSsl(sslRequest[c].in)  BY <1>2, <2>2 DEF Ssl!RespondEnd
    <3> QED  BY <3>1, <3>2
  <2> QED  BY <2>1, <2>2
<1> DEFINE r == [[sslRequest[c] EXCEPT !.out = sslRequest[c].in] EXCEPT !.at = at]
<1>4. r \in SslRow /\ r.at = at /\ r.in = sslRequest[c].in /\ r.out = sslRequest[c].in /\ r.fd = sslRequest[c].fd
      /\ sslRequest' = [sslRequest EXCEPT ![c] = r] /\ sslRequest'[c] = r
  BY <1>1, <1>3 DEF SslRow, Ssl!Inside
<1> HIDE DEF r
<1>5. ssl' \in [Sockets -> Addresses \cup {Nobody}]  BY <1>1, <1>3 DEF Ssl!delSsl
<1>6. SslOf(c)'
  <2>1. at = "serving" => ssl' = ssl  BY <1>3
  <2> QED  BY <1>1, <1>2, <1>3, <1>4, <2>1 DEF SslOf, Ssl!Inside
<1>7. \A d \in Actors \ {c} : sslRequest[d].at = "serving" => ssl'[sslRequest[d].fd] = ssl[sslRequest[d].fd]
  BY <1>1, <1>3, DelSslLeavesOthers
<1>8. Ssl!Here(c)'  BY <1>3, <1>4 DEF Ssl!Here, Ssl!Inside
<1>9. c \in Owning' /\ c \in Owning  BY <1>1, <1>2, <1>4, <1>8 DEF Owning
<1>10. \A d \in Actors \ {c} : Ssl!Here(d) => sslRequest[d].fd # r.fd
  BY <1>1, <1>4 DEF SslInv, Apart
<1>11. ctx' # Nobody /\ ctx' \notin certified' => sslRequest'[ctx'].at = "certify"
  BY <1>1, <1>4 DEF SslInv
<1>12. ctx' \in Actors \cup {Nobody} /\ used' = used /\ used' \subseteq Addresses  BY <1>1
<1> QED  BY <1>4, <1>5, <1>6, <1>7, <1>9, <1>10, <1>11, <1>12, SslStep

LEMMA DestroyStep ==
    ASSUME SslInv, NEW c \in Actors, Ssl!Destroy(c)
    PROVE  SslInv'
<1> DEFINE r == [sslRequest[c] EXCEPT !.at = "gone"]
<1>1. /\ sslRequest \in [Actors -> SslRow] /\ sslRequest[c] \in SslRow /\ SslOf(c)
      /\ used \subseteq Addresses /\ ssl \in [Sockets -> Addresses \cup {Nobody}] /\ ctx \in Actors \cup {Nobody}
      /\ sslRequest[c].at \in {"ready", "serving", "ended", "broken"} /\ Ssl!Here(c) /\ UNCHANGED <<ssl, ctx, certified>>
      /\ used' = used \ {sslRequest[c].out}
  BY SslFacts, SslHere DEF Ssl!Destroy
<1>2. r \in SslRow /\ r.at = "gone" /\ r.in = sslRequest[c].in /\ r.out = sslRequest[c].out /\ r.fd = sslRequest[c].fd
      /\ sslRequest' = [sslRequest EXCEPT ![c] = r] /\ sslRequest'[c] = r
  BY <1>1 DEF SslRow, Ssl!Destroy, Ssl!Goes
<1> HIDE DEF r
<1>3. SslOf(c)'  BY <1>1, <1>2 DEF SslOf, Ssl!Inside
<1>4. ~Ssl!Here(c)'  BY <1>2 DEF Ssl!Here, Ssl!Inside
<1>5. \/ (c \in Owning)' /\ c \in Owning /\ r.in = sslRequest[c].in /\ used' = used
      \/ (c \notin Owning)' /\ c \in Owning /\ used' = used \ {sslRequest[c].in}
      \/ (c \notin Owning)' /\ c \notin Owning /\ used' = used
  <2>1. CASE sslRequest[c].out = Nobody
    <3>1. used' = used  BY <1>1, <2>1, PartsAssumption
    <3>2. c \in Owning' <=> c \in Owning  BY <1>1, <1>2, <2>1 DEF Owning
    <3> QED  BY <1>2, <3>1, <3>2
  <2>2. CASE sslRequest[c].out # Nobody
    <3>1. sslRequest[c].out = sslRequest[c].in  BY <1>1, <2>2 DEF SslOf
    <3>2. c \notin Owning' /\ c \in Owning  BY <1>1, <1>2, <1>4, <2>2, <3>1 DEF Owning
    <3> QED  BY <1>1, <3>1, <3>2
  <2> QED  BY <2>1, <2>2
<1>7. ctx' # Nobody /\ ctx' \notin certified' => sslRequest'[ctx'].at = "certify"
  BY <1>1, <1>2 DEF SslInv
<1>8. r.at \notin Ssl!Inside /\ used' \subseteq Addresses /\ ctx' \in Actors \cup {Nobody} /\ ssl' = ssl
  BY <1>1, <1>2 DEF Ssl!Inside
<1> QED  BY <1>1, <1>2, <1>3, <1>5, <1>7, <1>8, SslStep

LEMMA NextSslInv ==
    ASSUME SslInv, [Ssl!Next]_(Ssl!vars)
    PROVE  SslInv'
<1>1. CASE UNCHANGED Ssl!vars
  BY <1>1 DEF Ssl!vars, SslInv, Ssl!TypeOK, SslOf, Apart, Owning, Ssl!Here
<1>2. ASSUME NEW c \in Actors,
             \/ \E fd \in Sockets : Ssl!Arrive(c, fd)
             \/ Ssl!GetInstance(c) \/ Ssl!NewContext(c) \/ Ssl!Certify(c) \/ Ssl!Accept(c)
             \/ Ssl!Respond(c) \/ Ssl!RespondEnd(c) \/ Ssl!Destroy(c)
      PROVE  SslInv'
  BY <1>2, ArriveStep, ContextSteps, AcceptStep, RespondSteps, DestroyStep
<1> QED  BY <1>1, <1>2 DEF Ssl!Next, Ssl!Over

LEMMA InitSslInv == Ssl!Init => SslInv
<1> SUFFICES ASSUME Ssl!Init PROVE SslInv  OBVIOUS
<1>1. /\ sslRequest = [c \in Actors |-> [at |-> "none", fd |-> Nobody, first |-> FALSE, in |-> Nobody, out |-> Nobody]]
      /\ ssl = [fd \in Sockets |-> Nobody] /\ used = {} /\ ctx = Nobody /\ certified = {}
  BY DEF Ssl!Init
<1>2. Owning = {} /\ \A c \in Actors : ~Ssl!Here(c)  BY <1>1 DEF Owning, Ssl!Here, Ssl!Inside
<1> QED  BY <1>1, <1>2 DEF SslInv, SslRow, Ssl!TypeOK, SslOf, Apart, Ssl!Inside

LEMMA SslCardinality == \A S : Ssl!Cardinality(S) = Cardinality(S)
BY DEF Ssl!Cardinality, Cardinality

\* SSLNetwork.cpp, SSLNetworkManager.cpp: the two ends of a request have the same SSL,
\* the output module finds it in the map whatever other requests have left there, each
\* SSL is freed once, and the context is complete but for those that come while the
\* first one makes it; for any number of requests, descriptors and addresses (SslIsKept).
THEOREM SslStaysKept == PartsSpec => []SslIsKept
<1>1. SslInv => SslIsKept
  <2> SUFFICES ASSUME SslInv PROVE SslIsKept  OBVIOUS
  <2>1. Ssl!TypeOK  BY DEF SslInv
  <2>2. Ssl!ModulesShareSsl /\ Ssl!EntryIsKept
    BY SslFacts DEF Ssl!ModulesShareSsl, Ssl!EntryIsKept, Ssl!At, SslOf
  <2>3. Ssl!ContextIsComplete
    <3> SUFFICES ASSUME \A c \in Actors : sslRequest[c].at \notin {"new", "certify"}, ctx # Nobody
                 PROVE  ctx \in certified
      BY DEF Ssl!ContextIsComplete
    <3>1. ctx \in Actors  BY <2>1 DEF Ssl!TypeOK
    <3>2. ctx \notin certified => sslRequest[ctx].at = "certify"  BY DEF SslInv
    <3> QED  BY <3>1, <3>2
  <2>4. Cardinality(used) = Cardinality(Owning)
    <3> DEFINE f == [c \in Owning |-> sslRequest[c].in]
    <3>1. Owning \subseteq Actors /\ used = {sslRequest[c].in : c \in Owning}  BY DEF SslInv, Owning
    <3>2. f \in Injection(Owning, used)
      <4>1. f \in [Owning -> used]  BY <3>1
      <4>2. \A c, d \in Owning : f[c] = f[d] => c = d  BY <3>1 DEF SslInv, Apart
      <4> QED  BY <4>1, <4>2 DEF Injection, IsInjective
    <3>3. f \in Surjection(Owning, used)  BY <3>1 DEF Surjection
    <3>4. ExistsBijection(Owning, used)  BY <3>2, <3>3 DEF ExistsBijection, Bijection
    <3>5. IsFiniteSet(Owning)  BY <3>1, PartsAssumption, FS_Subset
    <3> QED  BY <3>4, <3>5, FS_Bijection
  <2>5. Ssl!SslCount  BY <2>4, SslCardinality DEF Ssl!SslCount, Owning
  <2> QED  BY <2>1, <2>2, <2>3, <2>5 DEF SslIsKept, Ssl!SslIsKept
<1>2. Ssl!Init => SslInv  BY InitSslInv
<1>3. SslInv /\ [Ssl!Next]_(Ssl!vars) => SslInv'  BY NextSslInv
<1> QED  BY <1>1, <1>2, <1>3, PartsRunAlone, PTL DEF Ssl!Spec

-----------------------------------------------------------------------------
(* ObjectPool, for any number of threads and objects.                       *)

PoolRow == [at : {"idle", "allocate", "find", "construct", "unlock", "release", "push", "destroy", "joined"},
            object : Pool!Objects \cup {0}]

\* The objects that somebody has, and those of them that are constructed.
Held == {thread[t].object : t \in Actors} \ {0}
HeldBuilt == {thread[t].object : t \in {u \in Actors : thread[u].at # "construct"}} \ {0}

\* A thread by itself, before the pool is deleted.
PoolUser(t) ==
    LET r == thread[t] IN
    /\ Pool!Inside(t) => mutex = t
    /\ r.at \in {"allocate", "find"} => r.object = 0
    /\ r.at \in {"construct", "push", "release", "destroy"} => r.object # 0
    /\ r.object # 0 => r.object \in Pool!Made
    /\ r.object # 0 /\ r.at # "construct" => object[r.object] = "built"
    /\ r.object # 0 /\ r.at # "destroy" => r.object \notin Pool!ToSet(poolFree)
    /\ r.at = "destroy" /\ kind # "safe" => r.object \in Pool!ToSet(poolFree)
    /\ r.at # "joined"

\* What is in the free blocks, in the debug build's records and given back already.
PoolMemory ==
    /\ \E n \in 0..MaxObjects : Pool!Made = 1..n
    /\ known = IF kind = "locked" THEN {} ELSE HeldBuilt
    /\ Pool!ToSet(poolFree) \subseteq Pool!Made
    /\ kind = "safe" =>
          /\ poolFree = <<>>
          /\ \A o \in Pool!Objects : poolDeleted[o] = IF o \in Pool!Made \ Held THEN 1 ELSE 0
    /\ kind # "safe" =>
          /\ poolBlocks = Pool!Made /\ Pool!Made \subseteq Pool!ToSet(poolFree) \cup Held
          /\ \A o \in Pool!Objects : poolDeleted[o] = 0

PoolShape ==
    /\ thread \in [Actors -> PoolRow] /\ kind \in {"manager", "locked", "safe"}
    /\ mutex \in Actors \cup {Nobody}
    /\ object \in [Pool!Objects -> {"none", "raw", "built", "destroyed"}]
    /\ poolDeleted \in [Pool!Objects -> Nat] /\ known \subseteq Pool!Objects
    /\ poolFree \in Seq(Pool!Objects) /\ Pool!IsInjective(poolFree)
    /\ \A s, t \in Actors : s # t /\ thread[s].object # 0 => thread[s].object # thread[t].object

PoolInv ==
    /\ PoolShape
    /\ \/ PoolMemory /\ \A t \in Actors : PoolUser(t)
       \/ /\ \A t \in Actors : thread[t].at = "joined"
          /\ poolFree = <<>> /\ Pool!AllGivenBack

LEMMA TakeFree ==
    ASSUME NEW S, NEW s \in Seq(S), Pool!IsInjective(s), s # <<>>
    PROVE  /\ Pool!Last(s) \in S /\ Pool!Last(s) \in Pool!ToSet(s)
           /\ Pool!Front(s) \in Seq(S) /\ Pool!IsInjective(Pool!Front(s))
           /\ Pool!ToSet(Pool!Front(s)) = Pool!ToSet(s) \ {Pool!Last(s)}
<1>1. Len(s) \in Nat \ {0} /\ DOMAIN s = 1..Len(s) /\ \A i \in 1..Len(s) : s[i] \in S  OBVIOUS
<1>2. /\ Pool!Front(s) \in Seq(S) /\ Len(Pool!Front(s)) = Len(s) - 1
      /\ \A i \in 1 .. Len(s) - 1 : Pool!Front(s)[i] = s[i]
  BY <1>1, SubSeqProperties DEF Pool!Front
<1>3. DOMAIN Pool!Front(s) = 1 .. Len(s) - 1  BY <1>2
<1>4. \A i \in 1 .. Len(s) - 1 : i \in 1..Len(s) /\ i # Len(s) /\ s[i] # s[Len(s)]
  <2>1. \A i, j \in DOMAIN s : s[i] = s[j] => i = j  BY Zenon DEF Pool!IsInjective
  <2>2. \A n \in Nat \ {0} : n \in 1..n /\ \A i \in 1 .. n - 1 : i \in 1..n /\ i # n  OBVIOUS
  <2> QED  BY <1>1, <2>1, <2>2
<1>5. \A i \in 1 .. Len(s) : i = Len(s) \/ i \in 1 .. Len(s) - 1
  <2>1. \A n \in Nat : \A i \in 1..n : i = n \/ i \in 1 .. n - 1  OBVIOUS
  <2> QED  BY <1>1, <2>1
<1>6. Pool!ToSet(Pool!Front(s)) = {s[i] : i \in 1 .. Len(s) - 1}  BY <1>2, <1>3 DEF Pool!ToSet
<1>7. Pool!ToSet(s) = {s[i] : i \in 1 .. Len(s)} /\ Pool!Last(s) = s[Len(s)]
  BY <1>1 DEF Pool!ToSet, Pool!Last
<1>8. Pool!IsInjective(Pool!Front(s))  BY <1>1, <1>2, <1>3, <1>4 DEF Pool!IsInjective
<1>9. Pool!ToSet(Pool!Front(s)) = Pool!ToSet(s) \ {Pool!Last(s)}  BY <1>4, <1>5, <1>6, <1>7
<1> QED  BY <1>1, <1>2, <1>7, <1>8, <1>9

LEMMA GiveFree ==
    ASSUME NEW S, NEW s \in Seq(S), Pool!IsInjective(s), NEW o \in S, o \notin Pool!ToSet(s)
    PROVE  /\ Append(s, o) \in Seq(S) /\ Pool!IsInjective(Append(s, o))
           /\ Pool!ToSet(Append(s, o)) = Pool!ToSet(s) \cup {o}
<1>1. Len(s) \in Nat /\ DOMAIN s = 1..Len(s)  OBVIOUS
<1>2. /\ Append(s, o) \in Seq(S) /\ DOMAIN Append(s, o) = 1 .. Len(s) + 1 /\ Append(s, o)[Len(s) + 1] = o
      /\ \A i \in 1 .. Len(s) : Append(s, o)[i] = s[i]
  BY <1>1
<1>3. \A i \in 1 .. Len(s) + 1 : i = Len(s) + 1 \/ i \in 1..Len(s)  BY <1>1
<1>4. 1..Len(s) \subseteq 1 .. Len(s) + 1 /\ Len(s) + 1 \in 1 .. Len(s) + 1  BY <1>1
<1>5. Pool!ToSet(s) = {s[i] : i \in 1 .. Len(s)} /\ \A i \in 1..Len(s) : s[i] # o
  BY <1>1 DEF Pool!ToSet
<1>6. Pool!ToSet(Append(s, o)) = Pool!ToSet(s) \cup {o}
  BY <1>2, <1>3, <1>4, <1>5 DEF Pool!ToSet
<1>7. Pool!IsInjective(Append(s, o))  BY <1>1, <1>2, <1>3, <1>5 DEF Pool!IsInjective
<1> QED  BY <1>2, <1>6, <1>7

LEMMA EmptyFree == Pool!ToSet(<<>>) = {} /\ Pool!IsInjective(<<>>)
BY DEF Pool!ToSet, Pool!IsInjective

\* The next object is the first one that was not made.
LEMMA FreshIsNew ==
    ASSUME NEW n \in 0..MaxObjects, Pool!Made = 1..n
    PROVE  Pool!Fresh = n + 1 /\ Pool!Fresh \notin Pool!Made
<1>1. MaxObjects \in Nat /\ n \in Nat  BY PartsAssumption
<1>2. Cardinality(1..n) = n  BY <1>1, FS_Interval
<1>3. Pool!Cardinality(1..n) = n  BY <1>2 DEF Pool!Cardinality, Cardinality
<1>4. Pool!Fresh = n + 1  BY <1>3 DEF Pool!Fresh
<1> QED  BY <1>1, <1>4

\* What a thread's step does to the objects that somebody has.
LEMMA HeldStep ==
    ASSUME PoolShape, NEW t \in Actors, NEW r \in PoolRow, thread' = [thread EXCEPT ![t] = r]
    PROVE  /\ r.object = thread[t].object => Held' = Held
           /\ thread[t].object = 0 => Held' = Held \cup ({r.object} \ {0})
           /\ r.object = 0 => Held' = Held \ {thread[t].object}
<1>1. /\ thread \in [Actors -> PoolRow] /\ thread'[t] = r /\ \A s \in Actors \ {t} : thread'[s] = thread[s]
      /\ \A s \in Actors \ {t} : thread[s].object # 0 => thread[s].object # thread[t].object
  BY DEF PoolShape
<1> DEFINE rest == {thread[s].object : s \in Actors \ {t}}
<1>2. Held = (rest \cup {thread[t].object}) \ {0}  BY DEF Held
<1>3. Held' = (rest \cup {r.object}) \ {0}  BY <1>1 DEF Held
<1>4. thread[t].object # 0 => thread[t].object \notin rest  BY <1>1
<1> HIDE DEF rest
<1> QED  BY <1>2, <1>3, <1>4

LEMMA HeldBuiltStep ==
    ASSUME PoolShape, NEW t \in Actors, NEW r \in PoolRow, thread' = [thread EXCEPT ![t] = r]
    PROVE  /\ r.object = thread[t].object /\ r.at # "construct" =>
                 HeldBuilt' = IF thread[t].at = "construct" THEN HeldBuilt \cup ({r.object} \ {0}) ELSE HeldBuilt
           /\ thread[t].object = 0 /\ r.at = "construct" => HeldBuilt' = HeldBuilt
           /\ r.object = 0 /\ thread[t].at # "construct" => HeldBuilt' = HeldBuilt \ {thread[t].object}
<1>1. /\ thread \in [Actors -> PoolRow] /\ thread'[t] = r /\ \A s \in Actors \ {t} : thread'[s] = thread[s]
      /\ \A s \in Actors \ {t} : thread[s].object # 0 => thread[s].object # thread[t].object
  BY DEF PoolShape
<1> DEFINE rest == {thread[s].object : s \in {u \in Actors \ {t} : thread[u].at # "construct"}}
<1>2. HeldBuilt = (rest \cup (IF thread[t].at = "construct" THEN {} ELSE {thread[t].object})) \ {0}
  BY DEF HeldBuilt
<1>3. HeldBuilt' = (rest \cup (IF r.at = "construct" THEN {} ELSE {r.object})) \ {0}
  BY <1>1 DEF HeldBuilt
<1>4. thread[t].object # 0 => thread[t].object \notin rest  BY <1>1
<1> HIDE DEF rest
<1> QED  BY <1>2, <1>3, <1>4

\* A step of a thread before the end: it, the others and the memory stay right.
LEMMA PoolStep ==
    ASSUME PoolShape, NEW t \in Actors, NEW r \in PoolRow, thread' = [thread EXCEPT ![t] = r], kind' = kind,
           mutex' \in Actors \cup {Nobody}, known' \subseteq Pool!Objects,
           object' \in [Pool!Objects -> {"none", "raw", "built", "destroyed"}],
           poolDeleted' \in [Pool!Objects -> Nat], poolFree' \in Seq(Pool!Objects), Pool!IsInjective(poolFree'),
           r.object # 0 => \A s \in Actors \ {t} : thread[s].object # r.object,
           PoolMemory', PoolUser(t)', \A s \in Actors \ {t} : PoolUser(s)'
    PROVE  PoolInv'
<1>1. thread \in [Actors -> PoolRow] /\ kind \in {"manager", "locked", "safe"}  BY DEF PoolShape
<1>2. thread' \in [Actors -> PoolRow] /\ thread'[t] = r /\ \A s \in Actors \ {t} : thread'[s] = thread[s]
  BY <1>1
<1>3. \A s, u \in Actors : s # u /\ thread'[s].object # 0 => thread'[s].object # thread'[u].object
  <2> SUFFICES ASSUME NEW s \in Actors, NEW u \in Actors, s # u, thread'[s].object # 0
               PROVE  thread'[s].object # thread'[u].object
    OBVIOUS
  <2>1. CASE s = t  BY <1>2, <2>1
  <2>2. CASE u = t  BY <1>2, <2>2
  <2>3. CASE s # t /\ u # t  BY <1>2, <2>3 DEF PoolShape
  <2> QED  BY <2>1, <2>2, <2>3
<1>4. PoolShape'  BY <1>1, <1>2, <1>3 DEF PoolShape
<1>5. \A s \in Actors : PoolUser(s)'  OBVIOUS
<1> QED  BY <1>4, <1>5 DEF PoolInv

\* Nobody but the thread that has the mutex is in the pool.
LEMMA OneInside ==
    ASSUME \A s \in Actors : PoolUser(s), NEW t \in Actors, Pool!Inside(t)
    PROVE  mutex = t /\ \A s \in Actors \ {t} : ~Pool!Inside(s)
BY DEF PoolUser

LEMMA PoolFacts ==
    ASSUME PoolInv, NEW t \in Actors, thread[t].at # "joined"
    PROVE  /\ PoolShape /\ PoolMemory /\ \A s \in Actors : PoolUser(s)
           /\ thread \in [Actors -> PoolRow] /\ thread[t] \in PoolRow /\ PoolUser(t)
BY DEF PoolInv, PoolShape

\* call, lock and unlock: what a thread has, and the memory, stay.
LEMMA SamePool ==
    ASSUME PoolShape, PoolMemory, NEW t \in Actors, NEW r \in PoolRow, thread' = [thread EXCEPT ![t] = r],
           r.object = thread[t].object, r.at # "construct", thread[t].at # "construct",
           UNCHANGED <<kind, object, known, poolFree, poolBlocks, poolDeleted>>
    PROVE  PoolMemory'
<1>1. Held' = Held /\ HeldBuilt' = HeldBuilt  BY HeldStep, HeldBuiltStep
<1>2. Pool!Made' = Pool!Made  BY DEF Pool!Made
<1>3. /\ kind' = kind /\ known' = known /\ poolFree' = poolFree /\ poolBlocks' = poolBlocks
      /\ poolDeleted' = poolDeleted
  OBVIOUS
<1>4. known' = IF kind' = "locked" THEN {} ELSE HeldBuilt'  BY <1>1, <1>3 DEF PoolMemory
<1>5. kind = "safe" =>
         /\ poolFree = <<>>
         /\ \A o \in Pool!Objects : poolDeleted[o] = IF o \in Pool!Made' \ Held' THEN 1 ELSE 0
  BY <1>1, <1>2 DEF PoolMemory
<1>6. Pool!ToSet(poolFree)' = Pool!ToSet(poolFree) /\ Pool!ToSet(poolFree) \subseteq Pool!Made'
  BY <1>2, <1>3 DEF PoolMemory
<1>7. kind # "safe" =>
         /\ poolBlocks = Pool!Made' /\ Pool!Made' \subseteq Pool!ToSet(poolFree) \cup Held'
         /\ \A o \in Pool!Objects : poolDeleted[o] = 0
  BY <1>1, <1>2 DEF PoolMemory
<1>8. \E n \in 0..MaxObjects : Pool!Made' = 1..n  BY <1>2 DEF PoolMemory
<1> QED  BY <1>3, <1>4, <1>5, <1>6, <1>7, <1>8 DEF PoolMemory

LEMMA MoveStep ==
    ASSUME PoolInv, NEW t \in Actors, Pool!Call(t) \/ Pool!Lock(t) \/ Pool!Unlock(t)
    PROVE  PoolInv'
<1>1. thread[t].at # "joined"  BY DEF Pool!Call, Pool!Lock, Pool!Unlock, Pool!Step
<1>2. /\ PoolShape /\ PoolMemory /\ \A s \in Actors : PoolUser(s)
      /\ thread \in [Actors -> PoolRow] /\ thread[t] \in PoolRow /\ PoolUser(t)
  BY <1>1, PoolFacts
<1>3. UNCHANGED <<kind, object, known, poolFree, poolBlocks, poolDeleted>>
  BY DEF Pool!Call, Pool!Lock, Pool!Unlock
<1>4. PICK to \in {"allocate", "release", "find", "push", "idle"} :
         /\ thread' = [thread EXCEPT ![t].at = to]
         /\ \/ thread[t].at = "idle" /\ to = "allocate" /\ thread[t].object = 0 /\ mutex' = mutex
            \/ thread[t].at = "idle" /\ to = "release" /\ thread[t].object # 0 /\ mutex' = mutex
            \/ thread[t].at = "allocate" /\ to = "find" /\ mutex = Nobody /\ mutex' = t
            \/ thread[t].at = "release" /\ to = "push" /\ mutex = Nobody /\ mutex' = t
            \/ thread[t].at = "unlock" /\ to = "idle" /\ mutex' = Nobody
  BY DEF Pool!Call, Pool!Lock, Pool!Unlock, Pool!Step, Pool!NoObject
<1> DEFINE r == [thread[t] EXCEPT !.at = to]
<1>5. r \in PoolRow /\ r.at = to /\ r.object = thread[t].object /\ thread' = [thread EXCEPT ![t] = r]
      /\ thread'[t] = r /\ \A s \in Actors \ {t} : thread'[s] = thread[s]
  BY <1>2, <1>4 DEF PoolRow
<1> HIDE DEF r
<1>6. PoolMemory'
  <2>1. r.at # "construct" /\ thread[t].at # "construct"  BY <1>4, <1>5
  <2> QED  BY <1>2, <1>3, <1>5, <2>1, SamePool
<1>7. Pool!Made' = Pool!Made /\ mutex' \in Actors \cup {Nobody}  BY <1>2, <1>3, <1>4 DEF Pool!Made, PoolShape
<1>8. PoolUser(t)'  BY <1>2, <1>3, <1>4, <1>5, <1>7 DEF PoolUser, Pool!Inside
<1>9. ASSUME NEW s \in Actors \ {t} PROVE PoolUser(s)'
  <2>1. PoolUser(s) /\ thread'[s] = thread[s] /\ s # Nobody  BY <1>2, <1>5, PartsAssumption
  <2>2. Pool!Inside(s) => mutex' = s
    <3>1. ASSUME Pool!Inside(s), thread[t].at = "unlock" PROVE FALSE
      BY <1>2, <3>1, OneInside DEF Pool!Inside
    <3> QED  BY <1>4, <2>1, <3>1 DEF PoolUser
  <2> QED  BY <1>3, <1>7, <2>1, <2>2 DEF PoolUser, Pool!Inside
<1>10. r.object # 0 => \A s \in Actors \ {t} : thread[s].object # r.object  BY <1>2, <1>5 DEF PoolShape
<1>11. /\ kind' = kind /\ known' \subseteq Pool!Objects /\ poolDeleted' \in [Pool!Objects -> Nat]
       /\ object' \in [Pool!Objects -> {"none", "raw", "built", "destroyed"}]
       /\ poolFree' \in Seq(Pool!Objects) /\ Pool!IsInjective(poolFree')
  BY <1>2, <1>3 DEF PoolShape
<1> QED  BY <1>2, <1>5, <1>6, <1>7, <1>8, <1>9, <1>10, <1>11, PoolStep

LEMMA ConstructStep ==
    ASSUME PoolInv, NEW t \in Actors, Pool!Construct(t)
    PROVE  PoolInv'
<1> DEFINE o == thread[t].object
           r == [thread[t] EXCEPT !.at = "unlock"]
<1>1. thread[t].at = "construct"  BY DEF Pool!Construct, Pool!Step
<1>2. /\ PoolShape /\ PoolMemory /\ \A s \in Actors : PoolUser(s)
      /\ thread \in [Actors -> PoolRow] /\ thread[t] \in PoolRow /\ PoolUser(t)
  BY <1>1, PoolFacts
<1>3. /\ object' = [object EXCEPT ![o] = "built"]
      /\ known' = IF kind = "locked" THEN known ELSE known \cup {o}
      /\ UNCHANGED <<kind, mutex, poolBlocks, poolFree, poolDeleted>>
  BY DEF Pool!Construct
<1>4. r \in PoolRow /\ r.at = "unlock" /\ r.object = o /\ thread' = [thread EXCEPT ![t] = r]
      /\ thread'[t] = r /\ \A s \in Actors \ {t} : thread'[s] = thread[s]
  BY <1>2 DEF PoolRow, Pool!Construct, Pool!Step
<1>5. o # 0 /\ o \in Pool!Made /\ o \notin Pool!ToSet(poolFree)  BY <1>1, <1>2 DEF PoolUser
<1>6. o \in Pool!Objects  BY <1>5 DEF Pool!Made
<1>7. \A s \in Actors \ {t} : thread[s].object # o  BY <1>2, <1>5 DEF PoolShape
<1>8. Held' = Held /\ HeldBuilt' = HeldBuilt \cup {o}
  <2>1. Held' = Held /\ HeldBuilt' = HeldBuilt \cup ({o} \ {0})  BY <1>1, <1>2, <1>4, HeldStep, HeldBuiltStep
  <2>2. {o} \ {0} = {o}  BY <1>5
  <2> QED  BY <2>1, <2>2
<1> HIDE DEF r, o
<1>9. /\ object' \in [Pool!Objects -> {"none", "raw", "built", "destroyed"}] /\ object'[o] = "built"
      /\ \A p \in Pool!Objects : p # o => object'[p] = object[p]
  BY <1>2, <1>3, <1>6 DEF PoolShape
<1>10. Pool!Made' = Pool!Made  BY <1>5, <1>6, <1>9 DEF Pool!Made
<1>11. known' = IF kind' = "locked" THEN {} ELSE HeldBuilt'  BY <1>2, <1>3, <1>8 DEF PoolMemory
<1>12. PoolMemory'  BY <1>2, <1>3, <1>8, <1>10, <1>11 DEF PoolMemory
<1>13. PoolUser(t)'
  BY <1>1, <1>2, <1>3, <1>4, <1>5, <1>9, <1>10 DEF PoolUser, Pool!Inside
<1>14. ASSUME NEW s \in Actors \ {t} PROVE PoolUser(s)'
  <2>1. PoolUser(s) /\ thread'[s] = thread[s] /\ thread[s].object # o  BY <1>2, <1>4, <1>7
  <2>2. thread[s].object # 0 => object'[thread[s].object] = object[thread[s].object]
    BY <1>9, <2>1 DEF PoolUser, Pool!Made
  <2> QED  BY <1>3, <1>10, <2>1, <2>2 DEF PoolUser, Pool!Inside
<1>15. /\ kind' = kind /\ known' \subseteq Pool!Objects /\ poolDeleted' \in [Pool!Objects -> Nat]
       /\ mutex' \in Actors \cup {Nobody} /\ poolFree' \in Seq(Pool!Objects) /\ Pool!IsInjective(poolFree')
  BY <1>2, <1>3, <1>6 DEF PoolShape
<1> QED  BY <1>2, <1>4, <1>7, <1>9, <1>12, <1>13, <1>14, <1>15, PoolStep

LEMMA PushBlockStep ==
    ASSUME PoolInv, NEW t \in Actors, Pool!PushBlock(t)
    PROVE  PoolInv'
<1> DEFINE o == thread[t].object
           r == [thread[t] EXCEPT !.at = "destroy"]
<1>1. thread[t].at = "push"  BY DEF Pool!PushBlock, Pool!Step
<1>2. /\ PoolShape /\ PoolMemory /\ \A s \in Actors : PoolUser(s)
      /\ thread \in [Actors -> PoolRow] /\ thread[t] \in PoolRow /\ PoolUser(t)
  BY <1>1, PoolFacts
<1>3. /\ poolFree' = IF kind = "safe" THEN poolFree ELSE Append(poolFree, o)
      /\ UNCHANGED <<kind, mutex, poolBlocks, known, object, poolDeleted>>
  BY DEF Pool!PushBlock
<1>4. r \in PoolRow /\ r.at = "destroy" /\ r.object = o /\ thread' = [thread EXCEPT ![t] = r]
      /\ thread'[t] = r /\ \A s \in Actors \ {t} : thread'[s] = thread[s]
  BY <1>2 DEF PoolRow, Pool!PushBlock, Pool!Step
<1>5. o # 0 /\ o \in Pool!Made /\ o \notin Pool!ToSet(poolFree)  BY <1>1, <1>2 DEF PoolUser
<1>6. o \in Pool!Objects  BY <1>5 DEF Pool!Made
<1>7. \A s \in Actors \ {t} : thread[s].object # o  BY <1>2, <1>5 DEF PoolShape
<1>8. Held' = Held /\ HeldBuilt' = HeldBuilt  BY <1>1, <1>2, <1>4, HeldStep, HeldBuiltStep
<1> HIDE DEF r, o
<1>9. /\ poolFree' \in Seq(Pool!Objects) /\ Pool!IsInjective(poolFree')
      /\ Pool!ToSet(poolFree') = IF kind = "safe" THEN Pool!ToSet(poolFree) ELSE Pool!ToSet(poolFree) \cup {o}
  <2>1. poolFree \in Seq(Pool!Objects) /\ Pool!IsInjective(poolFree)  BY <1>2 DEF PoolShape
  <2>2. /\ Append(poolFree, o) \in Seq(Pool!Objects) /\ Pool!IsInjective(Append(poolFree, o))
        /\ Pool!ToSet(Append(poolFree, o)) = Pool!ToSet(poolFree) \cup {o}
    BY <1>5, <1>6, <2>1, GiveFree
  <2>3. CASE kind = "safe"  BY <1>3, <2>1, <2>3
  <2>4. CASE kind # "safe"  BY <1>3, <2>2, <2>4
  <2> QED  BY <2>3, <2>4
<1>10. Pool!Made' = Pool!Made  BY <1>3 DEF Pool!Made
<1>11. Pool!ToSet(poolFree)' = Pool!ToSet(poolFree')  OBVIOUS
<1>12. PoolMemory'  BY <1>2, <1>3, <1>5, <1>8, <1>9, <1>10, <1>11 DEF PoolMemory
<1>13. PoolUser(t)'
  BY <1>1, <1>2, <1>3, <1>4, <1>5, <1>9, <1>10, <1>11 DEF PoolUser, Pool!Inside, o
<1>14. ASSUME NEW s \in Actors \ {t} PROVE PoolUser(s)'
  <2>1. PoolUser(s) /\ thread'[s] = thread[s] /\ thread[s].object # o  BY <1>2, <1>4, <1>7
  <2> QED  BY <1>3, <1>9, <1>10, <1>11, <2>1 DEF PoolUser, Pool!Inside
<1>15. /\ kind' = kind /\ known' \subseteq Pool!Objects /\ poolDeleted' \in [Pool!Objects -> Nat]
       /\ object' \in [Pool!Objects -> {"none", "raw", "built", "destroyed"}] /\ mutex' \in Actors \cup {Nobody}
  BY <1>2, <1>3 DEF PoolShape
<1> QED  BY <1>2, <1>4, <1>7, <1>9, <1>12, <1>13, <1>14, <1>15, PoolStep

LEMMA PoolDestroyStep ==
    ASSUME PoolInv, NEW t \in Actors, Pool!Destroy(t)
    PROVE  PoolInv'
<1> DEFINE o == thread[t].object
           r == [at |-> "unlock", object |-> 0]
<1>1. thread[t].at = "destroy"  BY DEF Pool!Destroy
<1>2. /\ PoolShape /\ PoolMemory /\ \A s \in Actors : PoolUser(s)
      /\ thread \in [Actors -> PoolRow] /\ thread[t] \in PoolRow /\ PoolUser(t)
  BY <1>1, PoolFacts
<1>3. /\ object' = [object EXCEPT ![o] = "destroyed"]
      /\ poolDeleted' = IF kind = "safe" THEN [poolDeleted EXCEPT ![o] = @ + 1] ELSE poolDeleted
      /\ known' = known \ {o}
      /\ UNCHANGED <<kind, mutex, poolBlocks, poolFree>>
  BY DEF Pool!Destroy
<1>4. r \in PoolRow /\ r.at = "unlock" /\ r.object = 0 /\ thread' = [thread EXCEPT ![t] = r]
      /\ thread'[t] = r /\ \A s \in Actors \ {t} : thread'[s] = thread[s]
  BY <1>2 DEF PoolRow, Pool!Destroy, Pool!NoObject
<1>5. o # 0 /\ o \in Pool!Made /\ (kind # "safe" => o \in Pool!ToSet(poolFree))  BY <1>1, <1>2 DEF PoolUser
<1>6. o \in Pool!Objects /\ o \in Held  BY <1>5 DEF Pool!Made, Held
<1>7. \A s \in Actors \ {t} : thread[s].object # o  BY <1>2, <1>5 DEF PoolShape
<1>8. Held' = Held \ {o} /\ HeldBuilt' = HeldBuilt \ {o}  BY <1>1, <1>2, <1>4, HeldStep, HeldBuiltStep
<1> HIDE DEF r, o
<1>9. /\ object' \in [Pool!Objects -> {"none", "raw", "built", "destroyed"}] /\ object'[o] = "destroyed"
      /\ \A p \in Pool!Objects : p # o => object'[p] = object[p]
  BY <1>2, <1>3, <1>6 DEF PoolShape
<1>10. Pool!Made' = Pool!Made  BY <1>5, <1>6, <1>9 DEF Pool!Made
<1>11. known' = IF kind' = "locked" THEN {} ELSE HeldBuilt'  BY <1>2, <1>3, <1>8 DEF PoolMemory
<1>12. /\ poolDeleted' \in [Pool!Objects -> Nat]
       /\ kind # "safe" => poolDeleted' = poolDeleted
       /\ kind = "safe" => /\ poolDeleted'[o] = poolDeleted[o] + 1
                           /\ \A p \in Pool!Objects : p # o => poolDeleted'[p] = poolDeleted[p]
  BY <1>2, <1>3, <1>6 DEF PoolShape
<1>13. kind = "safe" => \A p \in Pool!Objects : poolDeleted'[p] = IF p \in Pool!Made' \ Held' THEN 1 ELSE 0
  <2> SUFFICES ASSUME kind = "safe", NEW p \in Pool!Objects
               PROVE  poolDeleted'[p] = IF p \in Pool!Made' \ Held' THEN 1 ELSE 0
    OBVIOUS
  <2>1. poolDeleted[p] = IF p \in Pool!Made \ Held THEN 1 ELSE 0  BY <1>2 DEF PoolMemory
  <2>2. CASE p = o  BY <1>5, <1>6, <1>8, <1>10, <1>12, <2>1, <2>2
  <2>3. CASE p # o  BY <1>8, <1>10, <1>12, <2>1, <2>3
  <2> QED  BY <2>2, <2>3
<1>14. kind # "safe" => Pool!Made' \subseteq Pool!ToSet(poolFree) \cup Held'
  BY <1>2, <1>5, <1>8, <1>10 DEF PoolMemory
<1>15. Pool!ToSet(poolFree)' = Pool!ToSet(poolFree)  BY <1>3
<1>16. PoolMemory'  BY <1>2, <1>3, <1>10, <1>11, <1>12, <1>13, <1>14, <1>15 DEF PoolMemory
<1>17. PoolUser(t)'  BY <1>1, <1>2, <1>3, <1>4 DEF PoolUser, Pool!Inside
<1>18. ASSUME NEW s \in Actors \ {t} PROVE PoolUser(s)'
  <2>1. PoolUser(s) /\ thread'[s] = thread[s] /\ thread[s].object # o  BY <1>2, <1>4, <1>7
  <2>2. thread[s].object # 0 => object'[thread[s].object] = object[thread[s].object]
    BY <1>9, <2>1 DEF PoolUser, Pool!Made
  <2> QED  BY <1>3, <1>10, <2>1, <2>2 DEF PoolUser, Pool!Inside
<1>19. /\ kind' = kind /\ known' \subseteq Pool!Objects
       /\ mutex' \in Actors \cup {Nobody} /\ poolFree' \in Seq(Pool!Objects) /\ Pool!IsInjective(poolFree')
  BY <1>2, <1>3, <1>6 DEF PoolShape
<1> QED  BY <1>2, <1>4, <1>9, <1>12, <1>16, <1>17, <1>18, <1>19, PoolStep

LEMMA FindBlockStep ==
    ASSUME PoolInv, NEW t \in Actors, Pool!FindBlock(t)
    PROVE  PoolInv'
<1>1. thread[t].at = "find"  BY DEF Pool!FindBlock, Pool!Find
<1>2. /\ PoolShape /\ PoolMemory /\ \A s \in Actors : PoolUser(s)
      /\ thread \in [Actors -> PoolRow] /\ thread[t] \in PoolRow /\ PoolUser(t)
  BY <1>1, PoolFacts
<1>3. thread[t].object = 0 /\ Pool!Inside(t) /\ mutex = t /\ \A s \in Actors \ {t} : thread[s].at # "destroy"
  BY <1>1, <1>2, OneInside DEF PoolUser, Pool!Inside
<1>4. UNCHANGED <<kind, mutex, known, poolDeleted>>  BY DEF Pool!FindBlock
<1>5. PICK n \in 0..MaxObjects : Pool!Made = 1..n  BY <1>2 DEF PoolMemory
<1>6. PICK o \in Pool!Objects :
         /\ thread' = [thread EXCEPT ![t] = [at |-> "construct", object |-> o]]
         /\ \A s \in Actors : thread[s].object # o
         /\ poolFree' \in Seq(Pool!Objects) /\ Pool!IsInjective(poolFree')
         /\ Pool!ToSet(poolFree') = Pool!ToSet(poolFree) \ {o}
         /\ \/ /\ kind # "safe" /\ o \in Pool!Made /\ UNCHANGED <<poolBlocks, object>>
            \/ /\ o = n + 1 /\ object' = [object EXCEPT ![o] = "raw"]
               /\ poolBlocks' = (IF kind = "safe" THEN poolBlocks ELSE poolBlocks \cup {o})
               /\ poolFree' = poolFree
  <2>1. CASE /\ kind # "safe" /\ poolFree # <<>> /\ Pool!Find(t, Pool!Last(poolFree))
             /\ poolFree' = Pool!Front(poolFree) /\ UNCHANGED <<poolBlocks, object>>
    <3> DEFINE o == Pool!Last(poolFree)
    <3>1. poolFree \in Seq(Pool!Objects) /\ Pool!IsInjective(poolFree)  BY <1>2 DEF PoolShape
    <3>2. /\ o \in Pool!Objects /\ o \in Pool!ToSet(poolFree)
          /\ poolFree' \in Seq(Pool!Objects) /\ Pool!IsInjective(poolFree')
          /\ Pool!ToSet(poolFree') = Pool!ToSet(poolFree) \ {o}
      BY <2>1, <3>1, TakeFree
    <3>3. thread' = [thread EXCEPT ![t] = [at |-> "construct", object |-> o]]  BY <2>1 DEF Pool!Find
    <3> HIDE DEF o
    <3>4. o # 0  BY <3>2, PartsAssumption DEF Pool!Objects
    <3>5. \A s \in Actors : thread[s].object # o
      BY <1>1, <1>2, <1>3, <3>2, <3>4 DEF PoolUser
    <3>6. o \in Pool!Made  BY <1>2, <3>2 DEF PoolMemory
    <3> QED  BY <2>1, <3>2, <3>3, <3>5, <3>6
  <2>2. CASE /\ kind = "safe" \/ poolFree = <<>>
             /\ Pool!Fresh \in Pool!Objects /\ Pool!Find(t, Pool!Fresh)
             /\ object' = [object EXCEPT ![Pool!Fresh] = "raw"]
             /\ poolBlocks' = (IF kind = "safe" THEN poolBlocks ELSE poolBlocks \cup {Pool!Fresh})
             /\ UNCHANGED poolFree
    <3>1. Pool!Fresh = n + 1 /\ Pool!Fresh \notin Pool!Made  BY <1>5, FreshIsNew
    <3>2. \A s \in Actors : thread[s].object # n + 1
      BY <1>2, <2>2, <3>1, PartsAssumption DEF PoolUser, Pool!Objects
    <3>3. Pool!ToSet(poolFree) \ {n + 1} = Pool!ToSet(poolFree)  BY <1>2, <3>1 DEF PoolMemory
    <3> QED  BY <1>2, <2>2, <3>1, <3>2, <3>3 DEF PoolShape, Pool!Find
  <2> QED  BY <2>1, <2>2 DEF Pool!FindBlock
<1> DEFINE r == [at |-> "construct", object |-> o]
<1>7. r \in PoolRow /\ r.at = "construct" /\ r.object = o /\ thread' = [thread EXCEPT ![t] = r]
      /\ thread'[t] = r /\ \A s \in Actors \ {t} : thread'[s] = thread[s]
  BY <1>2, <1>6 DEF PoolRow
<1> HIDE DEF r
<1>8. o # 0  BY <1>6, PartsAssumption DEF Pool!Objects
<1>9. Held' = Held \cup {o} /\ HeldBuilt' = HeldBuilt
  <2>1. Held' = Held \cup ({o} \ {0}) /\ HeldBuilt' = HeldBuilt
    BY <1>2, <1>3, <1>7, HeldStep, HeldBuiltStep
  <2>2. {o} \ {0} = {o}  BY <1>8
  <2> QED  BY <2>1, <2>2
<1>10. o \notin Held  BY <1>6 DEF Held
<1>11. /\ object' \in [Pool!Objects -> {"none", "raw", "built", "destroyed"}]
       /\ \A p \in Pool!Objects : p # o => object'[p] = object[p]
       /\ Pool!Made' = Pool!Made \cup {o}
       /\ \E m \in 0..MaxObjects : Pool!Made' = 1..m
  <2>1. CASE UNCHANGED object /\ o \in Pool!Made
    BY <1>2, <1>5, <2>1 DEF PoolShape, Pool!Made
  <2>2. CASE o = n + 1 /\ object' = [object EXCEPT ![o] = "raw"]
    <3>1. /\ object \in [Pool!Objects -> {"none", "raw", "built", "destroyed"}]
          /\ object' \in [Pool!Objects -> {"none", "raw", "built", "destroyed"}] /\ object'[o] = "raw"
          /\ \A p \in Pool!Objects : p # o => object'[p] = object[p]
      BY <1>2, <1>6, <2>2 DEF PoolShape
    <3>2. Pool!Made' = Pool!Made \cup {o}  BY <1>6, <3>1 DEF Pool!Made
    <3>3. n + 1 \in 0..MaxObjects /\ 1..n \cup {n + 1} = 1 .. n + 1
      BY <1>6, <2>2, PartsAssumption DEF Pool!Objects
    <3> QED  BY <1>5, <2>2, <3>1, <3>2, <3>3
  <2> QED  BY <1>6, <2>1, <2>2
<1>12. o \in Pool!Made \/ poolDeleted[o] = 0
  BY <1>2, <1>6 DEF PoolMemory
<1>13. kind = "safe" => /\ poolFree' = poolFree /\ o \notin Pool!Made
                        /\ \A p \in Pool!Objects : poolDeleted[p] = IF p \in Pool!Made' \ Held' THEN 1 ELSE 0
  <2> SUFFICES ASSUME kind = "safe"
               PROVE  /\ poolFree' = poolFree /\ o \notin Pool!Made
                      /\ \A p \in Pool!Objects : poolDeleted[p] = IF p \in Pool!Made' \ Held' THEN 1 ELSE 0
    OBVIOUS
  <2>1. poolFree' = poolFree /\ o = n + 1  BY <1>6
  <2>2. n + 1 \notin 1..n  BY <1>5
  <2>3. o \notin Pool!Made  BY <1>5, <2>1, <2>2
  <2>4. \A p \in Pool!Objects : poolDeleted[p] = IF p \in Pool!Made \ Held THEN 1 ELSE 0  BY <1>2 DEF PoolMemory
  <2>5. Pool!Made' \ Held' = Pool!Made \ Held  BY <1>9, <1>11, <2>3
  <2> QED  BY <2>1, <2>3, <2>4, <2>5
<1>14. kind # "safe" => poolBlocks' = Pool!Made'
  BY <1>2, <1>6, <1>11 DEF PoolMemory
<1>15. kind # "safe" => Pool!Made' \subseteq Pool!ToSet(poolFree') \cup Held'
  BY <1>2, <1>6, <1>9, <1>11 DEF PoolMemory
<1>16. Pool!ToSet(poolFree)' = Pool!ToSet(poolFree') /\ Pool!ToSet(poolFree') \subseteq Pool!Made'
  BY <1>2, <1>6, <1>11 DEF PoolMemory
<1>17. PoolMemory'
  BY <1>2, <1>4, <1>9, <1>11, <1>13, <1>14, <1>15, <1>16 DEF PoolMemory
<1>18. PoolUser(t)'
  BY <1>3, <1>4, <1>6, <1>7, <1>11, <1>16 DEF PoolUser, Pool!Inside
<1>19. ASSUME NEW s \in Actors \ {t} PROVE PoolUser(s)'
  <2>1. PoolUser(s) /\ thread'[s] = thread[s] /\ thread[s].object # o /\ thread[s].at # "destroy"
    BY <1>2, <1>3, <1>6, <1>7
  <2>2. thread[s].object # 0 => object'[thread[s].object] = object[thread[s].object]
    BY <1>11, <2>1 DEF PoolUser, Pool!Made
  <2> QED  BY <1>4, <1>6, <1>11, <1>16, <2>1, <2>2 DEF PoolUser, Pool!Inside
<1>20. /\ kind' = kind /\ known' \subseteq Pool!Objects /\ poolDeleted' \in [Pool!Objects -> Nat]
       /\ mutex' \in Actors \cup {Nobody}
  BY <1>2, <1>4 DEF PoolShape
<1> QED  BY <1>2, <1>6, <1>7, <1>11, <1>17, <1>18, <1>19, <1>20, PoolStep

LEMMA DeletePoolStep ==
    ASSUME PoolInv, Pool!Delete
    PROVE  PoolInv'
<1>1. \A t \in Actors : thread[t].at = "idle"  BY DEF Pool!Delete
<1>2. PoolShape /\ PoolMemory /\ \A s \in Actors : PoolUser(s)
  BY <1>1, PartsAssumption DEF PoolInv
<1>3. /\ thread' = [t \in Actors |-> [thread[t] EXCEPT !.at = "joined"]]
      /\ object' = [o \in Pool!Objects |-> IF o \in known /\ kind # "locked" THEN "destroyed" ELSE object[o]]
      /\ poolDeleted' = [o \in Pool!Objects |-> poolDeleted[o] +
            (IF o \in (IF kind = "safe" THEN known ELSE poolBlocks \cap Pool!Freed) THEN 1 ELSE 0)]
      /\ poolFree' = <<>> /\ known' = {} /\ UNCHANGED <<kind, mutex>>
  BY DEF Pool!Delete, Pool!GivenBack
<1>4. /\ thread \in [Actors -> PoolRow] /\ thread' \in [Actors -> PoolRow]
      /\ \A t \in Actors : thread'[t].at = "joined" /\ thread'[t].object = thread[t].object
  BY <1>2, <1>3 DEF PoolShape, PoolRow
<1>5. /\ \A o \in Held : o \in Pool!Made /\ o \notin Pool!ToSet(poolFree)
      /\ Held = HeldBuilt
  BY <1>1, <1>2 DEF Held, HeldBuilt, PoolUser
<1>6. Pool!Made' = Pool!Made /\ object' \in [Pool!Objects -> {"none", "raw", "built", "destroyed"}]
  BY <1>2, <1>3, <1>5 DEF PoolShape, PoolMemory, Pool!Made
<1>7. poolDeleted' \in [Pool!Objects -> Nat]  BY <1>2, <1>3 DEF PoolShape
<1>8. PoolShape'
  BY <1>2, <1>3, <1>4, <1>6, <1>7, EmptyFree DEF PoolShape
<1>9. \A o \in Pool!Objects :
         poolDeleted'[o] = IF o \in Pool!Made /\ (kind = "locked" => o \notin Held) THEN 1 ELSE 0
  <2> SUFFICES ASSUME NEW o \in Pool!Objects
               PROVE  poolDeleted'[o] = IF o \in Pool!Made /\ (kind = "locked" => o \notin Held) THEN 1 ELSE 0
    OBVIOUS
  <2>1. known = IF kind = "locked" THEN {} ELSE Held  BY <1>2, <1>5 DEF PoolMemory
  <2>2. poolDeleted'[o] = poolDeleted[o] +
           (IF o \in (IF kind = "safe" THEN known ELSE poolBlocks \cap Pool!Freed) THEN 1 ELSE 0)
    BY <1>3
  <2>3. CASE kind = "safe"
    <3>1. poolDeleted[o] = IF o \in Pool!Made \ Held THEN 1 ELSE 0  BY <1>2, <2>3 DEF PoolMemory
    <3>2. o \in known <=> o \in Held  BY <2>1, <2>3
    <3> QED  BY <1>5, <2>2, <2>3, <3>1, <3>2
  <2>4. CASE kind # "safe"
    <3>1. /\ poolDeleted[o] = 0 /\ poolBlocks = Pool!Made
          /\ Pool!Made \subseteq Pool!ToSet(poolFree) \cup Held /\ Pool!ToSet(poolFree) \subseteq Pool!Made
      BY <1>2, <2>4 DEF PoolMemory
    <3>2. Pool!Freed = Pool!ToSet(poolFree) \cup (IF kind = "manager" THEN Held ELSE {})
      BY <2>1, <2>4 DEF Pool!Freed
    <3>3. kind = "manager" \/ kind = "locked"  BY <1>2, <2>4 DEF PoolShape
    <3>4. o \in poolBlocks \cap Pool!Freed <=> o \in Pool!Made /\ (kind = "locked" => o \notin Held)
      BY <1>5, <3>1, <3>2, <3>3
    <3> QED  BY <2>2, <2>4, <3>1, <3>4
  <2> QED  BY <2>3, <2>4
<1>10. \A o \in Pool!Objects : o \notin Held <=> \A t \in Actors : thread[t].object # o
  <2>1. 0 \notin Pool!Objects  BY PartsAssumption DEF Pool!Objects
  <2> QED  BY <2>1 DEF Held
<1>11. Pool!AllGivenBack'
  BY <1>3, <1>4, <1>6, <1>9, <1>10 DEF Pool!AllGivenBack
<1> QED  BY <1>3, <1>4, <1>8, <1>11 DEF PoolInv

LEMMA NextPoolInv ==
    ASSUME PoolInv, [Pool!Next]_(Pool!vars)
    PROVE  PoolInv'
<1>1. CASE UNCHANGED Pool!vars
  BY <1>1 DEF Pool!vars, PoolInv, PoolShape, PoolMemory, PoolUser, Held, HeldBuilt, Pool!Made, Pool!Inside,
     Pool!AllGivenBack
<1>2. CASE \E t \in Actors : \/ Pool!Call(t) \/ Pool!Lock(t) \/ Pool!FindBlock(t) \/ Pool!Construct(t)
                             \/ Pool!PushBlock(t) \/ Pool!Destroy(t) \/ Pool!Unlock(t)
  BY <1>2, MoveStep, FindBlockStep, ConstructStep, PushBlockStep, PoolDestroyStep
<1>3. CASE Pool!Delete  BY <1>3, DeletePoolStep
<1> QED  BY <1>1, <1>2, <1>3 DEF Pool!Next, Pool!Over

LEMMA InitPoolInv == Pool!Init => PoolInv
<1> SUFFICES ASSUME Pool!Init PROVE PoolInv  OBVIOUS
<1>1. /\ kind \in {"manager", "locked", "safe"} /\ mutex = Nobody
      /\ thread = [t \in Actors |-> [at |-> "idle", object |-> 0]]
      /\ poolBlocks = {} /\ poolFree = <<>> /\ known = {}
      /\ object = [o \in Pool!Objects |-> "none"] /\ poolDeleted = [o \in Pool!Objects |-> 0]
  BY DEF Pool!Init, Pool!NoObject
<1>2. Pool!Made = {} /\ Held = {} /\ HeldBuilt = {}  BY <1>1 DEF Pool!Made, Held, HeldBuilt
<1>3. 1..0 = {} /\ 0 \in 0..MaxObjects  BY PartsAssumption
<1>4. PoolShape  BY <1>1, EmptyFree DEF PoolShape, PoolRow
<1>5. PoolMemory  BY <1>1, <1>2, <1>3, EmptyFree DEF PoolMemory
<1>6. \A t \in Actors : PoolUser(t)  BY <1>1 DEF PoolUser, Pool!Inside
<1> QED  BY <1>4, <1>5, <1>6 DEF PoolInv

\* MemoryPool.hpp, LockedAllocator.hpp, SafeAllocator.hpp, AbstractManager.hpp: an object has
\* one user, who finds it constructed, one thread at a time is in the pool, and in the
\* end the memory of every object was given back once (but for what is still in use
\* when a LockedAllocator is deleted); for any number of threads and objects (ObjectsAreKept).
THEOREM ObjectsStayKept == PartsSpec => []ObjectsAreKept
<1>1. PoolInv => ObjectsAreKept
  <2> SUFFICES ASSUME PoolInv PROVE ObjectsAreKept  OBVIOUS
  <2>1. /\ PoolShape /\ thread \in [Actors -> PoolRow]
        /\ \A t \in Actors : thread[t] \in PoolRow /\ thread[t].object \in Pool!Objects \cup {0}
    BY DEF PoolInv, PoolShape, PoolRow
  <2>2. Pool!ObjectsHaveOneUser  BY <2>1 DEF PoolShape, Pool!ObjectsHaveOneUser, Pool!NoObject
  <2>3. CASE PoolMemory /\ \A t \in Actors : PoolUser(t)
    <3>1. Pool!TypeOK
      <4>1. Pool!ToSet(poolFree) \subseteq poolBlocks  BY <2>3, EmptyFree DEF PoolMemory
      <4> QED  BY <2>1, <4>1 DEF PoolShape, Pool!TypeOK, Pool!NoObject
    <3>2. Pool!UsedIsBuilt  BY <2>3 DEF PoolUser, Pool!UsedIsBuilt, Pool!NoObject
    <3>3. Pool!PoolIsLocked  BY <2>3 DEF PoolUser, Pool!PoolIsLocked
    <3>4. Pool!AllGivenBack  BY <2>3, PartsAssumption DEF PoolUser, Pool!AllGivenBack
    <3> QED  BY <2>2, <3>1, <3>2, <3>3, <3>4 DEF ObjectsAreKept, Pool!ObjectsAreKept
  <2>4. CASE (\A t \in Actors : thread[t].at = "joined") /\ poolFree = <<>> /\ Pool!AllGivenBack
    <3>1. Pool!TypeOK  BY <2>1, <2>4, EmptyFree DEF PoolShape, Pool!TypeOK, Pool!NoObject
    <3>2. Pool!UsedIsBuilt  BY <2>4 DEF Pool!UsedIsBuilt
    <3>3. Pool!PoolIsLocked  BY <2>4 DEF Pool!PoolIsLocked, Pool!Inside
    <3> QED  BY <2>2, <2>4, <3>1, <3>2, <3>3 DEF ObjectsAreKept, Pool!ObjectsAreKept
  <2> QED  BY <2>3, <2>4 DEF PoolInv
<1> QED  BY <1>1, InitPoolInv, NextPoolInv, PartsRunAlone, PTL DEF Pool!Spec

-----------------------------------------------------------------------------
(* FileRange, for any size of an unsigned int, of a read and of the file.   *)

FileRow == [size : Nat, first : Nat, eof : BOOLEAN, range : Int \X Int]
ReaderRow == [at : {"new", "idle", "ended"}, size : Nat, begin : Nat, end : Nat, position : Nat]

\* The bytes given that are not of the file.
Blanks == {n \in DOMAIN given : given[n] = -1}

\* What was asked is what is being answered.
Asked ==
    LET from == file.range[1]  to == file.range[2] IN
    0 <= from /\ from < to /\ to < reader.size => answer.code = 206 /\ reader.begin = from /\ reader.end = to

\* A file that is read: how far the reader is in its range.
Reading ==
    /\ reader.begin <= reader.end /\ reader.end < reader.size /\ reader.size <= file.first
    /\ reader.begin = reader.end => reader.size = 1
    /\ answer.length = reader.end - reader.begin + 1
    /\ reader.position = reader.begin + Len(given)
    /\ \/ reader.position < reader.end \/ reader.position = reader.end + 1
       \/ reader.size = 1 /\ given = <<>>
    /\ reader.at = "ended" => file.eof \/ reader.position >= reader.end
    /\ Asked

\* Only a file that was cut ends early, and what it lacks is filled once.
RangeInv ==
    /\ file \in FileRow /\ reader \in ReaderRow /\ answer \in [code : Nat, length : Nat] /\ given \in Seq(Int)
    /\ reader.at = "new" => reader.size = 0
    /\ reader.size = 0 => reader.at # "idle" /\ given = <<>> /\ answer.length = 0
    /\ reader.size # 0 => Reading
    /\ FileReader!Whole => ~file.eof
    /\ \A n \in DOMAIN given : given[n] \in {-1, reader.begin + n - 1}
    /\ ~file.eof => Blanks = {}
    /\ Cardinality(Blanks) <= Chunk + 1

LEMMA Remainder ==
    ASSUME NEW a \in Nat, NEW b \in Nat \ {0}
    PROVE  a % b \in Nat /\ a % b < b /\ a % b <= a
<1>1. a % b \in 0 .. b - 1  OBVIOUS
<1>2. CASE a < b
  <2>1. a % b = a  BY <1>2
  <2> QED  BY <1>1, <2>1
<1>3. CASE a >= b  BY <1>1, <1>3
<1> QED  BY <1>2, <1>3

\* _setRanges and _writeRanges: a range is within the file, and is the one asked for if
\* the file has it.
LEMMA RangesOf ==
    ASSUME NEW from \in Int, NEW to \in Int, from >= -1, to >= -1, NEW size \in Nat \ {0}, size < Limit
    PROVE  /\ FileReader!Ranges(from, to, size) \in [code : Nat, begin : Nat, end : Nat]
           /\ FileReader!Ranges(from, to, size).begin <= FileReader!Ranges(from, to, size).end
           /\ FileReader!Ranges(from, to, size).end < size
           /\ FileReader!Ranges(from, to, size).begin = FileReader!Ranges(from, to, size).end => size = 1
           /\ 0 <= from /\ from < to /\ to < size =>
                 FileReader!Ranges(from, to, size) = [code |-> 206, begin |-> from, end |-> to]
<1>1. Limit \in Nat \ {0}  BY PartsAssumption
<1>2. ASSUME NEW n \in Int, n >= 0
      PROVE  FileReader!Read(n) \in Nat /\ (n < size => FileReader!Read(n) = n)
  BY <1>1, <1>2 DEF FileReader!Read
<1> DEFINE e == IF from = -1 THEN 0 ELSE FileReader!LastByte(to, size)
<1> DEFINE b == IF from = -1 \/ FileReader!Read(from) >= e THEN 0 ELSE FileReader!Read(from)
<1>3. e \in Nat /\ e < size
  <2>1. to # -1 => FileReader!Read(to) \in Nat  BY <1>2
  <2> QED  BY <2>1 DEF FileReader!LastByte, FileReader!NoNumber
<1>4. 0 <= from /\ from < to /\ to < size => e = to
  <2>1. 0 <= from /\ from < to /\ to < size => FileReader!Read(to) = to  BY <1>2
  <2> QED  BY <2>1 DEF FileReader!LastByte, FileReader!NoNumber
<1>5. FileReader!Ranges(from, to, size) = IF b = 0 /\ e = 0 THEN [code |-> 200, begin |-> 0, end |-> size - 1]
                                                        ELSE [code |-> 206, begin |-> b, end |-> e]
  BY DEF FileReader!Ranges, FileReader!NoNumber
<1> HIDE DEF e
<1>6. b \in Nat /\ (b = 0 \/ b < e)
  <2>1. from # -1 => FileReader!Read(from) \in Nat  BY <1>2
  <2> QED  BY <1>3, <2>1
<1>7. 0 <= from /\ from < to /\ to < size => b = from
  <2>1. 0 <= from /\ from < to /\ to < size => FileReader!Read(from) = from  BY <1>2
  <2> QED  BY <1>4, <2>1
<1> HIDE DEF b
<1>8. CASE b = 0 /\ e = 0
  <2>1. FileReader!Ranges(from, to, size) = [code |-> 200, begin |-> 0, end |-> size - 1]  BY <1>5, <1>8
  <2> QED  BY <1>4, <1>8, <2>1
<1>9. CASE ~(b = 0 /\ e = 0)
  <2>1. FileReader!Ranges(from, to, size) = [code |-> 206, begin |-> b, end |-> e]  BY <1>5, <1>9
  <2> QED  BY <1>3, <1>4, <1>6, <1>7, <1>9, <2>1
<1> QED  BY <1>8, <1>9

LEMMA InitRangeInv == FileReader!Init => RangeInv
<1> SUFFICES ASSUME FileReader!Init PROVE RangeInv  OBVIOUS
<1>1. /\ file = [size |-> 0, first |-> 0, eof |-> FALSE, range |-> <<-1, -1>>]
      /\ reader = [at |-> "new", size |-> 0, begin |-> 0, end |-> 0, position |-> 0]
      /\ answer = [code |-> 0, length |-> 0] /\ given = <<>>
  BY DEF FileReader!Init, FileReader!NoNumber
<1>2. Blanks = {}  BY <1>1 DEF Blanks
<1>3. Cardinality(Blanks) <= Chunk + 1  BY <1>2, FS_EmptySet, PartsAssumption
<1>4. file \in FileRow /\ reader \in ReaderRow /\ answer \in [code : Nat, length : Nat] /\ given \in Seq(Int)
  BY <1>1 DEF FileRow, ReaderRow
<1> QED  BY <1>1, <1>2, <1>3, <1>4 DEF RangeInv

LEMMA FoundStep ==
    ASSUME RangeInv, NEW size \in 0 .. MaxFile, NEW from \in -1 .. MaxFile, NEW to \in -1 .. MaxFile,
           FileReader!Found(size, from, to)
    PROVE  RangeInv'
<1> DEFINE s == size % Limit
<1>1. size \in Nat /\ from \in Int /\ to \in Int /\ from >= -1 /\ to >= -1 /\ Limit \in Nat \ {0} /\ Chunk \in Nat
  BY PartsAssumption
<1>2. s \in Nat /\ s < Limit /\ s <= size  BY <1>1, Remainder
<1>3. /\ reader.at = "new" /\ given' = given
      /\ file' = [size |-> size, first |-> size, eof |-> FALSE, range |-> <<from, to>>]
      /\ IF s = 0 THEN reader' = [reader EXCEPT !.at = "ended"] /\ answer' = answer
         ELSE /\ reader' = [at |-> "idle", size |-> s, begin |-> FileReader!Ranges(from, to, s).begin,
                            end |-> FileReader!Ranges(from, to, s).end,
                            position |-> FileReader!Ranges(from, to, s).begin]
              /\ answer' = [code |-> FileReader!Ranges(from, to, s).code,
                            length |-> FileReader!Ranges(from, to, s).end - FileReader!Ranges(from, to, s).begin + 1]
  BY DEF FileReader!Found
<1> HIDE DEF s
<1>4. given = <<>> /\ reader.size = 0 /\ answer.length = 0 /\ reader \in ReaderRow /\ answer \in [code : Nat, length : Nat]
  BY <1>3 DEF RangeInv
<1>5. file' \in FileRow /\ ~file'.eof /\ file'.first = size /\ file'.range[1] = from /\ file'.range[2] = to
  BY <1>1, <1>3 DEF FileRow
<1>6. Blanks' = {} /\ given' = <<>> /\ given' \in Seq(Int)  BY <1>3, <1>4 DEF Blanks
<1>7. Cardinality(Blanks') <= Chunk + 1  BY <1>1, <1>6, FS_EmptySet
<1>8. CASE s = 0
  <2>1. reader' \in ReaderRow /\ reader'.at = "ended" /\ reader'.size = 0 /\ answer' = answer
    BY <1>3, <1>4, <1>8 DEF ReaderRow
  <2> QED  BY <1>4, <1>5, <1>6, <1>7, <2>1 DEF RangeInv
<1>9. CASE s # 0
  <2> DEFINE r == FileReader!Ranges(from, to, s)
  <2>1. /\ r \in [code : Nat, begin : Nat, end : Nat] /\ r.begin <= r.end /\ r.end < s /\ (r.begin = r.end => s = 1)
        /\ (0 <= from /\ from < to /\ to < s => r.code = 206 /\ r.begin = from /\ r.end = to)
    <3>1. s \in Nat \ {0} /\ s < Limit /\ from \in Int /\ to \in Int /\ from >= -1 /\ to >= -1
      BY <1>1, <1>2, <1>9
    <3>2. /\ r \in [code : Nat, begin : Nat, end : Nat] /\ r.begin <= r.end /\ r.end < s
          /\ (r.begin = r.end => s = 1)
          /\ (0 <= from /\ from < to /\ to < s => r = [code |-> 206, begin |-> from, end |-> to])
      BY <3>1, RangesOf, Zenon
    <3> HIDE DEF r
    <3> QED  BY <3>2
  <2>2. /\ reader' = [at |-> "idle", size |-> s, begin |-> r.begin, end |-> r.end, position |-> r.begin]
        /\ answer' = [code |-> r.code, length |-> r.end - r.begin + 1]
    BY <1>3, <1>9
  <2> HIDE DEF r
  <2>3. r.code \in Nat /\ r.begin \in Nat /\ r.end \in Nat /\ r.end - r.begin + 1 \in Nat  BY <2>1
  <2>4. reader' \in ReaderRow /\ answer' \in [code : Nat, length : Nat]  BY <1>2, <2>2, <2>3 DEF ReaderRow
  <2>5. /\ reader'.at = "idle" /\ reader'.size = s /\ reader'.begin = r.begin /\ reader'.end = r.end
        /\ reader'.position = r.begin /\ answer'.code = r.code /\ answer'.length = r.end - r.begin + 1
    BY <2>2
  <2>6. Asked'  BY <1>5, <2>1, <2>5 DEF Asked
  <2>7. Len(given') = 0  BY <1>6
  <2>8. r.begin < r.end \/ s = 1  BY <2>1, <2>3
  <2>9. Reading'  BY <1>2, <1>5, <1>6, <2>1, <2>3, <2>5, <2>6, <2>7, <2>8 DEF Reading
  <2> QED  BY <1>5, <1>6, <1>7, <1>9, <2>4, <2>5, <2>9 DEF RangeInv
<1> QED  BY <1>8, <1>9

LEMMA CutStep ==
    ASSUME RangeInv, NEW size \in 0 .. MaxFile, FileReader!Cut(size)
    PROVE  RangeInv'
<1>1. /\ file' = [file EXCEPT !.size = size] /\ reader' = reader /\ answer' = answer /\ given' = given
      /\ size < file.size /\ file.size = file.first /\ size \in Nat /\ file \in FileRow
  BY PartsAssumption DEF FileReader!Cut, RangeInv
<1>2. /\ file' \in FileRow /\ file'.size = size /\ file'.first = file.first /\ file'.eof = file.eof
      /\ file'.range = file.range
  BY <1>1 DEF FileRow
<1>3. Blanks' = Blanks /\ ~FileReader!Whole'  BY <1>1, <1>2 DEF Blanks, FileReader!Whole, FileRow
<1>4. Reading => Reading'  BY <1>1, <1>2 DEF Reading, Asked
<1> QED  BY <1>1, <1>2, <1>3, <1>4 DEF RangeInv

\* A read ends before the last byte or with it.
LEMMA SizeOfRead ==
    ASSUME NEW a \in Nat, NEW b \in Nat, a < b, NEW k \in Nat, b - a <= k
    PROVE  b - a + 1 <= k + 1 /\ b - a + 1 >= 0 /\ a + (b - a + 1) = b + 1
OBVIOUS

\* A read of size bytes of which the file has those that are before its end.
LEMMA ReadStep ==
    ASSUME RangeInv, reader.at = "idle", ~file.eof, reader.position < reader.end,
           NEW n \in Nat, n = FileReader!ReadSize,
           NEW c, c = [i \in 1..n |-> IF reader.position + i - 1 < file.size THEN reader.position + i - 1 ELSE -1],
           given' = given \o c, reader' = [reader EXCEPT !.position = @ + n], answer' = answer,
           NEW short \in BOOLEAN, file' = [file EXCEPT !.eof = short],
           short <=> \E q \in reader.position .. (reader.position + n - 1) : q >= file.size
    PROVE  RangeInv'
<1>1. /\ file \in FileRow /\ reader \in ReaderRow /\ given \in Seq(Int) /\ Reading /\ Blanks = {} /\ Chunk \in Nat
      /\ reader.size # 0 /\ \A i \in DOMAIN given : given[i] \in {-1, reader.begin + i - 1}
      /\ answer \in [code : Nat, length : Nat]
  BY PartsAssumption DEF RangeInv
<1>2. reader.position \in Nat /\ reader.end \in Nat /\ reader.begin \in Nat /\ file.size \in Nat /\ file.first \in Nat
  BY <1>1 DEF FileRow, ReaderRow
<1>3. n <= Chunk + 1 /\ n >= 0 /\ (reader.position + n < reader.end \/ reader.position + n = reader.end + 1)
  <2>1. n = IF reader.end - reader.position > Chunk THEN Chunk ELSE reader.end - reader.position + 1
    BY DEF FileReader!ReadSize
  <2>2. reader.position \in Nat /\ reader.end \in Nat /\ reader.position < reader.end /\ Chunk \in Nat  BY <1>1, <1>2
  <2>3. CASE reader.end - reader.position > Chunk
    <3>1. n = Chunk  BY <2>1, <2>3
    <3> QED  BY <2>2, <2>3, <3>1
  <2>4. CASE reader.end - reader.position <= Chunk
    <3>1. n = reader.end - reader.position + 1  BY <2>1, <2>2, <2>4
    <3>2. /\ reader.end - reader.position + 1 <= Chunk + 1 /\ reader.end - reader.position + 1 >= 0
          /\ reader.position + (reader.end - reader.position + 1) = reader.end + 1
      BY <2>2, <2>4, SizeOfRead
    <3> QED  BY <3>1, <3>2, Zenon
  <2> QED  BY <2>2, <2>3, <2>4
<1>4. c \in Seq(Int) /\ Len(c) = n /\ \A i \in 1..n : c[i] = IF reader.position + i - 1 < file.size
                                                            THEN reader.position + i - 1 ELSE -1
  <2>1. c \in [1..n -> Int]  BY <1>2
  <2>2. c \in Seq(Int)  BY <2>1, SeqDef
  <2> QED  BY <2>2
<1>5. /\ given' \in Seq(Int) /\ Len(given') = Len(given) + n /\ Len(given) \in Nat
      /\ \A i \in 1 .. Len(given) + n : given'[i] = IF i <= Len(given) THEN given[i] ELSE c[i - Len(given)]
  BY <1>1, <1>4, ConcatProperties
<1>6. DOMAIN given' = 1 .. Len(given) + n /\ DOMAIN given = 1 .. Len(given)  BY <1>1, <1>5
<1>7. reader.position = reader.begin + Len(given)  BY <1>1 DEF Reading
<1>8. ASSUME NEW i \in DOMAIN given'
      PROVE  /\ given'[i] \in {-1, reader.begin + i - 1}
             /\ given'[i] = -1 => i \in Len(given) + 1 .. Len(given) + n /\ reader.begin + i - 1 >= file.size
  <2>1. CASE i <= Len(given)
    <3>1. i \in DOMAIN given /\ given'[i] = given[i]  BY <1>5, <1>6, <2>1
    <3>2. given[i] # -1  BY <1>1, <3>1 DEF Blanks
    <3> QED  BY <1>1, <3>1, <3>2
  <2>2. CASE i > Len(given)
    <3>1. i - Len(given) \in 1..n /\ given'[i] = c[i - Len(given)]  BY <1>5, <1>6, <2>2
    <3>2. reader.position + (i - Len(given)) - 1 = reader.begin + i - 1  BY <1>2, <1>5, <1>6, <1>7
    <3>3. c[i - Len(given)] = IF reader.begin + i - 1 < file.size THEN reader.begin + i - 1 ELSE -1
      BY <1>4, <3>1, <3>2
    <3>4. i \in Int /\ i <= Len(given) + n /\ i >= 1 /\ Len(given) \in Nat  BY <1>5, <1>6
    <3>5. i \in Len(given) + 1 .. Len(given) + n  BY <2>2, <3>4
    <3>6. given'[i] = IF reader.begin + i - 1 < file.size THEN reader.begin + i - 1 ELSE -1  BY <3>1, <3>3
    <3>7. reader.begin + i - 1 \in Nat  BY <1>2, <3>4
    <3> HIDE DEF Reading
    <3> QED  BY <1>2, <3>5, <3>6, <3>7
  <2> QED  BY <1>5, <1>6, <2>1, <2>2
<1>9. Cardinality(Blanks') <= Chunk + 1
  <2>1. Blanks' \subseteq Len(given) + 1 .. Len(given) + n  BY <1>8 DEF Blanks
  <2>2. IsFiniteSet(Len(given) + 1 .. Len(given) + n) /\ Cardinality(Len(given) + 1 .. Len(given) + n) = n
    <3> DEFINE a == Len(given) + 1
    <3> DEFINE b == Len(given) + n
    <3>1. a \in Int /\ b \in Int /\ b - a + 1 = n /\ (a > b => n = 0)  BY <1>3, <1>5
    <3>2. IsFiniteSet(a..b) /\ Cardinality(a..b) = IF a > b THEN 0 ELSE b - a + 1
      <4> HIDE DEF a, b
      <4> QED  BY <3>1, FS_Interval
    <3> HIDE DEF a, b
    <3>3. IsFiniteSet(a..b) /\ Cardinality(a..b) = n  BY <3>1, <3>2
    <3> QED  BY <3>3 DEF a, b
  <2>3. Cardinality(Blanks') <= n /\ IsFiniteSet(Blanks')  BY <2>1, <2>2, FS_Subset
  <2>4. Cardinality(Blanks') \in Nat  BY <2>3, FS_CardinalityType
  <2> QED  BY <1>1, <1>3, <2>3, <2>4
<1>10. ~short => Blanks' = {}
  <2> SUFFICES ASSUME ~short, NEW i \in DOMAIN given', given'[i] = -1 PROVE FALSE  BY DEF Blanks
  <2>1. i \in Len(given) + 1 .. Len(given) + n /\ reader.begin + i - 1 >= file.size  BY <1>8
  <2>2. reader.begin + i - 1 \in reader.position .. (reader.position + n - 1)
    <3> DEFINE a == reader.begin
    <3> DEFINE l == Len(given)
    <3>1. a \in Nat /\ l \in Nat /\ i \in l + 1 .. l + n  BY <1>2, <1>5, <2>1
    <3> HIDE DEF a, l
    <3>2. a + i - 1 \in (a + l) .. (a + l + n - 1)  BY <3>1
    <3> QED  BY <1>7, <3>2 DEF a, l
  <2> QED  BY <2>1, <2>2
<1>11. /\ reader' \in ReaderRow /\ reader'.at = "idle" /\ reader'.size = reader.size /\ reader'.begin = reader.begin
       /\ reader'.end = reader.end /\ reader'.position = reader.position + n
  <2>1. reader.position + n \in Nat  BY <1>2
  <2> QED  BY <1>1, <2>1 DEF ReaderRow
<1>12. /\ file' \in FileRow /\ file'.size = file.size /\ file'.first = file.first /\ file'.eof = short
       /\ file'.range = file.range
  BY <1>1 DEF FileRow
<1>13. Reading'
  <2>1. Asked'  BY <1>1, <1>11, <1>12 DEF Reading, Asked
  <2>2. reader'.position = reader'.begin + Len(given')  BY <1>2, <1>5, <1>7, <1>11
  <2> QED  BY <1>1, <1>2, <1>3, <1>11, <1>12, <2>1, <2>2 DEF Reading
<1>14. FileReader!Whole' => ~short
  <2> SUFFICES ASSUME file.size = file.first PROVE ~short  BY <1>12 DEF FileReader!Whole
  <2>1. reader.end < file.size  BY <1>1, <1>2 DEF Reading, ReaderRow
  <2>2. \A q \in reader.position .. (reader.position + n - 1) : q < file.size  BY <1>2, <1>3, <2>1
  <2> QED  BY <1>2, <2>2
<1> QED  BY <1>1, <1>5, <1>8, <1>9, <1>10, <1>11, <1>12, <1>13, <1>14 DEF RangeInv

LEMMA RangeCardinality == \A S : FileReader!Cardinality(S) = Cardinality(S)
BY DEF FileReader!Cardinality, Cardinality

LEMMA IdleStep ==
    ASSUME RangeInv, FileReader!Idle
    PROVE  RangeInv'
<1>1. /\ file \in FileRow /\ reader \in ReaderRow /\ reader.at = "idle" /\ answer' = answer
      /\ reader.position \in Nat /\ reader.end \in Nat /\ Chunk \in Nat /\ file.size \in Nat
  BY PartsAssumption DEF RangeInv, FileRow, ReaderRow, FileReader!Idle
<1> DEFINE n == FileReader!ReadSize
<1> DEFINE there == {q \in reader.position .. (reader.position + n - 1) : q < file.size}
<1>2. CASE /\ ~file.eof /\ reader.position < reader.end
           /\ given' = given \o [i \in 1..n |-> IF reader.position + i - 1 \in there THEN reader.position + i - 1 ELSE -1]
           /\ reader' = [reader EXCEPT !.position = @ + n]
           /\ file' = [file EXCEPT !.eof = FileReader!Cardinality(there) < n]
  <2>1. n \in Nat  BY <1>1, <1>2 DEF FileReader!ReadSize
  <2> HIDE DEF n
  <2> DEFINE asked == reader.position .. (reader.position + n - 1)
  <2> DEFINE short == FileReader!Cardinality(there) < n
  <2>2. IsFiniteSet(asked) /\ Cardinality(asked) = n
    <3> DEFINE a == reader.position
    <3> DEFINE b == reader.position + n - 1
    <3>1. a \in Int /\ b \in Int /\ b - a + 1 = n /\ (a > b => n = 0)  BY <1>1, <2>1
    <3>2. IsFiniteSet(a..b) /\ Cardinality(a..b) = IF a > b THEN 0 ELSE b - a + 1
      <4> HIDE DEF a, b
      <4> QED  BY <3>1, FS_Interval
    <3> HIDE DEF a, b
    <3>3. IsFiniteSet(a..b) /\ Cardinality(a..b) = n  BY <3>1, <3>2
    <3> QED  BY <3>3 DEF a, b
  <2>3. there \subseteq asked  OBVIOUS
  <2>4. /\ IsFiniteSet(there) /\ Cardinality(there) <= n /\ (Cardinality(there) = n => there = asked)
        /\ Cardinality(there) \in Nat
    <3> HIDE DEF there, asked
    <3>1. IsFiniteSet(there) /\ Cardinality(there) <= n /\ (Cardinality(there) = n => there = asked)
      BY <2>2, <2>3, FS_Subset
    <3> QED  BY <3>1, FS_CardinalityType
  <2>5. short <=> there # asked
    <3> HIDE DEF there, asked
    <3>1. short <=> Cardinality(there) < n  BY RangeCardinality
    <3> QED  BY <2>1, <2>2, <2>4, <3>1
  <2>6. short <=> \E q \in asked : q >= file.size
    <3>1. there # asked <=> \E q \in asked : ~(q < file.size)  OBVIOUS
    <3>2. \A q \in asked : ~(q < file.size) <=> q >= file.size  BY <1>1, <2>1
    <3> HIDE DEF there, asked, short
    <3> QED  BY <2>5, <3>1, <3>2
  <2>7. [i \in 1..n |-> IF reader.position + i - 1 \in there THEN reader.position + i - 1 ELSE -1]
        = [i \in 1..n |-> IF reader.position + i - 1 < file.size THEN reader.position + i - 1 ELSE -1]
    <3>1. \A i \in 1..n : reader.position + i - 1 \in there <=> reader.position + i - 1 < file.size
      BY <1>1, <2>1
    <3> HIDE DEF there
    <3> QED  BY <3>1
  <2>8. given' = given \o [i \in 1..n |-> IF reader.position + i - 1 < file.size THEN reader.position + i - 1 ELSE -1]
        /\ reader' = [reader EXCEPT !.position = @ + n] /\ file' = [file EXCEPT !.eof = short]
    <3> HIDE DEF there
    <3> QED  BY <1>2, <2>7
  <2>9. short \in BOOLEAN  OBVIOUS
  <2> HIDE DEF there, short
  <2>10. short <=> \E q \in reader.position .. (reader.position + n - 1) : q >= file.size  BY <2>6
  <2>11. n = FileReader!ReadSize  BY DEF n
  <2> QED  BY <1>1, <1>2, <2>1, <2>8, <2>9, <2>10, <2>11, ReadStep
<1>3. CASE /\ file.eof \/ reader.position >= reader.end
           /\ reader' = [reader EXCEPT !.at = "ended"] /\ file' = file /\ given' = given
  <2>1. /\ reader' \in ReaderRow /\ reader'.at = "ended" /\ reader'.size = reader.size /\ reader'.begin = reader.begin
        /\ reader'.end = reader.end /\ reader'.position = reader.position
    BY <1>1, <1>3 DEF ReaderRow
  <2>2. Reading => Reading'  BY <1>1, <1>3, <2>1 DEF Reading, Asked
  <2>3. Blanks' = Blanks /\ (FileReader!Whole' <=> FileReader!Whole)  BY <1>3 DEF Blanks, FileReader!Whole
  <2> QED  BY <1>1, <1>3, <2>1, <2>2, <2>3 DEF RangeInv
<1> QED  BY <1>2, <1>3 DEF FileReader!Idle

LEMMA NextRangeInv == RangeInv /\ [FileReader!Next]_(FileReader!vars) => RangeInv'
<1> SUFFICES ASSUME RangeInv, [FileReader!Next]_(FileReader!vars) PROVE RangeInv'  OBVIOUS
<1>1. CASE FileReader!Idle  BY <1>1, IdleStep
<1>2. CASE FileReader!Over \/ UNCHANGED FileReader!vars
  <2>1. file' = file /\ reader' = reader /\ answer' = answer /\ given' = given
    BY <1>2 DEF FileReader!Over, FileReader!vars
  <2>2. (Reading => Reading') /\ Blanks' = Blanks /\ (FileReader!Whole' <=> FileReader!Whole)
    BY <2>1 DEF Reading, Asked, Blanks, FileReader!Whole
  <2> QED  BY <2>1, <2>2 DEF RangeInv
<1>3. ASSUME NEW size \in FileReader!Numbers, FileReader!Cut(size) PROVE RangeInv'
  BY <1>3, CutStep DEF FileReader!Numbers
<1>4. ASSUME NEW size \in FileReader!Numbers, NEW from \in FileReader!Numbers \cup {FileReader!NoNumber},
             NEW to \in FileReader!Numbers \cup {FileReader!NoNumber}, FileReader!Found(size, from, to)
      PROVE  RangeInv'
  <2>1. size \in 0 .. MaxFile /\ from \in -1 .. MaxFile /\ to \in -1 .. MaxFile
    BY PartsAssumption DEF FileReader!Numbers, FileReader!NoNumber
  <2> QED  BY <1>4, <2>1, FoundStep
<1> QED  BY <1>1, <1>2, <1>3, <1>4 DEF FileReader!Next

\* FileReader.cpp, _setRanges, _writeRanges and _onIdle: a range that the file has is
\* answered as it was asked; what is announced is what is given, each byte once and in
\* order, but for a file of one byte; and however the file is cut, not more than one
\* buffer is filled with what is not of it (RangeIsAnswered).
THEOREM RangeStaysAnswered == PartsSpec => []RangeIsAnswered
<1>1. RangeInv => RangeIsAnswered
  <2> SUFFICES ASSUME RangeInv PROVE RangeIsAnswered  OBVIOUS
  <2>1. /\ file \in FileRow /\ reader \in ReaderRow /\ answer \in [code : Nat, length : Nat] /\ given \in Seq(Int)
        /\ (reader.size # 0 => Reading) /\ (reader.size = 0 => given = <<>> /\ answer.length = 0)
        /\ reader.begin \in Nat /\ reader.end \in Nat /\ reader.position \in Nat /\ reader.size \in Nat
        /\ \A n \in DOMAIN given : given[n] \in {-1, reader.begin + n - 1}
        /\ (~file.eof => Blanks = {}) /\ Cardinality(Blanks) <= Chunk + 1 /\ (FileReader!Whole => ~file.eof)
    BY DEF RangeInv, ReaderRow
  <2>2. /\ Len(given) \in Nat /\ DOMAIN given = 1 .. Len(given) /\ answer.length \in Nat /\ answer.code \in Nat
    BY <2>1
  <2>3. Len(given) <= answer.length
    <3>1. CASE reader.size = 0  BY <2>1, <2>2, <3>1
    <3>2. CASE reader.size # 0  BY <2>1, <2>2, <3>2 DEF Reading
    <3> QED  BY <3>1, <3>2
  <2>4. FileReader!CutFileIsFilled
    BY <2>1, <2>3, RangeCardinality DEF FileReader!CutFileIsFilled, Blanks
  <2>5. ASSUME reader.at = "ended", FileReader!Whole, reader.size > 1
        PROVE  Len(given) = answer.length /\ \A n \in DOMAIN given : given[n] = reader.begin + n - 1
    <3>1. Reading /\ Blanks = {} /\ ~file.eof  BY <2>1, <2>5
    <3>2. Len(given) = answer.length  BY <2>1, <2>2, <2>5, <3>1 DEF Reading
    <3>3. \A n \in DOMAIN given : given[n] # -1  BY <3>1 DEF Blanks
    <3> QED  BY <2>1, <3>2, <3>3
  <2>6. FileReader!AnnouncedIsGiven
    <3> SUFFICES ASSUME reader.at = "ended", FileReader!Whole
                 PROVE  \/ given = [n \in 1 .. answer.length |-> reader.begin + n - 1]
                        \/ reader.size = 1 /\ given = <<>>
      BY DEF FileReader!AnnouncedIsGiven
    <3>1. CASE reader.size = 0
      <4>1. given = <<>> /\ answer.length = 0  BY <2>1, <3>1
      <4>2. [n \in 1 .. answer.length |-> reader.begin + n - 1] = <<>>  BY <4>1
      <4> QED  BY <4>1, <4>2
    <3>2. CASE reader.size = 1
      <4>1. reader.begin = 0 /\ reader.end = 0 /\ Reading  BY <2>1, <3>2 DEF Reading
      <4>2. given = <<>> \/ (Len(given) = 1 /\ answer.length = 1)  BY <2>1, <2>2, <3>2, <4>1 DEF Reading
      <4>3. \A n \in DOMAIN given : given[n] # -1  BY <2>1 DEF Blanks
      <4>4. \A n \in DOMAIN given : given[n] = reader.begin + n - 1  BY <2>1, <4>3
      <4>5. given = [n \in 1 .. Len(given) |-> given[n]]  BY <2>1, <2>2
      <4> QED  BY <2>2, <3>2, <4>2, <4>4, <4>5
    <3>3. CASE reader.size > 1
      <4>1. Len(given) = answer.length /\ \A n \in DOMAIN given : given[n] = reader.begin + n - 1  BY <2>5, <3>3
      <4>2. given = [n \in 1 .. Len(given) |-> given[n]]  BY <2>1, <2>2
      <4> QED  BY <2>2, <4>1, <4>2
    <3> QED  BY <2>1, <3>1, <3>2, <3>3
  <2>7. FileReader!RangeIsKept
    <3> DEFINE from == file.range[1]
    <3> DEFINE to == file.range[2]
    <3>1. from \in Int /\ to \in Int  BY <2>1 DEF FileRow
    <3> SUFFICES ASSUME reader.at = "ended", 0 <= from, from < to, to < reader.size
                 PROVE  /\ answer = [code |-> 206, length |-> to - from + 1]
                        /\ FileReader!Whole => Len(given) = to - from + 1 /\ given[1] = from
      BY DEF FileReader!RangeIsKept
    <3>2. reader.size > 1 /\ Reading  BY <2>1, <3>1
    <3>3. answer.code = 206 /\ reader.begin = from /\ reader.end = to  BY <3>2 DEF Reading, Asked
    <3> HIDE DEF from, to
    <3>4. answer.length = to - from + 1  BY <3>2, <3>3 DEF Reading
    <3>5. answer = [code |-> answer.code, length |-> answer.length]  BY <2>1
    <3>6. ASSUME FileReader!Whole PROVE Len(given) = to - from + 1 /\ given[1] = from
      <4>1. Len(given) = to - from + 1 /\ \A n \in DOMAIN given : given[n] = reader.begin + n - 1
        BY <2>5, <3>2, <3>4, <3>6
      <4>2. 1 \in DOMAIN given  BY <2>2, <3>1, <4>1
      <4>3. given[1] = reader.begin + 1 - 1  BY <4>1, <4>2
      <4> QED  BY <3>1, <3>3, <4>1, <4>3
    <3> QED  BY <3>3, <3>4, <3>5, <3>6
  <2> QED  BY <2>4, <2>6, <2>7 DEF RangeIsAnswered, FileReader!RangeIsAnswered
<1> QED  BY <1>1, InitRangeInv, NextRangeInv, PartsRunAlone, PTL DEF FileReader!Spec

-----------------------------------------------------------------------------
(* ThreadPool, for any number of threads and of tasks: no task is lost, run *)
(* twice or taken out of turn, and the destructor leaves no thread behind.  *)

\* A worker holds work exactly while it runs it.
HeldIffRunning == \A w \in Actors : held[w] # 0 <=> pc[w] = "run"

\* EachTaskOnce, without the sets: the queue holds the numbers after Taken, a
\* taken number is either finished or held, and by one worker only.
QueueInOrder == \A i \in 1..Len(pending) : pending[i] = Threads!Taken + i
HeldByOne == \A w, v \in Actors : held[w] # 0 /\ held[w] = held[v] => w = v
HeldNotDone == \A w \in Actors : held[w] # 0 => held[w] \in (1..Threads!Taken) \ done
TakenAccounted ==
    /\ done \subseteq 1..Threads!Taken
    /\ \A t \in 1..Threads!Taken : t \in done \/ \E w \in Actors : held[w] = t

ThreadsInv ==
    /\ Threads!TypeOK /\ Threads!DestroyedIsQuiet /\ HeldIffRunning
    /\ Len(pending) <= queued
    /\ QueueInOrder /\ HeldByOne /\ HeldNotDone /\ TakenAccounted

LEMMA TakenNat == ASSUME ThreadsInv PROVE Threads!Taken \in Nat /\ Len(pending) \in Nat /\ queued \in Nat
  <1>1. Len(pending) \in Nat /\ queued \in Nat /\ Len(pending) <= queued
    BY LenProperties DEF ThreadsInv, Threads!TypeOK
  <1>2. QED BY <1>1 DEF Threads!Taken

LEMMA InitThreadsInv == Threads!Init => ThreadsInv
  <1> SUFFICES ASSUME Threads!Init PROVE ThreadsInv
    OBVIOUS
  <1>1. Len(<<>>) = 0 /\ <<>> \in Seq(1..0)
    BY EmptySeq
  <1>2. Threads!TypeOK
    BY <1>1 DEF Threads!Init, Threads!TypeOK, Threads!WorkerPlaces, Threads!ClientPlaces
  <1>3. Threads!Taken = 0
    <2>1. queued = 0 /\ Len(pending) = 0
      BY <1>1 DEF Threads!Init
    <2>2. QED BY <2>1 DEF Threads!Taken
  <1>4. QED
    BY <1>1, <1>2, <1>3 DEF Threads!Init, ThreadsInv, Threads!DestroyedIsQuiet, HeldIffRunning, QueueInOrder,
       HeldByOne, HeldNotDone, TakenAccounted

-----------------------------------------------------------------------------
(* The steps that touch the queue or the work in progress.                  *)

LEMMA QueueTaskStep == ThreadsInv /\ Threads!QueueTask => ThreadsInv'
  <1> SUFFICES ASSUME ThreadsInv, Threads!QueueTask PROVE ThreadsInv'
    OBVIOUS
  <1>0. Threads!Taken \in Nat /\ Len(pending) \in Nat /\ queued \in Nat
    BY TakenNat
  <1>1. queued' = queued + 1 /\ pending' = Append(pending, queued + 1)
    BY DEF Threads!QueueTask
  <1>2. pending \in Seq(1..(queued + 1)) /\ queued + 1 \in 1..(queued + 1)
    <2>1. 1..queued \subseteq 1..(queued + 1)
      BY <1>0
    <2>2. pending \in Seq(1..queued)
      BY DEF ThreadsInv, Threads!TypeOK
    <2>3. QED BY <1>0, <2>1, <2>2, SeqMonotonic
  <1>3. /\ pending' \in Seq(1..queued')
        /\ Len(pending') = Len(pending) + 1
        /\ \A i \in 1..Len(pending) : pending'[i] = pending[i]
        /\ pending'[Len(pending) + 1] = queued + 1
    BY <1>1, <1>2, AppendProperties
  <1>4. Threads!Taken' = Threads!Taken
    BY <1>0, <1>1, <1>3 DEF Threads!Taken
  <1>5. Threads!TypeOK'
    <2>1. held' \in [Actors -> 0..queued'] /\ done' \subseteq 1..queued'
      BY <1>0, <1>1 DEF ThreadsInv, Threads!TypeOK, Threads!QueueTask
    <2>2. QED BY <1>0, <1>1, <1>3, <2>1 DEF ThreadsInv, Threads!TypeOK, Threads!QueueTask, Threads!ClientPlaces
  <1>6. QueueInOrder'
    BY <1>0, <1>3, <1>4 DEF ThreadsInv, QueueInOrder, Threads!Taken
  <1>7. HeldByOne' /\ HeldNotDone' /\ TakenAccounted' /\ HeldIffRunning' /\ Threads!DestroyedIsQuiet'
    BY <1>4 DEF ThreadsInv, HeldByOne, HeldNotDone, TakenAccounted, HeldIffRunning,
       Threads!DestroyedIsQuiet, Threads!QueueTask
  <1>8. Len(pending') <= queued'
    BY <1>0, <1>1, <1>3 DEF ThreadsInv
  <1>9. QED BY <1>5, <1>6, <1>7, <1>8 DEF ThreadsInv

LEMMA TakeTaskStep ==
    ASSUME ThreadsInv, NEW w \in Actors, Threads!TakeTask(w)
    PROVE  ThreadsInv'
  <1>0. Threads!Taken \in Nat /\ Len(pending) \in Nat /\ queued \in Nat
    BY TakenNat
  <1>1. pending \in Seq(1..queued) /\ pending # <<>> /\ pending' = Tail(pending)
    BY DEF ThreadsInv, Threads!TypeOK, Threads!TakeTask
  <1>2. /\ Head(pending) \in 1..queued /\ pending' \in Seq(1..queued)
        /\ Len(pending') = Len(pending) - 1
        /\ \A i \in 1..Len(pending') : pending'[i] = pending[i + 1]
    BY <1>1, HeadTailProperties
  <1>3. Len(pending) \in Nat \ {0}
    BY <1>1, EmptySeq
  <1>4. Head(pending) = Threads!Taken + 1
    <2>1. Head(pending) = pending[1]
      BY <1>1, <1>3
    <2>2. QED BY <1>3, <2>1 DEF ThreadsInv, QueueInOrder
  <1>5. /\ Threads!Taken' = Threads!Taken + 1 /\ Threads!Taken' \in Nat /\ queued' = queued
        /\ done' = done /\ client' = client /\ running' = running
        /\ held' = [held EXCEPT ![w] = Threads!Taken + 1] /\ pc' = [pc EXCEPT ![w] = "run"]
        /\ pc[w] = "take"
    <2>1. /\ queued' = queued /\ done' = done /\ client' = client /\ running' = running
          /\ held' = [held EXCEPT ![w] = Threads!Taken + 1] /\ pc' = [pc EXCEPT ![w] = "run"]
          /\ pc[w] = "take"
      BY <1>4 DEF Threads!TakeTask, Threads!Goto
    <2>2. Threads!Taken' = Threads!Taken + 1
      BY <1>0, <1>2, <1>3, <2>1 DEF Threads!Taken
    <2>3. QED BY <1>0, <2>1, <2>2
  <1>6. held[w] = 0
    BY <1>5 DEF ThreadsInv, HeldIffRunning
  <1>7. Threads!TypeOK'
    BY <1>2, <1>4, <1>5 DEF ThreadsInv, Threads!TypeOK, Threads!WorkerPlaces
  <1>8. HeldIffRunning'
    BY <1>0, <1>5 DEF ThreadsInv, Threads!TypeOK, HeldIffRunning
  <1>9. Threads!DestroyedIsQuiet'
    BY <1>5 DEF ThreadsInv, Threads!TypeOK, Threads!DestroyedIsQuiet
  <1>10. QueueInOrder' /\ Len(pending') <= queued'
    BY <1>0, <1>2, <1>3, <1>5 DEF ThreadsInv, QueueInOrder
  <1>11. \A v \in Actors : held[v] # 0 => held[v] \in 1..Threads!Taken
    BY DEF ThreadsInv, HeldNotDone
  <1>12. HeldByOne'
    BY <1>0, <1>5, <1>11 DEF ThreadsInv, Threads!TypeOK, HeldByOne
  <1>13. HeldNotDone'
    BY <1>0, <1>5 DEF ThreadsInv, Threads!TypeOK, HeldNotDone, TakenAccounted
  <1>14. TakenAccounted'
    <2>1. \A t \in 1..Threads!Taken : t \in done \/ \E v \in Actors : held'[v] = t
      BY <1>5, <1>6 DEF ThreadsInv, Threads!TypeOK, TakenAccounted
    <2>2. held'[w] = Threads!Taken + 1
      BY <1>5 DEF ThreadsInv, Threads!TypeOK
    <2>3. \A t \in 1..(Threads!Taken + 1) : t \in 1..Threads!Taken \/ t = Threads!Taken + 1
      BY <1>0
    <2>4. \A t \in 1..(Threads!Taken + 1) : t \in done \/ \E v \in Actors : held'[v] = t
      BY <2>1, <2>2, <2>3
    <2>5. done \subseteq 1..(Threads!Taken + 1)
      BY <1>0 DEF ThreadsInv, TakenAccounted
    <2>6. QED BY <1>5, <2>4, <2>5 DEF TakenAccounted
  <1>15. QED
    BY <1>7, <1>8, <1>9, <1>10, <1>12, <1>13, <1>14 DEF ThreadsInv

LEMMA FinishTaskStep ==
    ASSUME ThreadsInv, NEW w \in Actors, Threads!FinishTask(w)
    PROVE  ThreadsInv'
  <1>1. /\ held' = [held EXCEPT ![w] = 0] /\ pc' = [pc EXCEPT ![w] = "loop"]
        /\ done' = done \cup {held[w]} /\ pc[w] = "run"
        /\ UNCHANGED <<running, pending, queued, client>>
    BY DEF Threads!FinishTask, Threads!Goto
  <1>2. held[w] # 0 /\ held[w] \in 1..Threads!Taken /\ Threads!Taken' = Threads!Taken
    BY <1>1 DEF ThreadsInv, HeldIffRunning, HeldNotDone, Threads!Taken
  <1>3. Threads!TypeOK'
    <2>1. held[w] \in 1..queued
      BY <1>2, TakenNat DEF Threads!Taken
    <2>2. held' \in [Actors -> 0..queued']
      BY <1>1, TakenNat DEF ThreadsInv, Threads!TypeOK
    <2>3. done' \subseteq 1..queued'
      BY <1>1, <2>1 DEF ThreadsInv, Threads!TypeOK
    <2>4. QED BY <1>1, <2>2, <2>3 DEF ThreadsInv, Threads!TypeOK, Threads!WorkerPlaces
  <1>4. HeldIffRunning' /\ Threads!DestroyedIsQuiet'
    BY <1>1 DEF ThreadsInv, Threads!TypeOK, HeldIffRunning, Threads!DestroyedIsQuiet
  <1>5. QueueInOrder' /\ Len(pending') <= queued'
    BY <1>1, <1>2 DEF ThreadsInv, QueueInOrder
  <1>6. HeldByOne' /\ HeldNotDone'
    BY <1>1, <1>2 DEF ThreadsInv, Threads!TypeOK, HeldByOne, HeldNotDone
  <1>7. TakenAccounted'
    <2>1. ASSUME NEW t \in 1..Threads!Taken PROVE t \in done' \/ \E v \in Actors : held'[v] = t
      BY <1>1, <1>2 DEF ThreadsInv, Threads!TypeOK, TakenAccounted
    <2>2. QED BY <1>1, <1>2, <2>1 DEF ThreadsInv, TakenAccounted
  <1>8. QED
    BY <1>3, <1>4, <1>5, <1>6, <1>7 DEF ThreadsInv

-----------------------------------------------------------------------------
(* The steps that only move threads.                                        *)

LEMMA ThreadMoves ==
    ASSUME ThreadsInv, UNCHANGED <<pending, queued, held, done>>,
           running' \in BOOLEAN, pc' \in [Actors -> Threads!WorkerPlaces],
           client' \in Threads!ClientPlaces,
           \A w \in Actors : pc'[w] = "run" <=> pc[w] = "run",
           client' = "destroyed" => \A w \in Actors : pc'[w] = "exited"
    PROVE  ThreadsInv'
  <1>1. Threads!Taken' = Threads!Taken
    BY DEF Threads!Taken
  <1>2. Threads!TypeOK' /\ Threads!DestroyedIsQuiet' /\ HeldIffRunning'
    BY DEF ThreadsInv, Threads!TypeOK, Threads!DestroyedIsQuiet, HeldIffRunning
  <1>3. QED
    BY <1>1, <1>2 DEF ThreadsInv, QueueInOrder, HeldByOne, HeldNotDone, TakenAccounted

LEMMA ClientStep ==
    ASSUME ThreadsInv, Threads!WakeAll \/ Threads!Stop \/ Threads!StopWakeAll \/ Threads!Join
    PROVE  ThreadsInv'
  <1> USE DEF ThreadsInv, Threads!TypeOK, Threads!WorkerPlaces, Threads!ClientPlaces
  <1>1. CASE Threads!WakeAll
    BY <1>1, ThreadMoves DEF Threads!WakeAll, Threads!Broadcast
  <1>2. CASE Threads!Stop
    BY <1>2, ThreadMoves DEF Threads!Stop
  <1>3. CASE Threads!StopWakeAll
    BY <1>3, ThreadMoves DEF Threads!StopWakeAll, Threads!Broadcast
  <1>4. CASE Threads!Join
    BY <1>4, ThreadMoves DEF Threads!Join
  <1>5. QED BY <1>1, <1>2, <1>3, <1>4

LEMMA WorkerMoveStep ==
    ASSUME ThreadsInv, NEW w \in Actors,
           Threads!Loop(w) \/ Threads!CheckCondition(w) \/ Threads!Sleep(w) \/ Threads!SpuriousWakeup(w)
             \/ Threads!Awake(w) \/ Threads!TakeNothing(w)
    PROVE  ThreadsInv'
  <1>1. UNCHANGED <<running, pending, queued, held, done, client>>
    BY DEF Threads!Loop, Threads!CheckCondition, Threads!Sleep, Threads!SpuriousWakeup, Threads!Awake, Threads!TakeNothing
  <1>2. PICK p \in Threads!WorkerPlaces \ {"run"} :
           pc' = [pc EXCEPT ![w] = p] /\ pc[w] \notin {"run", "exited"}
    BY DEF Threads!Loop, Threads!CheckCondition, Threads!Sleep, Threads!SpuriousWakeup, Threads!Awake, Threads!TakeNothing, Threads!Goto, Threads!WorkerPlaces
  <1>3. pc' \in [Actors -> Threads!WorkerPlaces] /\ \A v \in Actors : pc'[v] = "run" <=> pc[v] = "run"
    BY <1>2 DEF ThreadsInv, Threads!TypeOK
  <1>4. client # "destroyed"
    BY <1>2 DEF ThreadsInv, Threads!DestroyedIsQuiet
  <1>5. QED BY <1>1, <1>3, <1>4, ThreadMoves DEF ThreadsInv, Threads!TypeOK

LEMMA NextThreadsInv == ThreadsInv /\ [Threads!Next]_(Threads!vars) => ThreadsInv'
  <1> SUFFICES ASSUME ThreadsInv, [Threads!Next]_(Threads!vars) PROVE ThreadsInv'
    OBVIOUS
  <1>1. CASE Threads!QueueTask
    BY <1>1, QueueTaskStep
  <1>2. CASE Threads!WakeAll \/ Threads!Stop \/ Threads!StopWakeAll \/ Threads!Join
    BY <1>2, ClientStep
  <1>3. CASE \E w \in Actors : Threads!WorkerStep(w) \/ Threads!SpuriousWakeup(w)
    BY <1>3, WorkerMoveStep, TakeTaskStep, FinishTaskStep DEF Threads!WorkerStep
  <1>4. CASE UNCHANGED Threads!vars
    BY <1>4 DEF Threads!vars, ThreadsInv, Threads!TypeOK, Threads!DestroyedIsQuiet, HeldIffRunning, QueueInOrder,
       HeldByOne, HeldNotDone, TakenAccounted, Threads!Taken
  <1>5. QED BY <1>1, <1>2, <1>3, <1>4 DEF Threads!Next, Threads!Quiet

LEMMA AlwaysThreadsInv == Threads!Spec => []ThreadsInv
  <1>1. QED BY InitThreadsInv, NextThreadsInv, PTL DEF Threads!Spec

-----------------------------------------------------------------------------
(* The theorems.                                                            *)

\* The types of the pool's state, and that no number beyond those handed out
\* by queueTask is ever pending, held or finished.
THEOREM ThreadPoolTypesStay == Threads!Spec => []Threads!TypeOK
  <1>1. ThreadsInv => Threads!TypeOK
    BY DEF ThreadsInv
  <1>2. QED BY <1>1, AlwaysThreadsInv, PTL

\* However queueTask, the workers and the destructor interleave, work is taken
\* in the order it was queued and belongs to one worker, once.
THEOREM TasksRunOnce == Threads!Spec => []Threads!EachTaskOnce
  <1>1. ThreadsInv => Threads!EachTaskOnce
    <2> SUFFICES ASSUME ThreadsInv PROVE Threads!EachTaskOnce
      OBVIOUS
    <2>1. \A i \in 1..Len(pending) : pending[i] = Threads!Taken + i
      BY DEF ThreadsInv, QueueInOrder
    <2>2. \A w, v \in Threads!Busy : held[w] = held[v] => w = v
      BY DEF ThreadsInv, HeldByOne, Threads!Busy
    <2>3. {held[w] : w \in Threads!Busy} \cap done = {}
      BY DEF ThreadsInv, HeldNotDone, Threads!Busy
    <2>4. {held[w] : w \in Threads!Busy} \cup done = 1..Threads!Taken
      <3>1. \A t \in {held[w] : w \in Threads!Busy} \cup done : t \in 1..Threads!Taken
        BY DEF ThreadsInv, HeldNotDone, TakenAccounted, Threads!Busy
      <3>2. \A t \in 1..Threads!Taken : t # 0
        BY TakenNat
      <3>3. \A t \in 1..Threads!Taken : t \in {held[w] : w \in Threads!Busy} \cup done
        BY <3>2 DEF ThreadsInv, TakenAccounted, Threads!Busy
      <3>4. QED BY <3>1, <3>3
    <2>5. QED BY <2>1, <2>2, <2>3, <2>4 DEF Threads!EachTaskOnce
  <1>2. QED BY <1>1, AlwaysThreadsInv, PTL

\* When the destructor returns every thread of the pool has left its loop.
THEOREM QuietAfterDestruction == Threads!Spec => []Threads!DestroyedIsQuiet
  <1>1. ThreadsInv => Threads!DestroyedIsQuiet
    BY DEF ThreadsInv
  <1>2. QED BY <1>1, AlwaysThreadsInv, PTL

-----------------------------------------------------------------------------
(* ThreadPool implements WorkQueue.                                         *)

\* A worker outside its loop's exit holds the pool: it is not destroyed.
LEMMA WorkersKeepOpen ==
    ASSUME ThreadsInv, NEW w \in Actors, pc[w] # "exited"
    PROVE  client # "destroyed"
  BY DEF ThreadsInv, Threads!DestroyedIsQuiet

\* A worker that holds nothing leaves a thread for the next piece of work: each
\* piece in progress is in the hands of another worker.
LEMMA RoomToStart ==
    ASSUME ThreadsInv, NEW w \in Actors, pc[w] # "run"
    PROVE  Cardinality(Threads!Client!InProgress) < Cardinality(Actors)
  <1> DEFINE P == Threads!Client!InProgress
             f == [t \in P |-> CHOOSE v \in Actors : held[v] = t]
  <1>1. P = (1..Threads!Taken) \ done
    BY DEF Threads!Client!InProgress
  <1>2. \A t \in P : t # 0
    BY <1>1, TakenNat
  <1>3. \A t \in P : f[t] \in Actors \ {w} /\ held[f[t]] = t
    BY <1>1, <1>2 DEF ThreadsInv, TakenAccounted, HeldIffRunning
  <1>4. f \in [P -> Actors \ {w}]
    BY <1>3
  <1>5. \A s, t \in P : f[s] = f[t] => s = t
    BY <1>3
  <1> HIDE DEF f, P
  <1>6. f \in Injection(P, Actors \ {w})
    BY <1>4, <1>5 DEF Injection, IsInjective
  <1>7. /\ IsFiniteSet(Actors) /\ Cardinality(Actors) \in Nat
        /\ IsFiniteSet(Actors \ {w}) /\ Cardinality(Actors \ {w}) = Cardinality(Actors) - 1
    BY FS_CardinalityType, FS_RemoveElement, PartsAssumption
  <1>8. IsFiniteSet(P) /\ Cardinality(P) <= Cardinality(Actors \ {w})
    BY <1>6, <1>7, FS_Injection
  <1>9. Cardinality(P) \in Nat
    BY <1>8, FS_CardinalityType
  <1>10. Cardinality(P) < Cardinality(Actors)
    BY <1>7, <1>8, <1>9
  <1>11. QED BY <1>10 DEF P

LEMMA QueueTaskQueues == ASSUME ThreadsInv, Threads!QueueTask PROVE Threads!Client!Queue
  <1>1. pending \in Seq(1..queued) /\ queued \in Nat
    BY DEF ThreadsInv, Threads!TypeOK
  <1>2. Len(pending') = Len(pending) + 1 /\ Len(pending) \in Nat
    BY <1>1, LenProperties DEF Threads!QueueTask
  <1>3. Threads!Taken' = Threads!Taken
    BY <1>1, <1>2 DEF Threads!Taken, Threads!QueueTask
  <1>4. QED BY <1>3 DEF Threads!QueueTask, Threads!Client!Queue

LEMMA TakeTaskStarts ==
    ASSUME ThreadsInv, NEW w \in Actors, Threads!TakeTask(w)
    PROVE  Threads!Client!Start
  <1>1. pending \in Seq(1..queued) /\ queued \in Nat /\ pending # <<>>
    BY DEF ThreadsInv, Threads!TypeOK, Threads!TakeTask
  <1>2. Len(pending) \in Nat /\ Len(pending) > 0
    BY <1>1, EmptySeq, LenProperties
  <1>3. Len(pending') = Len(pending) - 1
    BY <1>1, <1>2, HeadTailProperties DEF Threads!TakeTask
  <1>4. Threads!Taken < queued /\ Threads!Taken' = Threads!Taken + 1
    BY <1>1, <1>2, <1>3 DEF Threads!Taken, Threads!TakeTask
  <1>5. pc[w] = "take" /\ client # "destroyed"
    BY WorkersKeepOpen DEF Threads!TakeTask, Threads!Goto
  <1>6. Cardinality(Threads!Client!InProgress) < Cardinality(Actors)
    BY <1>5, RoomToStart
  <1>7. /\ Threads!Client!Cardinality(Threads!Client!InProgress) = Cardinality(Threads!Client!InProgress)
        /\ Threads!Cardinality(Actors) = Cardinality(Actors)
    BY Zenon DEF Threads!Client!Cardinality, Threads!Cardinality, Cardinality
  <1>8. QED BY <1>4, <1>5, <1>6, <1>7 DEF Threads!TakeTask, Threads!Client!Start

LEMMA FinishTaskFinishes ==
    ASSUME ThreadsInv, NEW w \in Actors, Threads!FinishTask(w)
    PROVE  Threads!Client!Finish
  <1>1. pc[w] = "run" /\ client # "destroyed"
    BY WorkersKeepOpen DEF Threads!FinishTask, Threads!Goto
  <1>2. held[w] \in Threads!Client!InProgress
    BY <1>1 DEF ThreadsInv, HeldIffRunning, HeldNotDone, Threads!Client!InProgress
  <1>3. Threads!Taken' = Threads!Taken
    BY DEF Threads!FinishTask, Threads!Taken
  <1>4. QED BY <1>1, <1>2, <1>3 DEF Threads!FinishTask, Threads!Client!Finish

LEMMA JoinDestroys == ASSUME ThreadsInv, Threads!Join PROVE Threads!Client!Destroy
  <1>1. \A w \in Actors : held[w] = 0
    BY DEF ThreadsInv, HeldIffRunning, Threads!Join
  <1>2. Threads!Client!InProgress = {}
    <2>1. \A t \in 1..Threads!Taken : t # 0
      BY TakenNat
    <2>2. QED BY <1>1, <2>1 DEF ThreadsInv, TakenAccounted, Threads!Client!InProgress
  <1>3. Threads!Taken' = Threads!Taken
    BY DEF Threads!Join, Threads!Taken
  <1>4. QED BY <1>2, <1>3 DEF Threads!Join, Threads!Client!Destroy

\* What the pool does besides is not seen by its client.
LEMMA OthersStutter ==
    ASSUME ThreadsInv,
           Threads!WakeAll \/ Threads!Stop \/ Threads!StopWakeAll
             \/ (\E w \in Actors : Threads!Loop(w) \/ Threads!CheckCondition(w) \/ Threads!Sleep(w)
                   \/ Threads!SpuriousWakeup(w) \/ Threads!Awake(w) \/ Threads!TakeNothing(w))
             \/ UNCHANGED Threads!vars
    PROVE  UNCHANGED Threads!Client!vars
  <1>1. UNCHANGED <<pending, queued, done>>
    BY DEF Threads!WakeAll, Threads!Stop, Threads!StopWakeAll, Threads!Loop, Threads!CheckCondition, Threads!Sleep, Threads!SpuriousWakeup,
       Threads!Awake, Threads!TakeNothing, Threads!vars
  <1>2. (client # "destroyed")' = (client # "destroyed")
    BY DEF Threads!WakeAll, Threads!Stop, Threads!StopWakeAll, Threads!Loop, Threads!CheckCondition, Threads!Sleep, Threads!SpuriousWakeup,
       Threads!Awake, Threads!TakeNothing, Threads!vars
  <1>3. QED BY <1>1, <1>2 DEF Threads!Taken, Threads!Client!vars

\* A client of the pool sees WorkQueue: whatever the threads, the lost wake-ups
\* and the destructor do, work is started in order, never by more threads than
\* there are, and nothing is in progress once the pool is destroyed.
THEOREM PoolIsWorkQueue == PartsSpec => ImplementsWorkQueue
  <1>1. Threads!Init => Threads!Client!Init
    <2> SUFFICES ASSUME Threads!Init PROVE Threads!Client!Init
      OBVIOUS
    <2>1. queued = 0 /\ Len(pending) = 0
      BY EmptySeq DEF Threads!Init
    <2>2. Threads!Taken = 0
      BY <2>1 DEF Threads!Taken
    <2>3. QED BY <2>2 DEF Threads!Init, Threads!Client!Init
  <1>2. ThreadsInv /\ [Threads!Next]_(Threads!vars) => [Threads!Client!Next]_(Threads!Client!vars)
    <2> SUFFICES ASSUME ThreadsInv, [Threads!Next]_(Threads!vars) PROVE [Threads!Client!Next]_(Threads!Client!vars)
      OBVIOUS
    <2>1. CASE Threads!QueueTask
      BY <2>1, QueueTaskQueues DEF Threads!Client!Next
    <2>2. CASE Threads!Join
      BY <2>2, JoinDestroys DEF Threads!Client!Next
    <2>3. CASE \E w \in Actors : Threads!TakeTask(w)
      BY <2>3, TakeTaskStarts DEF Threads!Client!Next
    <2>4. CASE \E w \in Actors : Threads!FinishTask(w)
      BY <2>4, FinishTaskFinishes DEF Threads!Client!Next
    <2>5. CASE Threads!WakeAll \/ Threads!Stop \/ Threads!StopWakeAll
                 \/ (\E w \in Actors : Threads!Loop(w) \/ Threads!CheckCondition(w) \/ Threads!Sleep(w)
                       \/ Threads!SpuriousWakeup(w) \/ Threads!Awake(w) \/ Threads!TakeNothing(w))
                 \/ UNCHANGED Threads!vars
      BY <2>5, OthersStutter
    <2>6. QED BY <2>1, <2>2, <2>3, <2>4, <2>5 DEF Threads!Next, Threads!WorkerStep, Threads!Quiet
  <1>3. Threads!Spec => Threads!Client!Spec
    BY <1>1, <1>2, AlwaysThreadsInv, PTL DEF Threads!Spec, Threads!Client!Spec
  <1>4. ImplementsWorkQueue <=> Threads!Client!Spec
    BY DEF ImplementsWorkQueue, Threads!ImplementsWorkQueue
  <1>5. QED BY <1>3, <1>4, PartsRunAlone, PTL


\* Each piece of work is in one place, and nobody has one after the destructor.
THEOREM WorkStaysHandedOut == PartsSpec => []WorkIsHandedOut
  <1>1. Threads!TypeOK /\ Threads!EachTaskOnce /\ Threads!DestroyedIsQuiet => WorkIsHandedOut
    BY DEF WorkIsHandedOut, Threads!WorkIsHandedOut
  <1>2. QED BY <1>1, ThreadPoolTypesStay, TasksRunOnce, QuietAfterDestruction, PartsRunAlone, PTL
-----------------------------------------------------------------------------
(* ConfigurationUse, for any number of requests and of reloads: its proof is *)
(* in ConfigurationUseProofs.                                               *)
UP == INSTANCE ConfigurationUseProofs

\* ConfigurationUseProofs speaks of the same configuration.
LEMMA UseIsUse ==
    /\ Use!Init <=> UP!Init
    /\ [Use!Next]_(Use!vars) => [UP!Next]_(UP!vars)
    /\ UP!ConfigurationIsKept => Use!ConfigurationIsKept
<1> USE DEF Use!vars, Use!None, Use!Configurations, Use!New, Use!Gone, Use!Goes, Use!Here, Use!Mine, Use!Delete, Use!Has, Use!Early, Use!Leaves, Use!Inside,
            UP!vars, UP!None, UP!Configurations, UP!New, UP!Gone, UP!Goes, UP!Here, UP!Mine, UP!Delete, UP!Has, UP!Early, UP!Leaves, UP!Inside
<1>1. Use!Init <=> UP!Init  BY DEF Use!Init, UP!Init
<1>2. ASSUME NEW r \in Requests, Use!Copy(r) PROVE UP!Copy(r)  BY <1>2, Zenon DEF Use!Copy, UP!Copy
<1>3. ASSUME NEW r \in Requests, Use!Increment(r) PROVE UP!Increment(r)  BY <1>3, Zenon DEF Use!Increment, UP!Increment
<1>4. ASSUME NEW r \in Requests, Use!Find(r) PROVE UP!Find(r)  BY <1>4, Zenon DEF Use!Find, UP!Find
<1>5. ASSUME NEW r \in Requests, Use!Insert(r) PROVE UP!Insert(r)  BY <1>5, Zenon DEF Use!Insert, UP!Insert
<1>6. ASSUME NEW r \in Requests, Use!Merge(r) PROVE UP!Merge(r)  BY <1>6, Zenon DEF Use!Merge, UP!Merge
<1>7. ASSUME NEW r \in Requests, Use!Get(r) PROVE UP!Get(r)  BY <1>7, Zenon DEF Use!Get, UP!Get
<1>8. ASSUME NEW r \in Requests, Use!TestLoaded(r) PROVE UP!TestLoaded(r)  BY <1>8, Zenon DEF Use!TestLoaded, UP!TestLoaded
<1>9. ASSUME NEW r \in Requests, Use!Create(r) PROVE UP!Create(r)  BY <1>9, Zenon DEF Use!Create, UP!Create
<1>10. ASSUME NEW r \in Requests, Use!SetOptions(r) PROVE UP!SetOptions(r)  BY <1>10, Zenon DEF Use!SetOptions, UP!SetOptions
<1>11. ASSUME NEW r \in Requests, Use!Load(r) PROVE UP!Load(r)  BY <1>11, Zenon DEF Use!Load, UP!Load
<1>12. ASSUME NEW r \in Requests, Use!Return(r) PROVE UP!Return(r)  BY <1>12, Zenon DEF Use!Return, UP!Return
<1>13. ASSUME NEW r \in Requests, Use!OpenDatabase(r) PROVE UP!OpenDatabase(r)  BY <1>13, Zenon DEF Use!OpenDatabase, UP!OpenDatabase
<1>14. ASSUME NEW r \in Requests, Use!Decrement(r) PROVE UP!Decrement(r)  BY <1>14, Zenon DEF Use!Decrement, UP!Decrement
<1>15. ASSUME NEW r \in Requests, Use!DeleteLast(r) PROVE UP!DeleteLast(r)  BY <1>15, Zenon DEF Use!DeleteLast, UP!DeleteLast
<1>16. Use!SetConfiguration => UP!SetConfiguration  BY Zenon DEF Use!SetConfiguration, UP!SetConfiguration
<1>17. Use!ReloadDeletes => UP!ReloadDeletes  BY Zenon DEF Use!ReloadDeletes, UP!ReloadDeletes
<1>18. Use!ReloadUnlocks => UP!ReloadUnlocks  BY Zenon DEF Use!ReloadUnlocks, UP!ReloadUnlocks
<1>19. Use!Over => UP!Over  BY Zenon DEF Use!Over, UP!Over
<1>20. Use!Next => UP!Next
  BY Zenon, <1>2, <1>3, <1>4, <1>5, <1>6, <1>7, <1>8, <1>9, <1>10, <1>11, <1>12, <1>13, <1>14, <1>15, <1>16, <1>17, <1>18, <1>19 DEF Use!Next, UP!Next
<1>21. [Use!Next]_(Use!vars) => [UP!Next]_(UP!vars)
  BY <1>20
<1>22. UP!TypeOK => Use!TypeOK  BY Zenon DEF Use!TypeOK, UP!TypeOK
<1>23. UP!ConfigurationOutlivesRequest => Use!ConfigurationOutlivesRequest  BY Zenon DEF Use!ConfigurationOutlivesRequest, UP!ConfigurationOutlivesRequest
<1>24. UP!ReplacedIsDeleted => Use!ReplacedIsDeleted  BY Zenon DEF Use!ReplacedIsDeleted, UP!ReplacedIsDeleted
<1>25. UP!ManagerIsReady => Use!ManagerIsReady  BY Zenon DEF Use!ManagerIsReady, UP!ManagerIsReady
<1>26. UP!LoadedIsConfigured => Use!LoadedIsConfigured  BY Zenon DEF Use!LoadedIsConfigured, UP!LoadedIsConfigured
<1>27. UP!PathIsStaleOnlyAfterReload => Use!PathIsStaleOnlyAfterReload  BY Zenon DEF Use!PathIsStaleOnlyAfterReload, UP!PathIsStaleOnlyAfterReload
<1>28. UP!ConfigurationIsKept => Use!ConfigurationIsKept
  BY Zenon, <1>22, <1>23, <1>24, <1>25, <1>26, <1>27 DEF Use!ConfigurationIsKept, UP!ConfigurationIsKept
<1> QED  BY <1>1, <1>21, <1>28

\* ConfigurationManager.cpp, ModuleConfiguration.cpp: a request has its configuration
\* and a manager that is ready until it is over, whatever is reloaded meanwhile, and the
\* configuration is deleted, once, after its last request (ConfigurationIsKept of
\* the run), for any number of requests and of reloads.
THEOREM ConfigurationStaysKept == PartsSpec => []ConfigurationIsKept
<1>1. UP!UseAssumption  BY PartsAssumption DEF UP!UseAssumption, UP!IsFiniteSet, IsFiniteSet
<1>2. UP!Spec => []UP!ConfigurationIsKept  BY <1>1, UP!ConfigurationStaysKept
<1>3. UP!ConfigurationIsKept => ConfigurationIsKept  BY UseIsUse DEF ConfigurationIsKept
<1>4. PartsInit => UP!Init  BY UseIsUse DEF PartsInit
<1>5. [PartsNext]_partsVars => [UP!Next]_(UP!vars)  BY PartsStepsAlone, UseIsUse
<1> QED  BY <1>2, <1>3, <1>4, <1>5, PTL DEF PartsSpec, UP!Spec
=============================================================================
