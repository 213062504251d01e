------------------------- MODULE RequestChainProofs -------------------------
(***************************************************************************)
(* Proofs about RequestChain, for any number of pieces, size of the file   *)
(* and write limit: what the modules of a request do to its RequestTasks   *)
(* is what RequestTasks allows its callers, so that every theorem of       *)
(* RequestTasksProofs holds of the request.                                *)
(*                                                                         *)
(* The invariant ChainInv says which tasks can wait in the queue, in which *)
(* order, and which calls a running module has still to make.  Most of it  *)
(* is about sets (what is planned, what is handed over, what is asked for) *)
(* because a call only moves a member from one of these sets to another.   *)
(* The last part is about the end that goes down the chain: its invariant  *)
(* EndPasses and the lemmas for the steps that hand no task out.           *)
(***************************************************************************)
EXTENDS RequestChain, SequenceTheorems, TLAPS

TP == INSTANCE RequestTasksProofs WITH Input <- "in", Output <- "out"

-----------------------------------------------------------------------------
(* Vocabulary. *)

Elems(q) == {q[i] : i \in DOMAIN q}
Once(q, S) == \A i, j \in DOMAIN q : q[i] \in S /\ q[j] \in S => i = j

Pages == {Padding, Page}
Infos == {<<"info", n>> : n \in 1..2}
DataBuffers == {Data(n) : n \in 1..FileSize}
HeaderPieces == {Piece(n) : n \in 1..Pieces}
Written == {Headers, Final} \cup Pages \cup Infos \cup DataBuffers

Tasks(e, ms, bs) == [event : {e}, module : ms, buffer : bs]
EndTasks == Tasks("ON_END", Modules, {NoBuffer})
IdleTasks == Tasks("ON_IDLE", {"reader"}, {NoBuffer})
WriteTasks == Tasks("ON_CAN_WRITE", {"out"}, Written)
CanRead == T!ModuleTask("ON_CAN_READ", "in", NoBuffer)
PieceTasks == Tasks("ON_REQUEST_DATA", {"parser"}, HeaderPieces)
BodyTasks == Tasks("ON_REQUEST_DATA", {"builder", "reader", "pob", "error"}, {RequestBody})
HeadersTasks == Tasks("ON_REQUEST_DATA", {"error"}, {Headers})
ResponseTasks == Tasks("ON_RESPONSE_DATA", {"pob"}, Pages \cup DataBuffers)

\* What can wait in the queue, what is put at its front, what stands for a read
\* that was asked for.
DataTasks == PieceTasks \cup BodyTasks \cup HeadersTasks \cup ResponseTasks
FrontTasks == DataTasks \cup WriteTasks
ReadTasks == {CanRead} \cup PieceTasks
ChainTasks == {CanRead} \cup FrontTasks \cup IdleTasks \cup EndTasks
With(b) == {t \in ChainTasks : t.buffer = b}

FrontsFirst(q) ==
    \A i, j \in DOMAIN q : i < j /\ q[j] \in FrontTasks => q[i] \in FrontTasks
FewFronts(q, n) == \A i \in DOMAIN q : q[i] \in FrontTasks => i <= n

\* The tasks that will come, the buffers handed over, the read and the call
\* that are under way.
Planned(r) == (Elems(r.tasks) \cup {r.end_task, r.call_later_task}) \ {NoTask}
Handed(r) == TaskBuffers(r) \cup WriteBuffers(r)
Reads(r) == r.wait_read \/ Elems(r.tasks) \cap ReadTasks # {}
Idles(r) == r.call_later_task # NoTask \/ Elems(r.tasks) \cap IdleTasks # {}

-----------------------------------------------------------------------------
(* The queue. *)

QueueType(r) ==
    /\ r.tasks \in Seq(ChainTasks) /\ r.write_buffers \in Seq(Written)
    /\ r.call_later_task \in IdleTasks \cup {NoTask}
    /\ r.end_task \in EndTasks \cup {NoTask}

\* A buffer is handed over once.
Unshared(r) ==
    \A b \in Buffers :
        /\ Once(r.tasks, With(b)) /\ Once(r.write_buffers, {b})
        /\ b \in TaskBuffers(r) => b \notin WriteBuffers(r)

\* One read and one call of FileReader at a time.
OneRead(r) == Once(r.tasks, ReadTasks) /\ (r.wait_read => Elems(r.tasks) \cap ReadTasks = {})
OneIdle(r) ==
    /\ Once(r.tasks, IdleTasks)
    /\ r.call_later_task # NoTask => Elems(r.tasks) \cap IdleTasks = {}

QueueInv(r) == QueueType(r) /\ Unshared(r) /\ OneRead(r) /\ OneIdle(r) /\ FrontsFirst(r.tasks)

\* The queue while the task manager is between hasWork and getNextTask, and at
\* any other time.
Filled(r) ==
    /\ \A i \in DOMAIN r.tasks : r.tasks[i] \in WriteTasks => i = 1
    /\ FewFronts(r.tasks, 3)
    /\ (r.tasks # <<>> => r.tasks[1] \notin WriteTasks) => FewFronts(r.tasks, 2)
Ready(r) ==
    /\ r.tasks # <<>> /\ Filled(r)
    /\ Elems(r.tasks) \cap EndTasks # {} => Len(r.tasks) = 1 /\ r.write_buffers = <<>>
Still(r) == Elems(r.tasks) \cap (EndTasks \cup WriteTasks) = {} /\ FewFronts(r.tasks, 2)

-----------------------------------------------------------------------------
(* The script. *)

Named(ns) == ns \X (Buffers \cup {NoBuffer})
Gives(bs) == {"giveData"} \X bs
Releasing == {"release"} \X Buffers

CallsOf(m) ==
    CASE m = "in" -> Gives(HeaderPieces) \cup Named({"throw", "notifyEndTask", "raiseEnd", "return"})
      [] m = "out" -> ({"needWrite"} \X Written) \cup Releasing
                        \cup Named({"throw", "notifyEndTask", "raiseEnd", "return"})
      [] m = "parser" -> Gives({RequestBody}) \cup Releasing \cup Named({"needRead", "raiseEnd", "return"})
      [] m = "builder" -> Gives({RequestBody}) \cup Releasing
                            \cup Named({"reset", "endError", "insertAfter", "raiseEnd", "return"})
      [] m = "reader" -> Gives(DataBuffers) \cup Releasing
                           \cup Named({"reset", "endError", "callLater", "raiseEnd", "endInput", "return"})
      [] m = "error" -> Gives(Pages) \cup Releasing \cup Named({"raiseEnd", "return"})
      [] m = "pob" -> Gives(Written) \cup Releasing \cup Named({"raiseEnd", "endInput", "return"})

Handing(b) == {GiveData(b), NeedWrite(b)}
Asked(s) == {b \in Buffers : Elems(s) \cap Handing(b) # {}}
ReadCalls == Gives(HeaderPieces) \cup Named({"needRead"})
IdleCalls == Named({"callLater"})
LastCalls == Named({"return", "notifyEndTask"})

C0 == <<"in", "parser", "builder", "pob", "out">>
CR == <<"in", "parser", "builder", "reader", "pob", "out">>
CE == <<"in", "parser", "builder", "error", "pob", "out">>
CP == <<"in", "parser", "builder", "pob", "error", "out">>

\* The calls that queue a task; the others hand a buffer to the last module.
AddCalls(m, ch) == IF (m = "pob" /\ ch # CP) \/ (m = "error" /\ ch = CP) THEN {} ELSE Gives(Buffers)

\* A script by itself.
ScriptInv(s, m) ==
    /\ s \in Seq(CallsOf(m))
    /\ \A i \in DOMAIN s : s[i] \in LastCalls => i = Len(s)
    /\ \A i \in DOMAIN s : s[i] \in Named({"reset", "insertAfter"}) => i = 1
    /\ m = "reader" /\ Elems(s) \cap Named({"reset", "endError"}) # {}
         => s \in Seq(Named({"reset", "endError", "return"}))
    /\ Once(s, ReadCalls) /\ Once(s, IdleCalls)
    /\ \A b \in Buffers : Once(s, Handing(b))

\* A script and the tasks it will add to.
Fits(s, m, ch, r) ==
    /\ Asked(s) \cap Handed(r) = {}
    /\ Elems(s) \cap ReadCalls # {} => ~Reads(r)
    /\ Elems(s) \cap IdleCalls # {} => ~Idles(r)
    /\ \A i \in DOMAIN s : s[i] \in AddCalls(m, ch) => FewFronts(r.tasks, 1)
    /\ \A i, j \in DOMAIN s : i < j /\ s[i] \in AddCalls(m, ch) /\ s[j] \in AddCalls(m, ch)
         => i = 1 /\ j = 2 /\ FewFronts(r.tasks, 0)
    /\ Elems(s) \cap Named({"notifyEndTask"}) # {} => s[1] \in Named({"throw"}) \/ r.has_error

-----------------------------------------------------------------------------
(* A request. *)

InUse == Handed(rt) \cup Asked(script)
Reading == Reads(rt) \/ Elems(script) \cap ReadCalls # {}
Idling == Idles(rt) \/ Elems(script) \cap IdleCalls # {}

\* The buffers of the body on their way to PreOutputBuilder, or given by it.
Coming(b) == \E t \in Planned(rt) \cap ResponseTasks : t.buffer = b
Given(b) == GiveData(b) \in Elems(script)

Bookkeeping ==
    /\ TP!Consistent(rt) /\ QueueInv(rt)
    /\ IF caller = "dispatching" THEN Ready(rt) ELSE Still(rt)
    /\ current = NoModule \/ caller = "running" \/ rt.has_error
    /\ caller = "dispatching" => current = NoModule
    /\ reported # "NONE" => rt.registered \/ rt.has_error \/ InChain("error")

\* The chain takes four shapes.  A running module is in it, unless it is the
\* FileReader that has just replaced itself with the error module.
Shape ==
    /\ chain \in {C0, CR, CE, CP} /\ (~builded => chain = C0)
    /\ \A t \in Planned(rt) : InChain(t.module)
Running ==
    script # <<>> =>
    /\ caller = "running" /\ current \in Modules
    /\ InChain(current) \/ (current = "reader" /\ script \in Seq(Named({"endError", "return"})))
    /\ ScriptInv(script, current) /\ Fits(script, current, chain, rt)
    /\ Elems(script) \cap Named({"reset"}) # {} =>
          (current = "builder" /\ chain = C0) \/ (current = "reader" /\ chain = CR)
    /\ Elems(script) \cap Named({"insertAfter"}) # {} => current = "builder" /\ chain = C0
    /\ Elems(script) \cap Named({"reset", "insertAfter"}) # {} => builded
    /\ Elems(script) \cap Named({"endError"}) # {} =>
          script[1] \in Named({"reset"}) \/ InChain("error")

\* What the modules have done agrees with what they can still be asked.
Parsing ==
    /\ Len(parser.buffers) <= Pieces
    /\ Reading => Len(parser.buffers) < Pieces
    /\ Len(parser.buffers) < Pieces => RequestBody \notin InUse
Answering ==
    /\ Idling => reader.open
    /\ reader.open => measured
    /\ chain # CE => ~pob.chunked
    /\ ~pob.headers => Headers \notin InUse
    /\ \A n \in 1..FileSize : Data(n) \in InUse => n <= FileSize - reader.left
    /\ \A b \in DataBuffers : Coming(b) \/ Given(b) => chain = CR /\ measured
    /\ chain = CP /\ current = "pob" => \A b \in Buffers \ {Headers} : ~Given(b)
    /\ \A b \in Pages :
          /\ Coming(b) => chain = CE
          /\ Coming(b) \/ (current = "error" /\ Given(b)) => ChunkInfo(b) \notin InUse

ChainInv == TypeOK /\ Bookkeeping /\ Shape /\ Running /\ Parsing /\ Answering

-----------------------------------------------------------------------------
(* Sequences. *)

LEMMA ElemsSeq ==
    ASSUME NEW S, NEW q \in Seq(S)
    PROVE  Elems(q) \subseteq S /\ (q = <<>> <=> Elems(q) = {})
  <1>1. \A i \in 1..Len(q) : q[i] \in S
    BY ElementOfSeq
  <1>2. DOMAIN q = 1..Len(q) /\ Len(q) \in Nat
    BY LenProperties
  <1>3. q # <<>> => 1 \in DOMAIN q
    BY <1>2, EmptySeq
  <1>4. q = <<>> => DOMAIN q = {}
    BY <1>2, EmptySeq
  <1>5. QED BY <1>1, <1>2, <1>3, <1>4 DEF Elems

LEMMA SeqOfElems ==
    ASSUME NEW S, NEW S2, NEW q \in Seq(S), Elems(q) \subseteq S2
    PROVE  q \in Seq(S2)
  <1>1. q \in [1..Len(q) -> S] /\ Len(q) \in Nat /\ DOMAIN q = 1..Len(q)
    BY LenProperties
  <1>2. \A i \in 1..Len(q) : q[i] \in S2
    BY <1>1 DEF Elems
  <1>3. QED BY <1>1, <1>2, SeqDef

LEMMA AppendElems ==
    ASSUME NEW S, NEW q \in Seq(S), NEW x \in S
    PROVE  /\ Append(q, x) \in Seq(S) /\ Append(q, x) # <<>>
           /\ Elems(Append(q, x)) = Elems(q) \cup {x}
           /\ DOMAIN Append(q, x) = 1..(Len(q) + 1)
           /\ \A i \in 1..Len(q) : Append(q, x)[i] = q[i]
           /\ Append(q, x)[Len(q) + 1] = x
  <1>1. /\ Append(q, x) \in Seq(S) /\ Len(Append(q, x)) = Len(q) + 1
        /\ \A i \in 1..Len(q) : Append(q, x)[i] = q[i]
        /\ Append(q, x)[Len(q) + 1] = x
    BY AppendProperties
  <1>2. DOMAIN q = 1..Len(q) /\ Len(q) \in Nat /\ DOMAIN Append(q, x) = 1..(Len(q) + 1)
    BY <1>1, LenProperties
  <1>3. Append(q, x) # <<>>
    BY <1>1, <1>2, EmptySeq
  <1>4. QED BY <1>1, <1>2, <1>3 DEF Elems

LEMMA PushElems ==
    ASSUME NEW S, NEW q \in Seq(S), NEW x \in S
    PROVE  /\ <<x>> \o q \in Seq(S) /\ <<x>> \o q # <<>>
           /\ Elems(<<x>> \o q) = Elems(q) \cup {x}
           /\ DOMAIN (<<x>> \o q) = 1..(Len(q) + 1)
           /\ (<<x>> \o q)[1] = x
           /\ \A i \in 1..Len(q) : (<<x>> \o q)[i + 1] = q[i]
           /\ \A i \in 2..(Len(q) + 1) : (<<x>> \o q)[i] = q[i - 1]
  <1>1. <<x>> \in Seq(S) /\ Len(<<x>>) = 1 /\ <<x>>[1] = x
    OBVIOUS
  <1>2. Len(q) \in Nat /\ DOMAIN q = 1..Len(q)
    BY LenProperties
  <1>3. /\ <<x>> \o q \in Seq(S) /\ Len(<<x>> \o q) = 1 + Len(q)
        /\ \A i \in 1..(1 + Len(q)) :
              (<<x>> \o q)[i] = IF i <= 1 THEN <<x>>[i] ELSE q[i - 1]
    BY <1>1, ConcatProperties
  <1>4. DOMAIN (<<x>> \o q) = 1..(Len(q) + 1)
    BY <1>2, <1>3, LenProperties
  <1>5. <<x>> \o q # <<>>
    BY <1>2, <1>3, EmptySeq
  <1>6. (<<x>> \o q)[1] = x /\ \A i \in 2..(Len(q) + 1) : (<<x>> \o q)[i] = q[i - 1]
    BY <1>1, <1>2, <1>3
  <1>7. \A i \in 1..Len(q) : (<<x>> \o q)[i + 1] = q[i]
    BY <1>2, <1>6
  <1>8. Elems(<<x>> \o q) = Elems(q) \cup {x}
    <2>1. ASSUME NEW y \in Elems(<<x>> \o q) PROVE y \in Elems(q) \cup {x}
      <3>1. PICK i \in 1..(Len(q) + 1) : y = (<<x>> \o q)[i]
        BY <1>4, <2>1 DEF Elems
      <3>2. CASE i = 1
        BY <1>6, <3>1, <3>2
      <3>3. CASE i # 1
        <4>1. i - 1 \in DOMAIN q /\ y = q[i - 1]
          BY <1>2, <1>6, <3>1, <3>3
        <4>2. QED BY <4>1 DEF Elems
      <3>4. QED BY <3>2, <3>3
    <2>2. ASSUME NEW y \in Elems(q) \cup {x} PROVE y \in Elems(<<x>> \o q)
      <3>1. CASE y = x
        <4>1. 1 \in DOMAIN (<<x>> \o q)
          BY <1>2, <1>4
        <4>2. QED BY <1>6, <3>1, <4>1 DEF Elems
      <3>2. CASE y # x
        <4>1. PICK i \in 1..Len(q) : y = q[i]
          BY <1>2, <2>2, <3>2 DEF Elems
        <4>2. i + 1 \in DOMAIN (<<x>> \o q) /\ (<<x>> \o q)[i + 1] = y
          BY <1>2, <1>4, <1>7, <4>1
        <4>3. QED BY <4>2 DEF Elems
      <3>3. QED BY <3>1, <3>2
    <2>3. QED BY <2>1, <2>2
  <1>9. QED BY <1>3, <1>4, <1>5, <1>6, <1>7, <1>8

LEMMA TailElems ==
    ASSUME NEW S, NEW q \in Seq(S), q # <<>>
    PROVE  /\ Tail(q) \in Seq(S) /\ Head(q) \in S /\ Head(q) = q[1] /\ Len(Tail(q)) = Len(q) - 1
           /\ 1 \in DOMAIN q /\ DOMAIN q = 1..Len(q) /\ Len(q) \in Nat \ {0}
           /\ DOMAIN Tail(q) = 1..(Len(q) - 1)
           /\ \A i \in DOMAIN Tail(q) : i + 1 \in DOMAIN q /\ Tail(q)[i] = q[i + 1]
           /\ Elems(Tail(q)) \subseteq Elems(q) /\ Elems(q) = Elems(Tail(q)) \cup {Head(q)}
           /\ (Tail(q) = <<>> <=> Len(q) = 1)
  <1>1. /\ Head(q) \in S /\ Tail(q) \in Seq(S) /\ Head(q) = q[1]
        /\ Len(Tail(q)) = Len(q) - 1
        /\ \A i \in 1..Len(Tail(q)) : Tail(q)[i] = q[i + 1]
    BY HeadTailProperties
  <1>2. Len(q) \in Nat /\ DOMAIN q = 1..Len(q) /\ DOMAIN Tail(q) = 1..Len(Tail(q))
    BY <1>1, LenProperties
  <1>3. Len(q) # 0
    BY <1>2, EmptySeq
  <1>4. 1 \in DOMAIN q
    BY <1>2, <1>3
  <1>5. \A i \in DOMAIN Tail(q) : i + 1 \in DOMAIN q /\ Tail(q)[i] = q[i + 1]
    BY <1>1, <1>2
  <1>6. Elems(Tail(q)) \subseteq Elems(q)
    BY <1>5 DEF Elems
  <1>7. Elems(q) \subseteq Elems(Tail(q)) \cup {Head(q)}
    <2>1. ASSUME NEW i \in DOMAIN q, i # 1 PROVE q[i] \in Elems(Tail(q))
      <3>1. i - 1 \in DOMAIN Tail(q) /\ Tail(q)[i - 1] = q[i]
        BY <1>1, <1>2, <2>1
      <3>2. QED BY <3>1 DEF Elems
    <2>2. QED BY <1>1, <2>1 DEF Elems
  <1>8. Head(q) \in Elems(q)
    BY <1>1, <1>4 DEF Elems
  <1>9. Tail(q) = <<>> <=> Len(q) = 1
    BY <1>1, <1>2, EmptySeq
  <1>10. QED BY <1>1, <1>2, <1>3, <1>4, <1>5, <1>6, <1>7, <1>8, <1>9

LEMMA OnceTail ==
    ASSUME NEW S, NEW q \in Seq(S), q # <<>>, NEW X, Once(q, X)
    PROVE  Once(Tail(q), X) /\ (Head(q) \in X => Elems(Tail(q)) \cap X = {})
  <1>1. /\ \A i \in DOMAIN Tail(q) : i + 1 \in DOMAIN q /\ Tail(q)[i] = q[i + 1]
        /\ 1 \in DOMAIN q /\ Head(q) = q[1] /\ DOMAIN Tail(q) = 1..(Len(q) - 1) /\ Len(q) \in Nat
    BY TailElems
  <1>2. Once(Tail(q), X)
    <2> SUFFICES ASSUME NEW i \in DOMAIN Tail(q), NEW j \in DOMAIN Tail(q),
                        Tail(q)[i] \in X, Tail(q)[j] \in X
                 PROVE  i = j
      BY DEF Once
    <2>1. i + 1 = j + 1
      BY <1>1 DEF Once
    <2>2. i \in Int /\ j \in Int
      BY <1>1
    <2>3. QED BY <2>1, <2>2
  <1>3. ASSUME Head(q) \in X, NEW i \in DOMAIN Tail(q), Tail(q)[i] \in X PROVE FALSE
    <2>1. i + 1 = 1
      BY <1>1, <1>3 DEF Once
    <2>2. i >= 1 /\ i \in Int
      BY <1>1
    <2>3. QED BY <2>1, <2>2
  <1>4. QED BY <1>2, <1>3 DEF Elems

LEMMA OnceAppend ==
    ASSUME NEW S, NEW q \in Seq(S), NEW x \in S, NEW X, Once(q, X),
           x \in X => Elems(q) \cap X = {}
    PROVE  Once(Append(q, x), X)
  <1>1. /\ DOMAIN Append(q, x) = 1..(Len(q) + 1)
        /\ \A i \in 1..Len(q) : Append(q, x)[i] = q[i]
        /\ Append(q, x)[Len(q) + 1] = x
    BY AppendElems
  <1>2. Len(q) \in Nat /\ DOMAIN q = 1..Len(q)
    BY LenProperties
  <1>3. \A i \in 1..(Len(q) + 1) : i # Len(q) + 1 => i \in 1..Len(q)
    BY <1>2
  <1>4. \A i \in 1..Len(q) : q[i] \in X => x \notin X
    BY <1>2 DEF Elems
  <1>5. QED BY <1>1, <1>2, <1>3, <1>4 DEF Once

LEMMA OncePush ==
    ASSUME NEW S, NEW q \in Seq(S), NEW x \in S, NEW X, Once(q, X),
           x \in X => Elems(q) \cap X = {}
    PROVE  Once(<<x>> \o q, X)
  <1>1. /\ DOMAIN (<<x>> \o q) = 1..(Len(q) + 1) /\ (<<x>> \o q)[1] = x
        /\ \A i \in 2..(Len(q) + 1) : (<<x>> \o q)[i] = q[i - 1]
    BY PushElems
  <1>2. Len(q) \in Nat /\ DOMAIN q = 1..Len(q)
    BY LenProperties
  <1>3. \A i \in 1..(Len(q) + 1) : i # 1 => i \in 2..(Len(q) + 1) /\ i - 1 \in 1..Len(q)
    BY <1>2
  <1>4. \A i \in 1..Len(q) : q[i] \in X => x \notin X
    BY <1>2 DEF Elems
  <1>5. ASSUME NEW i \in 1..(Len(q) + 1), NEW j \in 1..(Len(q) + 1),
               (<<x>> \o q)[i] \in X, (<<x>> \o q)[j] \in X
        PROVE  i = j
    <2>1. CASE i = 1 \/ j = 1
      BY <1>1, <1>3, <1>4, <1>5, <2>1
    <2>2. CASE i # 1 /\ j # 1
      <3>1. i - 1 = j - 1
        BY <1>1, <1>2, <1>3, <1>5, <2>2 DEF Once
      <3>2. QED BY <3>1, <1>2
    <2>3. QED BY <2>1, <2>2
  <1>6. QED BY <1>1, <1>5 DEF Once

-----------------------------------------------------------------------------
(* The front of the queue. *)

LEMMA AppendFronts ==
    ASSUME NEW q \in Seq(ChainTasks), NEW x \in ChainTasks \ FrontTasks, NEW n \in Nat
    PROVE  /\ FrontsFirst(q) => FrontsFirst(Append(q, x))
           /\ FewFronts(q, n) => FewFronts(Append(q, x), n)
  <1>1. /\ DOMAIN Append(q, x) = 1..(Len(q) + 1)
        /\ \A i \in 1..Len(q) : Append(q, x)[i] = q[i]
        /\ Append(q, x)[Len(q) + 1] = x
    BY AppendElems
  <1>2. Len(q) \in Nat /\ DOMAIN q = 1..Len(q)
    BY LenProperties
  <1>3. \A i \in DOMAIN Append(q, x) :
           Append(q, x)[i] \in FrontTasks => i \in DOMAIN q /\ q[i] \in FrontTasks
    BY <1>1, <1>2
  <1>4. QED BY <1>1, <1>2, <1>3 DEF FrontsFirst, FewFronts

LEMMA PushFronts ==
    ASSUME NEW q \in Seq(ChainTasks), NEW x \in FrontTasks, NEW n \in Nat
    PROVE  /\ FrontsFirst(q) => FrontsFirst(<<x>> \o q)
           /\ FewFronts(q, n) => FewFronts(<<x>> \o q, n + 1)
  <1>0. x \in ChainTasks
    BY DEF ChainTasks
  <1>1. /\ DOMAIN (<<x>> \o q) = 1..(Len(q) + 1) /\ (<<x>> \o q)[1] = x
        /\ \A i \in 2..(Len(q) + 1) : (<<x>> \o q)[i] = q[i - 1]
    BY <1>0, PushElems
  <1>2. Len(q) \in Nat /\ DOMAIN q = 1..Len(q)
    BY LenProperties
  <1>3. \A i \in 1..(Len(q) + 1) : i # 1 => i \in 2..(Len(q) + 1) /\ i - 1 \in DOMAIN q
    BY <1>2
  <1>4. ASSUME FrontsFirst(q), NEW i \in 1..(Len(q) + 1), NEW j \in 1..(Len(q) + 1), i < j,
               (<<x>> \o q)[j] \in FrontTasks
        PROVE  (<<x>> \o q)[i] \in FrontTasks
    <2>1. CASE i = 1
      BY <1>1, <2>1
    <2>2. CASE i # 1
      <3>1. j # 1 /\ i - 1 < j - 1
        BY <1>2, <1>4, <2>2
      <3>2. QED BY <1>1, <1>3, <1>4, <2>2, <3>1 DEF FrontsFirst
    <2>3. QED BY <2>1, <2>2
  <1>5. ASSUME FewFronts(q, n), NEW i \in 1..(Len(q) + 1), (<<x>> \o q)[i] \in FrontTasks
        PROVE  i <= n + 1
    <2>1. CASE i = 1
      BY <2>1
    <2>2. CASE i # 1
      <3>1. i - 1 <= n
        BY <1>1, <1>3, <1>5, <2>2 DEF FewFronts
      <3>2. QED BY <3>1, <1>2
    <2>3. QED BY <2>1, <2>2
  <1>6. QED BY <1>1, <1>4, <1>5 DEF FrontsFirst, FewFronts

LEMMA TailFronts ==
    ASSUME NEW q \in Seq(ChainTasks), q # <<>>, NEW n \in Nat
    PROVE  /\ FrontsFirst(q) => FrontsFirst(Tail(q))
           /\ FewFronts(q, n + 1) => FewFronts(Tail(q), n)
           /\ FrontsFirst(q) /\ Head(q) \notin FrontTasks => FewFronts(Tail(q), 0)
  <1>1. /\ \A i \in DOMAIN Tail(q) : i + 1 \in DOMAIN q /\ Tail(q)[i] = q[i + 1]
        /\ 1 \in DOMAIN q /\ Head(q) = q[1] /\ DOMAIN Tail(q) = 1..(Len(q) - 1) /\ Len(q) \in Nat
    BY TailElems
  <1>2. \A i \in DOMAIN Tail(q) : i \in Int /\ i >= 1
    BY <1>1
  <1>3. FrontsFirst(q) => FrontsFirst(Tail(q))
    BY <1>1, <1>2 DEF FrontsFirst
  <1>4. FewFronts(q, n + 1) => FewFronts(Tail(q), n)
    BY <1>1, <1>2 DEF FewFronts
  <1>5. FrontsFirst(q) /\ Head(q) \notin FrontTasks => FewFronts(Tail(q), 0)
    BY <1>1, <1>2 DEF FewFronts, FrontsFirst
  <1>6. QED BY <1>3, <1>4, <1>5

LEMMA FewerFronts ==
    ASSUME NEW q \in Seq(ChainTasks), NEW n \in Nat, NEW m \in Nat, n <= m, FewFronts(q, n)
    PROVE  FewFronts(q, m)
  <1>1. DOMAIN q = 1..Len(q) /\ Len(q) \in Nat
    BY LenProperties
  <1>2. QED BY <1>1 DEF FewFronts

-----------------------------------------------------------------------------
(* Values. *)

LEMMA BufferSets ==
    /\ Written \subseteq Buffers /\ HeaderPieces \subseteq Buffers /\ RequestBody \in Buffers
    /\ Headers \in Buffers /\ Headers \in Written /\ Final \in Written
    /\ Pages \subseteq Written /\ DataBuffers \subseteq Written /\ Infos \subseteq Written
    /\ HeaderPieces \cap Written = {} /\ RequestBody \notin Written \cup HeaderPieces
    /\ Pages \cap DataBuffers = {} /\ Headers \notin Pages \cup DataBuffers \cup Infos \cup {Final}
    /\ Final \notin Pages \cup DataBuffers \cup Infos
    /\ Infos \cap (Pages \cup DataBuffers) = {}
    /\ Orphan \in Buffers /\ Orphan \notin Written
    /\ NoBuffer \notin Buffers
  <1>1. NoBuffer \notin Buffers
    BY NullAssumption
  <1>2. QED
    BY <1>1 DEF Buffers, Written, HeaderPieces, Pages, DataBuffers, Infos, RequestBody, Headers, Final,
           Orphan, Padding, Page, Piece, Data

LEMMA TaskSets ==
    /\ ChainTasks \subseteq T!Task /\ FrontTasks \subseteq ChainTasks /\ DataTasks \subseteq FrontTasks
    /\ WriteTasks \subseteq FrontTasks /\ IdleTasks \subseteq ChainTasks /\ EndTasks \subseteq ChainTasks
    /\ ReadTasks \subseteq ChainTasks /\ CanRead \in ReadTasks
    /\ FrontTasks \cap (IdleTasks \cup EndTasks \cup {CanRead}) = {}
    /\ IdleTasks \cap (EndTasks \cup ReadTasks) = {} /\ EndTasks \cap ReadTasks = {}
    /\ WriteTasks \cap DataTasks = {} /\ WriteTasks \cap ReadTasks = {}
    /\ ResponseTasks \cap (WriteTasks \cup IdleTasks \cup EndTasks \cup ReadTasks) = {}
    /\ \A t \in FrontTasks : t.buffer \in Buffers
    /\ \A t \in WriteTasks : t.buffer \in Written
    /\ \A t \in ChainTasks \ FrontTasks : t.buffer = NoBuffer
    /\ \A t \in ChainTasks : t.buffer \in Buffers => t \in FrontTasks
    /\ NoTask \notin ChainTasks
  <1>1. ChainTasks \subseteq T!Task
    BY BufferSets DEF ChainTasks, FrontTasks, DataTasks, WriteTasks, PieceTasks, BodyTasks, HeadersTasks,
       ResponseTasks, IdleTasks, EndTasks, CanRead, Tasks, T!Task, T!ModuleTask, T!Events, T!DataEvents,
       Modules, Processing
  <1>2. NoTask \notin ChainTasks
    BY <1>1, NullAssumption
  <1>3. \A t \in FrontTasks : t.buffer \in Buffers
    BY BufferSets DEF FrontTasks, DataTasks, WriteTasks, PieceTasks, BodyTasks, HeadersTasks,
       ResponseTasks, Tasks
  <1>4. \A t \in ChainTasks \ FrontTasks : t.buffer = NoBuffer
    BY DEF ChainTasks, IdleTasks, EndTasks, CanRead, Tasks, T!ModuleTask
  <1>5. \A t \in ChainTasks : t.buffer \in Buffers => t \in FrontTasks
    BY <1>4, BufferSets
  <1>6. \A t \in WriteTasks : t.buffer \in Written
    BY DEF WriteTasks, Tasks
  <1>7. /\ FrontTasks \subseteq ChainTasks /\ DataTasks \subseteq FrontTasks
        /\ WriteTasks \subseteq FrontTasks /\ IdleTasks \subseteq ChainTasks /\ EndTasks \subseteq ChainTasks
        /\ ReadTasks \subseteq ChainTasks /\ CanRead \in ReadTasks
    BY DEF ChainTasks, FrontTasks, DataTasks, ReadTasks
  <1>8. /\ FrontTasks \cap (IdleTasks \cup EndTasks \cup {CanRead}) = {}
        /\ IdleTasks \cap (EndTasks \cup ReadTasks) = {} /\ EndTasks \cap ReadTasks = {}
        /\ WriteTasks \cap DataTasks = {} /\ WriteTasks \cap ReadTasks = {}
        /\ ResponseTasks \cap (WriteTasks \cup IdleTasks \cup EndTasks \cup ReadTasks) = {}
    BY DEF ChainTasks, FrontTasks, DataTasks, WriteTasks, PieceTasks, BodyTasks, HeadersTasks,
       ResponseTasks, IdleTasks, EndTasks, CanRead, Tasks, T!ModuleTask, ReadTasks
  <1>9. QED BY <1>1, <1>2, <1>3, <1>4, <1>5, <1>6, <1>7, <1>8

\* The assumptions of RequestTasks hold of the instance.
LEMMA TaskHypotheses ==
    /\ "in" \in Modules /\ "out" \in Modules /\ NoBuffer \notin Buffers
    /\ WriteLimit \in Nat \ {0} /\ TaskBound \in Nat /\ NoTask \notin TP!Task
  <1>1. TP!Task = T!Task
    BY DEF TP!Task, T!Task, TP!Events, T!Events, TP!DataEvents, T!DataEvents
  <1>2. QED BY <1>1, NullAssumption, RequestChainAssumption DEF Modules, TaskBound

-----------------------------------------------------------------------------
(* The methods of RequestTasks: each keeps the record consistent, by the     *)
(* lemmas of RequestTasksProofs, and does to the queue what follows.         *)

LEMMA SameMethods ==
    ASSUME NEW s, NEW t, NEW m, NEW b, NEW d, NEW e
    PROVE  /\ T!addTask(s, t) = TP!addTask(s, t) /\ T!addEndTask(s, m) = TP!addEndTask(s, m)
           /\ T!addCallLaterTask(s, m, d) = TP!addCallLaterTask(s, m, d)
           /\ T!needRead(s) = TP!needRead(s) /\ T!needWrite(s, b) = TP!needWrite(s, b)
           /\ T!notifyHasError(s) = TP!notifyHasError(s) /\ T!reset(s) = TP!reset(s)
           /\ T!getNextTask(s) = TP!getNextTask(s)
           /\ T!handleSocketEvent(s, e) = TP!handleSocketEvent(s, e)
           /\ T!State = TP!State /\ T!Wanted(s) = TP!Wanted(s) /\ T!Task = TP!Task
           /\ T!NewTasks = TP!NewTasks
  <1> USE DEF TP!Register, T!Register, TP!Unregister, T!Unregister, TP!Wanted, T!Wanted,
              TP!ModuleTask, T!ModuleTask, T!DataEvents, TP!DataEvents
  <1>1. T!addTask(s, t) = TP!addTask(s, t) /\ T!addEndTask(s, m) = TP!addEndTask(s, m)
    BY DEF TP!addTask, T!addTask, T!addEndTask, TP!addEndTask
  <1>2. T!addCallLaterTask(s, m, d) = TP!addCallLaterTask(s, m, d)
    BY DEF T!addCallLaterTask, TP!addCallLaterTask
  <1>3. T!needRead(s) = TP!needRead(s) /\ T!needWrite(s, b) = TP!needWrite(s, b)
    BY DEF T!needRead, TP!needRead, T!needWrite, TP!needWrite
  <1>4. /\ T!notifyHasError(s) = TP!notifyHasError(s) /\ T!reset(s) = TP!reset(s)
        /\ T!getNextTask(s) = TP!getNextTask(s)
    BY DEF T!notifyHasError, TP!notifyHasError, T!reset, TP!reset, T!getNextTask, TP!getNextTask
  <1>5. T!handleSocketEvent(s, e) = TP!handleSocketEvent(s, e)
    BY DEF T!handleSocketEvent, TP!handleSocketEvent
  <1>6. T!State = TP!State /\ T!Wanted(s) = TP!Wanted(s) /\ T!Task = TP!Task /\ T!NewTasks = TP!NewTasks
    BY DEF T!State, TP!State, T!Task, TP!Task, T!Events, TP!Events, T!NewTasks, TP!NewTasks
  <1>7. QED BY <1>1, <1>2, <1>3, <1>4, <1>5, <1>6

LEMMA SameParts ==
    ASSUME NEW s, NEW d
    PROVE  /\ T!DispatchRead(s) = TP!DispatchRead(s) /\ T!DispatchWrite(s) = TP!DispatchWrite(s)
           /\ T!DispatchCallLater(s, d) = TP!DispatchCallLater(s, d)
           /\ T!DispatchEnd(s) = TP!DispatchEnd(s)
           /\ T!Silent(s) = TP!Silent(s) /\ T!TimeOut(s) = TP!TimeOut(s)
  <1>1. T!DispatchRead(s) = TP!DispatchRead(s)
    BY DEF T!DispatchRead, TP!DispatchRead, T!addTask, TP!addTask, T!ModuleTask, TP!ModuleTask,
           T!DataEvents, TP!DataEvents
  <1>2. T!DispatchWrite(s) = TP!DispatchWrite(s)
    BY SameMethods DEF T!DispatchWrite, TP!DispatchWrite, T!Register, TP!Register, T!WriteReady,
       TP!WriteReady, T!ModuleTask, TP!ModuleTask
  <1>3. T!DispatchCallLater(s, d) = TP!DispatchCallLater(s, d)
    BY DEF T!DispatchCallLater, TP!DispatchCallLater
  <1>4. T!DispatchEnd(s) = TP!DispatchEnd(s)
    BY DEF T!DispatchEnd, TP!DispatchEnd
  <1>5. T!Silent(s) = TP!Silent(s) /\ T!TimeOut(s) = TP!TimeOut(s)
    BY DEF T!Silent, TP!Silent, T!TimeOut, TP!TimeOut, T!Unregister, TP!Unregister, T!Wanted, TP!Wanted
  <1>6. QED BY <1>1, <1>2, <1>3, <1>4, <1>5

LEMMA SameHasWork ==
    ASSUME NEW s, NEW e, NEW d
    PROVE  T!hasWork(s, e, d) = TP!hasWork(s, e, d)
  BY SameParts DEF T!hasWork, TP!hasWork

LEMMA ConsistentType ==
    ASSUME NEW s, TP!Consistent(s)
    PROVE  s \in T!State /\ (s.registered <=> T!Wanted(s)) /\ (s.wait_write => s.write_buffers # <<>>)
  BY SameMethods DEF TP!Consistent

LEMMA KeepConsistent ==
    ASSUME NEW s, TP!Consistent(s)
    PROVE  /\ \A t \in T!Task : TP!Consistent(T!addTask(s, t))
           /\ \A m \in Modules : TP!Consistent(T!addEndTask(s, m))
           /\ \A m \in Modules, d \in BOOLEAN : TP!Consistent(T!addCallLaterTask(s, m, d))
           /\ TP!Consistent(T!needRead(s)) /\ TP!Consistent(T!reset(s))
           /\ \A b \in Buffers : TP!Consistent(T!needWrite(s, b))
           /\ TP!Consistent(T!notifyHasError(s))
           /\ s.tasks # <<>> => TP!Consistent(T!getNextTask(s))
           /\ \A e \in T!SocketEvents : TP!Consistent(T!handleSocketEvent(s, e))
           /\ \A e, d \in BOOLEAN : TP!Consistent(T!hasWork(s, e, d))
  <1>1. \A t \in T!Task : TP!Consistent(T!addTask(s, t))
    BY SameMethods, TaskHypotheses, TP!AddTaskConsistent
  <1>2. \A m \in Modules : TP!Consistent(T!addEndTask(s, m))
    BY SameMethods, TaskHypotheses, TP!AddEndTaskConsistent
  <1>3. \A m \in Modules, d \in BOOLEAN : TP!Consistent(T!addCallLaterTask(s, m, d))
    <2>1. \A m \in Modules, d \in BOOLEAN : TP!Consistent(TP!addCallLaterTask(s, m, d))
      BY TaskHypotheses, TP!AddCallLaterConsistent
    <2>2. QED BY <2>1, SameMethods
  <1>4. TP!Consistent(T!needRead(s)) /\ TP!Consistent(T!reset(s)) /\ TP!Consistent(T!notifyHasError(s))
    <2>1. TP!Consistent(TP!needRead(s)) /\ TP!Consistent(TP!reset(s)) /\ TP!Consistent(TP!notifyHasError(s))
      BY TaskHypotheses, TP!NeedReadConsistent, TP!ResetConsistent, TP!NotifyHasErrorConsistent
    <2>2. QED BY <2>1, SameMethods
  <1>5. \A b \in Buffers : TP!Consistent(T!needWrite(s, b))
    BY SameMethods, TaskHypotheses, TP!NeedWriteConsistent
  <1>6. s.tasks # <<>> => TP!Consistent(T!getNextTask(s))
    BY SameMethods, TaskHypotheses, TP!GetNextTaskConsistent
  <1>7. \A e \in T!SocketEvents : TP!Consistent(T!handleSocketEvent(s, e))
    <2>1. T!SocketEvents = TP!SocketEvents
      BY DEF T!SocketEvents, TP!SocketEvents
    <2>2. \A e \in TP!SocketEvents : TP!Consistent(TP!handleSocketEvent(s, e))
      BY TaskHypotheses, TP!HandleSocketEventConsistent
    <2>3. QED BY <2>1, <2>2, SameMethods
  <1>8. \A e, d \in BOOLEAN : TP!Consistent(T!hasWork(s, e, d))
    <2>1. \A e, d \in BOOLEAN : TP!Consistent(TP!hasWork(s, e, d))
      BY TaskHypotheses, TP!HasWorkConsistent
    <2>2. QED BY <2>1, SameHasWork
  <1>9. QED BY <1>1, <1>2, <1>3, <1>4, <1>5, <1>6, <1>7, <1>8

\* What a method leaves alone.
SameWaits(s, r) ==
    r.wait_read = s.wait_read /\ r.has_error = s.has_error /\ (s.registered => r.registered)
SameQueue(s, r) ==
    /\ r.tasks = s.tasks /\ r.write_buffers = s.write_buffers
    /\ r.call_later_task = s.call_later_task /\ r.end_task = s.end_task
SamePlans(s, r) ==
    /\ r.write_buffers = s.write_buffers
    /\ r.call_later_task = s.call_later_task /\ r.end_task = s.end_task

LEMMA PushEffect ==
    ASSUME NEW s \in T!State, NEW t \in FrontTasks
    PROVE  LET r == T!addTask(s, t)
           IN  r.tasks = <<t>> \o s.tasks /\ SameWaits(s, r) /\ SamePlans(s, r)
  <1>1. t.event \in T!DataEvents \cup {"ON_CAN_WRITE"}
    BY DEF FrontTasks, DataTasks, WriteTasks, PieceTasks, BodyTasks, HeadersTasks, ResponseTasks,
           Tasks, T!DataEvents
  <1>2. QED BY <1>1 DEF T!addTask, T!State, SameWaits, SamePlans

LEMMA EndTaskEffect ==
    ASSUME NEW s \in T!State, NEW m \in Modules
    PROVE  LET r == T!addEndTask(s, m)
           IN  /\ r.end_task = T!ModuleTask("ON_END", m, NoBuffer)
               /\ r.tasks = s.tasks /\ r.write_buffers = s.write_buffers
               /\ r.call_later_task = s.call_later_task /\ SameWaits(s, r)
  BY DEF T!addEndTask, T!State, SameWaits

LEMMA CallLaterEffect ==
    ASSUME NEW s \in T!State, NEW d \in BOOLEAN, s.call_later_task = NoTask
    PROVE  LET r == T!addCallLaterTask(s, "reader", d)
               t == T!ModuleTask("ON_IDLE", "reader", NoBuffer)
           IN  /\ r.write_buffers = s.write_buffers /\ r.end_task = s.end_task /\ SameWaits(s, r)
               /\ \/ r.tasks = s.tasks /\ r.call_later_task = t
                  \/ r.tasks = Append(s.tasks, t) /\ r.call_later_task = NoTask
  BY DEF T!addCallLaterTask, T!State, SameWaits

LEMMA NeedReadEffect ==
    ASSUME NEW s, TP!Consistent(s)
    PROVE  LET r == T!needRead(s)
           IN  /\ SameQueue(s, r) /\ r.wait_read = TRUE /\ r.has_error = s.has_error
               /\ s.registered => r.registered
  <1>1. s \in T!State
    BY ConsistentType
  <1>2. CASE s.wait_read
    BY <1>1, <1>2 DEF T!needRead, SameQueue, T!State
  <1>3. CASE ~s.wait_read
    BY <1>1, <1>3 DEF T!needRead, T!Register, SameQueue, T!State
  <1>4. QED BY <1>2, <1>3

LEMMA NeedWriteEffect ==
    ASSUME NEW s \in T!State, NEW b \in Buffers
    PROVE  LET r == T!needWrite(s, b)
           IN  /\ r.write_buffers = Append(s.write_buffers, b) /\ r.tasks = s.tasks
               /\ r.call_later_task = s.call_later_task /\ r.end_task = s.end_task
               /\ SameWaits(s, r)
  <1> DEFINE q == Append(s.write_buffers, b)
             pushed == [s EXCEPT !.write_buffers = q]
             waiting == [pushed EXCEPT !.wait_write = TRUE]
  <1>1. T!needWrite(s, b) \in {pushed, waiting, [waiting EXCEPT !.registered = TRUE]}
    BY DEF T!needWrite, T!Register
  <1> HIDE DEF q
  <1>2. QED BY <1>1 DEF T!State, SameWaits, q

LEMMA ErrorEffect ==
    ASSUME NEW s \in T!State
    PROVE  LET r == T!notifyHasError(s)
           IN  SameQueue(s, r) /\ r.wait_read = s.wait_read /\ r.has_error = TRUE
  BY DEF T!notifyHasError, T!Unregister, T!State, SameQueue

LEMMA ResetEffect ==
    ASSUME NEW s \in T!State
    PROVE  LET r == T!reset(s)
           IN  /\ r.tasks = <<>> /\ r.call_later_task = NoTask /\ r.end_task = NoTask
               /\ r.write_buffers = s.write_buffers /\ r.wait_read = FALSE
               /\ r.has_error = s.has_error
  BY DEF T!reset, T!Unregister, T!State

LEMMA TakeEffect ==
    ASSUME NEW s \in T!State
    PROVE  LET r == T!getNextTask(s)
           IN  r.tasks = Tail(s.tasks) /\ SameWaits(s, r) /\ SamePlans(s, r)
  BY DEF T!getNextTask, T!State, SameWaits, SamePlans

LEMMA SocketEffect ==
    ASSUME NEW s \in T!State, NEW e \in T!SocketEvents
    PROVE  LET r == T!handleSocketEvent(s, e)
           IN  SameQueue(s, r) /\ r.wait_read = s.wait_read /\ (s.has_error => r.has_error)
  BY DEF T!handleSocketEvent, T!Unregister, T!State, SameQueue, T!SocketEvents

-----------------------------------------------------------------------------
(* The queue: a task put in front, a task put behind, the first task taken. *)

LEMMA BufferElems ==
    ASSUME NEW r
    PROVE  /\ TaskBuffers(r) = {t.buffer : t \in Elems(r.tasks)} \ {NoBuffer}
           /\ WriteBuffers(r) = Elems(r.write_buffers)
  BY DEF TaskBuffers, WriteBuffers, Elems

LEMMA MoreTaskBuffers ==
    ASSUME NEW r, NEW s, NEW t, Elems(s.tasks) = Elems(r.tasks) \cup {t}
    PROVE  TaskBuffers(s) = TaskBuffers(r) \cup ({t.buffer} \ {NoBuffer})
  <1> DEFINE A == Elems(r.tasks)
  <1>1. TaskBuffers(s) = {u.buffer : u \in A \cup {t}} \ {NoBuffer}
    BY BufferElems
  <1>2. TaskBuffers(r) = {u.buffer : u \in A} \ {NoBuffer}
    BY BufferElems
  <1> HIDE DEF A
  <1>3. QED BY <1>1, <1>2

LEMMA QueuedBuffers ==
    ASSUME NEW r, r.tasks \in Seq(ChainTasks), NEW t \in ChainTasks, NEW s,
           s.tasks = <<t>> \o r.tasks \/ s.tasks = Append(r.tasks, t)
    PROVE  TaskBuffers(s) = TaskBuffers(r) \cup ({t.buffer} \ {NoBuffer})
  <1>1. Elems(s.tasks) = Elems(r.tasks) \cup {t}
    <2>1. CASE s.tasks = <<t>> \o r.tasks
      BY <2>1, PushElems
    <2>2. CASE s.tasks = Append(r.tasks, t)
      BY <2>2, AppendElems
    <2>3. QED BY <2>1, <2>2
  <1>2. QED BY <1>1, MoreTaskBuffers, Zenon

LEMMA WithElems ==
    ASSUME NEW r, r.tasks \in Seq(ChainTasks), NEW b \in Buffers
    PROVE  b \in TaskBuffers(r) <=> Elems(r.tasks) \cap With(b) # {}
  <1>1. Elems(r.tasks) \subseteq ChainTasks
    BY ElemsSeq
  <1>2. QED BY <1>1, BufferElems, BufferSets DEF With

\* From r to s task t is put at the front, perhaps with a buffer that waited.
Pushed(r, s, t) ==
    /\ QueueInv(r) /\ t \in FrontTasks
    /\ s.tasks = <<t>> \o r.tasks /\ s.write_buffers \in Seq(Written)
    /\ \A b \in Buffers : Once(s.write_buffers, {b})
    /\ WriteBuffers(s) \subseteq WriteBuffers(r)
    /\ t.buffer \notin TaskBuffers(r) \cup WriteBuffers(s)
    /\ s.call_later_task = r.call_later_task /\ s.end_task = r.end_task
    /\ s.wait_read = r.wait_read /\ (t \in ReadTasks => ~Reads(r))

LEMMA PushTask ==
    ASSUME NEW r, NEW s, NEW t, Pushed(r, s, t)
    PROVE  /\ QueueInv(s) /\ Elems(s.tasks) = Elems(r.tasks) \cup {t} /\ s.tasks # <<>>
           /\ Handed(s) \subseteq Handed(r) \cup {t.buffer}
           /\ Planned(s) = Planned(r) \cup {t}
           /\ Reads(s) => Reads(r) \/ t \in ReadTasks
           /\ Idles(s) => Idles(r)
           /\ s.tasks[1] = t /\ \A i \in 2..(Len(r.tasks) + 1) : s.tasks[i] = r.tasks[i - 1]
           /\ DOMAIN s.tasks = 1..(Len(r.tasks) + 1)
  <1> USE DEF Pushed
  <1>1. r.tasks \in Seq(ChainTasks) /\ t \in ChainTasks /\ t.buffer \in Buffers
    BY TaskSets DEF QueueInv, QueueType
  <1>2. /\ s.tasks \in Seq(ChainTasks) /\ s.tasks # <<>>
        /\ Elems(s.tasks) = Elems(r.tasks) \cup {t}
        /\ s.tasks[1] = t /\ \A i \in 2..(Len(r.tasks) + 1) : s.tasks[i] = r.tasks[i - 1]
        /\ DOMAIN s.tasks = 1..(Len(r.tasks) + 1)
    BY <1>1, PushElems
  <1>3. TaskBuffers(s) = TaskBuffers(r) \cup {t.buffer}
    <2>1. TaskBuffers(s) = TaskBuffers(r) \cup ({t.buffer} \ {NoBuffer})
      BY <1>1, QueuedBuffers
    <2>2. t.buffer # NoBuffer
      BY <1>1, BufferSets
    <2>3. QED BY <2>1, <2>2
  <1>4. Unshared(s)
    <2> SUFFICES ASSUME NEW b \in Buffers
                 PROVE  /\ Once(s.tasks, With(b)) /\ Once(s.write_buffers, {b})
                        /\ b \in TaskBuffers(s) => b \notin WriteBuffers(s)
      BY DEF Unshared
    <2>1. Once(r.tasks, With(b)) /\ (b \in TaskBuffers(r) => b \notin WriteBuffers(r))
      BY DEF QueueInv, Unshared
    <2>2. t \in With(b) => Elems(r.tasks) \cap With(b) = {}
      BY <1>1, WithElems DEF With
    <2>3. Once(s.tasks, With(b))
      BY <1>1, <2>1, <2>2, OncePush
    <2>4. QED BY <1>3, <2>1, <2>3
  <1>5. OneRead(s)
    <2>1. t \in ReadTasks => Elems(r.tasks) \cap ReadTasks = {} /\ ~r.wait_read
      BY DEF Reads
    <2>2. Once(s.tasks, ReadTasks)
      BY <1>1, <2>1, OncePush DEF QueueInv, OneRead
    <2>3. QED BY <1>2, <2>1, <2>2 DEF QueueInv, OneRead
  <1>6. OneIdle(s)
    <2>1. t \notin IdleTasks
      BY TaskSets
    <2>2. Once(s.tasks, IdleTasks)
      BY <1>1, <2>1, OncePush DEF QueueInv, OneIdle
    <2>3. QED BY <1>2, <2>1, <2>2 DEF QueueInv, OneIdle
  <1>7. FrontsFirst(s.tasks)
    BY <1>1, PushFronts DEF QueueInv
  <1>8. QueueType(s)
    BY <1>2 DEF QueueInv, QueueType
  <1>9. QueueInv(s)
    BY <1>4, <1>5, <1>6, <1>7, <1>8 DEF QueueInv
  <1>10. Planned(s) = Planned(r) \cup {t}
    BY <1>1, <1>2, TaskSets DEF Planned
  <1>11. Reads(s) => Reads(r) \/ t \in ReadTasks
    BY <1>2 DEF Reads
  <1>12. Idles(s) => Idles(r)
    BY <1>2, TaskSets DEF Idles
  <1>13. Handed(s) \subseteq Handed(r) \cup {t.buffer}
    BY <1>3 DEF Handed
  <1>14. QED BY <1>2, <1>9, <1>10, <1>11, <1>12, <1>13

LEMMA AppendTask ==
    ASSUME NEW r, QueueInv(r), NEW t \in {CanRead} \cup IdleTasks, NEW s,
           s.tasks = Append(r.tasks, t), s.write_buffers = r.write_buffers,
           s.end_task = r.end_task,
           t = CanRead => ~s.wait_read /\ Elems(r.tasks) \cap ReadTasks = {},
           t # CanRead => s.wait_read = r.wait_read,
           t \in IdleTasks => s.call_later_task = NoTask /\ Elems(r.tasks) \cap IdleTasks = {},
           t \notin IdleTasks => s.call_later_task = r.call_later_task
    PROVE  /\ QueueInv(s) /\ Elems(s.tasks) = Elems(r.tasks) \cup {t} /\ s.tasks # <<>>
           /\ Handed(s) = Handed(r) /\ Planned(s) \subseteq Planned(r) \cup {t}
           /\ Reads(s) => Reads(r) \/ t = CanRead
           /\ Idles(s) => Idles(r) \/ t \in IdleTasks
           /\ \A n \in Nat : FewFronts(r.tasks, n) => FewFronts(s.tasks, n)
           /\ Filled(r) => Filled(s)
  <1>1. /\ r.tasks \in Seq(ChainTasks) /\ t \in ChainTasks \ FrontTasks /\ t.buffer = NoBuffer
        /\ t \notin EndTasks /\ (t = CanRead <=> t \in ReadTasks) /\ (t = CanRead => t \notin IdleTasks)
    BY TaskSets DEF QueueInv, QueueType
  <1>2. /\ s.tasks \in Seq(ChainTasks) /\ s.tasks # <<>>
        /\ Elems(s.tasks) = Elems(r.tasks) \cup {t}
        /\ DOMAIN s.tasks = 1..(Len(r.tasks) + 1)
        /\ \A i \in 1..Len(r.tasks) : s.tasks[i] = r.tasks[i]
        /\ s.tasks[Len(r.tasks) + 1] = t
    BY <1>1, AppendElems
  <1>3. TaskBuffers(s) = TaskBuffers(r) /\ WriteBuffers(s) = WriteBuffers(r)
    <2>1. TaskBuffers(s) = TaskBuffers(r) \cup ({t.buffer} \ {NoBuffer})
      BY <1>1, QueuedBuffers
    <2>2. QED BY <1>1, <2>1, BufferElems
  <1>4. Unshared(s)
    <2> SUFFICES ASSUME NEW b \in Buffers PROVE Once(s.tasks, With(b))
      BY <1>3 DEF Unshared, QueueInv
    <2>1. Once(r.tasks, With(b)) /\ t \notin With(b)
      BY <1>1, BufferSets DEF QueueInv, Unshared, With
    <2>2. QED BY <1>1, <2>1, OnceAppend
  <1>5. OneRead(s)
    <2>1. Once(s.tasks, ReadTasks)
      BY <1>1, OnceAppend DEF QueueInv, OneRead
    <2>2. QED BY <1>1, <1>2, <2>1 DEF QueueInv, OneRead
  <1>6. OneIdle(s)
    <2>1. Once(s.tasks, IdleTasks)
      BY <1>1, OnceAppend DEF QueueInv, OneIdle
    <2>2. QED BY <1>1, <1>2, <2>1 DEF QueueInv, OneIdle
  <1>7. FrontsFirst(s.tasks)
    BY <1>1, AppendFronts DEF QueueInv
  <1>8. QueueType(s)
    BY <1>2 DEF QueueInv, QueueType
  <1>9. QueueInv(s)
    BY <1>4, <1>5, <1>6, <1>7, <1>8 DEF QueueInv
  <1>10. Planned(s) \subseteq Planned(r) \cup {t}
    BY <1>2 DEF Planned
  <1>11. Reads(s) => Reads(r) \/ t = CanRead
    BY <1>1, <1>2 DEF Reads
  <1>12. Idles(s) => Idles(r) \/ t \in IdleTasks
    BY <1>2 DEF Idles
  <1>13. \A n \in Nat : FewFronts(r.tasks, n) => FewFronts(s.tasks, n)
    BY <1>1, AppendFronts
  <1>14. ASSUME Filled(r) PROVE Filled(s)
    <2>1. Len(r.tasks) \in Nat /\ DOMAIN r.tasks = 1..Len(r.tasks)
      BY <1>1, LenProperties
    <2>2. t \notin WriteTasks
      BY <1>1, TaskSets
    <2>3. \A i \in DOMAIN s.tasks : s.tasks[i] \in WriteTasks => i = 1
      BY <1>2, <1>14, <2>1, <2>2 DEF Filled
    <2>4. FewFronts(s.tasks, 3)
      BY <1>13, <1>14 DEF Filled
    <2>5. ASSUME s.tasks[1] \notin WriteTasks PROVE FewFronts(s.tasks, 2)
      <3>1. r.tasks # <<>> => r.tasks[1] \notin WriteTasks
        <4>1. r.tasks # <<>> => 1 \in 1..Len(r.tasks)
          BY <1>1, <2>1, EmptySeq
        <4>2. QED BY <1>2, <2>5, <4>1
      <3>2. QED BY <1>13, <1>14, <3>1 DEF Filled
    <2>6. QED BY <1>2, <2>3, <2>4, <2>5 DEF Filled
  <1>15. QED BY <1>2, <1>3, <1>9, <1>10, <1>11, <1>12, <1>13, <1>14 DEF Handed

LEMMA TakeTask ==
    ASSUME NEW r, QueueInv(r), Ready(r), NEW s,
           s.tasks = Tail(r.tasks), SamePlans(r, s), s.wait_read = r.wait_read
    PROVE  /\ QueueInv(s) /\ Still(s) /\ Head(r.tasks) \in Elems(r.tasks)
           /\ Elems(s.tasks) \subseteq Elems(r.tasks)
           /\ Handed(s) \subseteq Handed(r) /\ Head(r.tasks).buffer \notin Handed(s)
           /\ Planned(s) \subseteq Planned(r)
           /\ Reads(s) => Reads(r)
           /\ Idles(s) => Idles(r)
           /\ Head(r.tasks) \in ReadTasks => ~Reads(s)
           /\ Head(r.tasks) \in IdleTasks => ~Idles(s)
           /\ Head(r.tasks) \in FrontTasks \ WriteTasks => FewFronts(s.tasks, 1)
           /\ Head(r.tasks) \notin FrontTasks => FewFronts(s.tasks, 0)
           /\ Head(r.tasks) \in EndTasks => s.tasks = <<>> /\ s.write_buffers = <<>>
  <1> DEFINE h == Head(r.tasks)
  <1>1. r.tasks \in Seq(ChainTasks) /\ r.tasks # <<>> /\ Filled(r)
    BY DEF QueueInv, QueueType, Ready
  <1>2. /\ s.tasks \in Seq(ChainTasks) /\ h \in ChainTasks /\ h = r.tasks[1] /\ 1 \in DOMAIN r.tasks
        /\ \A i \in DOMAIN s.tasks : i + 1 \in DOMAIN r.tasks /\ s.tasks[i] = r.tasks[i + 1]
        /\ DOMAIN s.tasks = 1..(Len(r.tasks) - 1) /\ Len(r.tasks) \in Nat \ {0}
        /\ Elems(s.tasks) \subseteq Elems(r.tasks) /\ Elems(r.tasks) = Elems(s.tasks) \cup {h}
        /\ (s.tasks = <<>> <=> Len(r.tasks) = 1)
    BY <1>1, TailElems
  <1>3. \A X : Once(r.tasks, X) => Once(s.tasks, X) /\ (h \in X => Elems(s.tasks) \cap X = {})
    BY <1>1, OnceTail
  <1>4. TaskBuffers(s) \subseteq TaskBuffers(r) /\ WriteBuffers(s) = WriteBuffers(r)
    BY <1>2, BufferElems DEF SamePlans
  <1>5. h.buffer \notin Handed(s)
    <2>1. CASE h.buffer \notin Buffers
      <3>1. Handed(s) \subseteq Buffers
        <4>1. Elems(s.tasks) \subseteq ChainTasks /\ Elems(r.write_buffers) \subseteq Written
          BY <1>2, ElemsSeq DEF QueueInv, QueueType
        <4>2. \A t \in ChainTasks : t.buffer \in Buffers \cup {NoBuffer}
          BY TaskSets
        <4>3. QED BY <1>4, <4>1, <4>2, BufferElems, BufferSets DEF Handed
      <3>2. QED BY <2>1, <3>1
    <2>2. CASE h.buffer \in Buffers
      <3>1. h \in With(h.buffer) /\ h.buffer \in TaskBuffers(r)
        BY <1>2, <2>2, BufferElems, BufferSets DEF With
      <3>2. h.buffer \notin TaskBuffers(s)
        BY <1>2, <1>3, <2>2, <3>1, WithElems DEF QueueInv, Unshared
      <3>3. QED BY <1>4, <2>2, <3>1, <3>2 DEF QueueInv, Unshared, Handed
    <2>3. QED BY <2>1, <2>2
  <1>6. QueueInv(s)
    <2>1. Unshared(s)
      BY <1>3, <1>4 DEF Unshared, QueueInv, SamePlans
    <2>2. OneRead(s) /\ OneIdle(s)
      BY <1>2, <1>3 DEF QueueInv, OneRead, OneIdle, SamePlans
    <2>3. FrontsFirst(s.tasks)
      BY <1>1, TailFronts DEF QueueInv
    <2>4. QueueType(s)
      BY <1>2 DEF QueueInv, QueueType, SamePlans
    <2>5. QED BY <2>1, <2>2, <2>3, <2>4 DEF QueueInv
  <1>7. h \in EndTasks => s.tasks = <<>> /\ s.write_buffers = <<>>
    BY <1>2 DEF Ready, SamePlans
  <1>8. Still(s)
    <2>1. Elems(s.tasks) \cap EndTasks = {}
      <3>1. CASE Elems(r.tasks) \cap EndTasks = {}
        BY <1>2, <3>1
      <3>2. CASE Elems(r.tasks) \cap EndTasks # {}
        <4>1. Len(r.tasks) = 1
          BY <3>2 DEF Ready
        <4>2. QED BY <1>2, <4>1, ElemsSeq
      <3>3. QED BY <3>1, <3>2
    <2>2. Elems(s.tasks) \cap WriteTasks = {}
      <3>1. ASSUME NEW i \in DOMAIN s.tasks, s.tasks[i] \in WriteTasks PROVE FALSE
        <4>1. i + 1 = 1
          BY <1>1, <1>2, <3>1 DEF Filled
        <4>2. i >= 1 /\ i \in Int
          BY <1>2
        <4>3. QED BY <4>1, <4>2
      <3>2. QED BY <3>1 DEF Elems
    <2>3. FewFronts(s.tasks, 2)
      <3>1. FewFronts(r.tasks, 2 + 1)
        BY <1>1 DEF Filled
      <3>2. QED BY <1>1, <3>1, TailFronts
    <2>4. QED BY <2>1, <2>2, <2>3 DEF Still
  <1>9. h \in FrontTasks \ WriteTasks => FewFronts(s.tasks, 1)
    <2>1. ASSUME h \notin WriteTasks PROVE FewFronts(r.tasks, 1 + 1)
      BY <1>1, <1>2, <2>1 DEF Filled
    <2>2. QED BY <1>1, <2>1, TailFronts
  <1>10. h \notin FrontTasks => FewFronts(s.tasks, 0)
    BY <1>1, TailFronts DEF QueueInv
  <1>11. /\ Reads(s) => Reads(r)
         /\ Idles(s) => Idles(r)
    BY <1>2 DEF Reads, Idles, SamePlans
  <1>12. h \in ReadTasks => ~Reads(s)
    BY <1>2, <1>3 DEF QueueInv, OneRead, Reads
  <1>13. h \in IdleTasks => ~Idles(s)
    BY <1>2, <1>3 DEF QueueInv, OneIdle, Idles, SamePlans
  <1>14. Planned(s) \subseteq Planned(r)
    BY <1>2 DEF Planned, SamePlans
  <1>15. Handed(s) \subseteq Handed(r)
    BY <1>4 DEF Handed
  <1>16. QED BY <1>2, <1>5, <1>6, <1>7, <1>8, <1>9, <1>10, <1>11, <1>12, <1>13, <1>14, <1>15

-----------------------------------------------------------------------------
(* hasWork moves what was planned into the queue, and adds nothing but the   *)
(* events of the socket.                                                     *)

Later(s, r) ==
    /\ Handed(r) \subseteq Handed(s)
    /\ Planned(r) \subseteq Planned(s) \cup {CanRead} \cup WriteTasks
    /\ Reads(r) => Reads(s)
    /\ Idles(r) => Idles(s)
    /\ T!Wanted(s) => T!Wanted(r)

LEMMA PartsConsistent ==
    ASSUME NEW s, TP!Consistent(s)
    PROVE  /\ TP!Consistent(T!DispatchRead(s)) /\ TP!Consistent(T!DispatchWrite(s))
           /\ \A d \in BOOLEAN : TP!Consistent(T!DispatchCallLater(s, d))
           /\ TP!Consistent(T!DispatchEnd(s)) /\ TP!Consistent(T!TimeOut(s))
  <1>1. /\ TP!Consistent(TP!DispatchRead(s)) /\ TP!Consistent(TP!DispatchWrite(s))
        /\ TP!Consistent(TP!DispatchEnd(s)) /\ TP!Consistent(TP!TimeOut(s))
    BY TaskHypotheses, TP!DispatchReadConsistent, TP!DispatchWriteConsistent,
       TP!DispatchEndConsistent, TP!TimeOutConsistent
  <1>2. \A d \in BOOLEAN : TP!Consistent(TP!DispatchCallLater(s, d))
    BY TaskHypotheses, TP!DispatchCallLaterConsistent
  <1>3. QED BY <1>1, <1>2, SameParts

LEMMA ReadLater ==
    ASSUME NEW s, TP!Consistent(s), QueueInv(s), Still(s)
    PROVE  LET r == T!DispatchRead(s)
           IN  QueueInv(r) /\ Still(r) /\ Later(s, r) /\ r.has_error = s.has_error
  <1> DEFINE r == T!DispatchRead(s)
  <1>0. s \in T!State
    BY ConsistentType
  <1>1. CASE s.wait_read /\ s.can_read
    <2>1. /\ r.tasks = Append(s.tasks, CanRead) /\ SamePlans(s, r) /\ r.wait_read = FALSE
          /\ r.has_error = s.has_error /\ (T!Wanted(s) => T!Wanted(r))
      BY <1>0, <1>1 DEF T!DispatchRead, T!addTask, T!State, T!ModuleTask, CanRead, SamePlans,
         T!DataEvents, T!Wanted
    <2> HIDE DEF r
    <2>2. Elems(s.tasks) \cap ReadTasks = {} /\ CanRead \notin IdleTasks /\ Reads(s)
      BY <1>1, TaskSets DEF QueueInv, OneRead, Reads
    <2>3. /\ QueueInv(r) /\ Elems(r.tasks) = Elems(s.tasks) \cup {CanRead}
          /\ Handed(r) = Handed(s) /\ Planned(r) \subseteq Planned(s) \cup {CanRead}
          /\ (Idles(r) => Idles(s))
          /\ \A n \in Nat : FewFronts(s.tasks, n) => FewFronts(r.tasks, n)
      BY <2>1, <2>2, AppendTask DEF SamePlans
    <2>4. Still(r)
      BY <2>3, TaskSets DEF Still
    <2>5. QED BY <2>1, <2>2, <2>3, <2>4 DEF Later, r
  <1>2. CASE ~(s.wait_read /\ s.can_read)
    BY <1>2 DEF T!DispatchRead, Later
  <1>3. QED BY <1>1, <1>2

LEMMA WriteLater ==
    ASSUME NEW s, TP!Consistent(s), QueueInv(s), Still(s)
    PROVE  LET r == T!DispatchWrite(s)
           IN  /\ QueueInv(r) /\ Filled(r) /\ Elems(r.tasks) \cap EndTasks = {}
               /\ Later(s, r) /\ r.has_error = s.has_error
  <1> DEFINE r == T!DispatchWrite(s)
             t == T!ModuleTask("ON_CAN_WRITE", "out", Head(s.write_buffers))
  <1>0. s \in T!State /\ (s.wait_write => s.write_buffers # <<>>)
    BY ConsistentType
  <1>1. CASE T!WriteReady(s)
    <2>1. s.write_buffers \in Seq(Written) /\ s.write_buffers # <<>>
      BY <1>0, <1>1 DEF T!WriteReady, QueueInv, QueueType
    <2>2. /\ Tail(s.write_buffers) \in Seq(Written) /\ Head(s.write_buffers) \in Written
          /\ Elems(Tail(s.write_buffers)) \subseteq Elems(s.write_buffers)
          /\ Elems(s.write_buffers) = Elems(Tail(s.write_buffers)) \cup {Head(s.write_buffers)}
      BY <2>1, TailElems
    <2>3. t \in WriteTasks /\ t.buffer = Head(s.write_buffers) /\ t.event = "ON_CAN_WRITE"
      BY <2>2 DEF WriteTasks, Tasks, T!ModuleTask
    <2> DEFINE w == [s EXCEPT !.can_write = FALSE, !.write_buffers = Tail(@),
                              !.wait_write = Len(s.write_buffers) > 1]
               u == T!addTask(w, t)
    <2> HIDE DEF t
    <2>4. /\ u.tasks = <<t>> \o s.tasks /\ u.write_buffers = Tail(s.write_buffers)
          /\ u.call_later_task = s.call_later_task /\ u.end_task = s.end_task
          /\ u.wait_read = s.wait_read /\ u.can_read = s.can_read /\ u.can_write = FALSE
          /\ u.wait_write = (Len(s.write_buffers) > 1) /\ u.has_error = s.has_error
      BY <1>0, <2>3 DEF T!addTask, T!State, T!DataEvents
    <2>5. r = T!Register(u)
      BY <1>1 DEF T!DispatchWrite, t
    <2>6. /\ r.tasks = u.tasks /\ r.write_buffers = u.write_buffers
          /\ r.call_later_task = u.call_later_task /\ r.end_task = u.end_task
          /\ r.wait_read = u.wait_read /\ r.can_read = u.can_read /\ r.can_write = u.can_write
          /\ r.wait_write = u.wait_write /\ r.has_error = u.has_error
      BY <1>0, <2>3, <2>5 DEF T!Register, T!addTask, T!State, T!DataEvents
    <2> HIDE DEF r, u, w
    <2>7. /\ \A b \in Buffers : Once(r.write_buffers, {b})
          /\ t.buffer \notin TaskBuffers(s) \cup WriteBuffers(r)
      <3>1. \A b \in Buffers : Once(s.write_buffers, {b})
        BY DEF QueueInv, Unshared
      <3>2. \A X : Once(s.write_buffers, X) =>
               /\ Once(Tail(s.write_buffers), X)
               /\ Head(s.write_buffers) \in X => Elems(Tail(s.write_buffers)) \cap X = {}
        BY <2>1, OnceTail
      <3>3. Head(s.write_buffers) \in Buffers /\ Head(s.write_buffers) \in WriteBuffers(s)
        BY <2>2, BufferSets, BufferElems
      <3>4. Head(s.write_buffers) \notin Elems(Tail(s.write_buffers))
        BY <3>1, <3>2, <3>3
      <3>5. Head(s.write_buffers) \notin TaskBuffers(s)
        BY <3>3 DEF QueueInv, Unshared
      <3>6. QED BY <2>3, <2>4, <2>6, <3>1, <3>2, <3>4, <3>5, BufferElems
    <2>8. WriteBuffers(r) \subseteq WriteBuffers(s) /\ t.buffer \in WriteBuffers(s)
      BY <2>2, <2>3, <2>4, <2>6, BufferElems
    <2>9. t \in FrontTasks /\ t \notin ReadTasks /\ t \notin EndTasks
      BY <2>3, TaskSets
    <2>10. /\ QueueInv(r) /\ Elems(r.tasks) = Elems(s.tasks) \cup {t} /\ r.tasks # <<>>
           /\ Handed(r) \subseteq Handed(s) \cup {t.buffer}
           /\ Planned(r) = Planned(s) \cup {t}
           /\ (Reads(r) => Reads(s) \/ t \in ReadTasks)
           /\ (Idles(r) => Idles(s))
           /\ r.tasks[1] = t /\ \A i \in 2..(Len(s.tasks) + 1) : r.tasks[i] = s.tasks[i - 1]
           /\ DOMAIN r.tasks = 1..(Len(s.tasks) + 1)
      <3>1. r.tasks = <<t>> \o s.tasks /\ r.write_buffers \in Seq(Written)
        BY <2>2, <2>4, <2>6
      <3>2. /\ r.call_later_task = s.call_later_task /\ r.end_task = s.end_task
            /\ r.wait_read = s.wait_read
        BY <2>4, <2>6
      <3>3. t.buffer \notin TaskBuffers(s) \cup WriteBuffers(r) /\ WriteBuffers(r) \subseteq WriteBuffers(s)
        BY <2>7, <2>8
      <3>4. \A b \in Buffers : Once(r.write_buffers, {b})
        BY <2>7
      <3>5. t \in FrontTasks /\ (t \in ReadTasks => ~Reads(s))
        BY <2>9
      <3>6. Pushed(s, r, t)
        BY <3>1, <3>2, <3>3, <3>4, <3>5 DEF Pushed
      <3>7. QED BY <3>6, PushTask
    <2>11. Filled(r)
      <3>1. s.tasks \in Seq(ChainTasks)
        BY DEF QueueInv, QueueType
      <3>2. Len(s.tasks) \in Nat /\ DOMAIN s.tasks = 1..Len(s.tasks)
        BY <3>1, LenProperties
      <3>3. \A i \in 1..(Len(s.tasks) + 1) : i # 1 => i \in 2..(Len(s.tasks) + 1) /\ i - 1 \in DOMAIN s.tasks
        BY <3>2
      <3>4. \A i \in DOMAIN r.tasks : r.tasks[i] \in WriteTasks => i = 1
        BY <2>10, <3>3 DEF Still, Elems
      <3>5. FewFronts(r.tasks, 2 + 1)
        BY <2>4, <2>6, <2>9, <3>1, PushFronts DEF Still
      <3>6. QED BY <2>3, <2>10, <3>4, <3>5 DEF Filled
    <2>12. T!Wanted(s) => T!Wanted(r)
      <3>1. Len(s.write_buffers) \in Nat
        BY <2>1, LenProperties
      <3>2. ~s.can_write => Len(s.write_buffers) > 1
        BY <1>1, <3>1, RequestChainAssumption DEF T!WriteReady
      <3>3. QED BY <1>1, <2>4, <2>6, <3>2 DEF T!Wanted, T!WriteReady
    <2>13. Later(s, r)
      BY <2>3, <2>8, <2>9, <2>10, <2>12 DEF Later, Handed
    <2>14. QED BY <2>4, <2>6, <2>9, <2>10, <2>11, <2>13 DEF Still, r
  <1>2. CASE ~T!WriteReady(s)
    <2>1. r = s
      BY <1>2 DEF T!DispatchWrite
    <2>2. Filled(s)
      <3>1. s.tasks \in Seq(ChainTasks) /\ FewFronts(s.tasks, 2)
        BY DEF QueueInv, QueueType, Still
      <3>2. FewFronts(s.tasks, 3)
        BY <3>1, FewerFronts
      <3>3. QED BY <3>1, <3>2 DEF Filled, Still, Elems
    <2>3. QED BY <2>1, <2>2 DEF Later, Still
  <1>3. QED BY <1>1, <1>2

LEMMA CallLaterLater ==
    ASSUME NEW s, TP!Consistent(s), QueueInv(s), Filled(s), Elems(s.tasks) \cap EndTasks = {},
           NEW due \in BOOLEAN
    PROVE  LET r == T!DispatchCallLater(s, due)
           IN  /\ QueueInv(r) /\ Filled(r) /\ Elems(r.tasks) \cap EndTasks = {}
               /\ Later(s, r) /\ r.has_error = s.has_error
  <1> DEFINE r == T!DispatchCallLater(s, due)
             t == s.call_later_task
  <1>0. s \in T!State
    BY ConsistentType
  <1>1. CASE due /\ t # NoTask
    <2>1. /\ r.tasks = Append(s.tasks, t) /\ r.call_later_task = NoTask
          /\ r.write_buffers = s.write_buffers /\ r.end_task = s.end_task
          /\ r.wait_read = s.wait_read /\ r.has_error = s.has_error
          /\ (T!Wanted(s) => T!Wanted(r))
      BY <1>0, <1>1 DEF T!DispatchCallLater, T!State, T!Wanted
    <2>2. t \in IdleTasks /\ Elems(s.tasks) \cap IdleTasks = {} /\ Idles(s) /\ t \in Planned(s)
      BY <1>1 DEF QueueInv, QueueType, OneIdle, Idles, Planned
    <2>3. t # CanRead /\ t \notin EndTasks
      BY <2>2, TaskSets
    <2> HIDE DEF r, t
    <2>4. /\ QueueInv(r) /\ Elems(r.tasks) = Elems(s.tasks) \cup {t}
          /\ Handed(r) = Handed(s) /\ Planned(r) \subseteq Planned(s) \cup {t}
          /\ (Reads(r) => Reads(s) \/ t = CanRead)
          /\ (Filled(s) => Filled(r))
      BY <2>1, <2>2, <2>3, AppendTask
    <2>5. QED BY <2>1, <2>2, <2>3, <2>4 DEF Later, r
  <1>2. CASE ~(due /\ t # NoTask)
    BY <1>2 DEF T!DispatchCallLater, Later
  <1>3. QED BY <1>1, <1>2

LEMMA EndLater ==
    ASSUME NEW s, TP!Consistent(s), QueueInv(s), Filled(s), Elems(s.tasks) \cap EndTasks = {}
    PROVE  LET r == T!DispatchEnd(s)
           IN  /\ QueueInv(r) /\ (r.tasks # <<>> => Ready(r)) /\ (r.tasks = <<>> => Still(r))
               /\ Later(s, r) /\ r.has_error = s.has_error
  <1> DEFINE r == T!DispatchEnd(s)
             t == s.end_task
  <1>0. s \in T!State
    BY ConsistentType
  <1>1. CASE t # NoTask /\ s.tasks = <<>> /\ s.write_buffers = <<>>
    <2>1. /\ r.tasks = <<t>> /\ r.end_task = NoTask
          /\ r.write_buffers = <<>> /\ r.call_later_task = s.call_later_task
          /\ r.wait_read = s.wait_read /\ r.has_error = s.has_error
          /\ (T!Wanted(s) => T!Wanted(r))
      BY <1>0, <1>1 DEF T!DispatchEnd, T!State, T!Wanted
    <2>2. t \in EndTasks /\ t \in Planned(s) /\ s.write_buffers \in Seq(Written)
      BY <1>1 DEF QueueInv, QueueType, Planned
    <2>3. /\ t \notin FrontTasks /\ t \notin ReadTasks /\ t \notin IdleTasks /\ t \notin WriteTasks
          /\ t.buffer = NoBuffer /\ t \in ChainTasks
      BY <2>2, TaskSets
    <2> HIDE DEF r, t
    <2>4. /\ DOMAIN r.tasks = {1} /\ r.tasks[1] = t /\ Len(r.tasks) = 1 /\ r.tasks # <<>>
          /\ Elems(r.tasks) = {t} /\ r.tasks \in Seq(ChainTasks)
      <3>1. DOMAIN <<t>> = 1..1 /\ <<t>>[1] = t /\ Len(<<t>>) = 1 /\ <<t>> # <<>> /\ 1..1 = {1}
        OBVIOUS
      <3>2. <<t>> \in Seq(ChainTasks)
        BY <2>3
      <3>3. QED BY <2>1, <3>1, <3>2 DEF Elems
    <2>5. DOMAIN r.write_buffers = {} /\ Elems(r.write_buffers) = {}
      <3>1. Elems(s.write_buffers) = {}
        BY <1>1, <2>2, ElemsSeq
      <3>2. QED BY <1>1, <2>1, <3>1 DEF Elems
    <2>6. TaskBuffers(r) = {} /\ WriteBuffers(r) = {}
      BY <2>3, <2>4, <2>5, BufferElems
    <2>7. QueueInv(r)
      <3>1. Unshared(r)
        BY <2>4, <2>5, <2>6 DEF Unshared, Once
      <3>2. OneRead(r) /\ OneIdle(r) /\ FrontsFirst(r.tasks)
        BY <2>3, <2>4 DEF OneRead, OneIdle, Once, FrontsFirst
      <3>3. QueueType(r)
        BY <1>1, <2>1, <2>2, <2>4 DEF QueueInv, QueueType
      <3>4. QED BY <3>1, <3>2, <3>3 DEF QueueInv
    <2>8. Ready(r)
      BY <2>1, <2>3, <2>4 DEF Ready, Filled, FewFronts
    <2>9. Later(s, r)
      <3>1. Planned(r) \subseteq Planned(s)
        BY <2>1, <2>2, <2>4 DEF Planned
      <3>2. (Reads(r) => Reads(s)) /\ (Idles(r) => Idles(s))
        BY <2>1, <2>3, <2>4 DEF Reads, Idles
      <3>3. Handed(r) = {}
        BY <2>6 DEF Handed
      <3>4. QED BY <2>1, <3>1, <3>2, <3>3 DEF Later
    <2>10. QED BY <2>1, <2>4, <2>7, <2>8, <2>9 DEF r
  <1>2. CASE ~(t # NoTask /\ s.tasks = <<>> /\ s.write_buffers = <<>>)
    <2>1. r = s
      BY <1>2 DEF T!DispatchEnd
    <2>2. s.tasks = <<>> => Still(s)
      <3>1. s.tasks \in Seq(ChainTasks)
        BY DEF QueueInv, QueueType
      <3>2. s.tasks = <<>> => Elems(s.tasks) = {}
        BY <3>1, ElemsSeq
      <3>3. QED BY <3>2 DEF Still, FewFronts, Elems
    <2>3. QED BY <2>1, <2>2 DEF Later, Ready
  <1>3. QED BY <1>1, <1>2

LEMMA HasWorkLater ==
    ASSUME NEW s, TP!Consistent(s), QueueInv(s), Still(s), NEW e \in BOOLEAN, NEW d \in BOOLEAN
    PROVE  LET r == T!hasWork(s, e, d)
           IN  /\ QueueInv(r) /\ TP!Consistent(r)
               /\ T!HasWorkResult(r) => Ready(r)
               /\ ~T!HasWorkResult(r) => Still(r)
               /\ Handed(r) \subseteq Handed(s)
               /\ Planned(r) \subseteq Planned(s) \cup {CanRead} \cup WriteTasks
               /\ Reads(r) => Reads(s)
               /\ Idles(r) => Idles(s)
               /\ s.has_error => r.has_error
               /\ s.registered => r.registered \/ r.has_error
  <1> DEFINE r == T!hasWork(s, e, d)
  <1>0. s \in T!State /\ TP!Consistent(r)
    BY ConsistentType, KeepConsistent
  <1>1. CASE s.has_error
    BY <1>0, <1>1 DEF T!hasWork, T!HasWorkResult
  <1>2. CASE ~s.has_error /\ T!Silent(s) /\ e
    <2>1. r = T!TimeOut(s)
      BY <1>2 DEF T!hasWork
    <2>2. SameQueue(s, r) /\ r.has_error = TRUE /\ r.wait_read = FALSE
      BY <1>0, <2>1 DEF T!TimeOut, T!Unregister, T!State, SameQueue
    <2> HIDE DEF r
    <2>3. QueueInv(r) /\ Still(r) /\ Handed(r) = Handed(s) /\ Planned(r) = Planned(s)
      BY <2>2, BufferElems DEF SameQueue, QueueInv, QueueType, Unshared, OneRead, OneIdle, Still,
         Handed, Planned
    <2>4. (Reads(r) => Reads(s)) /\ (Idles(r) => Idles(s))
      BY <2>2 DEF SameQueue, Reads, Idles
    <2>5. QED BY <1>0, <2>2, <2>3, <2>4 DEF T!HasWorkResult, r
  <1>3. CASE ~s.has_error /\ ~(T!Silent(s) /\ e)
    <2> DEFINE p == T!DispatchRead(s)
               q == T!DispatchWrite(p)
               c == T!DispatchCallLater(q, d)
    <2>1. r = T!DispatchEnd(c)
      BY <1>3 DEF T!hasWork
    <2>2. QueueInv(p) /\ Still(p) /\ Later(s, p) /\ p.has_error = s.has_error /\ TP!Consistent(p)
      BY ReadLater, PartsConsistent
    <2> HIDE DEF p
    <2>3. /\ QueueInv(q) /\ Filled(q) /\ Elems(q.tasks) \cap EndTasks = {}
          /\ Later(p, q) /\ q.has_error = p.has_error /\ TP!Consistent(q)
      BY <2>2, WriteLater, PartsConsistent
    <2> HIDE DEF q
    <2>4. /\ QueueInv(c) /\ Filled(c) /\ Elems(c.tasks) \cap EndTasks = {}
          /\ Later(q, c) /\ c.has_error = q.has_error /\ TP!Consistent(c)
      BY <2>3, CallLaterLater, PartsConsistent
    <2> HIDE DEF c, r
    <2>5. /\ QueueInv(r) /\ (r.tasks # <<>> => Ready(r)) /\ (r.tasks = <<>> => Still(r))
          /\ Later(c, r) /\ r.has_error = c.has_error
      BY <2>1, <2>4, EndLater
    <2>6. Later(s, r)
      BY <2>2, <2>3, <2>4, <2>5 DEF Later
    <2>7. s.registered => r.registered
      BY <1>0, <2>6, ConsistentType DEF Later
    <2>8. QED
      BY <1>0, <1>3, <2>2, <2>3, <2>4, <2>5, <2>6, <2>7 DEF Later, T!HasWorkResult, r
  <1>4. QED BY <1>1, <1>2, <1>3

-----------------------------------------------------------------------------
(* The chain in its four shapes. *)

Shapes == {C0, CR, CE, CP}

LEMMA ShapesAre ==
    /\ DOMAIN C0 = 1..5 /\ Len(C0) = 5 /\ C0[1] = "in" /\ C0[2] = "parser" /\ C0[3] = "builder"
    /\ C0[4] = "pob" /\ C0[5] = "out"
    /\ DOMAIN CR = 1..6 /\ Len(CR) = 6 /\ CR[1] = "in" /\ CR[2] = "parser" /\ CR[3] = "builder"
    /\ CR[4] = "reader" /\ CR[5] = "pob" /\ CR[6] = "out"
    /\ DOMAIN CE = 1..6 /\ Len(CE) = 6 /\ CE[1] = "in" /\ CE[2] = "parser" /\ CE[3] = "builder"
    /\ CE[4] = "error" /\ CE[5] = "pob" /\ CE[6] = "out"
    /\ DOMAIN CP = 1..6 /\ Len(CP) = 6 /\ CP[1] = "in" /\ CP[2] = "parser" /\ CP[3] = "builder"
    /\ CP[4] = "pob" /\ CP[5] = "error" /\ CP[6] = "out"
    /\ C0 # CR /\ C0 # CE /\ C0 # CP /\ CR # CE /\ CR # CP /\ CE # CP
  <1>1. DOMAIN C0 = 1..5 /\ Len(C0) = 5 /\ C0[1] = "in" /\ C0[2] = "parser" /\ C0[3] = "builder"
        /\ C0[4] = "pob" /\ C0[5] = "out"
    BY DEF C0
  <1>2. DOMAIN CR = 1..6 /\ Len(CR) = 6 /\ CR[1] = "in" /\ CR[2] = "parser" /\ CR[3] = "builder"
        /\ CR[4] = "reader" /\ CR[5] = "pob" /\ CR[6] = "out"
    BY DEF CR
  <1>3. DOMAIN CE = 1..6 /\ Len(CE) = 6 /\ CE[1] = "in" /\ CE[2] = "parser" /\ CE[3] = "builder"
        /\ CE[4] = "error" /\ CE[5] = "pob" /\ CE[6] = "out"
    BY DEF CE
  <1>4. DOMAIN CP = 1..6 /\ Len(CP) = 6 /\ CP[1] = "in" /\ CP[2] = "parser" /\ CP[3] = "builder"
        /\ CP[4] = "pob" /\ CP[5] = "error" /\ CP[6] = "out"
    BY DEF CP
  <1>5. C0 # CR /\ C0 # CE /\ C0 # CP /\ CR # CE /\ CR # CP /\ CE # CP
    BY <1>1, <1>2, <1>3, <1>4
  <1>6. QED BY <1>1, <1>2, <1>3, <1>4, <1>5

LEMMA MembersOf ==
    ASSUME NEW c \in Shapes
    PROVE  /\ \A m \in {"in", "parser", "builder", "pob", "out"} : \E i \in DOMAIN c : c[i] = m
           /\ (\E i \in DOMAIN c : c[i] = "reader") <=> c = CR
           /\ (\E i \in DOMAIN c : c[i] = "error") <=> c \in {CE, CP}
           /\ \A i \in DOMAIN c : c[i] \in Modules
  <1>1. CASE c = C0
    BY <1>1, ShapesAre DEF Modules, Processing
  <1>2. CASE c = CR
    BY <1>2, ShapesAre DEF Modules, Processing
  <1>3. CASE c = CE
    BY <1>3, ShapesAre DEF Modules, Processing
  <1>4. CASE c = CP
    BY <1>4, ShapesAre DEF Modules, Processing
  <1>5. QED BY <1>1, <1>2, <1>3, <1>4 DEF Shapes

LEMMA Members ==
    ASSUME chain \in Shapes
    PROVE  /\ \A m \in {"in", "parser", "builder", "pob", "out"} : InChain(m)
           /\ InChain("reader") <=> chain = CR
           /\ InChain("error") <=> chain \in {CE, CP}
           /\ \A i \in DOMAIN chain : chain[i] \in Modules
           /\ \A m : InChain(m) => m \in Modules
  BY MembersOf DEF InChain

LEMMA MembersNext ==
    ASSUME chain' \in Shapes
    PROVE  /\ \A m \in {"in", "parser", "builder", "pob", "out"} : InChain(m)'
           /\ InChain("reader")' <=> chain' = CR
           /\ InChain("error")' <=> chain' \in {CE, CP}
  BY MembersOf DEF InChain

LEMMA PositionIs ==
    ASSUME NEW i \in DOMAIN chain, \A j \in DOMAIN chain : chain[j] = chain[i] => j = i
    PROVE  Position(chain[i]) = i
  BY DEF Position

LEMMA Positions ==
    ASSUME chain \in Shapes, NEW i \in DOMAIN chain
    PROVE  Position(chain[i]) = i
  <1>1. ASSUME NEW j \in DOMAIN chain, chain[j] = chain[i] PROVE j = i
    <2>1. CASE chain = C0
      BY <1>1, <2>1, ShapesAre
    <2>2. CASE chain = CR
      BY <1>1, <2>2, ShapesAre
    <2>3. CASE chain = CE
      BY <1>1, <2>3, ShapesAre
    <2>4. CASE chain = CP
      BY <1>1, <2>4, ShapesAre
    <2>5. QED BY <2>1, <2>2, <2>3, <2>4 DEF Shapes
  <1>2. QED BY <1>1, PositionIs

\* The module behind each.
LEMMA ChainNext ==
    ASSUME chain \in Shapes
    PROVE  /\ Following("in") = "parser" /\ Following("parser") = "builder"
           /\ Following("builder") = IF chain = CR THEN "reader" ELSE IF chain = CE THEN "error" ELSE "pob"
           /\ chain = CR => Following("reader") = "pob"
           /\ Following("pob") = IF chain = CP THEN "error" ELSE "out"
           /\ chain = CE => Following("error") = "pob"
           /\ chain = CP => Following("error") = "out"
           /\ Following("out") = NoModule
           /\ \A m \in Modules : m # NoModule
  <1>0. \A m \in Modules : m # NoModule
    BY NullAssumption
  <1>1. CASE chain = C0
    <2>1. /\ Position("in") = 1 /\ Position("parser") = 2 /\ Position("builder") = 3
          /\ Position("pob") = 4 /\ Position("out") = 5
      BY <1>1, Positions, ShapesAre
    <2>2. QED BY <1>0, <1>1, <2>1, ShapesAre DEF Following
  <1>2. CASE chain = CR
    <2>1. /\ Position("in") = 1 /\ Position("parser") = 2 /\ Position("builder") = 3
          /\ Position("reader") = 4 /\ Position("pob") = 5 /\ Position("out") = 6
      BY <1>2, Positions, ShapesAre
    <2>2. QED BY <1>0, <1>2, <2>1, ShapesAre DEF Following
  <1>3. CASE chain = CE
    <2>1. /\ Position("in") = 1 /\ Position("parser") = 2 /\ Position("builder") = 3
          /\ Position("error") = 4 /\ Position("pob") = 5 /\ Position("out") = 6
      BY <1>3, Positions, ShapesAre
    <2>2. QED BY <1>0, <1>3, <2>1, ShapesAre DEF Following
  <1>4. CASE chain = CP
    <2>1. /\ Position("in") = 1 /\ Position("parser") = 2 /\ Position("builder") = 3
          /\ Position("pob") = 4 /\ Position("error") = 5 /\ Position("out") = 6
      BY <1>4, Positions, ShapesAre
    <2>2. QED BY <1>0, <1>4, <2>1, ShapesAre DEF Following
  <1>5. QED BY <1>1, <1>2, <1>3, <1>4 DEF Shapes

\* The module of the response part that give data away.
LEMMA ResponsePart ==
    ASSUME chain \in Shapes
    PROVE  /\ ~isInResponsePart("in") /\ ~isInResponsePart("parser") /\ ~isInResponsePart("builder")
           /\ chain = CR => isInResponsePart("reader")
           /\ chain = CE => isInResponsePart("error")
           /\ chain = CP => ~isInResponsePart("pob")
  <1>1. CASE chain = C0
    <2>1. Position("in") = 1 /\ Position("parser") = 2 /\ Position("builder") = 3
      BY <1>1, Positions, ShapesAre
    <2>2. QED BY <1>1, <2>1, ShapesAre DEF isInResponsePart, Processing
  <1>2. CASE chain = CR
    <2>1. Position("in") = 1 /\ Position("parser") = 2 /\ Position("builder") = 3 /\ Position("reader") = 4
      BY <1>2, Positions, ShapesAre
    <2>2. QED BY <1>2, <2>1, ShapesAre DEF isInResponsePart, Processing
  <1>3. CASE chain = CE
    <2>1. Position("in") = 1 /\ Position("parser") = 2 /\ Position("builder") = 3 /\ Position("error") = 4
      BY <1>3, Positions, ShapesAre
    <2>2. QED BY <1>3, <2>1, ShapesAre DEF isInResponsePart, Processing
  <1>4. CASE chain = CP
    <2>1. Position("in") = 1 /\ Position("parser") = 2 /\ Position("builder") = 3 /\ Position("pob") = 4
      BY <1>4, Positions, ShapesAre
    <2>2. QED BY <1>4, <2>1, ShapesAre DEF isInResponsePart, Processing
  <1>5. QED BY <1>1, <1>2, <1>3, <1>4 DEF Shapes

LEMMA Inserted ==
    ASSUME NEW S, NEW q \in Seq(S), NEW k \in 0..Len(q), NEW x \in S
    PROVE  LET r == SubSeq(q, 1, k) \o <<x>> \o SubSeq(q, k + 1, Len(q))
           IN  /\ r \in Seq(S) /\ Len(r) = Len(q) + 1
               /\ \A i \in 1..Len(r) :
                     r[i] = IF i <= k THEN q[i] ELSE IF i = k + 1 THEN x ELSE q[i - 1]
  <1> DEFINE a == SubSeq(q, 1, k)
             c == SubSeq(q, k + 1, Len(q))
  <1>1. Len(q) \in Nat /\ k \in Int /\ k >= 0 /\ k <= Len(q) /\ \A i \in 1..Len(q) : q[i] \in S
    BY LenProperties, ElementOfSeq
  <1>2. a \in Seq(S) /\ Len(a) = k /\ \A i \in 1..k : a[i] = q[i]
    <2>1. \A i \in 1..k : q[i] \in S
      BY <1>1
    <2>2. /\ a \in Seq(S) /\ Len(a) = (IF 1 <= k THEN k - 1 + 1 ELSE 0)
          /\ \A i \in 1..(k - 1 + 1) : a[i] = q[1 + i - 1]
      BY <1>1, <2>1, SubSeqProperties
    <2>3. QED BY <1>1, <2>2
  <1>3. c \in Seq(S) /\ Len(c) = Len(q) - k /\ \A i \in 1..(Len(q) - k) : c[i] = q[k + i]
    <2>1. \A i \in (k + 1)..Len(q) : q[i] \in S
      BY <1>1
    <2>2. /\ c \in Seq(S)
          /\ Len(c) = (IF k + 1 <= Len(q) THEN Len(q) - (k + 1) + 1 ELSE 0)
          /\ \A i \in 1..(Len(q) - (k + 1) + 1) : c[i] = q[k + 1 + i - 1]
      BY <1>1, <2>1, SubSeqProperties
    <2>3. QED BY <1>1, <2>2
  <1> HIDE DEF a, c
  <1>4. <<x>> \in Seq(S) /\ Len(<<x>>) = 1 /\ <<x>>[1] = x
    OBVIOUS
  <1> DEFINE p == a \o <<x>>
             r == p \o c
  <1>5. /\ p \in Seq(S) /\ Len(p) = k + 1
        /\ \A i \in 1..(k + 1) : p[i] = IF i <= k THEN a[i] ELSE <<x>>[i - k]
    BY <1>2, <1>4, ConcatProperties
  <1> HIDE DEF p
  <1>6. /\ r \in Seq(S) /\ Len(r) = Len(p) + Len(c)
        /\ \A i \in 1..(Len(p) + Len(c)) : r[i] = IF i <= Len(p) THEN p[i] ELSE c[i - Len(p)]
    BY <1>3, <1>5, ConcatProperties
  <1> HIDE DEF r
  <1>7. Len(r) = Len(q) + 1
    BY <1>1, <1>3, <1>5, <1>6
  <1>8. ASSUME NEW i \in 1..(Len(q) + 1)
        PROVE  r[i] = IF i <= k THEN q[i] ELSE IF i = k + 1 THEN x ELSE q[i - 1]
    <2>1. r[i] = IF i <= k + 1 THEN p[i] ELSE c[i - (k + 1)]
      BY <1>1, <1>3, <1>5, <1>6, <1>8
    <2>2. CASE i <= k
      BY <1>1, <1>2, <1>5, <2>1, <2>2
    <2>3. CASE i = k + 1
      BY <1>1, <1>4, <1>5, <2>1, <2>3
    <2>4. CASE i > k + 1
      <3>1. i - (k + 1) \in 1..(Len(q) - k)
        BY <1>1, <2>4
      <3>2. c[i - (k + 1)] = q[k + (i - (k + 1))] /\ k + (i - (k + 1)) = i - 1
        BY <1>1, <1>3, <3>1
      <3>3. ~(i <= k + 1) /\ ~(i <= k) /\ i # k + 1
        BY <1>1, <2>4
      <3>4. QED BY <2>1, <3>2, <3>3
    <2>5. QED BY <1>1, <2>2, <2>3, <2>4
  <1>9. QED BY <1>6, <1>7, <1>8 DEF a, c, p, r

\* The error module in the place of FileReader, or before the output module;
\* FileReader behind Builder.
LEMMA ChainChanges ==
    /\ chain = CR => setProcessingModule = CE
    /\ chain = C0 => setProcessingModule = CP /\ InsertAfter(Position("builder"), "reader") = CR
  <1>0. /\ C0 \in Seq(Modules) /\ CR \in Seq(Modules) /\ CE \in Seq(Modules) /\ CP \in Seq(Modules)
        /\ "error" \in Modules /\ "reader" \in Modules
    BY DEF C0, CR, CE, CP, Modules, Processing
  <1>1. ASSUME chain = CR PROVE setProcessingModule = CE
    <2>1. /\ \E i \in DOMAIN chain : chain[i] \in Processing
          /\ \A i \in DOMAIN chain : chain[i] \in Processing <=> i = 4
      BY <1>1, ShapesAre DEF Processing
    <2> DEFINE e == [i \in DOMAIN chain |-> IF chain[i] \in Processing THEN "error" ELSE chain[i]]
    <2>2. setProcessingModule = e
      BY <2>1 DEF setProcessingModule
    <2>3. e = [i \in 1..6 |-> IF i = 4 THEN "error" ELSE CR[i]]
      BY <1>1, <2>1, ShapesAre
    <2> HIDE DEF e
    <2>4. \A i \in 1..6 : (IF i = 4 THEN "error" ELSE CR[i]) \in Modules
      BY ShapesAre DEF Modules, Processing
    <2>5. e \in Seq(Modules) /\ Len(e) = 6 /\ \A i \in 1..6 : e[i] = CE[i]
      <3>1. e \in [1..6 -> Modules]
        BY <2>3, <2>4
      <3>2. e \in Seq(Modules)
        BY <3>1, SeqDef
      <3>3. Len(e) = 6
        BY <3>1, <3>2, LenProperties
      <3>4. \A i \in 1..6 : e[i] = CE[i]
        BY <2>3, ShapesAre
      <3>5. QED BY <3>2, <3>3, <3>4
    <2>6. QED BY <1>0, <2>2, <2>5, SeqEqual, ShapesAre
  <1>2. ASSUME chain = C0 PROVE setProcessingModule = CP
    <2>1. ~\E i \in DOMAIN chain : chain[i] \in Processing
      BY <1>2, ShapesAre DEF Processing
    <2> DEFINE e == SubSeq(C0, 1, 4) \o <<"error">> \o SubSeq(C0, 4 + 1, Len(C0))
    <2>2. setProcessingModule = e
      BY <1>2, <2>1, ShapesAre DEF setProcessingModule, InsertAfter
    <2>3. /\ e \in Seq(Modules) /\ Len(e) = Len(C0) + 1
          /\ \A i \in 1..Len(e) : e[i] = IF i <= 4 THEN C0[i] ELSE IF i = 4 + 1 THEN "error" ELSE C0[i - 1]
      <3>1. 4 \in 0..Len(C0)
        BY ShapesAre
      <3>2. QED BY <1>0, <3>1, Inserted
    <2> HIDE DEF e
    <2>4. Len(e) = Len(CP) /\ \A i \in 1..Len(e) : e[i] = CP[i]
      BY <2>3, ShapesAre
    <2>5. QED BY <1>0, <2>2, <2>3, <2>4, SeqEqual
  <1>3. ASSUME chain = C0 PROVE InsertAfter(Position("builder"), "reader") = CR
    <2>1. Position("builder") = 3
      BY <1>3, Positions, ShapesAre DEF Shapes
    <2> DEFINE e == SubSeq(C0, 1, 3) \o <<"reader">> \o SubSeq(C0, 3 + 1, Len(C0))
    <2>2. InsertAfter(Position("builder"), "reader") = e
      BY <1>3, <2>1, ShapesAre DEF InsertAfter
    <2>3. /\ e \in Seq(Modules) /\ Len(e) = Len(C0) + 1
          /\ \A i \in 1..Len(e) : e[i] = IF i <= 3 THEN C0[i] ELSE IF i = 3 + 1 THEN "reader" ELSE C0[i - 1]
      <3>1. 3 \in 0..Len(C0)
        BY ShapesAre
      <3>2. QED BY <1>0, <3>1, Inserted
    <2> HIDE DEF e
    <2>4. Len(e) = Len(CR) /\ \A i \in 1..Len(e) : e[i] = CR[i]
      BY <2>3, ShapesAre
    <2>5. QED BY <1>0, <2>2, <2>3, <2>4, SeqEqual
  <1>4. QED BY <1>1, <1>2, <1>3

-----------------------------------------------------------------------------
(* The script after its first call. *)

\* From r to s the tasks have changed by what the first call of q asks.
Advances(q, m, ch, r, s) ==
    /\ q # <<>> /\ ScriptInv(q, m) /\ Fits(q, m, ch, r)
    /\ Handed(s) \subseteq Handed(r) \cup {b \in Buffers : Head(q) \in Handing(b)}
    /\ Reads(s) => Reads(r) \/ Head(q) \in ReadCalls
    /\ Idles(s) => Idles(r) \/ Head(q) \in IdleCalls
    /\ Head(q) \notin AddCalls(m, ch) => \A n \in 0..1 : FewFronts(r.tasks, n) => FewFronts(s.tasks, n)
    /\ Head(q) \in AddCalls(m, ch) /\ FewFronts(r.tasks, 0) => FewFronts(s.tasks, 1)
    /\ Head(q) \in Named({"throw"}) \/ r.has_error => s.has_error

LEMMA TailOfScript ==
    ASSUME NEW q, NEW m, q # <<>>, ScriptInv(q, m)
    PROVE  /\ ScriptInv(Tail(q), m)
           /\ Elems(Tail(q)) \subseteq Elems(q) /\ Head(q) \in Elems(q) /\ Head(q) = q[1]
           /\ Head(q) \in CallsOf(m) /\ Elems(q) \subseteq CallsOf(m)
           /\ Elems(Tail(q)) \cap Named({"reset", "insertAfter"}) = {}
           /\ Head(q) \in ReadCalls => Elems(Tail(q)) \cap ReadCalls = {}
           /\ Head(q) \in IdleCalls => Elems(Tail(q)) \cap IdleCalls = {}
           /\ \A b \in Buffers : Head(q) \in Handing(b) => Elems(Tail(q)) \cap Handing(b) = {}
           /\ Head(q) \in LastCalls => Tail(q) = <<>>
  <1>1. /\ q \in Seq(CallsOf(m)) /\ Once(q, ReadCalls) /\ Once(q, IdleCalls)
        /\ \A b \in Buffers : Once(q, Handing(b))
    BY DEF ScriptInv
  <1>2. /\ Tail(q) \in Seq(CallsOf(m)) /\ Head(q) \in CallsOf(m) /\ Head(q) = q[1]
        /\ Len(Tail(q)) = Len(q) - 1
        /\ 1 \in DOMAIN q /\ DOMAIN q = 1..Len(q) /\ Len(q) \in Nat \ {0}
        /\ DOMAIN Tail(q) = 1..(Len(q) - 1)
        /\ \A i \in DOMAIN Tail(q) : i + 1 \in DOMAIN q /\ Tail(q)[i] = q[i + 1]
        /\ Elems(Tail(q)) \subseteq Elems(q) /\ Elems(q) = Elems(Tail(q)) \cup {Head(q)}
        /\ (Tail(q) = <<>> <=> Len(q) = 1)
    BY <1>1, TailElems
  <1>3. \A X : Once(q, X) => Once(Tail(q), X) /\ (Head(q) \in X => Elems(Tail(q)) \cap X = {})
    BY <1>1, OnceTail
  <1>4. /\ Once(Tail(q), ReadCalls) /\ Once(Tail(q), IdleCalls)
        /\ \A b \in Buffers : Once(Tail(q), Handing(b))
    BY <1>1, <1>3
  <1>5. \A i \in DOMAIN Tail(q) : Tail(q)[i] \in LastCalls => i = Len(Tail(q))
    <2>1. \A i \in DOMAIN q : q[i] \in LastCalls => i = Len(q)
      BY DEF ScriptInv
    <2>2. QED BY <1>2, <2>1
  <1>6. \A i \in DOMAIN Tail(q) : Tail(q)[i] \notin Named({"reset", "insertAfter"})
    <2>1. \A i \in DOMAIN q : q[i] \in Named({"reset", "insertAfter"}) => i = 1
      BY DEF ScriptInv
    <2>2. \A i \in DOMAIN Tail(q) : i + 1 # 1
      BY <1>2
    <2>3. QED BY <1>2, <2>1, <2>2
  <1>7. m = "reader" /\ Elems(Tail(q)) \cap Named({"reset", "endError"}) # {}
           => Tail(q) \in Seq(Named({"reset", "endError", "return"}))
    <2>1. ASSUME q \in Seq(Named({"reset", "endError", "return"}))
          PROVE  Tail(q) \in Seq(Named({"reset", "endError", "return"}))
      BY <2>1, TailElems
    <2>2. QED BY <1>2, <2>1 DEF ScriptInv
  <1>8. ScriptInv(Tail(q), m)
    BY <1>2, <1>4, <1>5, <1>6, <1>7 DEF ScriptInv
  <1>9. Elems(Tail(q)) \cap Named({"reset", "insertAfter"}) = {}
    BY <1>6 DEF Elems
  <1>10. Head(q) \in LastCalls => Tail(q) = <<>>
    <2>1. Head(q) \in LastCalls => 1 = Len(q)
      BY <1>2 DEF ScriptInv
    <2>2. QED BY <1>2, <2>1
  <1>11. Elems(q) \subseteq CallsOf(m)
    BY <1>1, ElemsSeq
  <1>12. QED BY <1>1, <1>2, <1>3, <1>8, <1>9, <1>10, <1>11

LEMMA TailFits ==
    ASSUME NEW q, NEW m, NEW ch, NEW r, NEW s, Advances(q, m, ch, r, s)
    PROVE  /\ Fits(Tail(q), m, ch, s)
           /\ Asked(Tail(q)) \subseteq Asked(q)
           /\ Handed(s) \cap Buffers \subseteq Handed(r) \cup Asked(q)
  <1>0. /\ q # <<>> /\ ScriptInv(q, m) /\ Fits(q, m, ch, r)
        /\ q \in Seq(CallsOf(m))
    BY DEF Advances, ScriptInv
  <1>1. /\ Elems(Tail(q)) \subseteq Elems(q) /\ Head(q) \in Elems(q) /\ Head(q) = q[1]
        /\ Head(q) \in ReadCalls => Elems(Tail(q)) \cap ReadCalls = {}
        /\ Head(q) \in IdleCalls => Elems(Tail(q)) \cap IdleCalls = {}
        /\ \A b \in Buffers : Head(q) \in Handing(b) => Elems(Tail(q)) \cap Handing(b) = {}
    BY <1>0, TailOfScript
  <1>2. /\ 1 \in DOMAIN q /\ DOMAIN q = 1..Len(q) /\ Len(q) \in Nat \ {0}
        /\ DOMAIN Tail(q) = 1..(Len(q) - 1)
        /\ \A i \in DOMAIN Tail(q) : i + 1 \in DOMAIN q /\ Tail(q)[i] = q[i + 1]
    BY <1>0, TailElems
  <1>3. Asked(Tail(q)) \subseteq Asked(q)
    BY <1>1 DEF Asked
  <1>4. Asked(Tail(q)) \cap Handed(s) = {}
    <2>1. ASSUME NEW b \in Asked(Tail(q)), b \in Handed(s) PROVE FALSE
      <3>1. b \in Asked(q) /\ b \in Buffers /\ Elems(Tail(q)) \cap Handing(b) # {}
        BY <1>3, <2>1 DEF Asked
      <3>2. b \notin Handed(r)
        BY <1>0, <3>1 DEF Fits
      <3>3. Head(q) \in Handing(b)
        BY <2>1, <3>1, <3>2 DEF Advances
      <3>4. QED BY <1>1, <3>1, <3>3
    <2>2. QED BY <2>1
  <1>5. /\ Elems(Tail(q)) \cap ReadCalls # {} => ~Reads(s)
        /\ Elems(Tail(q)) \cap IdleCalls # {} => ~Idles(s)
    BY <1>0, <1>1 DEF Fits, Advances
  <1>6. \A i, j \in DOMAIN Tail(q) :
           i < j /\ Tail(q)[i] \in AddCalls(m, ch) => Tail(q)[j] \notin AddCalls(m, ch)
    <2> SUFFICES ASSUME NEW i \in DOMAIN Tail(q), NEW j \in DOMAIN Tail(q), i < j,
                        Tail(q)[i] \in AddCalls(m, ch), Tail(q)[j] \in AddCalls(m, ch)
                 PROVE  FALSE
      OBVIOUS
    <2>1. /\ i + 1 \in DOMAIN q /\ j + 1 \in DOMAIN q /\ i + 1 < j + 1
          /\ q[i + 1] \in AddCalls(m, ch) /\ q[j + 1] \in AddCalls(m, ch)
      BY <1>2
    <2>2. i + 1 = 1
      BY <1>0, <2>1 DEF Fits
    <2>3. QED BY <1>2, <2>2
  <1>7. \A i \in DOMAIN Tail(q) : Tail(q)[i] \in AddCalls(m, ch) => FewFronts(s.tasks, 1)
    <2> SUFFICES ASSUME NEW i \in DOMAIN Tail(q), Tail(q)[i] \in AddCalls(m, ch)
                 PROVE  FewFronts(s.tasks, 1)
      OBVIOUS
    <2>1. i + 1 \in DOMAIN q /\ q[i + 1] \in AddCalls(m, ch) /\ 1 < i + 1
      BY <1>2
    <2>2. CASE Head(q) \in AddCalls(m, ch)
      <3>1. FewFronts(r.tasks, 0)
        BY <1>0, <1>1, <1>2, <2>1, <2>2 DEF Fits
      <3>2. QED BY <2>2, <3>1 DEF Advances
    <2>3. CASE Head(q) \notin AddCalls(m, ch)
      <3>1. FewFronts(r.tasks, 1)
        BY <1>0, <2>1 DEF Fits
      <3>2. QED BY <2>3, <3>1 DEF Advances
    <2>4. QED BY <2>2, <2>3
  <1>8. Elems(Tail(q)) \cap Named({"notifyEndTask"}) # {} =>
           Tail(q)[1] \in Named({"throw"}) \/ s.has_error
    <2>1. Elems(q) \cap Named({"notifyEndTask"}) # {} => Head(q) \in Named({"throw"}) \/ r.has_error
      BY <1>0, <1>1 DEF Fits
    <2>2. QED BY <1>1, <2>1 DEF Advances
  <1>9. Fits(Tail(q), m, ch, s)
    <2>1. \A i, j \in DOMAIN Tail(q) :
             i < j /\ Tail(q)[i] \in AddCalls(m, ch) /\ Tail(q)[j] \in AddCalls(m, ch)
             => i = 1 /\ j = 2 /\ FewFronts(s.tasks, 0)
      BY <1>6
    <2>2. QED BY <1>4, <1>5, <1>7, <1>8, <2>1 DEF Fits
  <1>10. Handed(s) \cap Buffers \subseteq Handed(r) \cup Asked(q)
    BY <1>1 DEF Advances, Asked
  <1>11. QED BY <1>3, <1>9, <1>10

-----------------------------------------------------------------------------
(* A call of the running module: what all of them have in common. *)

Frame == UNCHANGED <<caller, current, reported, parser, builded, reader, pob, measured>>

\* The running module has made its first call.
CallMade ==
    /\ ChainInv /\ script # <<>> /\ script' = Tail(script) /\ Frame
    /\ TP!Consistent(rt') /\ QueueInv(rt') /\ Still(rt')
    /\ Advances(script, current, chain, rt, rt')
    /\ rt.registered => rt'.registered \/ rt'.has_error \/ InChain("error")'
    /\ InChain("error") => InChain("error")'

LEMMA RunningNow ==
    ASSUME ChainInv, script # <<>>
    PROVE  /\ caller = "running" /\ current \in Modules /\ chain \in Shapes
           /\ ScriptInv(script, current) /\ Fits(script, current, chain, rt)
           /\ TP!Consistent(rt) /\ QueueInv(rt) /\ Still(rt) /\ rt \in T!State
  BY ConsistentType DEF ChainInv, Running, Shape, Bookkeeping, Shapes

LEMMA CallFrame ==
    ASSUME CallMade
    PROVE  /\ Bookkeeping' /\ Parsing'
           /\ ScriptInv(script', current') /\ Fits(script', current', chain, rt')
           /\ Elems(script') \subseteq Elems(script) /\ Elems(script') \cap Named({"reset", "insertAfter"}) = {}
           /\ InUse' \cap Buffers \subseteq InUse
           /\ Idling' => Idling
           /\ \A b : Given(b)' => Given(b)
  <1>0. /\ caller = "running" /\ chain \in Shapes
        /\ ScriptInv(script, current) /\ Fits(script, current, chain, rt)
    BY RunningNow DEF CallMade
  <1>1. /\ ScriptInv(script', current) /\ Elems(script') \subseteq Elems(script)
        /\ Head(script) \in Elems(script) /\ Elems(script') \cap Named({"reset", "insertAfter"}) = {}
    BY <1>0, TailOfScript DEF CallMade
  <1>2. /\ Fits(script', current, chain, rt') /\ Asked(script') \subseteq Asked(script)
        /\ Handed(rt') \cap Buffers \subseteq Handed(rt) \cup Asked(script)
    BY TailFits DEF CallMade
  <1>3. InUse' \cap Buffers \subseteq InUse
    BY <1>2 DEF InUse
  <1>4. (Reading' => Reading) /\ (Idling' => Idling)
    BY <1>1 DEF Reading, Idling, CallMade, Advances
  <1>5. current' = current /\ caller' = "running" /\ reported' = reported /\ parser' = parser
    BY <1>0 DEF CallMade, Frame
  <1>6. Bookkeeping'
    <2>1. TP!Consistent(rt') /\ QueueInv(rt') /\ Still(rt')
      BY DEF CallMade
    <2>2. rt.has_error => rt'.has_error
      BY DEF CallMade, Advances
    <2>3. (reported # "NONE" => rt'.registered \/ rt'.has_error \/ InChain("error")')
      BY <2>2 DEF CallMade, ChainInv, Bookkeeping
    <2>4. QED BY <1>5, <2>1, <2>3 DEF Bookkeeping
  <1>7. Parsing'
    <2>1. Parsing /\ RequestBody \in Buffers
      BY BufferSets DEF CallMade, ChainInv
    <2>2. QED BY <1>3, <1>4, <1>5, <2>1 DEF Parsing
  <1>8. \A b : Given(b)' => Given(b)
    BY <1>1 DEF Given
  <1>9. QED BY <1>1, <1>2, <1>3, <1>4, <1>5, <1>6, <1>7, <1>8

LEMMA PageInfos ==
    ASSUME NEW b \in Pages
    PROVE  ChunkInfo(b) \in Infos /\ ChunkInfo(b) \in Buffers /\ b \in Buffers
  <1>1. ChunkInfo(b) \in Infos
    BY DEF Pages, ChunkInfo, Infos, Padding, Page
  <1>2. QED BY <1>1, BufferSets

\* Most calls leave the chain alone and plan at most one task, what was given to
\* the next module.
LEMMA CallKeeps ==
    ASSUME CallMade, TypeOK', chain' = chain, Head(script) \notin Named({"reset"}),
           \A t \in Planned(rt') \ Planned(rt) :
              /\ InChain(t.module)
              /\ t \in ResponseTasks =>
                    Given(t.buffer) /\ (t.buffer \in Pages => current = "error" /\ chain = CE)
    PROVE  ChainInv'
  <1>0. /\ Bookkeeping' /\ Parsing'
        /\ ScriptInv(script', current') /\ Fits(script', current', chain, rt')
        /\ Elems(script') \subseteq Elems(script) /\ Elems(script') \cap Named({"reset", "insertAfter"}) = {}
        /\ InUse' \cap Buffers \subseteq InUse
        /\ Idling' => Idling
        /\ \A b : Given(b)' => Given(b)
    BY CallFrame
  <1>1. /\ current' = current /\ caller' = caller /\ builded' = builded /\ reader' = reader
        /\ pob' = pob /\ measured' = measured
    BY DEF CallMade, Frame
  <1>2. \A m : InChain(m)' <=> InChain(m)
    BY DEF InChain
  <1>3. Shape'
    <2>1. \A t \in Planned(rt') : InChain(t.module)
      BY DEF CallMade, ChainInv, Shape
    <2>2. QED BY <1>1, <1>2, <2>1 DEF CallMade, ChainInv, Shape
  <1>4. Running'
    <2>0. script # <<>> /\ script' = Tail(script) /\ Running
      BY DEF CallMade, ChainInv
    <2>1. caller' = "running" /\ current' \in Modules
      BY <1>1, <2>0 DEF Running
    <2>2. InChain(current)' \/ (current' = "reader" /\ script' \in Seq(Named({"endError", "return"})))
      <3>1. script \in Seq(Named({"endError", "return"})) => script' \in Seq(Named({"endError", "return"}))
        BY <2>0, TailElems
      <3>2. InChain(current) \/ (current = "reader" /\ script \in Seq(Named({"endError", "return"})))
        BY <2>0 DEF Running
      <3>3. InChain(current)' <=> InChain(current)
        BY <1>1 DEF InChain
      <3>4. QED BY <1>1, <3>1, <3>2, <3>3
    <2>3. Elems(script') \cap Named({"reset"}) = {} /\ Elems(script') \cap Named({"insertAfter"}) = {}
      BY <1>0 DEF Named
    <2>4. Elems(script') \cap Named({"endError"}) # {} => InChain("error")'
      <3>1. script[1] = Head(script)
        BY <2>0, TailOfScript DEF Running
      <3>2. Elems(script) \cap Named({"endError"}) # {} => script[1] \in Named({"reset"}) \/ InChain("error")
        BY <2>0 DEF Running
      <3>3. QED BY <1>0, <1>2, <3>1, <3>2
    <2>5. Elems(script') \cap Named({"reset", "insertAfter"}) # {} => builded'
      BY <1>0, <1>1, <2>0 DEF Running
    <2>6. QED BY <1>0, <1>1, <2>1, <2>2, <2>3, <2>4, <2>5 DEF Running
  <1>5. Answering'
    <2>0. Answering
      BY DEF CallMade, ChainInv
    <2>1. \A b : Coming(b)' => Coming(b) \/ (Given(b) /\ (b \in Pages => current = "error" /\ chain = CE))
      BY DEF Coming
    <2>2. \A b \in Buffers : b \in InUse' => b \in InUse
      BY <1>0
    <2>3. /\ Idling' => reader'.open
          /\ reader'.open => measured'
          /\ chain' # CE => ~pob'.chunked
          /\ ~pob'.headers => Headers \notin InUse'
      BY <1>0, <1>1, <2>0, <2>2, BufferSets DEF Answering
    <2>4. \A n \in 1..FileSize : Data(n) \in InUse' => n <= FileSize - reader'.left
      <3>1. \A n \in 1..FileSize : Data(n) \in Buffers
        BY BufferSets DEF DataBuffers
      <3>2. QED BY <1>1, <2>0, <2>2, <3>1 DEF Answering
    <2>5. \A b \in DataBuffers : Coming(b)' \/ Given(b)' => chain' = CR /\ measured'
      BY <1>0, <1>1, <2>0, <2>1 DEF Answering
    <2>6. chain' = CP /\ current' = "pob" => \A b \in Buffers \ {Headers} : ~Given(b)'
      BY <1>0, <1>1, <2>0 DEF Answering
    <2>7. ASSUME NEW b \in Pages
          PROVE  /\ Coming(b)' => chain' = CE
                 /\ Coming(b)' \/ (current' = "error" /\ Given(b)') => ChunkInfo(b) \notin InUse'
      <3>1. ChunkInfo(b) \in InUse' => ChunkInfo(b) \in InUse
        BY <2>2, PageInfos
      <3>2. QED BY <1>0, <1>1, <2>0, <2>1, <3>1 DEF Answering
    <2>8. QED BY <2>3, <2>4, <2>5, <2>6, <2>7 DEF Answering
  <1>6. QED BY <1>0, <1>3, <1>4, <1>5 DEF ChainInv

-----------------------------------------------------------------------------
(* The calls one by one, first what they do to the tasks.                    *)

\* The queue of s is that of r.
LEMMA SameTasks ==
    ASSUME NEW r, NEW s, SameQueue(r, s)
    PROVE  /\ TaskBuffers(s) = TaskBuffers(r) /\ WriteBuffers(s) = WriteBuffers(r)
           /\ Handed(s) = Handed(r) /\ Planned(s) = Planned(r) /\ (Idles(s) <=> Idles(r))
           /\ Still(r) => Still(s)
           /\ Ready(r) => Ready(s)
           /\ s.wait_read = r.wait_read => (Reads(s) <=> Reads(r))
           /\ QueueInv(r) /\ (s.wait_read => r.wait_read \/ Elems(r.tasks) \cap ReadTasks = {}) => QueueInv(s)
  <1>1. TaskBuffers(s) = TaskBuffers(r) /\ WriteBuffers(s) = WriteBuffers(r)
    BY BufferElems DEF SameQueue
  <1>2. Handed(s) = Handed(r) /\ Planned(s) = Planned(r) /\ (Idles(s) <=> Idles(r))
    BY <1>1 DEF Handed, Planned, Idles, SameQueue
  <1>3. (Still(r) => Still(s)) /\ (Ready(r) => Ready(s))
    BY DEF Still, Ready, Filled, SameQueue
  <1>4. s.wait_read = r.wait_read => (Reads(s) <=> Reads(r))
    BY DEF Reads, SameQueue
  <1>5. ASSUME QueueInv(r), s.wait_read => r.wait_read \/ Elems(r.tasks) \cap ReadTasks = {}
        PROVE  QueueInv(s)
    <2>1. QueueType(s)
      BY <1>5 DEF QueueInv, QueueType, SameQueue
    <2>2. Unshared(s)
      BY <1>1, <1>5 DEF QueueInv, Unshared, SameQueue
    <2>3. OneRead(s) /\ OneIdle(s) /\ FrontsFirst(s.tasks)
      BY <1>5 DEF QueueInv, OneRead, OneIdle, SameQueue
    <2>4. QED BY <2>1, <2>2, <2>3 DEF QueueInv
  <1>6. QED BY <1>1, <1>2, <1>3, <1>4, <1>5

\* Only the end that is planned may differ.
LEMMA EndTasksOnly ==
    ASSUME NEW r, NEW s, QueueInv(r), Still(r),
           s.tasks = r.tasks, s.write_buffers = r.write_buffers,
           s.call_later_task = r.call_later_task, s.wait_read = r.wait_read,
           s.end_task \in EndTasks
    PROVE  /\ QueueInv(s) /\ Still(s) /\ Handed(s) = Handed(r)
           /\ (Reads(s) <=> Reads(r)) /\ (Idles(s) <=> Idles(r))
           /\ Planned(s) \subseteq Planned(r) \cup {s.end_task}
  <1>1. TaskBuffers(s) = TaskBuffers(r) /\ WriteBuffers(s) = WriteBuffers(r)
    BY BufferElems
  <1>2. QueueInv(s)
    <2>1. QueueType(s)
      BY DEF QueueInv, QueueType
    <2>2. Unshared(s)
      BY <1>1 DEF QueueInv, Unshared
    <2>3. OneRead(s) /\ OneIdle(s) /\ FrontsFirst(s.tasks)
      BY DEF QueueInv, OneRead, OneIdle
    <2>4. QED BY <2>1, <2>2, <2>3 DEF QueueInv
  <1>3. Still(s) /\ (Reads(s) <=> Reads(r)) /\ (Idles(s) <=> Idles(r))
    BY DEF Still, Reads, Idles
  <1>4. Handed(s) = Handed(r) /\ Planned(s) \subseteq Planned(r) \cup {s.end_task}
    BY <1>1 DEF Handed, Planned
  <1>5. QED BY <1>2, <1>3, <1>4

\* The first call: what the script promises of it.
LEMMA FirstCall ==
    ASSUME ChainInv, script # <<>>
    PROVE  /\ Head(script) \in Elems(script) /\ Head(script) \in CallsOf(current) /\ Head(script) = script[1]
           /\ \A b \in Buffers : Head(script) \in Handing(b) => b \in Asked(script) /\ b \notin Handed(rt)
           /\ Head(script) \in ReadCalls => ~Reads(rt)
           /\ Head(script) \in IdleCalls => ~Idles(rt)
           /\ Head(script) \in AddCalls(current, chain) => FewFronts(rt.tasks, 1)
           /\ Head(script) \notin Named({"endError", "return"}) => InChain(current)
           /\ rt \in T!State /\ TP!Consistent(rt) /\ QueueInv(rt) /\ Still(rt)
           /\ caller = "running" /\ current \in Modules /\ chain \in Shapes
           /\ ScriptInv(script, current) /\ Fits(script, current, chain, rt)
  <1>1. /\ caller = "running" /\ current \in Modules /\ chain \in Shapes
        /\ ScriptInv(script, current) /\ Fits(script, current, chain, rt)
        /\ TP!Consistent(rt) /\ QueueInv(rt) /\ Still(rt) /\ rt \in T!State
    BY RunningNow
  <1>2. Head(script) \in Elems(script) /\ Head(script) \in CallsOf(current) /\ Head(script) = script[1]
    BY <1>1, TailOfScript
  <1>3. \A b \in Buffers : Head(script) \in Handing(b) => b \in Asked(script) /\ b \notin Handed(rt)
    BY <1>1, <1>2 DEF Asked, Fits
  <1>4. (Head(script) \in ReadCalls => ~Reads(rt)) /\ (Head(script) \in IdleCalls => ~Idles(rt))
    BY <1>1, <1>2 DEF Fits
  <1>5. Head(script) \in AddCalls(current, chain) => FewFronts(rt.tasks, 1)
    <2>1. script \in Seq(CallsOf(current))
      BY <1>1 DEF ScriptInv
    <2>2. 1 \in DOMAIN script
      BY <2>1, TailElems
    <2>3. QED BY <1>1, <1>2, <2>2 DEF Fits
  <1>6. Head(script) \notin Named({"endError", "return"}) => InChain(current)
    <2>1. script \in Seq(Named({"endError", "return"})) => Head(script) \in Named({"endError", "return"})
      BY TailElems
    <2>2. QED BY <2>1 DEF ChainInv, Running
  <1>7. QED BY <1>1, <1>2, <1>3, <1>4, <1>5, <1>6

\* A buffer given to the next module: its task is put at the front.
LEMMA PushCall ==
    ASSUME ChainInv, script # <<>>, NEW t \in DataTasks, Head(script) = GiveData(t.buffer),
           Head(script) \in AddCalls(current, chain),
           t \in ReadTasks => Head(script) \in ReadCalls,
           rt' = T!addTask(rt, t)
    PROVE  /\ TP!Consistent(rt') /\ QueueInv(rt') /\ Still(rt')
           /\ Advances(script, current, chain, rt, rt')
           /\ Planned(rt') = Planned(rt) \cup {t}
           /\ rt.registered => rt'.registered
  <1>1. /\ \A b \in Buffers : Head(script) \in Handing(b) => b \in Asked(script) /\ b \notin Handed(rt)
        /\ Head(script) \in ReadCalls => ~Reads(rt)
        /\ FewFronts(rt.tasks, 1)
        /\ rt \in T!State /\ TP!Consistent(rt) /\ QueueInv(rt) /\ Still(rt)
        /\ ScriptInv(script, current) /\ Fits(script, current, chain, rt)
    BY FirstCall
  <1>2. t \in FrontTasks /\ t.buffer \in Buffers /\ t \in T!Task
        /\ t \notin EndTasks \cup WriteTasks
    BY TaskSets
  <1>3. Head(script) \in Handing(t.buffer)
    BY DEF Handing
  <1>4. rt'.tasks = <<t>> \o rt.tasks /\ SameWaits(rt, rt') /\ SamePlans(rt, rt')
    BY <1>1, <1>2, PushEffect
  <1>5. TP!Consistent(rt')
    BY <1>1, <1>2, KeepConsistent
  <1>6. Pushed(rt, rt', t)
    <2>1. rt'.write_buffers = rt.write_buffers /\ WriteBuffers(rt') = WriteBuffers(rt)
      BY <1>4, BufferElems DEF SamePlans
    <2>2. rt'.write_buffers \in Seq(Written) /\ \A b \in Buffers : Once(rt'.write_buffers, {b})
      BY <1>1, <2>1 DEF QueueInv, QueueType, Unshared
    <2>3. t.buffer \notin TaskBuffers(rt) \cup WriteBuffers(rt')
      BY <1>1, <1>2, <1>3, <2>1 DEF Handed
    <2>4. QED BY <1>1, <1>2, <1>4, <2>1, <2>2, <2>3 DEF Pushed, SameWaits, SamePlans
  <1>7. /\ QueueInv(rt') /\ Elems(rt'.tasks) = Elems(rt.tasks) \cup {t}
        /\ Handed(rt') \subseteq Handed(rt) \cup {t.buffer}
        /\ Planned(rt') = Planned(rt) \cup {t}
        /\ Reads(rt') => Reads(rt) \/ t \in ReadTasks
        /\ Idles(rt') => Idles(rt)
    BY <1>6, PushTask
  <1>8. (FewFronts(rt.tasks, 0) => FewFronts(rt'.tasks, 1)) /\ FewFronts(rt'.tasks, 2)
    <2>1. rt.tasks \in Seq(ChainTasks)
      BY <1>1 DEF QueueInv, QueueType
    <2>2. \A n \in Nat : FewFronts(rt.tasks, n) => FewFronts(rt'.tasks, n + 1)
      BY <1>2, <1>4, <2>1, PushFronts
    <2>3. /\ FewFronts(rt.tasks, 0) => FewFronts(rt'.tasks, 0 + 1)
          /\ FewFronts(rt.tasks, 1) => FewFronts(rt'.tasks, 1 + 1)
      BY <2>2
    <2>4. QED BY <1>1, <2>3
  <1>9. Still(rt')
    BY <1>1, <1>2, <1>7, <1>8 DEF Still
  <1>10. Advances(script, current, chain, rt, rt')
    <2>1. Handed(rt') \subseteq Handed(rt) \cup {b \in Buffers : Head(script) \in Handing(b)}
      BY <1>2, <1>3, <1>7
    <2>2. rt.has_error => rt'.has_error
      BY <1>4 DEF SameWaits
    <2>3. Head(script) \notin Named({"throw"})
      BY DEF Named, GiveData
    <2>4. QED BY <1>1, <1>7, <1>8, <2>1, <2>2, <2>3 DEF Advances
  <1>11. QED BY <1>4, <1>5, <1>7, <1>9, <1>10 DEF SameWaits

\* A buffer for the socket.
LEMMA WriteCall ==
    ASSUME ChainInv, script # <<>>, NEW b \in Written, Head(script) \in Handing(b),
           Head(script) \notin AddCalls(current, chain), rt' = T!needWrite(rt, b)
    PROVE  /\ TP!Consistent(rt') /\ QueueInv(rt') /\ Still(rt')
           /\ Advances(script, current, chain, rt, rt')
           /\ Planned(rt') = Planned(rt)
           /\ rt.registered => rt'.registered
  <1>0. b \in Buffers
    BY BufferSets
  <1>1. /\ b \notin Handed(rt)
        /\ rt \in T!State /\ TP!Consistent(rt) /\ QueueInv(rt) /\ Still(rt)
        /\ ScriptInv(script, current) /\ Fits(script, current, chain, rt)
    BY <1>0, FirstCall
  <1>2. /\ rt'.write_buffers = Append(rt.write_buffers, b) /\ rt'.tasks = rt.tasks
        /\ rt'.call_later_task = rt.call_later_task /\ rt'.end_task = rt.end_task
        /\ SameWaits(rt, rt')
    BY <1>0, <1>1, NeedWriteEffect
  <1>3. TP!Consistent(rt')
    BY <1>0, <1>1, KeepConsistent
  <1>4. /\ rt.write_buffers \in Seq(Written)
        /\ rt'.write_buffers \in Seq(Written)
        /\ Elems(rt'.write_buffers) = Elems(rt.write_buffers) \cup {b}
    BY <1>1, <1>2, AppendElems DEF QueueInv, QueueType
  <1>5. TaskBuffers(rt') = TaskBuffers(rt) /\ WriteBuffers(rt') = WriteBuffers(rt) \cup {b}
    BY <1>2, <1>4, BufferElems
  <1>6. QueueInv(rt')
    <2>1. QueueType(rt')
      BY <1>1, <1>2, <1>4 DEF QueueInv, QueueType
    <2>2. Unshared(rt')
      <3> SUFFICES ASSUME NEW c \in Buffers
                   PROVE  /\ Once(rt'.tasks, With(c)) /\ Once(rt'.write_buffers, {c})
                          /\ c \in TaskBuffers(rt') => c \notin WriteBuffers(rt')
        BY DEF Unshared
      <3>1. /\ Once(rt.tasks, With(c)) /\ Once(rt.write_buffers, {c})
            /\ c \in TaskBuffers(rt) => c \notin WriteBuffers(rt)
        BY <1>1 DEF QueueInv, Unshared
      <3>2. b \in {c} => Elems(rt.write_buffers) \cap {c} = {}
        BY <1>1, BufferElems DEF Handed
      <3>3. Once(rt'.write_buffers, {c})
        BY <1>2, <1>4, <3>1, <3>2, OnceAppend
      <3>4. QED BY <1>1, <1>2, <1>5, <3>1, <3>3 DEF Handed
    <2>3. OneRead(rt') /\ OneIdle(rt') /\ FrontsFirst(rt'.tasks)
      BY <1>1, <1>2 DEF QueueInv, OneRead, OneIdle, SameWaits
    <2>4. QED BY <2>1, <2>2, <2>3 DEF QueueInv
  <1>7. Still(rt') /\ (Reads(rt') <=> Reads(rt)) /\ (Idles(rt') <=> Idles(rt))
    BY <1>1, <1>2 DEF Still, Reads, Idles, SameWaits
  <1>8. Planned(rt') = Planned(rt) /\ Handed(rt') = Handed(rt) \cup {b}
    BY <1>2, <1>5 DEF Planned, Handed
  <1>9. Advances(script, current, chain, rt, rt')
    <2>1. Head(script) \notin Named({"throw"})
      BY DEF Named, Handing, GiveData, NeedWrite
    <2>2. QED BY <1>0, <1>1, <1>2, <1>7, <1>8, <2>1 DEF Advances, SameWaits
  <1>10. QED BY <1>2, <1>3, <1>6, <1>7, <1>8, <1>9 DEF SameWaits

LEMMA NeedReadCall ==
    ASSUME ChainInv, script # <<>>, Head(script) \in Named({"needRead"}), rt' = T!needRead(rt)
    PROVE  /\ TP!Consistent(rt') /\ QueueInv(rt') /\ Still(rt')
           /\ Advances(script, current, chain, rt, rt')
           /\ Planned(rt') = Planned(rt)
           /\ rt.registered => rt'.registered
  <1>1. /\ Head(script) \in ReadCalls => ~Reads(rt)
        /\ rt \in T!State /\ TP!Consistent(rt) /\ QueueInv(rt) /\ Still(rt)
        /\ ScriptInv(script, current) /\ Fits(script, current, chain, rt)
    BY FirstCall
  <1>2. Head(script) \in ReadCalls /\ ~Reads(rt)
    BY <1>1 DEF ReadCalls
  <1>3. /\ SameQueue(rt, rt') /\ rt'.wait_read = TRUE /\ rt'.has_error = rt.has_error
        /\ rt.registered => rt'.registered
    BY <1>1, NeedReadEffect
  <1>4. Elems(rt.tasks) \cap ReadTasks = {}
    BY <1>2 DEF Reads
  <1>5. /\ Handed(rt') = Handed(rt) /\ Planned(rt') = Planned(rt) /\ (Idles(rt') <=> Idles(rt))
        /\ Still(rt') /\ QueueInv(rt')
    BY <1>1, <1>3, <1>4, SameTasks
  <1>6. Head(script) \notin AddCalls(current, chain) \cup Named({"throw"})
    BY DEF AddCalls, Gives, Named
  <1>7. Advances(script, current, chain, rt, rt')
    BY <1>1, <1>2, <1>3, <1>5, <1>6 DEF Advances, SameQueue
  <1>8. TP!Consistent(rt')
    BY <1>1, KeepConsistent
  <1>9. QED BY <1>3, <1>5, <1>7, <1>8

LEMMA CallLaterCall ==
    ASSUME ChainInv, script # <<>>, Head(script) \in Named({"callLater"}), current = "reader",
           NEW d \in BOOLEAN, rt' = T!addCallLaterTask(rt, current, d)
    PROVE  /\ TP!Consistent(rt') /\ QueueInv(rt') /\ Still(rt')
           /\ Advances(script, current, chain, rt, rt')
           /\ Planned(rt') \subseteq Planned(rt) \cup IdleTasks
           /\ rt.registered => rt'.registered
  <1> DEFINE t == T!ModuleTask("ON_IDLE", "reader", NoBuffer)
  <1>1. /\ Head(script) \in IdleCalls => ~Idles(rt)
        /\ rt \in T!State /\ TP!Consistent(rt) /\ QueueInv(rt) /\ Still(rt)
        /\ ScriptInv(script, current) /\ Fits(script, current, chain, rt)
    BY FirstCall
  <1>2. Head(script) \in IdleCalls /\ ~Idles(rt)
    BY <1>1 DEF IdleCalls
  <1>3. rt.call_later_task = NoTask /\ Elems(rt.tasks) \cap IdleTasks = {}
    BY <1>2 DEF Idles
  <1>4. /\ rt'.write_buffers = rt.write_buffers /\ rt'.end_task = rt.end_task /\ SameWaits(rt, rt')
        /\ \/ rt'.tasks = rt.tasks /\ rt'.call_later_task = t
           \/ rt'.tasks = Append(rt.tasks, t) /\ rt'.call_later_task = NoTask
    BY <1>1, <1>3, CallLaterEffect
  <1>5. t \in IdleTasks
    BY DEF IdleTasks, Tasks, T!ModuleTask
  <1>6. t # CanRead /\ t \notin EndTasks /\ t \notin WriteTasks
    BY <1>5, TaskSets
  <1> HIDE DEF t
  <1>7. TP!Consistent(rt')
    BY <1>1, KeepConsistent DEF Modules, Processing
  <1>8. /\ QueueInv(rt') /\ Still(rt') /\ Handed(rt') = Handed(rt)
        /\ Planned(rt') \subseteq Planned(rt) \cup {t}
        /\ (Reads(rt') => Reads(rt))
        /\ \A n \in 0..1 : FewFronts(rt.tasks, n) => FewFronts(rt'.tasks, n)
    <2>1. CASE rt'.tasks = rt.tasks /\ rt'.call_later_task = t
      <3>1. TaskBuffers(rt') = TaskBuffers(rt) /\ WriteBuffers(rt') = WriteBuffers(rt)
        BY <1>4, <2>1, BufferElems
      <3>2. QueueType(rt')
        BY <1>1, <1>4, <1>5, <2>1 DEF QueueInv, QueueType
      <3>3. Unshared(rt')
        BY <1>1, <1>4, <2>1, <3>1 DEF QueueInv, Unshared
      <3>4. OneRead(rt') /\ OneIdle(rt') /\ FrontsFirst(rt'.tasks)
        BY <1>1, <1>3, <1>4, <2>1 DEF QueueInv, OneRead, OneIdle, SameWaits
      <3>5. Still(rt') /\ (Reads(rt') => Reads(rt))
        BY <1>1, <1>4, <2>1 DEF Still, Reads, SameWaits
      <3>6. Handed(rt') = Handed(rt) /\ Planned(rt') \subseteq Planned(rt) \cup {t}
        BY <1>4, <2>1, <3>1 DEF Handed, Planned
      <3>7. QED BY <2>1, <3>2, <3>3, <3>4, <3>5, <3>6 DEF QueueInv
    <2>2. CASE rt'.tasks = Append(rt.tasks, t) /\ rt'.call_later_task = NoTask
      <3>1. /\ QueueInv(rt') /\ Elems(rt'.tasks) = Elems(rt.tasks) \cup {t}
            /\ Handed(rt') = Handed(rt) /\ Planned(rt') \subseteq Planned(rt) \cup {t}
            /\ Reads(rt') => Reads(rt) \/ t = CanRead
            /\ \A n \in Nat : FewFronts(rt.tasks, n) => FewFronts(rt'.tasks, n)
        <4>1. rt'.wait_read = rt.wait_read
          BY <1>4 DEF SameWaits
        <4>2. QED BY <1>1, <1>3, <1>4, <1>5, <1>6, <2>2, <4>1, AppendTask
      <3>2. Still(rt')
        BY <1>1, <1>6, <3>1 DEF Still
      <3>3. \A n \in 0..1 : n \in Nat
        OBVIOUS
      <3>4. QED BY <1>6, <3>1, <3>2, <3>3
    <2>3. QED BY <1>4, <2>1, <2>2
  <1>9. Head(script) \notin AddCalls(current, chain) \cup Named({"throw"})
    BY DEF AddCalls, Gives, Named
  <1>10. Advances(script, current, chain, rt, rt')
    BY <1>1, <1>2, <1>4, <1>8, <1>9 DEF Advances, SameWaits
  <1>11. QED BY <1>4, <1>5, <1>7, <1>8, <1>10 DEF SameWaits

LEMMA EndCall ==
    ASSUME ChainInv, script # <<>>, Head(script) \in Named({"raiseEnd", "endInput", "endError"}),
           NEW m \in Modules, rt' = T!addEndTask(rt, m)
    PROVE  /\ TP!Consistent(rt') /\ QueueInv(rt') /\ Still(rt')
           /\ Advances(script, current, chain, rt, rt')
           /\ Planned(rt') \subseteq Planned(rt) \cup {T!ModuleTask("ON_END", m, NoBuffer)}
           /\ rt.registered => rt'.registered
  <1>1. /\ rt \in T!State /\ TP!Consistent(rt) /\ QueueInv(rt) /\ Still(rt)
        /\ ScriptInv(script, current) /\ Fits(script, current, chain, rt)
    BY FirstCall
  <1>2. /\ rt'.end_task = T!ModuleTask("ON_END", m, NoBuffer)
        /\ rt'.tasks = rt.tasks /\ rt'.write_buffers = rt.write_buffers
        /\ rt'.call_later_task = rt.call_later_task /\ SameWaits(rt, rt')
    BY <1>1, EndTaskEffect
  <1>3. T!ModuleTask("ON_END", m, NoBuffer) \in EndTasks
    BY DEF EndTasks, Tasks, T!ModuleTask
  <1>4. /\ QueueInv(rt') /\ Still(rt') /\ Handed(rt') = Handed(rt)
        /\ (Reads(rt') <=> Reads(rt)) /\ (Idles(rt') <=> Idles(rt))
        /\ Planned(rt') \subseteq Planned(rt) \cup {rt'.end_task}
    <2>1. rt'.wait_read = rt.wait_read /\ rt'.end_task \in EndTasks
      BY <1>2, <1>3 DEF SameWaits
    <2>2. QED BY <1>1, <1>2, <2>1, EndTasksOnly
  <1>5. Head(script) \notin AddCalls(current, chain) \cup Named({"throw"})
    BY DEF AddCalls, Gives, Named
  <1>6. Advances(script, current, chain, rt, rt')
    BY <1>1, <1>2, <1>4, <1>5 DEF Advances, SameWaits
  <1>7. TP!Consistent(rt')
    BY <1>1, KeepConsistent
  <1>8. QED BY <1>2, <1>4, <1>6, <1>7 DEF SameWaits

\* A call that leaves the tasks alone.
LEMMA OtherCall ==
    ASSUME ChainInv, script # <<>>, Head(script) \in Releasing \cup Named({"insertAfter", "raiseEnd"}),
           rt' = rt
    PROVE  /\ TP!Consistent(rt') /\ QueueInv(rt') /\ Still(rt')
           /\ Advances(script, current, chain, rt, rt')
           /\ Planned(rt') = Planned(rt)
           /\ rt.registered => rt'.registered
  <1>1. /\ rt \in T!State /\ TP!Consistent(rt) /\ QueueInv(rt) /\ Still(rt)
        /\ ScriptInv(script, current) /\ Fits(script, current, chain, rt)
    BY FirstCall
  <1>2. Head(script) \notin AddCalls(current, chain) \cup Named({"throw"})
    BY DEF AddCalls, Gives, Named, Releasing
  <1>3. QED BY <1>1, <1>2 DEF Advances

LEMMA ThrowCall ==
    ASSUME ChainInv, script # <<>>, Head(script) \in Named({"throw"}), rt' = T!notifyHasError(rt)
    PROVE  /\ TP!Consistent(rt') /\ QueueInv(rt') /\ Still(rt')
           /\ Advances(script, current, chain, rt, rt')
           /\ Planned(rt') = Planned(rt)
           /\ rt.registered => rt'.has_error
  <1>1. /\ rt \in T!State /\ TP!Consistent(rt) /\ QueueInv(rt) /\ Still(rt)
        /\ ScriptInv(script, current) /\ Fits(script, current, chain, rt)
    BY FirstCall
  <1>2. SameQueue(rt, rt') /\ rt'.wait_read = rt.wait_read /\ rt'.has_error = TRUE
    BY <1>1, ErrorEffect
  <1>3. /\ Handed(rt') = Handed(rt) /\ Planned(rt') = Planned(rt) /\ (Idles(rt') <=> Idles(rt))
        /\ Still(rt') /\ QueueInv(rt') /\ (Reads(rt') <=> Reads(rt))
    BY <1>1, <1>2, SameTasks
  <1>4. Head(script) \notin AddCalls(current, chain)
    BY DEF AddCalls, Gives, Named
  <1>5. Advances(script, current, chain, rt, rt')
    BY <1>1, <1>2, <1>3, <1>4 DEF Advances, SameQueue
  <1>6. TP!Consistent(rt')
    BY <1>1, KeepConsistent
  <1>7. QED BY <1>2, <1>3, <1>5, <1>6

LEMMA ResetCall ==
    ASSUME ChainInv, script # <<>>, Head(script) \in Named({"reset"}), rt' = T!reset(rt)
    PROVE  /\ TP!Consistent(rt') /\ QueueInv(rt') /\ Still(rt')
           /\ Advances(script, current, chain, rt, rt')
           /\ Planned(rt') = {}
  <1>1. /\ rt \in T!State /\ TP!Consistent(rt) /\ QueueInv(rt) /\ Still(rt)
        /\ ScriptInv(script, current) /\ Fits(script, current, chain, rt)
    BY FirstCall
  <1>2. /\ rt'.tasks = <<>> /\ rt'.call_later_task = NoTask /\ rt'.end_task = NoTask
        /\ rt'.write_buffers = rt.write_buffers /\ rt'.wait_read = FALSE
        /\ rt'.has_error = rt.has_error
    BY <1>1, ResetEffect
  <1>3. DOMAIN rt'.tasks = {} /\ Elems(rt'.tasks) = {} /\ rt'.tasks \in Seq(ChainTasks)
    <2>1. <<>> \in Seq(ChainTasks)
      OBVIOUS
    <2>2. DOMAIN <<>> = 1..Len(<<>>) /\ Len(<<>>) = 0 /\ 1..0 = {}
      OBVIOUS
    <2>3. QED BY <1>2, <2>1, <2>2, ElemsSeq
  <1>4. TaskBuffers(rt') = {} /\ WriteBuffers(rt') = WriteBuffers(rt)
    BY <1>2, <1>3, BufferElems
  <1>5. QueueInv(rt')
    <2>1. QueueType(rt')
      BY <1>1, <1>2, <1>3 DEF QueueInv, QueueType
    <2>2. Unshared(rt')
      BY <1>1, <1>2, <1>3, <1>4 DEF QueueInv, Unshared, Once
    <2>3. OneRead(rt') /\ OneIdle(rt') /\ FrontsFirst(rt'.tasks)
      BY <1>2, <1>3 DEF OneRead, OneIdle, FrontsFirst, Once
    <2>4. QED BY <2>1, <2>2, <2>3 DEF QueueInv
  <1>6. Still(rt') /\ ~Reads(rt') /\ ~Idles(rt') /\ Planned(rt') = {}
        /\ \A n \in 0..1 : FewFronts(rt'.tasks, n)
    BY <1>2, <1>3 DEF Still, FewFronts, Reads, Idles, Planned
  <1>7. Handed(rt') \subseteq Handed(rt)
    BY <1>4 DEF Handed
  <1>8. Head(script) \notin AddCalls(current, chain) \cup Named({"throw"})
    BY DEF AddCalls, Gives, Named
  <1>9. Advances(script, current, chain, rt, rt')
    BY <1>1, <1>2, <1>6, <1>7, <1>8 DEF Advances
  <1>10. TP!Consistent(rt')
    BY <1>1, KeepConsistent
  <1>11. QED BY <1>5, <1>6, <1>9, <1>10

-----------------------------------------------------------------------------
(* The calls one by one: each keeps the invariant.                           *)

LEMMA ShapeTypes ==
    ASSUME NEW c \in Shapes
    PROVE  c \in Seq(Modules)
  <1>1. C0 \in Seq(Modules) /\ CR \in Seq(Modules) /\ CE \in Seq(Modules) /\ CP \in Seq(Modules)
    BY DEF C0, CR, CE, CP, Modules, Processing
  <1>2. QED BY <1>1 DEF Shapes

LEMMA CallType ==
    ASSUME ChainInv, Unrelated, caller' = caller, current' = current, TP!Consistent(rt'),
           chain' \in Shapes, live' \subseteq Buffers, freed' \subseteq Buffers
    PROVE  TypeOK'
  <1>1. TypeOK
    BY DEF ChainInv
  <1>2. rt' \in T!State
    BY ConsistentType
  <1>3. chain' \in Seq(Modules)
    BY ShapeTypes
  <1>4. QED BY <1>1, <1>2, <1>3 DEF TypeOK, Unrelated

\* A call that keeps the chain and the sets of buffers.
LEMMA PlainCall ==
    ASSUME ChainInv, script # <<>>, script' = Tail(script), Unrelated,
           UNCHANGED <<caller, chain, current, live, freed>>,
           TP!Consistent(rt'), QueueInv(rt'), Still(rt'),
           Advances(script, current, chain, rt, rt'),
           rt.registered => rt'.registered \/ rt'.has_error,
           Head(script) \notin Named({"reset"}),
           \A t \in Planned(rt') \ Planned(rt) :
              /\ InChain(t.module)
              /\ t \in ResponseTasks =>
                    Given(t.buffer) /\ (t.buffer \in Pages => current = "error" /\ chain = CE)
    PROVE  ChainInv'
  <1>1. chain \in Shapes
    BY RunningNow
  <1>2. live \subseteq Buffers /\ freed \subseteq Buffers
    BY DEF ChainInv, TypeOK
  <1>3. TypeOK'
    BY <1>1, <1>2, CallType
  <1>4. Frame
    BY DEF Frame, Unrelated
  <1>5. InChain("error") => InChain("error")'
    BY DEF InChain
  <1>6. CallMade
    BY <1>4, <1>5 DEF CallMade
  <1>7. QED BY <1>3, <1>6, CallKeeps

\* Who gives what.
LEMMA WhoGives ==
    ASSUME NEW m \in Modules, NEW c \in CallsOf(m), c[1] = "giveData"
    PROVE  /\ c = GiveData(c[2]) /\ c[2] \in Buffers /\ c \in Gives(Buffers)
           /\ \/ m = "in" /\ c[2] \in HeaderPieces
              \/ m \in {"parser", "builder"} /\ c[2] = RequestBody
              \/ m = "reader" /\ c[2] \in DataBuffers
              \/ m = "error" /\ c[2] \in Pages
              \/ m = "pob" /\ c[2] \in Written
  <1> USE DEF GiveData, Gives, Named, Releasing
  <1>0. /\ HeaderPieces \subseteq Buffers /\ RequestBody \in Buffers /\ DataBuffers \subseteq Buffers
        /\ Pages \subseteq Buffers /\ Written \subseteq Buffers
    BY BufferSets
  <1>1. CASE m = "in"
    <2>1. c \in Gives(HeaderPieces)
      BY <1>1 DEF CallsOf
    <2>2. QED BY <1>0, <1>1, <2>1
  <1>2. CASE m = "parser"
    <2>1. c \in Gives({RequestBody})
      BY <1>2 DEF CallsOf
    <2>2. QED BY <1>0, <1>2, <2>1
  <1>3. CASE m = "builder"
    <2>1. c \in Gives({RequestBody})
      BY <1>3 DEF CallsOf
    <2>2. QED BY <1>0, <1>3, <2>1
  <1>4. CASE m = "reader"
    <2>1. c \in Gives(DataBuffers)
      BY <1>4 DEF CallsOf
    <2>2. QED BY <1>0, <1>4, <2>1
  <1>5. CASE m = "error"
    <2>1. c \in Gives(Pages)
      BY <1>5 DEF CallsOf
    <2>2. QED BY <1>0, <1>5, <2>1
  <1>6. CASE m = "pob"
    <2>1. c \in Gives(Written)
      BY <1>6 DEF CallsOf
    <2>2. QED BY <1>0, <1>6, <2>1
  <1>7. CASE m = "out"
    <2>1. FALSE
      BY <1>7 DEF CallsOf
    <2>2. QED BY <2>1
  <1>8. QED BY <1>1, <1>2, <1>3, <1>4, <1>5, <1>6, <1>7 DEF Modules, Processing

Gift == T!ModuleTask(IF isInResponsePart(current) THEN "ON_RESPONSE_DATA" ELSE "ON_REQUEST_DATA",
                     Following(current), Arg)

\* What becomes of a buffer given to the next module.
LEMMA WhereGivenGoes ==
    ASSUME ChainInv, script # <<>>, Call = "giveData"
    PROVE  /\ Head(script) = GiveData(Arg)
           /\ \/ /\ Following(Following(current)) = NoModule
                 /\ Arg \in Written /\ Head(script) \notin AddCalls(current, chain)
              \/ /\ Following(Following(current)) # NoModule
                 /\ Gift \in DataTasks /\ Gift.buffer = Arg /\ InChain(Gift.module)
                 /\ Head(script) \in AddCalls(current, chain)
                 /\ Gift \in ReadTasks => Head(script) \in ReadCalls
                 /\ Gift \in ResponseTasks /\ Arg \in Pages => current = "error" /\ chain = CE
  <1> DEFINE c == Head(script)
  <1>1. c \in CallsOf(current) /\ current \in Modules /\ chain \in Shapes /\ c \in Elems(script)
    BY FirstCall
  <1>2. c[1] = "giveData" /\ c[2] = Arg
    BY DEF Call, Arg
  <1>3. InChain(current)
    <2>1. c \notin Named({"endError", "return"})
      BY <1>2 DEF Named
    <2>2. QED BY <2>1, FirstCall
  <1> HIDE DEF c
  <1>4. /\ c = GiveData(Arg) /\ c \in Gives(Buffers)
        /\ \/ current = "in" /\ Arg \in HeaderPieces
           \/ current \in {"parser", "builder"} /\ Arg = RequestBody
           \/ current = "reader" /\ Arg \in DataBuffers
           \/ current = "error" /\ Arg \in Pages
           \/ current = "pob" /\ Arg \in Written
    BY <1>1, <1>2, WhoGives
  <1>5. /\ Gift.buffer = Arg /\ Gift.module = Following(current)
        /\ Gift.event = IF isInResponsePart(current) THEN "ON_RESPONSE_DATA" ELSE "ON_REQUEST_DATA"
        /\ Gift = [event |-> Gift.event, module |-> Gift.module, buffer |-> Gift.buffer]
    BY DEF Gift, T!ModuleTask
  <1>6. /\ \A m \in {"in", "parser", "builder", "pob", "out"} : InChain(m)
        /\ InChain("reader") <=> chain = CR
        /\ InChain("error") <=> chain \in {CE, CP}
    BY <1>1, Members
  <1>7. CE # CP /\ CR # CP /\ CR # CE /\ C0 # CP /\ C0 # CE /\ C0 # CR
    BY ShapesAre
  <1>8. CASE current = "in"
    <2>1. Gift \in PieceTasks /\ Following(Following(current)) # NoModule /\ InChain(Gift.module)
      <3>1. Following("in") = "parser" /\ Following("parser") = "builder" /\ "builder" # NoModule
        BY <1>1, ChainNext DEF Modules
      <3>2. Arg \in HeaderPieces /\ ~isInResponsePart(current)
        BY <1>1, <1>4, <1>8, ResponsePart
      <3>3. QED BY <1>5, <1>6, <1>8, <3>1, <3>2 DEF PieceTasks, Tasks
    <2>2. c \in ReadCalls /\ c \in AddCalls(current, chain)
      <3>1. Arg \in HeaderPieces
        BY <1>4, <1>8
      <3>2. c \in ReadCalls
        BY <1>4, <3>1 DEF ReadCalls, GiveData, Gives
      <3>3. QED BY <1>4, <1>8, <3>2 DEF AddCalls
    <2>3. Gift \notin ResponseTasks /\ Gift \in DataTasks
      BY <2>1, TaskSets DEF DataTasks, ReadTasks
    <2>4. QED BY <1>4, <1>5, <2>1, <2>2, <2>3 DEF c
  <1>9. CASE current \in {"parser", "builder"}
    <2>1. Gift \in BodyTasks /\ Following(Following(current)) # NoModule /\ InChain(Gift.module)
      <3>1. /\ Following("parser") = "builder"
            /\ Following("builder") = IF chain = CR THEN "reader" ELSE IF chain = CE THEN "error" ELSE "pob"
            /\ chain = CR => Following("reader") = "pob"
            /\ Following("pob") = IF chain = CP THEN "error" ELSE "out"
            /\ chain = CE => Following("error") = "pob"
            /\ \A m \in Modules : m # NoModule
        BY <1>1, ChainNext
      <3>2. Arg = RequestBody /\ ~isInResponsePart(current)
        BY <1>1, <1>4, <1>9, ResponsePart
      <3>3. Gift.module \in {"builder", "reader", "pob", "error"} /\ InChain(Gift.module)
        BY <1>5, <1>6, <1>9, <3>1
      <3>4. Gift \in BodyTasks
        BY <1>5, <3>2, <3>3 DEF BodyTasks, Tasks
      <3>5. Following(Following(current)) \in Modules
        BY <1>9, <3>1 DEF Modules, Processing
      <3>6. QED BY <3>1, <3>3, <3>4, <3>5
    <2>2. c \in AddCalls(current, chain)
      BY <1>4, <1>9 DEF AddCalls
    <2>3. Gift \notin ResponseTasks /\ Gift \in DataTasks
      BY <2>1 DEF DataTasks, BodyTasks, ResponseTasks, Tasks
    <2>4. Gift \notin ReadTasks
      BY <2>1, BufferSets DEF BodyTasks, ReadTasks, PieceTasks, CanRead, Tasks, T!ModuleTask
    <2>5. QED BY <1>4, <1>5, <2>1, <2>2, <2>3, <2>4 DEF c
  <1>10. CASE current = "reader"
    <2>0. chain = CR
      BY <1>3, <1>6, <1>10
    <2>1. Gift \in ResponseTasks /\ Following(Following(current)) # NoModule /\ InChain(Gift.module)
      <3>1. Following("reader") = "pob" /\ Following("pob") = "out" /\ "out" # NoModule
        BY <1>1, <1>7, <2>0, ChainNext DEF Modules
      <3>2. Arg \in DataBuffers /\ isInResponsePart(current)
        BY <1>1, <1>4, <1>10, <2>0, ResponsePart
      <3>3. QED BY <1>5, <1>6, <1>10, <3>1, <3>2 DEF ResponseTasks, Tasks
    <2>2. c \in AddCalls(current, chain)
      BY <1>4, <1>10 DEF AddCalls
    <2>3. Gift \in DataTasks /\ Gift \notin ReadTasks
      BY <2>1, TaskSets DEF DataTasks
    <2>4. Arg \notin Pages
      BY <1>4, <1>10, BufferSets
    <2>5. QED BY <1>4, <1>5, <2>1, <2>2, <2>3, <2>4 DEF c
  <1>11. CASE current = "error" /\ chain = CE
    <2>1. Gift \in ResponseTasks /\ Following(Following(current)) # NoModule /\ InChain(Gift.module)
      <3>1. Following("error") = "pob" /\ Following("pob") = "out" /\ "out" # NoModule
        BY <1>1, <1>7, <1>11, ChainNext DEF Modules
      <3>2. Arg \in Pages /\ isInResponsePart(current)
        BY <1>1, <1>4, <1>11, ResponsePart
      <3>3. QED BY <1>5, <1>6, <1>11, <3>1, <3>2 DEF ResponseTasks, Tasks
    <2>2. c \in AddCalls(current, chain)
      BY <1>4, <1>7, <1>11 DEF AddCalls
    <2>3. Gift \in DataTasks /\ Gift \notin ReadTasks
      BY <2>1, TaskSets DEF DataTasks
    <2>4. QED BY <1>4, <1>5, <1>11, <2>1, <2>2, <2>3 DEF c
  <1>12. CASE current = "error" /\ chain = CP
    <2>1. Following(Following(current)) = NoModule
      <3>1. Following("error") = "out" /\ Following("out") = NoModule
        BY <1>1, <1>12, ChainNext
      <3>2. QED BY <1>12, <3>1
    <2>2. c \notin AddCalls(current, chain) /\ Arg \in Written
      BY <1>4, <1>12, BufferSets DEF AddCalls
    <2>3. QED BY <1>4, <2>1, <2>2 DEF c
  <1>13. CASE current = "pob" /\ chain # CP
    <2>1. Following(Following(current)) = NoModule
      <3>1. Following("pob") = "out" /\ Following("out") = NoModule
        BY <1>1, <1>13, ChainNext
      <3>2. QED BY <1>13, <3>1
    <2>2. c \notin AddCalls(current, chain) /\ Arg \in Written
      BY <1>4, <1>13 DEF AddCalls
    <2>3. QED BY <1>4, <2>1, <2>2 DEF c
  <1>14. CASE current = "pob" /\ chain = CP
    <2>1. Following("pob") = "error" /\ Following("error") = "out" /\ "out" # NoModule
      BY <1>1, <1>14, ChainNext DEF Modules
    <2>2. Arg = Headers
      <3>1. Given(Arg) /\ Arg \in Buffers
        BY <1>1, <1>4, <1>14, BufferSets DEF Given, c
      <3>2. QED BY <1>14, <3>1 DEF ChainInv, Answering
    <2>3. Gift \in HeadersTasks
      <3>1. ~isInResponsePart(current)
        BY <1>1, <1>14, ResponsePart
      <3>2. QED BY <1>5, <1>14, <2>1, <2>2, <3>1 DEF HeadersTasks, Tasks
    <2>4. Gift \in DataTasks /\ Gift \notin ResponseTasks /\ Gift \notin ReadTasks
      BY <2>3, BufferSets DEF DataTasks, HeadersTasks, ResponseTasks, ReadTasks, PieceTasks, CanRead, Tasks,
         T!ModuleTask
    <2>5. c \in AddCalls(current, chain)
      BY <1>4, <1>14 DEF AddCalls
    <2>6. Following(Following(current)) # NoModule /\ InChain(Gift.module)
      BY <1>5, <1>6, <1>14, <2>1
    <2>7. QED BY <1>4, <1>5, <2>4, <2>5, <2>6 DEF c
  <1>15. QED
    BY <1>3, <1>4, <1>6, <1>8, <1>9, <1>10, <1>11, <1>12, <1>13, <1>14

LEMMA GiveDataStep ==
    ASSUME ChainInv, giveData
    PROVE  ChainInv'
  <1>1. /\ script # <<>> /\ Call = "giveData" /\ script' = Tail(script) /\ caller = "running"
        /\ Unrelated /\ UNCHANGED <<caller, chain, current, live, freed>>
    BY DEF giveData, Calls
  <1>2. Head(script) = GiveData(Arg)
    BY <1>1, WhereGivenGoes
  <1>3. Head(script) \notin Named({"reset"}) /\ Head(script) \in Elems(script)
    BY <1>1, <1>2, FirstCall DEF Named, GiveData
  <1>4. CASE Following(Following(current)) = NoModule
    <2>1. Arg \in Written /\ Head(script) \notin AddCalls(current, chain)
      BY <1>1, <1>4, WhereGivenGoes
    <2>2. rt' = T!needWrite(rt, Arg)
      BY <1>4 DEF giveData
    <2>3. Head(script) \in Handing(Arg)
      BY <1>2 DEF Handing
    <2>4. /\ TP!Consistent(rt') /\ QueueInv(rt') /\ Still(rt')
          /\ Advances(script, current, chain, rt, rt')
          /\ Planned(rt') = Planned(rt)
          /\ rt.registered => rt'.registered
      BY <1>1, <2>1, <2>2, <2>3, WriteCall
    <2>5. QED BY <1>1, <1>3, <2>4, PlainCall
  <1>5. CASE Following(Following(current)) # NoModule
    <2>1. /\ Gift \in DataTasks /\ Gift.buffer = Arg /\ InChain(Gift.module)
          /\ Head(script) \in AddCalls(current, chain)
          /\ Gift \in ReadTasks => Head(script) \in ReadCalls
          /\ Gift \in ResponseTasks /\ Arg \in Pages => current = "error" /\ chain = CE
      BY <1>1, <1>5, WhereGivenGoes
    <2>2. rt' = T!addTask(rt, Gift)
      BY <1>5 DEF giveData, Gift
    <2>3. /\ TP!Consistent(rt') /\ QueueInv(rt') /\ Still(rt')
          /\ Advances(script, current, chain, rt, rt')
          /\ Planned(rt') = Planned(rt) \cup {Gift}
          /\ rt.registered => rt'.registered
      BY <1>1, <1>2, <2>1, <2>2, PushCall
    <2>4. Given(Arg)
      BY <1>2, <1>3 DEF Given
    <2>5. \A t \in Planned(rt') \ Planned(rt) :
              /\ InChain(t.module)
              /\ t \in ResponseTasks =>
                    Given(t.buffer) /\ (t.buffer \in Pages => current = "error" /\ chain = CE)
      BY <2>1, <2>3, <2>4
    <2>6. QED BY <1>1, <1>3, <2>3, <2>5, PlainCall
  <1>6. QED BY <1>4, <1>5

\* The argument of a call, by the name of the call.
LEMMA CallKinds ==
    ASSUME NEW m \in Modules, NEW c \in CallsOf(m)
    PROVE  /\ c[2] \in Buffers \cup {NoBuffer} /\ c = <<c[1], c[2]>>
           /\ \A n \in {"needRead", "callLater", "raiseEnd", "reset", "endError", "insertAfter",
                        "endInput", "return", "throw", "notifyEndTask"} : c[1] = n => c \in Named({n})
           /\ c[1] = "needWrite" => c[2] \in Written
           /\ c[1] = "release" => c \in Releasing /\ c[2] \in Buffers
           /\ c[1] = "callLater" => m = "reader"
           /\ c[1] \in {"reset", "endError"} => m \in {"builder", "reader"}
           /\ c[1] = "insertAfter" => m = "builder"
  <1> USE DEF Gives, Named, Releasing
  <1>0. /\ HeaderPieces \subseteq Buffers /\ RequestBody \in Buffers /\ DataBuffers \subseteq Buffers
        /\ Pages \subseteq Buffers /\ Written \subseteq Buffers
    BY BufferSets
  <1>1. CASE m = "in"
    <2>1. c \in Gives(HeaderPieces) \cup Named({"throw", "notifyEndTask", "raiseEnd", "return"})
      BY <1>1 DEF CallsOf
    <2>2. QED BY <1>0, <1>1, <2>1
  <1>2. CASE m = "out"
    <2>1. c \in ({"needWrite"} \X Written) \cup Releasing
                  \cup Named({"throw", "notifyEndTask", "raiseEnd", "return"})
      BY <1>2 DEF CallsOf
    <2>2. QED BY <1>0, <1>2, <2>1
  <1>3. CASE m = "parser"
    <2>1. c \in Gives({RequestBody}) \cup Releasing \cup Named({"needRead", "raiseEnd", "return"})
      BY <1>3 DEF CallsOf
    <2>2. QED BY <1>0, <1>3, <2>1
  <1>4. CASE m = "builder"
    <2>1. c \in Gives({RequestBody}) \cup Releasing
                  \cup Named({"reset", "endError", "insertAfter", "raiseEnd", "return"})
      BY <1>4 DEF CallsOf
    <2>2. QED BY <1>0, <1>4, <2>1
  <1>5. CASE m = "reader"
    <2>1. c \in Gives(DataBuffers) \cup Releasing
                  \cup Named({"reset", "endError", "callLater", "raiseEnd", "endInput", "return"})
      BY <1>5 DEF CallsOf
    <2>2. QED BY <1>0, <1>5, <2>1
  <1>6. CASE m = "error"
    <2>1. c \in Gives(Pages) \cup Releasing \cup Named({"raiseEnd", "return"})
      BY <1>6 DEF CallsOf
    <2>2. QED BY <1>0, <1>6, <2>1
  <1>7. CASE m = "pob"
    <2>1. c \in Gives(Written) \cup Releasing \cup Named({"raiseEnd", "endInput", "return"})
      BY <1>7 DEF CallsOf
    <2>2. QED BY <1>0, <1>7, <2>1
  <1>8. QED BY <1>1, <1>2, <1>3, <1>4, <1>5, <1>6, <1>7 DEF Modules, Processing

\* The first call, by its name.
LEMMA CallNamed ==
    ASSUME ChainInv, script # <<>>
    PROVE  /\ Head(script) = <<Call, Arg>> /\ Arg \in Buffers \cup {NoBuffer}
           /\ \A n \in {"needRead", "callLater", "raiseEnd", "reset", "endError", "insertAfter",
                        "endInput", "return", "throw", "notifyEndTask"} : Call = n => Head(script) \in Named({n})
           /\ Call = "needWrite" => Arg \in Written
           /\ Call = "release" => Head(script) \in Releasing /\ Arg \in Buffers
           /\ Call = "callLater" => current = "reader"
           /\ Call \in {"reset", "endError"} => current \in {"builder", "reader"}
           /\ Call = "insertAfter" => current = "builder"
           /\ Call \notin {"endError", "return"} => InChain(current)
           /\ Call # "reset" => Head(script) \notin Named({"reset"})
           /\ current \in Modules /\ chain \in Shapes /\ caller = "running"
           /\ Head(script) \in Elems(script) /\ Head(script) = script[1]
  <1>1. Head(script) \in CallsOf(current) /\ current \in Modules
    BY FirstCall
  <1>2. Head(script)[1] = Call /\ Head(script)[2] = Arg
    BY DEF Call, Arg
  <1>3. /\ Head(script) \in Named({"endError", "return"}) => Call \in {"endError", "return"}
        /\ Head(script) \in Named({"reset"}) => Call = "reset"
    BY <1>2 DEF Named
  <1>4. QED BY <1>1, <1>2, <1>3, CallKinds, FirstCall

LEMMA NeedWriteStep ==
    ASSUME ChainInv, needWrite
    PROVE  ChainInv'
  <1>1. /\ script # <<>> /\ Call = "needWrite" /\ script' = Tail(script)
        /\ Unrelated /\ UNCHANGED <<caller, chain, current, live, freed>>
        /\ rt' = T!needWrite(rt, Arg)
    BY DEF needWrite, Calls
  <1>2. Arg \in Written /\ Head(script) = <<"needWrite", Arg>> /\ Head(script) \notin Named({"reset"})
    BY <1>1, CallNamed
  <1>3. Head(script) \in Handing(Arg) /\ Head(script) \notin AddCalls(current, chain)
    BY <1>2 DEF Handing, NeedWrite, AddCalls, Gives
  <1>4. /\ TP!Consistent(rt') /\ QueueInv(rt') /\ Still(rt')
        /\ Advances(script, current, chain, rt, rt')
        /\ Planned(rt') = Planned(rt)
        /\ rt.registered => rt'.registered
    BY <1>1, <1>2, <1>3, WriteCall
  <1>5. QED BY <1>1, <1>2, <1>4, PlainCall

LEMMA NeedReadStep ==
    ASSUME ChainInv, needRead
    PROVE  ChainInv'
  <1>1. /\ script # <<>> /\ Call = "needRead" /\ script' = Tail(script)
        /\ Unrelated /\ UNCHANGED <<caller, chain, current, live, freed>>
        /\ rt' = T!needRead(rt)
    BY DEF needRead, Calls
  <1>2. Head(script) \in Named({"needRead"}) /\ Head(script) \notin Named({"reset"})
    BY <1>1, CallNamed
  <1>3. /\ TP!Consistent(rt') /\ QueueInv(rt') /\ Still(rt')
        /\ Advances(script, current, chain, rt, rt')
        /\ Planned(rt') = Planned(rt)
        /\ rt.registered => rt'.registered
    BY <1>1, <1>2, NeedReadCall
  <1>4. QED BY <1>1, <1>2, <1>3, PlainCall

LEMMA CallLaterStep ==
    ASSUME ChainInv, callLater
    PROVE  ChainInv'
  <1>1. /\ script # <<>> /\ Call = "callLater" /\ script' = Tail(script)
        /\ Unrelated /\ UNCHANGED <<caller, chain, current, live, freed>>
        /\ rt' = T!addCallLaterTask(rt, current, reader.delayed)
    BY DEF callLater, Calls
  <1>2. /\ Head(script) \in Named({"callLater"}) /\ Head(script) \notin Named({"reset"})
        /\ current = "reader" /\ InChain("reader")
    BY <1>1, CallNamed
  <1>3. reader.delayed \in BOOLEAN
    BY DEF ChainInv, TypeOK
  <1>4. /\ TP!Consistent(rt') /\ QueueInv(rt') /\ Still(rt')
        /\ Advances(script, current, chain, rt, rt')
        /\ Planned(rt') \subseteq Planned(rt) \cup IdleTasks
        /\ rt.registered => rt'.registered
    BY <1>1, <1>2, <1>3, CallLaterCall
  <1>5. \A t \in IdleTasks : t.module = "reader" /\ t \notin ResponseTasks
    BY TaskSets DEF IdleTasks, Tasks
  <1>6. \A t \in Planned(rt') \ Planned(rt) :
              /\ InChain(t.module)
              /\ t \in ResponseTasks =>
                    Given(t.buffer) /\ (t.buffer \in Pages => current = "error" /\ chain = CE)
    BY <1>2, <1>4, <1>5
  <1>7. QED BY <1>1, <1>2, <1>4, <1>6, PlainCall

\* An end is planned for a module of the chain.
LEMMA EndStep ==
    ASSUME ChainInv, script # <<>>, Head(script) \in Named({"raiseEnd", "endInput", "endError"}),
           script' = Tail(script), Unrelated, UNCHANGED <<caller, chain, current, live, freed>>,
           NEW m, InChain(m), rt' = T!addEndTask(rt, m)
    PROVE  ChainInv'
  <1>1. m \in Modules
    BY RunningNow, Members
  <1>2. /\ TP!Consistent(rt') /\ QueueInv(rt') /\ Still(rt')
        /\ Advances(script, current, chain, rt, rt')
        /\ Planned(rt') \subseteq Planned(rt) \cup {T!ModuleTask("ON_END", m, NoBuffer)}
        /\ rt.registered => rt'.registered
    BY <1>1, EndCall
  <1>3. T!ModuleTask("ON_END", m, NoBuffer) \notin ResponseTasks
    BY DEF ResponseTasks, Tasks, T!ModuleTask
  <1>4. T!ModuleTask("ON_END", m, NoBuffer).module = m
    BY DEF T!ModuleTask
  <1>5. \A t \in Planned(rt') \ Planned(rt) :
              /\ InChain(t.module)
              /\ t \in ResponseTasks =>
                    Given(t.buffer) /\ (t.buffer \in Pages => current = "error" /\ chain = CE)
    BY <1>2, <1>3, <1>4
  <1>6. Head(script) \notin Named({"reset"})
    BY DEF Named
  <1>7. QED BY <1>2, <1>5, <1>6, PlainCall

LEMMA RaiseEndStep ==
    ASSUME ChainInv, raiseEnd
    PROVE  ChainInv'
  <1>1. /\ script # <<>> /\ Call = "raiseEnd" /\ script' = Tail(script)
        /\ Unrelated /\ UNCHANGED <<caller, chain, current, live, freed>>
        /\ rt' = IF Following(current) = NoModule THEN rt ELSE T!addEndTask(rt, Following(current))
    BY DEF raiseEnd, Calls
  <1>2. /\ Head(script) \in Named({"raiseEnd"}) /\ Head(script) \notin Named({"reset"})
        /\ InChain(current) /\ current \in Modules /\ chain \in Shapes
    BY <1>1, CallNamed
  <1>3. CASE Following(current) = NoModule
    <2>1. rt' = rt /\ Head(script) \in Releasing \cup Named({"insertAfter", "raiseEnd"})
      BY <1>1, <1>2, <1>3 DEF Named
    <2>2. /\ TP!Consistent(rt') /\ QueueInv(rt') /\ Still(rt')
          /\ Advances(script, current, chain, rt, rt')
          /\ Planned(rt') = Planned(rt)
          /\ rt.registered => rt'.registered
      BY <1>1, <2>1, OtherCall
    <2>3. QED BY <1>1, <1>2, <2>2, PlainCall
  <1>4. CASE Following(current) # NoModule
    <2>1. InChain(Following(current))
      BY <1>2, <1>4, ChainNext, Members DEF Modules, Processing, Shapes
    <2>2. Head(script) \in Named({"raiseEnd", "endInput", "endError"})
      BY <1>2 DEF Named
    <2>3. rt' = T!addEndTask(rt, Following(current))
      BY <1>1, <1>4
    <2>4. QED BY <1>1, <2>1, <2>2, <2>3, EndStep
  <1>5. QED BY <1>3, <1>4

LEMMA EndInputStep ==
    ASSUME ChainInv, endInput
    PROVE  ChainInv'
  <1>1. /\ script # <<>> /\ Call = "endInput" /\ script' = Tail(script)
        /\ Unrelated /\ UNCHANGED <<caller, chain, current, live, freed>>
        /\ rt' = T!addEndTask(rt, "in")
    BY DEF endInput, Calls
  <1>2. Head(script) \in Named({"raiseEnd", "endInput", "endError"}) /\ InChain("in")
    BY <1>1, CallNamed, Members DEF Named
  <1>3. QED BY <1>1, <1>2, EndStep

LEMMA RaiseErrorEndStep ==
    ASSUME ChainInv, raiseErrorEnd
    PROVE  ChainInv'
  <1>1. /\ script # <<>> /\ Call = "endError" /\ script' = Tail(script)
        /\ Unrelated /\ UNCHANGED <<caller, chain, current, live, freed>>
        /\ rt' = T!addEndTask(rt, "error")
    BY DEF raiseErrorEnd, Calls
  <1>2. /\ Head(script) \in Named({"endError"}) /\ Head(script) \in Elems(script)
        /\ Head(script) = script[1] /\ Head(script) \notin Named({"reset"})
    BY <1>1, CallNamed
  <1>3. InChain("error")
    BY <1>1, <1>2 DEF ChainInv, Running
  <1>4. Head(script) \in Named({"raiseEnd", "endInput", "endError"})
    BY <1>2 DEF Named
  <1>5. QED BY <1>1, <1>3, <1>4, EndStep

LEMMA ThrowStep ==
    ASSUME ChainInv, throws
    PROVE  ChainInv'
  <1>1. /\ script # <<>> /\ Call = "throw" /\ script' = Tail(script)
        /\ Unrelated /\ UNCHANGED <<caller, chain, current, live, freed>>
        /\ rt' = T!notifyHasError(rt)
    BY DEF throws, Calls
  <1>2. Head(script) \in Named({"throw"}) /\ Head(script) \notin Named({"reset"})
    BY <1>1, CallNamed
  <1>3. /\ TP!Consistent(rt') /\ QueueInv(rt') /\ Still(rt')
        /\ Advances(script, current, chain, rt, rt')
        /\ Planned(rt') = Planned(rt)
        /\ rt.registered => rt'.has_error
    BY <1>1, <1>2, ThrowCall
  <1>4. QED BY <1>1, <1>2, <1>3, PlainCall

LEMMA ReleaseStep ==
    ASSUME ChainInv, release
    PROVE  ChainInv'
  <1>1. /\ script # <<>> /\ Call = "release" /\ script' = Tail(script)
        /\ Unrelated /\ UNCHANGED <<rt, caller, chain, current>>
        /\ freed' = freed \cup {Arg} /\ live' = live \ {Arg}
    BY DEF release, Calls, Releases
  <1>2. /\ Head(script) \in Releasing /\ Head(script) \notin Named({"reset"}) /\ Arg \in Buffers
        /\ chain \in Shapes
    BY <1>1, CallNamed
  <1>3. /\ TP!Consistent(rt') /\ QueueInv(rt') /\ Still(rt')
        /\ Advances(script, current, chain, rt, rt')
        /\ Planned(rt') = Planned(rt)
        /\ rt.registered => rt'.registered
    BY <1>1, <1>2, OtherCall
  <1>4. live' \subseteq Buffers /\ freed' \subseteq Buffers
    BY <1>1, <1>2 DEF ChainInv, TypeOK
  <1>5. TypeOK'
    BY <1>1, <1>2, <1>3, <1>4, CallType
  <1>6. CallMade
    BY <1>1, <1>3 DEF CallMade, Frame, Unrelated, InChain
  <1>7. QED BY <1>1, <1>2, <1>3, <1>5, <1>6, CallKeeps

LEMMA HandedBuffers ==
    ASSUME NEW r, QueueInv(r)
    PROVE  Handed(r) \subseteq Buffers
  <1>1. r.tasks \in Seq(ChainTasks) /\ r.write_buffers \in Seq(Written)
    BY DEF QueueInv, QueueType
  <1>2. Elems(r.tasks) \subseteq ChainTasks /\ Elems(r.write_buffers) \subseteq Written
    BY <1>1, ElemsSeq
  <1>3. \A t \in ChainTasks : t.buffer \in Buffers \cup {NoBuffer}
    BY TaskSets
  <1>4. QED BY <1>2, <1>3, BufferElems, BufferSets DEF Handed

\* The builder and the reader change the chain; what they queue does not depend
\* on it.
LEMMA FitsAnyChain ==
    ASSUME NEW s, NEW m \in {"builder", "reader"}, NEW c, NEW d, NEW r, Fits(s, m, c, r)
    PROVE  Fits(s, m, d, r)
  BY DEF Fits, AddCalls

LEMMA NamedMore ==
    ASSUME NEW ns, NEW ms, ns \subseteq ms
    PROVE  Named(ns) \subseteq Named(ms)
  BY DEF Named

LEMMA InsertAfterStep ==
    ASSUME ChainInv, insertAfter
    PROVE  ChainInv'
  <1>1. /\ script # <<>> /\ Call = "insertAfter" /\ script' = Tail(script)
        /\ Unrelated /\ UNCHANGED <<rt, caller, current, live, freed>>
        /\ chain' = InsertAfter(Position(current), "reader")
    BY DEF insertAfter, Calls
  <1>2. /\ Head(script) \in Named({"insertAfter"}) /\ Head(script) \in Elems(script)
        /\ current = "builder" /\ chain \in Shapes
    BY <1>1, CallNamed
  <1>3. chain = C0 /\ builded
    <2>1. Head(script) \in Named({"reset", "insertAfter"})
      BY <1>2, NamedMore
    <2>2. /\ Elems(script) \cap Named({"insertAfter"}) # {}
          /\ Elems(script) \cap Named({"reset", "insertAfter"}) # {}
      BY <1>2, <2>1
    <2>3. QED BY <1>1, <2>2 DEF ChainInv, Running
  <1>4. chain' = CR /\ chain' \in Shapes /\ chain' # CE /\ chain' # CP
    BY <1>1, <1>2, <1>3, ChainChanges, ShapesAre DEF Shapes
  <1>5. /\ TP!Consistent(rt') /\ QueueInv(rt') /\ Still(rt')
        /\ Advances(script, current, chain, rt, rt')
        /\ Planned(rt') = Planned(rt)
        /\ rt.registered => rt'.registered
    BY <1>1, <1>2, OtherCall DEF Named
  <1>6. TypeOK'
    BY <1>1, <1>4, <1>5, CallType DEF ChainInv, TypeOK
  <1>7. ~InChain("error")
    BY <1>2, <1>3, Members, ShapesAre
  <1>8. CallMade
    BY <1>1, <1>5, <1>7 DEF CallMade, Frame, Unrelated
  <1>9. /\ Bookkeeping' /\ Parsing'
        /\ ScriptInv(script', current') /\ Fits(script', current', chain, rt')
        /\ Elems(script') \subseteq Elems(script)
        /\ Elems(script') \cap Named({"reset", "insertAfter"}) = {}
        /\ InUse' \cap Buffers \subseteq InUse
        /\ Idling' => Idling
        /\ \A b : Given(b)' => Given(b)
    BY <1>8, CallFrame
  <1>10. \A m : InChain(m) => InChain(m)'
    <2>1. \A m : InChain(m) => m \in {"in", "parser", "builder", "pob", "out"}
      BY <1>3, ShapesAre DEF InChain
    <2>2. QED BY <1>4, <2>1, MembersNext
  <1>11. Shape'
    <2>1. \A t \in Planned(rt') : InChain(t.module)'
      BY <1>5, <1>10 DEF ChainInv, Shape
    <2>2. builded' = builded
      BY <1>1 DEF Unrelated
    <2>3. QED BY <1>3, <1>4, <2>1, <2>2 DEF Shape, Shapes
  <1>12. Running'
    <2>1. caller' = "running" /\ current' = "builder" /\ "builder" \in Modules
      BY <1>1, <1>2, RunningNow DEF Modules
    <2>2. InChain(current)'
      <3>1. InChain("builder")'
        BY <1>4, MembersNext
      <3>2. InChain(current)' <=> InChain("builder")'
        BY <2>1 DEF InChain
      <3>3. QED BY <3>1, <3>2
    <2>3. Fits(script', current', chain', rt')
      BY <1>9, <2>1, FitsAnyChain
    <2>4. Elems(script') \cap Named({"reset"}) = {} /\ Elems(script') \cap Named({"insertAfter"}) = {}
      BY <1>9 DEF Named
    <2>5. Elems(script') \cap Named({"endError"}) = {}
      <3>1. Head(script) = script[1] /\ Head(script) \notin Named({"reset"})
        BY <1>1, CallNamed
      <3>2. Elems(script) \cap Named({"endError"}) # {} => script[1] \in Named({"reset"}) \/ InChain("error")
        BY <1>1 DEF ChainInv, Running
      <3>3. QED BY <1>7, <1>9, <3>1, <3>2
    <2>6. QED BY <1>9, <2>1, <2>2, <2>3, <2>4, <2>5 DEF Running
  <1>13. Answering'
    <2>0. /\ Answering /\ reader' = reader /\ pob' = pob /\ measured' = measured
      BY <1>1 DEF ChainInv, Unrelated
    <2>1. \A b : Coming(b)' <=> Coming(b)
      BY <1>5 DEF Coming
    <2>2. \A b \in Buffers : b \in InUse' => b \in InUse
      BY <1>9
    <2>3. /\ Idling' => reader'.open
          /\ reader'.open => measured'
          /\ chain' # CE => ~pob'.chunked
          /\ ~pob'.headers => Headers \notin InUse'
      BY <1>3, <1>9, <2>0, <2>2, BufferSets, ShapesAre DEF Answering
    <2>4. \A n \in 1..FileSize : Data(n) \in InUse' => n <= FileSize - reader'.left
      <3>1. \A n \in 1..FileSize : Data(n) \in Buffers
        BY BufferSets DEF DataBuffers
      <3>2. QED BY <2>0, <2>2, <3>1 DEF Answering
    <2>5. \A b \in DataBuffers : Coming(b)' \/ Given(b)' => chain' = CR /\ measured'
      <3>1. \A b \in DataBuffers : ~Coming(b) /\ ~Given(b)
        BY <1>3, <2>0, ShapesAre DEF Answering
      <3>2. QED BY <1>9, <2>1, <3>1
    <2>6. chain' = CP /\ current' = "pob" => \A b \in Buffers \ {Headers} : ~Given(b)'
      BY <1>4
    <2>7. \A b \in Pages : ~Coming(b)' /\ ~(current' = "error")
      <3>1. \A b \in Pages : ~Coming(b)
        BY <1>3, <2>0, ShapesAre DEF Answering
      <3>2. QED BY <1>1, <1>2, <2>1, <3>1
    <2>8. QED BY <2>3, <2>4, <2>5, <2>6, <2>7 DEF Answering
  <1>14. QED BY <1>6, <1>9, <1>11, <1>12, <1>13 DEF ChainInv

LEMMA RaiseErrorResetStep ==
    ASSUME ChainInv, raiseErrorReset
    PROVE  ChainInv'
  <1>1. /\ script # <<>> /\ Call = "reset" /\ script' = Tail(script)
        /\ Unrelated /\ UNCHANGED <<caller, current>>
        /\ rt' = T!reset(rt) /\ chain' = setProcessingModule
        /\ freed' = freed \cup Handed(rt) /\ live' = live \ Handed(rt)
    BY DEF raiseErrorReset, Calls, Releases, Handed
  <1>2. /\ Head(script) \in Named({"reset"}) /\ Head(script) \in Elems(script)
        /\ chain \in Shapes /\ caller = "running"
    BY <1>1, CallNamed
  <1>3. builded /\ ((current = "builder" /\ chain = C0) \/ (current = "reader" /\ chain = CR))
    <2>1. Head(script) \in Named({"reset", "insertAfter"})
      BY <1>2, NamedMore
    <2>2. /\ Elems(script) \cap Named({"reset"}) # {}
          /\ Elems(script) \cap Named({"reset", "insertAfter"}) # {}
      BY <1>2, <2>1
    <2>3. QED BY <1>1, <2>2 DEF ChainInv, Running
  <1>4. /\ chain' \in Shapes /\ chain' \in {CE, CP} /\ (chain = C0 => chain' = CP)
        /\ (chain = CR => chain' = CE)
    BY <1>1, <1>3, ChainChanges DEF Shapes
  <1>5. /\ TP!Consistent(rt') /\ QueueInv(rt') /\ Still(rt')
        /\ Advances(script, current, chain, rt, rt')
        /\ Planned(rt') = {}
    BY <1>1, <1>2, ResetCall
  <1>6. TypeOK'
    <2>1. live' \subseteq Buffers /\ freed' \subseteq Buffers
      <3>1. QueueInv(rt)
        BY <1>1, RunningNow
      <3>2. Handed(rt) \subseteq Buffers
        BY <3>1, HandedBuffers
      <3>3. QED BY <1>1, <3>2 DEF ChainInv, TypeOK
    <2>2. QED BY <1>1, <1>4, <1>5, <2>1, CallType
  <1>7. InChain("error")'
    BY <1>4, MembersNext
  <1>8. CallMade
    BY <1>1, <1>5, <1>7 DEF CallMade, Frame, Unrelated
  <1>9. /\ Bookkeeping' /\ Parsing'
        /\ ScriptInv(script', current') /\ Fits(script', current', chain, rt')
        /\ Elems(script') \subseteq Elems(script)
        /\ Elems(script') \cap Named({"reset", "insertAfter"}) = {}
        /\ InUse' \cap Buffers \subseteq InUse
        /\ Idling' => Idling
        /\ \A b : Given(b)' => Given(b)
    BY <1>8, CallFrame
  <1>10. current = "reader" => script \in Seq(Named({"reset", "endError", "return"}))
    <2>1. ScriptInv(script, current)
      BY <1>1, RunningNow
    <2>2. Head(script) \in Named({"reset", "endError"})
      BY <1>2, NamedMore
    <2>3. Elems(script) \cap Named({"reset", "endError"}) # {}
      BY <1>2, <2>2
    <2>4. QED BY <2>1, <2>3 DEF ScriptInv
  <1>11. Shape'
    <2>1. builded' = builded
      BY <1>1 DEF Unrelated
    <2>2. QED BY <1>3, <1>4, <1>5, <2>1 DEF Shape, Shapes
  <1>12. Running'
    <2>1. caller' = "running" /\ current' = current /\ current \in {"builder", "reader"} /\ current' \in Modules
      BY <1>1, <1>2, <1>3 DEF Modules, Processing
    <2>2. InChain(current)' \/ (current' = "reader" /\ script' \in Seq(Named({"endError", "return"})))
      <3>1. CASE current = "builder"
        <4>1. InChain("builder")'
          BY <1>4, MembersNext
        <4>2. InChain(current)' <=> InChain("builder")'
          BY <2>1, <3>1 DEF InChain
        <4>3. QED BY <4>1, <4>2
      <3>2. CASE current = "reader"
        <4>1. script' \in Seq(Named({"reset", "endError", "return"}))
          BY <1>1, <1>10, <3>2, TailElems
        <4>2. Elems(script') \subseteq Named({"reset", "endError", "return"})
          BY <4>1, ElemsSeq
        <4>3. Elems(script') \subseteq Named({"endError", "return"})
          BY <1>9, <4>2 DEF Named
        <4>4. script' \in Seq(Named({"endError", "return"}))
          BY <4>1, <4>3, SeqOfElems
        <4>5. QED BY <2>1, <3>2, <4>4
      <3>3. QED BY <2>1, <3>1, <3>2
    <2>3. Fits(script', current', chain', rt')
      BY <1>9, <2>1, FitsAnyChain
    <2>4. Elems(script') \cap Named({"reset"}) = {} /\ Elems(script') \cap Named({"insertAfter"}) = {}
      BY <1>9 DEF Named
    <2>5. QED BY <1>7, <1>9, <2>1, <2>2, <2>3, <2>4 DEF Running
  <1>13. Answering'
    <2>0. /\ Answering /\ reader' = reader /\ pob' = pob /\ measured' = measured /\ current' = current
      BY <1>1 DEF ChainInv, Unrelated
    <2>1. \A b : ~Coming(b)'
      BY <1>5 DEF Coming
    <2>2. \A b \in Buffers : b \in InUse' => b \in InUse
      BY <1>9
    <2>3. /\ Idling' => reader'.open
          /\ reader'.open => measured'
          /\ ~pob'.headers => Headers \notin InUse'
      BY <1>9, <2>0, <2>2, BufferSets DEF Answering
    <2>4. chain' # CE => ~pob'.chunked
      BY <1>3, <1>4, <2>0, ShapesAre DEF Answering
    <2>5. \A n \in 1..FileSize : Data(n) \in InUse' => n <= FileSize - reader'.left
      <3>1. \A n \in 1..FileSize : Data(n) \in Buffers
        BY BufferSets DEF DataBuffers
      <3>2. QED BY <2>0, <2>2, <3>1 DEF Answering
    <2>6. \A b \in DataBuffers : ~Given(b)'
      <3>1. CASE current = "builder"
        <4>1. chain # CR
          BY <1>3, <3>1, ShapesAre
        <4>2. QED BY <1>9, <2>0, <4>1 DEF Answering
      <3>2. CASE current = "reader"
        <4>1. Elems(script) \subseteq Named({"reset", "endError", "return"})
          BY <1>10, <3>2, ElemsSeq
        <4>2. \A b : ~Given(b)
          BY <4>1 DEF Given, GiveData, Named
        <4>3. QED BY <1>9, <4>2
      <3>3. QED BY <1>3, <3>1, <3>2
    <2>7. current' # "pob" /\ current' # "error"
      BY <1>3, <2>0
    <2>8. QED BY <2>1, <2>3, <2>4, <2>5, <2>6, <2>7 DEF Answering
  <1>14. QED BY <1>6, <1>9, <1>11, <1>12, <1>13 DEF ChainInv

-----------------------------------------------------------------------------
(* The end of a module's turn, the task manager, the client and the pool.    *)

Parts == <<chain, parser, builded, reader, pob, measured>>

\* Steps that ask for nothing: what is planned, handed over and asked for only
\* shrinks, but for the events of the socket.
LEMMA QuietParts ==
    ASSUME ChainInv, UNCHANGED Parts, Elems(script') \subseteq Elems(script),
           current' = current \/ Elems(script') = {},
           Handed(rt') \subseteq Handed(rt),
           Planned(rt') \subseteq Planned(rt) \cup {CanRead} \cup WriteTasks,
           Reads(rt') => Reads(rt), Idles(rt') => Idles(rt)
    PROVE  Shape' /\ Parsing' /\ Answering'
  <1>1. /\ chain' = chain /\ parser' = parser /\ builded' = builded /\ reader' = reader /\ pob' = pob
        /\ measured' = measured
    BY DEF Parts
  <1>2. InUse' \subseteq InUse /\ (Reading' => Reading) /\ (Idling' => Idling)
    BY DEF InUse, Asked, Reading, Idling
  <1>3. \A b : (Coming(b)' => Coming(b)) /\ (Given(b)' => Given(b) /\ current' = current)
    <2>1. CanRead \notin ResponseTasks /\ WriteTasks \cap ResponseTasks = {}
      BY TaskSets
    <2>2. Planned(rt') \cap ResponseTasks \subseteq Planned(rt) \cap ResponseTasks
      BY <2>1
    <2>3. QED BY <2>2 DEF Coming, Given
  <1>4. Shape'
    <2>1. \A m : InChain(m)' <=> InChain(m)
      BY <1>1 DEF InChain
    <2>2. InChain("in") /\ InChain("out")
      BY Members DEF ChainInv, Shape, Shapes
    <2>3. CanRead.module = "in" /\ \A t \in WriteTasks : t.module = "out"
      BY DEF CanRead, T!ModuleTask, WriteTasks, Tasks
    <2>4. \A t \in Planned(rt') : InChain(t.module)
      BY <2>2, <2>3 DEF ChainInv, Shape
    <2>5. QED BY <1>1, <2>1, <2>4 DEF ChainInv, Shape
  <1>5. Parsing'
    BY <1>1, <1>2 DEF ChainInv, Parsing
  <1>6. Answering'
    <2>0. Answering
      BY DEF ChainInv
    <2>1. /\ Idling' => reader'.open
          /\ reader'.open => measured'
          /\ chain' # CE => ~pob'.chunked
          /\ ~pob'.headers => Headers \notin InUse'
          /\ \A n \in 1..FileSize : Data(n) \in InUse' => n <= FileSize - reader'.left
      BY <1>1, <1>2, <2>0 DEF Answering
    <2>2. \A b \in DataBuffers : Coming(b)' \/ Given(b)' => chain' = CR /\ measured'
      BY <1>1, <1>3, <2>0 DEF Answering
    <2>3. chain' = CP /\ current' = "pob" => \A b \in Buffers \ {Headers} : ~Given(b)'
      BY <1>1, <1>3, <2>0 DEF Answering
    <2>4. \A b \in Pages :
              /\ Coming(b)' => chain' = CE
              /\ Coming(b)' \/ (current' = "error" /\ Given(b)') => ChunkInfo(b) \notin InUse'
      BY <1>1, <1>2, <1>3, <2>0 DEF Answering
    <2>5. QED BY <2>1, <2>2, <2>3, <2>4 DEF Answering
  <1>7. QED BY <1>4, <1>5, <1>6

\* A task manager that has nobody running has no script.
LEMMA NoScript ==
    ASSUME ChainInv, caller # "running"
    PROVE  script = <<>>
  BY DEF ChainInv, Running

LEMMA NothingAsked ==
    ASSUME NEW q, q = <<>>
    PROVE  Elems(q) = {}
  <1>1. q \in Seq({}) /\ q = <<>>
    OBVIOUS
  <1>2. QED BY <1>1, ElemsSeq

LEMMA EndOfTurn ==
    ASSUME ChainInv, script # <<>>, Head(script) \in LastCalls, script' = Tail(script),
           caller' = "polling", task' = NoTask, UNCHANGED <<rt, reported>>, UNCHANGED Parts,
           UNCHANGED <<arrived, live, freed, sent, told>>,
           late' \in Buffers \cup {NoBuffer},
           current' = NoModule \/ (current' = current /\ rt.has_error)
    PROVE  ChainInv'
  <1>1. ScriptInv(script, current) /\ TP!Consistent(rt) /\ QueueInv(rt) /\ Still(rt)
    BY RunningNow
  <1>2. script' = <<>>
    BY <1>1, TailOfScript
  <1>3. Elems(script') = {}
    BY <1>2, NothingAsked
  <1>4. chain' = chain
    BY DEF Parts
  <1>5. Shape' /\ Parsing' /\ Answering'
    <2>1. Handed(rt') \subseteq Handed(rt) /\ Planned(rt') \subseteq Planned(rt) \cup {CanRead} \cup WriteTasks
      OBVIOUS
    <2>2. QED BY <1>3, <2>1, QuietParts
  <1>6. Bookkeeping'
    <2>1. reported' # "NONE" => rt'.registered \/ rt'.has_error \/ InChain("error")'
      BY <1>4 DEF ChainInv, Bookkeeping, InChain
    <2>2. QED BY <1>1, <2>1 DEF Bookkeeping
  <1>7. Running'
    BY <1>2 DEF Running
  <1>8. TypeOK'
    BY DEF ChainInv, TypeOK, Parts, T!Callers
  <1>9. QED BY <1>5, <1>6, <1>7, <1>8 DEF ChainInv

LEMMA ReturnStep ==
    ASSUME ChainInv, returns
    PROVE  ChainInv'
  <1>1. script # <<>> /\ Call = "return" /\ script' = Tail(script)
    BY DEF returns, Calls
  <1>2. Head(script) \in LastCalls
    <2>1. Head(script) \in Named({"return"})
      BY <1>1, CallNamed
    <2>2. QED BY <2>1, NamedMore DEF LastCalls
  <1>3. /\ caller' = "polling" /\ task' = NoTask /\ UNCHANGED <<rt, reported>> /\ UNCHANGED Parts
        /\ UNCHANGED <<arrived, live, freed, sent, told>> /\ late' = late /\ current' = NoModule
    BY DEF returns, Parts
  <1>4. late' \in Buffers \cup {NoBuffer}
    BY <1>3 DEF ChainInv, TypeOK
  <1>5. QED BY <1>1, <1>2, <1>3, <1>4, EndOfTurn

LEMMA NotifyEndTaskStep ==
    ASSUME ChainInv, notifyEndTask
    PROVE  ChainInv'
  <1>1. script # <<>> /\ Call = "notifyEndTask" /\ script' = Tail(script)
    BY DEF notifyEndTask, Calls
  <1>2. /\ Head(script) \in Named({"notifyEndTask"}) /\ Head(script) \in Elems(script)
        /\ Head(script) = script[1] /\ Arg \in Buffers \cup {NoBuffer}
    BY <1>1, CallNamed
  <1>3. Head(script) \in LastCalls /\ Head(script) \notin Named({"throw"})
    <2>1. Head(script) \in LastCalls
      BY <1>2, NamedMore DEF LastCalls
    <2>2. QED BY <1>2, <2>1 DEF Named
  <1>4. rt.has_error
    <2>1. Fits(script, current, chain, rt)
      BY <1>1, RunningNow
    <2>2. QED BY <1>2, <1>3, <2>1 DEF Fits
  <1>5. /\ caller' = "polling" /\ task' = NoTask /\ UNCHANGED <<rt, reported>> /\ UNCHANGED Parts
        /\ UNCHANGED <<arrived, live, freed, sent, told>> /\ late' = Arg /\ current' = current
    BY DEF notifyEndTask, Parts
  <1>6. QED BY <1>1, <1>2, <1>3, <1>4, <1>5, EndOfTurn

LEMMA ApiCallStep ==
    ASSUME ChainInv, ApiCall
    PROVE  ChainInv'
  BY GiveDataStep, NeedWriteStep, NeedReadStep, CallLaterStep, RaiseEndStep, RaiseErrorResetStep,
     RaiseErrorEndStep, ReleaseStep, InsertAfterStep, EndInputStep, ReturnStep, ThrowStep,
     NotifyEndTaskStep DEF ApiCall

LEMMA PollStep ==
    ASSUME ChainInv, NEW expired \in BOOLEAN, NEW due \in BOOLEAN, Poll(expired, due)
    PROVE  ChainInv'
  <1>1. /\ caller = "polling" /\ rt' = T!hasWork(rt, expired, due)
        /\ caller' = IF T!HasWorkResult(rt') THEN "dispatching" ELSE "noWork"
        /\ UNCHANGED <<reported, arrived>> /\ UNCHANGED Request
    BY DEF Poll
  <1>2. /\ UNCHANGED Parts /\ script' = script /\ current' = current /\ task' = task
        /\ live' = live /\ freed' = freed /\ sent' = sent /\ late' = late /\ told' = told
    BY <1>1 DEF Request, Parts
  <1>3. script = <<>> /\ script' = <<>>
    BY <1>1, <1>2, NoScript
  <1>4. TP!Consistent(rt) /\ QueueInv(rt) /\ Still(rt) /\ (current = NoModule \/ rt.has_error)
    BY <1>1 DEF ChainInv, Bookkeeping
  <1>5. /\ QueueInv(rt') /\ TP!Consistent(rt')
        /\ T!HasWorkResult(rt') => Ready(rt')
        /\ ~T!HasWorkResult(rt') => Still(rt')
        /\ Handed(rt') \subseteq Handed(rt)
        /\ Planned(rt') \subseteq Planned(rt) \cup {CanRead} \cup WriteTasks
        /\ Reads(rt') => Reads(rt)
        /\ Idles(rt') => Idles(rt)
        /\ rt.has_error => rt'.has_error
        /\ rt.registered => rt'.registered \/ rt'.has_error
    BY <1>1, <1>4, HasWorkLater
  <1>6. Shape' /\ Parsing' /\ Answering'
    BY <1>2, <1>5, QuietParts
  <1>7. Bookkeeping'
    <2>1. IF caller' = "dispatching" THEN Ready(rt') ELSE Still(rt')
      BY <1>1, <1>5
    <2>2. current' = NoModule \/ rt'.has_error
      BY <1>2, <1>4, <1>5
    <2>3. caller' = "dispatching" => current' = NoModule
      BY <1>1, <2>2 DEF T!HasWorkResult
    <2>4. reported' # "NONE" => rt'.registered \/ rt'.has_error \/ InChain("error")'
      BY <1>1, <1>2, <1>5 DEF ChainInv, Bookkeeping, InChain, Parts
    <2>5. QED BY <1>5, <2>1, <2>2, <2>3, <2>4 DEF Bookkeeping
  <1>8. Running'
    BY <1>3 DEF Running
  <1>9. TypeOK'
    <2>1. rt' \in T!State /\ caller' \in T!Callers
      BY <1>1, <1>5, ConsistentType DEF T!Callers
    <2>2. QED BY <1>1, <1>2, <2>1 DEF ChainInv, TypeOK, Parts
  <1>10. QED BY <1>6, <1>7, <1>8, <1>9 DEF ChainInv

\* Steps that leave the tasks and the modules alone.
LEMMA IdleStep ==
    ASSUME ChainInv, UNCHANGED <<rt, script, current>>, UNCHANGED Parts,
           reported' # "NONE" => reported' = reported \/ rt.registered,
           caller' = caller \/ (caller = "noWork" /\ caller' \in {"polling", "ended"})
    PROVE  Bookkeeping' /\ Shape' /\ Running' /\ Parsing' /\ Answering'
  <1>1. Shape' /\ Parsing' /\ Answering'
    <2>1. /\ Handed(rt') \subseteq Handed(rt) /\ Elems(script') \subseteq Elems(script)
          /\ Planned(rt') \subseteq Planned(rt) \cup {CanRead} \cup WriteTasks
      OBVIOUS
    <2>2. QED BY <2>1, QuietParts
  <1>2. \A m : InChain(m)' <=> InChain(m)
    BY DEF InChain, Parts
  <1>3. Bookkeeping'
    BY <1>2 DEF ChainInv, Bookkeeping
  <1>4. Running'
    <2>1. script # <<>> => caller' = "running" /\ caller = "running"
      BY DEF ChainInv, Running
    <2>2. chain' = chain /\ builded' = builded
      BY DEF Parts
    <2>3. InChain(current)' <=> InChain(current)
      BY <2>2 DEF InChain
    <2>4. QED BY <1>2, <2>1, <2>2, <2>3 DEF ChainInv, Running
  <1>5. QED BY <1>1, <1>3, <1>4

LEMMA ManagerSteps ==
    ASSUME ChainInv, KeepWaiting \/ Destroy \/ ReleaseLate \/ ClientSends \/ Report
    PROVE  ChainInv'
  <1>1. TypeOK /\ QueueInv(rt)
    BY DEF ChainInv, Bookkeeping
  <1>2. CASE KeepWaiting
    <2>1. Bookkeeping' /\ Shape' /\ Running' /\ Parsing' /\ Answering'
      BY <1>2, IdleStep DEF KeepWaiting, Request, Parts
    <2>2. TypeOK'
      BY <1>1, <1>2 DEF KeepWaiting, Request, TypeOK, T!Callers
    <2>3. QED BY <2>1, <2>2 DEF ChainInv
  <1>3. CASE Destroy
    <2>1. Bookkeeping' /\ Shape' /\ Running' /\ Parsing' /\ Answering'
      BY <1>3, IdleStep DEF Destroy, Parts
    <2>2. TaskBuffers(rt) \cup WriteBuffers(rt) \subseteq Buffers
      BY <1>1, HandedBuffers DEF Handed
    <2>3. {parser.buffers[i] : i \in DOMAIN parser.buffers} \subseteq Buffers
      <3>1. parser.buffers \in Seq(Buffers)
        BY <1>1 DEF TypeOK
      <3>2. QED BY <3>1, ElemsSeq DEF Elems
    <2>4. live' \subseteq Buffers /\ freed' \subseteq Buffers
      BY <1>1, <1>3, <2>2, <2>3 DEF Destroy, Releases, TypeOK
    <2>5. TypeOK'
      BY <1>1, <1>3, <2>4 DEF Destroy, TypeOK, T!Callers
    <2>6. QED BY <2>1, <2>5 DEF ChainInv
  <1>4. CASE ReleaseLate
    <2>1. Bookkeeping' /\ Shape' /\ Running' /\ Parsing' /\ Answering'
      BY <1>4, IdleStep DEF ReleaseLate, Parts
    <2>2. TypeOK'
      BY <1>1, <1>4 DEF ReleaseLate, Releases, TypeOK
    <2>3. QED BY <2>1, <2>2 DEF ChainInv
  <1>5. CASE ClientSends
    <2>1. Bookkeeping' /\ Shape' /\ Running' /\ Parsing' /\ Answering'
      BY <1>5, IdleStep DEF ClientSends, Request, Parts
    <2>2. arrived' \in 0..Pieces
      BY <1>1, <1>5, RequestChainAssumption DEF ClientSends, TypeOK
    <2>3. TypeOK'
      BY <1>1, <1>5, <2>2 DEF ClientSends, Request, TypeOK
    <2>4. QED BY <2>1, <2>3 DEF ChainInv
  <1>6. CASE Report
    <2>1. Bookkeeping' /\ Shape' /\ Running' /\ Parsing' /\ Answering'
      BY <1>6, IdleStep DEF Report, Request, Parts
    <2>2. TypeOK'
      BY <1>1, <1>6 DEF Report, Request, TypeOK, T!SocketEvents
    <2>3. QED BY <2>1, <2>2 DEF ChainInv
  <1>7. QED BY <1>2, <1>3, <1>4, <1>5, <1>6

LEMMA DeliverStep ==
    ASSUME ChainInv, Deliver
    PROVE  ChainInv'
  <1>1. /\ reported \in T!SocketEvents /\ rt' = T!handleSocketEvent(rt, reported) /\ reported' = "NONE"
        /\ UNCHANGED <<caller, arrived>> /\ UNCHANGED Request
    BY DEF ChainInv, TypeOK, Deliver
  <1>2. /\ UNCHANGED Parts /\ script' = script /\ current' = current
    BY <1>1 DEF Request, Parts
  <1>3. TP!Consistent(rt) /\ rt \in T!State /\ QueueInv(rt)
    BY ConsistentType DEF ChainInv, Bookkeeping
  <1>4. SameQueue(rt, rt') /\ rt'.wait_read = rt.wait_read /\ (rt.has_error => rt'.has_error)
    BY <1>1, <1>3, SocketEffect
  <1>5. TP!Consistent(rt')
    BY <1>1, <1>3, KeepConsistent
  <1>6. /\ Handed(rt') = Handed(rt) /\ Planned(rt') = Planned(rt)
        /\ (Idles(rt') <=> Idles(rt)) /\ (Reads(rt') <=> Reads(rt))
        /\ (Still(rt) => Still(rt')) /\ (Ready(rt) => Ready(rt'))
        /\ QueueInv(rt')
    BY <1>3, <1>4, SameTasks
  <1>7. Shape' /\ Parsing' /\ Answering'
    BY <1>2, <1>6, QuietParts
  <1>8. Bookkeeping'
    BY <1>1, <1>2, <1>4, <1>5, <1>6 DEF ChainInv, Bookkeeping
  <1>9. Running'
    <2>1. chain' = chain /\ builded' = builded /\ caller' = caller
      BY <1>1, <1>2 DEF Parts
    <2>2. \A m : InChain(m)' <=> InChain(m)
      BY <2>1 DEF InChain
    <2>3. InChain(current)' <=> InChain(current)
      BY <1>2, <2>1 DEF InChain
    <2>4. script # <<>> => Fits(script, current, chain, rt')
      <3>1. script # <<>> => Fits(script, current, chain, rt)
        BY RunningNow
      <3>2. QED BY <1>4, <1>6, <3>1 DEF Fits, SameQueue
    <2>5. QED BY <1>2, <2>1, <2>2, <2>3, <2>4 DEF ChainInv, Running
  <1>10. TypeOK'
    <2>1. rt' \in T!State
      BY <1>5, ConsistentType
    <2>2. QED BY <1>1, <2>1 DEF ChainInv, TypeOK, Request
  <1>11. QED BY <1>7, <1>8, <1>9, <1>10 DEF ChainInv

-----------------------------------------------------------------------------
(* Scripts, put together from the last call to the first.                    *)

LEMMA CallSets ==
    /\ LastCalls \cap (ReadCalls \cup IdleCalls \cup Gives(Buffers)) = {}
    /\ LastCalls \cap Named({"reset", "insertAfter", "endError"}) = {}
    /\ LastCalls \cap Named({"reset", "endError"}) = {}
    /\ LastCalls \cap Named({"reset", "insertAfter"}) = {}
    /\ \A b \in Buffers : LastCalls \cap Handing(b) = {}
    /\ \A x : \A b \in Buffers, n \in {"release", "needRead", "raiseEnd", "reset", "endError", "insertAfter",
                                       "callLater", "endInput", "throw"} :
          <<n, x>> \notin Handing(b) /\ <<n, x>> \notin Gives(Buffers)
  BY DEF LastCalls, ReadCalls, IdleCalls, Gives, Named, Handing, GiveData, NeedWrite

LEMMA OneCall ==
    ASSUME NEW m, NEW d \in CallsOf(m), d \in LastCalls
    PROVE  /\ ScriptInv(<<d>>, m) /\ Elems(<<d>>) = {d} /\ <<d>> # <<>> /\ <<d>>[1] = d
           /\ \A X : Once(<<d>>, X)
  <1>1. <<d>> \in Seq(CallsOf(m)) /\ DOMAIN <<d>> = 1..1 /\ <<d>>[1] = d /\ Len(<<d>>) = 1 /\ 1..1 = {1}
        /\ <<d>> # <<>>
    OBVIOUS
  <1>2. \A X : Once(<<d>>, X)
    BY <1>1 DEF Once
  <1>3. Elems(<<d>>) = {d}
    BY <1>1 DEF Elems
  <1>4. Elems(<<d>>) \cap Named({"reset", "endError"}) = {}
    BY <1>3, CallSets
  <1>5. QED BY <1>1, <1>2, <1>3, <1>4 DEF ScriptInv

\* What may be put in front of script s of module m.
CanPrecede(c, s, m) ==
    /\ c \in CallsOf(m) /\ c \notin LastCalls
    /\ Elems(s) \cap Named({"reset", "insertAfter"}) = {}
    /\ m = "reader" => Elems(s) \cap Named({"reset", "endError"}) = {} \/ s \in Seq(Named({"reset", "endError", "return"}))
    /\ m = "reader" /\ (c \in Named({"reset", "endError"}) \/ Elems(s) \cap Named({"reset", "endError"}) # {}) =>
          /\ c \in Named({"reset", "endError", "return"})
          /\ s \in Seq(Named({"reset", "endError", "return"}))
    /\ c \in ReadCalls => Elems(s) \cap ReadCalls = {}
    /\ c \in IdleCalls => Elems(s) \cap IdleCalls = {}
    /\ \A b \in Buffers : c \in Handing(b) => Elems(s) \cap Handing(b) = {}

LEMMA Prepend ==
    ASSUME NEW m, NEW s, ScriptInv(s, m), s # <<>>, NEW c, CanPrecede(c, s, m)
    PROVE  /\ ScriptInv(<<c>> \o s, m) /\ Elems(<<c>> \o s) = Elems(s) \cup {c}
           /\ <<c>> \o s # <<>> /\ (<<c>> \o s)[1] = c
           /\ Once(s, Gives(Buffers)) /\ (c \in Gives(Buffers) => Elems(s) \cap Gives(Buffers) = {})
                 => Once(<<c>> \o s, Gives(Buffers))
  <1> DEFINE r == <<c>> \o s
  <1>1. s \in Seq(CallsOf(m)) /\ c \in CallsOf(m)
    BY DEF ScriptInv, CanPrecede
  <1>2. /\ r \in Seq(CallsOf(m)) /\ r # <<>> /\ Elems(r) = Elems(s) \cup {c}
        /\ DOMAIN r = 1..(Len(s) + 1) /\ r[1] = c
        /\ \A i \in 2..(Len(s) + 1) : r[i] = s[i - 1]
    BY <1>1, PushElems
  <1>3. \A X : Once(s, X) /\ (c \in X => Elems(s) \cap X = {}) => Once(r, X)
    BY <1>1, OncePush
  <1> HIDE DEF r
  <1>4. Len(s) \in Nat /\ DOMAIN s = 1..Len(s) /\ Len(r) = Len(s) + 1
    <2>1. Len(s) \in Nat /\ DOMAIN s = 1..Len(s) /\ Len(r) \in Nat /\ DOMAIN r = 1..Len(r)
      BY <1>1, <1>2, LenProperties
    <2>2. QED BY <1>2, <2>1
  <1>5. ASSUME NEW i \in DOMAIN r, r[i] \in LastCalls PROVE i = Len(r)
    <2>1. i # 1
      BY <1>2, <1>5 DEF CanPrecede
    <2>2. i - 1 \in DOMAIN s /\ s[i - 1] \in LastCalls
      BY <1>2, <1>4, <1>5, <2>1
    <2>3. i - 1 = Len(s)
      BY <2>2 DEF ScriptInv
    <2>4. QED BY <1>2, <1>4, <2>3
  <1>6. ASSUME NEW i \in DOMAIN r, r[i] \in Named({"reset", "insertAfter"}) PROVE i = 1
    <2>1. CASE i # 1
      <3>1. i - 1 \in DOMAIN s /\ s[i - 1] \in Named({"reset", "insertAfter"})
        BY <1>2, <1>4, <1>6, <2>1
      <3>2. QED BY <3>1 DEF CanPrecede, Elems
    <2>2. QED BY <2>1
  <1>7. m = "reader" /\ Elems(r) \cap Named({"reset", "endError"}) # {}
           => r \in Seq(Named({"reset", "endError", "return"}))
    <2> SUFFICES ASSUME m = "reader", Elems(r) \cap Named({"reset", "endError"}) # {}
                 PROVE  r \in Seq(Named({"reset", "endError", "return"}))
      OBVIOUS
    <2>1. c \in Named({"reset", "endError"}) \/ Elems(s) \cap Named({"reset", "endError"}) # {}
      BY <1>2
    <2>2. /\ c \in Named({"reset", "endError", "return"})
          /\ s \in Seq(Named({"reset", "endError", "return"}))
      BY <2>1 DEF CanPrecede
    <2>3. QED BY <2>2, PushElems DEF r
  <1>8. /\ Once(r, ReadCalls) /\ Once(r, IdleCalls)
        /\ \A b \in Buffers : Once(r, Handing(b))
    BY <1>3 DEF ScriptInv, CanPrecede
  <1>9. ScriptInv(r, m)
    BY <1>2, <1>5, <1>6, <1>7, <1>8 DEF ScriptInv
  <1>10. QED BY <1>2, <1>3, <1>9 DEF r

\* A script that gives at most one buffer.
LEMMA OneGift ==
    ASSUME NEW s, NEW m, NEW ch, NEW r, s \in Seq(CallsOf(m)), Once(s, Gives(Buffers)),
           Asked(s) \cap Handed(r) = {},
           Elems(s) \cap ReadCalls # {} => ~Reads(r),
           Elems(s) \cap IdleCalls # {} => ~Idles(r),
           Elems(s) \cap AddCalls(m, ch) # {} => FewFronts(r.tasks, 1),
           Elems(s) \cap Named({"notifyEndTask"}) # {} => s[1] \in Named({"throw"})
    PROVE  Fits(s, m, ch, r)
  <1>1. AddCalls(m, ch) \subseteq Gives(Buffers)
    BY DEF AddCalls
  <1>2. DOMAIN s = 1..Len(s) /\ Len(s) \in Nat
    BY LenProperties
  <1>3. \A i, j \in DOMAIN s : i < j => i # j
    BY <1>2
  <1>4. \A i, j \in DOMAIN s : i < j /\ s[i] \in AddCalls(m, ch) /\ s[j] \in AddCalls(m, ch)
           => i = 1 /\ j = 2 /\ FewFronts(r.tasks, 0)
    BY <1>1, <1>3 DEF Once
  <1>5. \A i \in DOMAIN s : s[i] \in AddCalls(m, ch) => FewFronts(r.tasks, 1)
    BY DEF Elems
  <1>6. QED BY <1>4, <1>5 DEF Fits

-----------------------------------------------------------------------------
(* A worker takes a task. *)

LEMMA StartFrame ==
    ASSUME ChainInv, Start
    PROVE  /\ caller = "dispatching" /\ caller' = "running" /\ script = <<>>
           /\ rt' = T!getNextTask(rt) /\ task' = Head(rt.tasks) /\ current' = task'.module
           /\ ProcessRequest(task') /\ reported' = reported /\ chain' = chain
           /\ task' \in ChainTasks /\ task' \in Planned(rt) /\ InChain(current') /\ chain \in Shapes
           /\ current' \in Modules
           /\ rt \in T!State /\ rt.has_error = rt'.has_error /\ (rt.registered => rt'.registered)
           /\ TP!Consistent(rt') /\ QueueInv(rt') /\ Still(rt')
           /\ Handed(rt') \subseteq Handed(rt) /\ InUse = Handed(rt) /\ task'.buffer \notin Handed(rt')
           /\ task'.buffer \in Buffers => task'.buffer \in InUse
           /\ Planned(rt') \subseteq Planned(rt)
           /\ Reads(rt') => Reads(rt)
           /\ Idles(rt') => Idles(rt)
           /\ task' \in ReadTasks => Reads(rt) /\ ~Reads(rt')
           /\ task' \in IdleTasks => Idles(rt) /\ ~Idles(rt')
           /\ task' \notin WriteTasks => FewFronts(rt'.tasks, 1)
           /\ task' \in EndTasks => Handed(rt') = {} /\ FewFronts(rt'.tasks, 0)
  <1>1. /\ caller = "dispatching" /\ caller' = "running"
        /\ rt' = T!getNextTask(rt) /\ task' = Head(rt.tasks) /\ current' = task'.module
        /\ ProcessRequest(task') /\ reported' = reported /\ chain' = chain
    BY DEF Start
  <1>2. script = <<>>
    BY <1>1, NoScript
  <1>3. TP!Consistent(rt) /\ QueueInv(rt) /\ Ready(rt) /\ rt \in T!State /\ rt.tasks # <<>>
    BY <1>1, ConsistentType DEF ChainInv, Bookkeeping, Ready
  <1>4. TP!Consistent(rt')
    BY <1>1, <1>3, KeepConsistent
  <1>5. rt'.tasks = Tail(rt.tasks) /\ SameWaits(rt, rt') /\ SamePlans(rt, rt')
    BY <1>1, <1>3, TakeEffect
  <1>6. /\ QueueInv(rt') /\ Still(rt') /\ task' \in Elems(rt.tasks)
        /\ Handed(rt') \subseteq Handed(rt) /\ task'.buffer \notin Handed(rt')
        /\ Planned(rt') \subseteq Planned(rt)
        /\ Reads(rt') => Reads(rt)
        /\ Idles(rt') => Idles(rt)
        /\ task' \in ReadTasks => ~Reads(rt')
        /\ task' \in IdleTasks => ~Idles(rt')
        /\ task' \in FrontTasks \ WriteTasks => FewFronts(rt'.tasks, 1)
        /\ task' \notin FrontTasks => FewFronts(rt'.tasks, 0)
        /\ task' \in EndTasks => rt'.tasks = <<>> /\ rt'.write_buffers = <<>>
    <2>1. rt'.wait_read = rt.wait_read
      BY <1>5 DEF SameWaits
    <2>2. QED BY <1>1, <1>3, <1>5, <2>1, TakeTask
  <1>7. task' \in ChainTasks /\ task' \in Planned(rt) /\ rt'.tasks \in Seq(ChainTasks)
    <2>1. rt.tasks \in Seq(ChainTasks) /\ rt'.tasks \in Seq(ChainTasks)
      BY <1>3, <1>6 DEF QueueInv, QueueType
    <2>2. Elems(rt.tasks) \subseteq ChainTasks
      BY <2>1, ElemsSeq
    <2>3. QED BY <1>6, <2>1, <2>2, TaskSets DEF Planned
  <1>8. InChain(current') /\ chain \in Shapes /\ current' \in Modules
    <2>1. InChain(current') /\ chain \in Shapes
      BY <1>1, <1>7 DEF ChainInv, Shape, Shapes
    <2>2. QED BY <2>1, Members
  <1>9. InUse = Handed(rt) /\ (task'.buffer \in Buffers => task'.buffer \in Handed(rt))
    <2>1. Asked(script) = {}
      BY <1>2, NothingAsked DEF Asked
    <2>2. task'.buffer \in Buffers => task'.buffer \in TaskBuffers(rt)
      BY <1>6, BufferElems, BufferSets
    <2>3. QED BY <2>1, <2>2 DEF InUse, Handed
  <1>10. (task' \in ReadTasks => Reads(rt)) /\ (task' \in IdleTasks => Idles(rt))
    BY <1>6 DEF Reads, Idles
  <1>11. task' \notin WriteTasks => FewFronts(rt'.tasks, 1)
    <2>1. FewFronts(rt'.tasks, 0) => FewFronts(rt'.tasks, 1)
      BY <1>7, FewerFronts
    <2>2. QED BY <1>6, <2>1
  <1>12. task' \in EndTasks => Handed(rt') = {} /\ FewFronts(rt'.tasks, 0)
    <2>1. rt'.tasks = <<>> /\ rt'.write_buffers = <<>> => Handed(rt') = {}
      BY NothingAsked, BufferElems DEF Handed
    <2>2. task' \in EndTasks => task' \notin FrontTasks
      BY TaskSets
    <2>3. QED BY <1>6, <2>1, <2>2
  <1>13. rt.has_error = rt'.has_error /\ (rt.registered => rt'.registered)
    BY <1>5 DEF SameWaits
  <1>14. QED
    BY <1>1, <1>2, <1>3, <1>4, <1>6, <1>7, <1>8, <1>9, <1>10, <1>11, <1>12, <1>13

-----------------------------------------------------------------------------
(* What a module is called for, and the shortest answers. *)

LEMMA TaskKinds ==
    ASSUME NEW t \in ChainTasks
    PROVE  /\ t.event = "ON_CAN_READ" => t \in ReadTasks /\ t.module = "in"
           /\ t.event = "ON_CAN_WRITE" => t.module = "out" /\ t.buffer \in Written
           /\ t.event = "ON_END" => t \in EndTasks
           /\ t.event = "ON_IDLE" => t \in IdleTasks
           /\ t.event = "ON_REQUEST_DATA" =>
                 /\ t.module = "parser" => t \in ReadTasks /\ t.buffer \in HeaderPieces
                 /\ t.module \in {"builder", "reader", "pob"} => t.buffer = RequestBody
           /\ t.event = "ON_RESPONSE_DATA" => t.module = "pob" /\ t \in ResponseTasks /\ t.buffer \in Pages \cup DataBuffers
           /\ t.event \in T!DataEvents => t.buffer \in Buffers /\ t.event \in {"ON_REQUEST_DATA", "ON_RESPONSE_DATA"}
           /\ t \in WriteTasks => t.event = "ON_CAN_WRITE"
           /\ t.buffer \in Buffers \cup {NoBuffer}
  <1>1. CASE t \in DataTasks
    <2>1. t.buffer \in Buffers
      BY <1>1, TaskSets
    <2>2. t \notin WriteTasks /\ (t \in PieceTasks => t \in ReadTasks)
      BY <1>1, TaskSets DEF ReadTasks
    <2>3. QED BY <1>1, <2>1, <2>2 DEF DataTasks, PieceTasks, BodyTasks, HeadersTasks, ResponseTasks, Tasks, T!DataEvents
  <1>2. CASE t \in WriteTasks
    BY <1>2, BufferSets DEF WriteTasks, Tasks, T!DataEvents
  <1>3. CASE t = CanRead
    BY <1>3, TaskSets DEF CanRead, T!ModuleTask, T!DataEvents
  <1>4. CASE t \in IdleTasks
    BY <1>4, TaskSets DEF IdleTasks, Tasks, T!DataEvents
  <1>5. CASE t \in EndTasks
    BY <1>5, TaskSets DEF EndTasks, Tasks, T!DataEvents
  <1>6. QED BY <1>1, <1>2, <1>3, <1>4, <1>5 DEF ChainTasks, FrontTasks

\* Calls that ask for nothing.
Quiet == Named({"release", "raiseEnd", "endInput", "return", "throw", "notifyEndTask", "insertAfter",
                "reset", "endError"})

LEMMA QuietCalls ==
    /\ Quiet \cap (Gives(Buffers) \cup ReadCalls \cup IdleCalls) = {}
    /\ \A b \in Buffers : Quiet \cap Handing(b) = {}
    /\ \A b \in Buffers : Release(b) \in Quiet /\ Release(b) \in Releasing
    /\ \A b \in Buffers \cup {NoBuffer} : Throw(b) \in Quiet /\ NotifyEndTask(b) \in Quiet
    /\ {RaiseEnd, EndInput, Insert, Return, <<"reset", NoBuffer>>, <<"endError", NoBuffer>>} \subseteq Quiet
  BY DEF Quiet, Gives, ReadCalls, IdleCalls, Handing, GiveData, NeedWrite, Named, Release, Releasing, Throw,
         NotifyEndTask, RaiseEnd, EndInput, Insert, Return

\* A call that hands a buffer over.
LEMMA HandingCalls ==
    ASSUME NEW b \in Buffers
    PROVE  /\ \A d \in Buffers : (GiveData(b) \in Handing(d) <=> d = b) /\ (NeedWrite(b) \in Handing(d) <=> d = b)
           /\ GiveData(b) \in Gives(Buffers) /\ NeedWrite(b) \notin Gives(Buffers)
           /\ \A bs : GiveData(b) \in Gives(bs) <=> b \in bs
           /\ GiveData(b) \in ReadCalls <=> b \in HeaderPieces
           /\ NeedWrite(b) \notin ReadCalls
           /\ {GiveData(b), NeedWrite(b)} \cap (IdleCalls \cup LastCalls) = {}
           /\ \A ns : "giveData" \notin ns => GiveData(b) \notin Named(ns)
           /\ \A ns : "needWrite" \notin ns => NeedWrite(b) \notin Named(ns)
  BY DEF Handing, GiveData, NeedWrite, Gives, ReadCalls, IdleCalls, LastCalls, Named

LEMMA TwoIsConcat ==
    ASSUME NEW c, NEW d
    PROVE  <<c, d>> = <<c>> \o <<d>>
  <1> DEFINE S == {c, d}
             p == <<c, d>>
             q == <<c>> \o <<d>>
  <1>1. <<c>> \in Seq(S) /\ <<d>> \in Seq(S) /\ p \in Seq(S)
    OBVIOUS
  <1>2. Len(<<c>>) = 1 /\ Len(<<d>>) = 1 /\ Len(p) = 2 /\ <<c>>[1] = c /\ <<d>>[1] = d /\ p[1] = c /\ p[2] = d
    OBVIOUS
  <1>3. Len(q) = 2 /\ q[1] = c /\ q[2] = d /\ q \in Seq(S)
    BY <1>1, <1>2, ConcatProperties
  <1> HIDE DEF p, q
  <1>4. \A i \in 1..Len(p) : i = 1 \/ i = 2
    BY <1>2
  <1>5. p = q
    BY <1>1, <1>2, <1>3, <1>4, SeqEqual
  <1>6. QED BY <1>5 DEF p, q

LEMMA ThreeIsConcat ==
    ASSUME NEW c, NEW d, NEW e
    PROVE  <<c, d, e>> = <<c>> \o <<d, e>>
  OBVIOUS

LEMMA FourIsConcat ==
    ASSUME NEW c, NEW d, NEW e, NEW f
    PROVE  <<c, d, e, f>> = <<c>> \o <<d, e, f>>
  OBVIOUS

LEMMA TwoCalls ==
    ASSUME NEW m, NEW c \in CallsOf(m), NEW d \in CallsOf(m), c \notin LastCalls, d \in LastCalls,
           m = "reader" => c \notin Named({"reset", "endError"})
    PROVE  /\ ScriptInv(<<c, d>>, m) /\ Elems(<<c, d>>) = {c, d} /\ <<c, d>> # <<>> /\ <<c, d>>[1] = c
           /\ Once(<<c, d>>, Gives(Buffers)) /\ <<c, d>> = <<c>> \o <<d>>
  <1>1. ScriptInv(<<d>>, m) /\ Elems(<<d>>) = {d} /\ <<d>> # <<>> /\ \A X : Once(<<d>>, X)
    BY OneCall
  <1>2. CanPrecede(c, <<d>>, m)
    BY <1>1, CallSets DEF CanPrecede
  <1>3. <<c, d>> = <<c>> \o <<d>>
    BY TwoIsConcat
  <1>4. d \notin Gives(Buffers)
    BY CallSets
  <1>5. QED BY <1>1, <1>2, <1>3, <1>4, Prepend

-----------------------------------------------------------------------------
(* What the answer of a module has to be, and what follows from it.          *)

Answers ==
    /\ ScriptInv(script', current') /\ Fits(script', current', chain, rt')
    /\ Elems(script') \cap Named({"reset"}) # {} =>
          (current' = "builder" /\ chain = C0) \/ (current' = "reader" /\ chain = CR)
    /\ Elems(script') \cap Named({"insertAfter"}) # {} => current' = "builder" /\ chain = C0
    /\ Elems(script') \cap Named({"reset", "insertAfter"}) # {} => builded'
    /\ Elems(script') \cap Named({"endError"}) # {} => script'[1] \in Named({"reset"})
    /\ builded' \in BOOLEAN /\ (builded => builded')
    /\ parser' \in [buffers : Seq(Buffers), completed : BOOLEAN]
    /\ reader' \in [open : BOOLEAN, left : 0..FileSize, failed : BOOLEAN, delayed : BOOLEAN]
    /\ pob' \in [headers : BOOLEAN, chunked : BOOLEAN]
    /\ measured' \in BOOLEAN /\ sent' \in Seq(Buffers)

LEMMA WhenStarted ==
    ASSUME ChainInv, Start, Answers, Parsing', Answering'
    PROVE  ChainInv'
  <1>1. /\ caller' = "running" /\ reported' = reported /\ chain' = chain /\ task' \in ChainTasks
        /\ InChain(current') /\ chain \in Shapes /\ current' \in Modules
        /\ rt.has_error = rt'.has_error /\ (rt.registered => rt'.registered)
        /\ TP!Consistent(rt') /\ QueueInv(rt') /\ Still(rt') /\ Planned(rt') \subseteq Planned(rt)
    BY StartFrame
  <1>2. \A m : InChain(m)' <=> InChain(m)
    BY <1>1 DEF InChain
  <1>3. Bookkeeping'
    <2>1. reported' # "NONE" => rt'.registered \/ rt'.has_error \/ InChain("error")'
      BY <1>1, <1>2 DEF ChainInv, Bookkeeping
    <2>2. QED BY <1>1, <2>1 DEF Bookkeeping
  <1>4. Shape'
    <2>1. chain' \in {C0, CR, CE, CP} /\ (~builded' => chain' = C0)
      BY <1>1 DEF ChainInv, Shape, Answers
    <2>2. \A t \in Planned(rt') : InChain(t.module)'
      BY <1>1, <1>2 DEF ChainInv, Shape
    <2>3. QED BY <2>1, <2>2 DEF Shape
  <1>5. Running'
    <2>1. InChain(current)'
      BY <1>1 DEF InChain
    <2>2. QED BY <1>1, <2>1 DEF Running, Answers
  <1>6. TypeOK'
    <2>1. TypeOK /\ rt' \in T!State /\ task' \in T!Task
      BY <1>1, ConsistentType, TaskSets DEF ChainInv
    <2>2. \A i \in DOMAIN script' : script'[i][2] \in Buffers \cup {NoBuffer}
      <3>1. script' \in Seq(CallsOf(current'))
        BY DEF Answers, ScriptInv
      <3>2. \A i \in DOMAIN script' : script'[i] \in CallsOf(current')
        BY <3>1, ElemsSeq DEF Elems
      <3>3. QED BY <1>1, <3>2, CallKinds
    <2>3. live' \cup freed' \subseteq Buffers
      <3>1. /\ \E left \in SUBSET {Orphan} :
                   live' = live \cup ({script'[i][2] : i \in DOMAIN script'} \ (freed \cup {NoBuffer})) \cup left
            /\ freed' = freed
        BY DEF Start, Remainder
      <3>2. Orphan \in Buffers
        BY DEF Buffers
      <3>3. QED BY <2>1, <2>2, <3>1, <3>2 DEF TypeOK
    <2>4. told' \subseteq Modules
      <3>1. told' = told \cup {current'} \/ told' = told
        BY DEF Start
      <3>2. QED BY <1>1, <2>1, <3>1 DEF TypeOK
    <2>5. arrived' = arrived /\ late' = late /\ caller' \in T!Callers
      BY <1>1 DEF Start, T!Callers
    <2>6. QED BY <1>1, <2>1, <2>3, <2>4, <2>5 DEF TypeOK, Answers
  <1>7. QED BY <1>3, <1>4, <1>5, <1>6 DEF ChainInv

\* A module that keeps what it knows and hands over no more than the buffer it
\* was given, or what it read.
LEMMA SameAnswers ==
    ASSUME ChainInv, Start, UNCHANGED <<parser, reader, pob, measured>>,
           Asked(script') \subseteq {task'.buffer} \cup HeaderPieces,
           Elems(script') \cap IdleCalls = {},
           Elems(script') \cap ReadCalls # {} => task' \in ReadTasks,
           Elems(script') \cap Gives(Buffers) \subseteq Gives({RequestBody} \cup HeaderPieces),
           current' = "pob" => Elems(script') \cap Gives(Buffers) = {}
    PROVE  Parsing' /\ Answering'
  <1>1. /\ chain' = chain
        /\ Handed(rt') \subseteq Handed(rt) /\ InUse = Handed(rt)
        /\ task'.buffer \in Buffers => task'.buffer \in InUse
        /\ Planned(rt') \subseteq Planned(rt)
        /\ (Reads(rt') => Reads(rt)) /\ (Idles(rt') => Idles(rt)) /\ (task' \in ReadTasks => Reads(rt))
    BY StartFrame
  <1>2. InUse' \subseteq InUse \cup HeaderPieces
    <2>1. Asked(script') \subseteq InUse \cup HeaderPieces
      BY <1>1 DEF Asked
    <2>2. QED BY <1>1, <2>1 DEF InUse
  <1>3. (Reading' => Reading) /\ (Idling' => Idling)
    BY <1>1 DEF Reading, Idling
  <1>4. \A b \in Buffers : Given(b)' => b \in {RequestBody} \cup HeaderPieces
    <2>1. \A b \in Buffers : GiveData(b) \in Gives(Buffers)
      BY HandingCalls
    <2>2. \A b \in Buffers : GiveData(b) \in Gives({RequestBody} \cup HeaderPieces)
             => b \in {RequestBody} \cup HeaderPieces
      BY HandingCalls
    <2>3. QED BY <2>1, <2>2 DEF Given
  <1>5. \A b : Coming(b)' => Coming(b)
    BY <1>1 DEF Coming
  <1>6. /\ RequestBody \notin HeaderPieces /\ Headers \notin HeaderPieces /\ Headers # RequestBody
        /\ DataBuffers \cap ({RequestBody} \cup HeaderPieces) = {}
        /\ Pages \cap ({RequestBody} \cup HeaderPieces) = {}
        /\ \A n \in 1..FileSize : Data(n) \in DataBuffers
        /\ \A b \in Pages : ChunkInfo(b) \in Infos /\ ChunkInfo(b) \notin HeaderPieces
        /\ DataBuffers \subseteq Buffers /\ Pages \subseteq Buffers
    <2>1. \A b \in Pages : ChunkInfo(b) \in Infos
      BY DEF Pages, Padding, Page, ChunkInfo, Infos
    <2>2. \A n \in 1..FileSize : Data(n) \in DataBuffers
      BY DEF DataBuffers
    <2>3. QED BY <2>1, <2>2, BufferSets
  <1>7. Parsing'
    <2>1. Len(parser.buffers) <= Pieces
          /\ (Reading => Len(parser.buffers) < Pieces)
          /\ (Len(parser.buffers) < Pieces => RequestBody \notin InUse)
      BY DEF ChainInv, Parsing
    <2>2. QED BY <1>2, <1>3, <1>6, <2>1 DEF Parsing
  <1>8. Answering'
    <2>0. Answering
      BY DEF ChainInv
    <2>1. /\ Idling' => reader'.open
          /\ reader'.open => measured'
          /\ chain' # CE => ~pob'.chunked
          /\ ~pob'.headers => Headers \notin InUse'
          /\ \A n \in 1..FileSize : Data(n) \in InUse' => n <= FileSize - reader'.left
      BY <1>1, <1>2, <1>3, <1>6, <2>0 DEF Answering
    <2>2. \A b \in DataBuffers : Coming(b)' \/ Given(b)' => chain' = CR /\ measured'
      BY <1>1, <1>4, <1>5, <1>6, <2>0 DEF Answering
    <2>3. chain' = CP /\ current' = "pob" => \A b \in Buffers \ {Headers} : ~Given(b)'
      BY HandingCalls DEF Given
    <2>4. \A b \in Pages :
              /\ Coming(b)' => chain' = CE
              /\ Coming(b)' \/ (current' = "error" /\ Given(b)') => ChunkInfo(b) \notin InUse'
      BY <1>1, <1>2, <1>4, <1>5, <1>6, <2>0 DEF Answering
    <2>5. QED BY <2>1, <2>2, <2>3, <2>4 DEF Answering
  <1>9. QED BY <1>7, <1>8

\* A module that keeps what it knows; it may raise an error, or be the builder
\* that completes the chain.
PlainAnswer ==
    /\ UNCHANGED <<parser, reader, pob, measured>> /\ sent' \in Seq(Buffers)
    /\ builded' \in BOOLEAN /\ (builded => builded')
    /\ ScriptInv(script', current') /\ Once(script', Gives(Buffers))
    /\ Asked(script') \subseteq {task'.buffer} \cup (HeaderPieces \ Handed(rt'))
    /\ Elems(script') \cap IdleCalls = {}
    /\ Elems(script') \cap ReadCalls # {} => task' \in ReadTasks
    /\ Elems(script') \cap Gives(Buffers) \subseteq Gives({RequestBody} \cup HeaderPieces)
    /\ Elems(script') \cap Gives(Buffers) # {} => current' # "pob" /\ task' \notin WriteTasks
    /\ Elems(script') \cap Named({"notifyEndTask"}) # {} => script'[1] \in Named({"throw"})

LEMMA RaisingHandler ==
    ASSUME ChainInv, Start, PlainAnswer,
           Elems(script') \cap Named({"reset"}) # {} =>
              builded' /\ ((current' = "builder" /\ chain = C0) \/ (current' = "reader" /\ chain = CR)),
           Elems(script') \cap Named({"insertAfter"}) # {} => builded' /\ current' = "builder" /\ chain = C0,
           Elems(script') \cap Named({"endError"}) # {} => script'[1] \in Named({"reset"})
    PROVE  ChainInv'
  <1>1. Parsing' /\ Answering'
    BY SameAnswers DEF PlainAnswer
  <1>2. Fits(script', current', chain, rt')
    <2>1. /\ task'.buffer \notin Handed(rt')
          /\ task' \in ReadTasks => ~Reads(rt')
          /\ task' \notin WriteTasks => FewFronts(rt'.tasks, 1)
      BY StartFrame
    <2>2. Asked(script') \cap Handed(rt') = {}
      BY <2>1 DEF PlainAnswer
    <2>3. Elems(script') \cap AddCalls(current', chain) # {} => FewFronts(rt'.tasks, 1)
      BY <2>1 DEF PlainAnswer, AddCalls
    <2>4. script' \in Seq(CallsOf(current'))
      BY DEF PlainAnswer, ScriptInv
    <2>5. QED BY <2>1, <2>2, <2>3, <2>4, OneGift DEF PlainAnswer
  <1>3. Elems(script') \cap Named({"reset", "insertAfter"}) # {} => builded'
    <2>1. Named({"reset", "insertAfter"}) \subseteq Named({"reset"}) \cup Named({"insertAfter"})
      BY DEF Named
    <2>2. QED BY <2>1
  <1>4. TypeOK
    BY DEF ChainInv
  <1>5. Answers
    BY <1>2, <1>3, <1>4 DEF Answers, PlainAnswer, TypeOK
  <1>6. QED BY <1>1, <1>5, WhenStarted

LEMMA PlainHandler ==
    ASSUME ChainInv, Start, PlainAnswer,
           Elems(script') \cap Named({"reset"}) = {}, Elems(script') \cap Named({"insertAfter"}) = {},
           Elems(script') \cap Named({"endError"}) = {}
    PROVE  ChainInv'
  BY RaisingHandler

-----------------------------------------------------------------------------
(* The answers that leave everything as it is. *)

LEMMA QuietScript ==
    ASSUME NEW s, Elems(s) \subseteq Quiet
    PROVE  /\ Asked(s) = {} /\ Elems(s) \cap IdleCalls = {} /\ Elems(s) \cap ReadCalls = {}
           /\ Elems(s) \cap Gives(Buffers) = {} /\ Once(s, Gives(Buffers))
  BY QuietCalls DEF Asked, Once, Elems

\* What any module may ask, and what the modules behind the first may.
LEMMA CommonCalls ==
    ASSUME NEW m \in Modules
    PROVE  /\ RaiseEnd \in CallsOf(m) \ LastCalls /\ Return \in CallsOf(m) /\ Return \in LastCalls
           /\ m # "in" => \A b \in Buffers : Release(b) \in CallsOf(m) \ LastCalls
           /\ m \in {"reader", "pob"} => EndInput \in CallsOf(m) \ LastCalls
           /\ m \in {"in", "out"} => \A b \in Buffers \cup {NoBuffer} :
                 /\ Throw(b) \in CallsOf(m) \ LastCalls /\ NotifyEndTask(b) \in CallsOf(m)
                 /\ NotifyEndTask(b) \in LastCalls
  <1> USE DEF Named, Releasing, RaiseEnd, Return, EndInput, Release, Throw, NotifyEndTask, LastCalls
  <1>1. CASE m = "in"
    BY <1>1 DEF CallsOf
  <1>2. CASE m = "out"
    BY <1>2 DEF CallsOf
  <1>3. CASE m = "parser"
    BY <1>3 DEF CallsOf
  <1>4. CASE m = "builder"
    BY <1>4 DEF CallsOf
  <1>5. CASE m = "reader"
    BY <1>5 DEF CallsOf
  <1>6. CASE m = "error"
    BY <1>6 DEF CallsOf
  <1>7. CASE m = "pob"
    BY <1>7 DEF CallsOf
  <1>8. QED BY <1>1, <1>2, <1>3, <1>4, <1>5, <1>6, <1>7 DEF Modules, Processing

\* The calls that do not raise an error and do not fail.
LEMMA CalmCalls ==
    /\ \A b \in Buffers : {GiveData(b), NeedWrite(b), Release(b)}
          \cap Named({"reset", "insertAfter", "endError", "notifyEndTask", "throw"}) = {}
    /\ {RaiseEnd, EndInput, Return, NeedRead, CallLater}
          \cap Named({"reset", "insertAfter", "endError", "notifyEndTask", "throw"}) = {}
    /\ \A n, k : n # k => Named({n}) \cap Named({k}) = {}
    /\ \A b \in Buffers \cup {NoBuffer} :
          Throw(b) \in Named({"throw"}) /\ NotifyEndTask(b) \in Named({"notifyEndTask"})
  BY DEF Named, GiveData, NeedWrite, Release, RaiseEnd, EndInput, Return, NeedRead, CallLater, Throw,
         NotifyEndTask

LEMMA CalmNames ==
    ASSUME NEW n \in {"reset", "insertAfter", "endError", "notifyEndTask", "throw"}
    PROVE  Named({n}) \subseteq Named({"reset", "insertAfter", "endError", "notifyEndTask", "throw"})
  BY NamedMore

\* <<c, Return>> and <<c, d, Return>> for quiet calls.
LEMMA QuietPair ==
    ASSUME NEW m \in Modules, NEW c \in (CallsOf(m) \cap Quiet) \ LastCalls, m = "reader" => c \notin Named({"reset", "endError"})
    PROVE  /\ ScriptInv(<<c, Return>>, m) /\ Elems(<<c, Return>>) = {c, Return}
           /\ Elems(<<c, Return>>) \subseteq Quiet
  <1>1. Return \in CallsOf(m) /\ Return \in LastCalls /\ Return \in Quiet
    BY CommonCalls, QuietCalls
  <1>2. c \in CallsOf(m) /\ c \in Quiet /\ c \notin LastCalls
    OBVIOUS
  <1> HIDE DEF Return
  <1>3. ScriptInv(<<c, Return>>, m) /\ Elems(<<c, Return>>) = {c, Return}
    BY <1>1, <1>2, TwoCalls
  <1>4. QED BY <1>1, <1>2, <1>3

LEMMA RefusedScript ==
    ASSUME NEW m \in Modules, NEW t \in ChainTasks,
           t.event \in T!DataEvents => m \in {"reader", "pob"}
    PROVE  t.event # "ON_CAN_READ" /\ t.event # "ON_CAN_WRITE" =>
           /\ ScriptInv(Refused(t), m) /\ Elems(Refused(t)) \subseteq Quiet
           /\ Elems(Refused(t)) \cap Named({"reset", "insertAfter", "endError", "notifyEndTask", "throw"}) = {}
  <1>0. /\ RaiseEnd \in CallsOf(m) \ LastCalls /\ Return \in CallsOf(m) /\ Return \in LastCalls
        /\ RaiseEnd \in Quiet /\ Return \in Quiet
        /\ RaiseEnd \notin Named({"reset", "endError"})
    <2>1. Named({"reset", "endError"}) \subseteq Named({"reset", "insertAfter", "endError", "notifyEndTask", "throw"})
      BY NamedMore
    <2>2. QED BY <2>1, CommonCalls, QuietCalls, CalmCalls
  <1>1. CASE t.event \in T!DataEvents
    <2>1. t.buffer \in Buffers /\ m \in {"reader", "pob"} /\ m # "in"
      BY <1>1, TaskKinds
    <2>2. /\ Release(t.buffer) \in CallsOf(m) \ LastCalls /\ EndInput \in CallsOf(m) \ LastCalls
          /\ Release(t.buffer) \in Quiet /\ EndInput \in Quiet
      BY <2>1, CommonCalls, QuietCalls
    <2>3. /\ {Release(t.buffer), EndInput, Return}
                \cap Named({"reset", "insertAfter", "endError", "notifyEndTask", "throw"}) = {}
      BY <2>1, CalmCalls
    <2>4. Named({"reset", "endError"}) \subseteq Named({"reset", "insertAfter", "endError", "notifyEndTask", "throw"})
          /\ Named({"reset", "insertAfter"}) \subseteq Named({"reset", "insertAfter", "endError", "notifyEndTask", "throw"})
      BY NamedMore
    <2> DEFINE s == <<EndInput, Return>>
    <2>5. ScriptInv(s, m) /\ Elems(s) = {EndInput, Return} /\ s # <<>>
      <3>1. EndInput \notin Named({"reset", "endError"})
        BY <2>3, <2>4
      <3>2. QED BY <2>2, <3>1, QuietPair
    <2>6. Refused(t) = <<Release(t.buffer)>> \o s
      <3>1. Refused(t) = <<Release(t.buffer), EndInput, Return>>
        BY <1>1 DEF Refused, T!DataEvents
      <3>2. QED BY <3>1, ThreeIsConcat
    <2> HIDE DEF s
    <2>7. CanPrecede(Release(t.buffer), s, m)
      <3>1. /\ Elems(s) \cap Named({"reset", "insertAfter"}) = {} /\ Elems(s) \cap Named({"reset", "endError"}) = {}
            /\ Release(t.buffer) \notin Named({"reset", "endError"})
        BY <2>3, <2>4, <2>5
      <3>2. Elems(s) \cap (ReadCalls \cup IdleCalls) = {} /\ \A b \in Buffers : Elems(s) \cap Handing(b) = {}
        BY <1>0, <2>2, <2>5, QuietCalls
      <3>3. QED BY <2>2, <3>1, <3>2 DEF CanPrecede
    <2>8. ScriptInv(Refused(t), m) /\ Elems(Refused(t)) = Elems(s) \cup {Release(t.buffer)}
      BY <2>5, <2>6, <2>7, Prepend
    <2>9. QED BY <1>0, <2>2, <2>3, <2>5, <2>8
  <1>2. CASE t.event = "ON_END"
    <2>1. Refused(t) = <<RaiseEnd, Return>>
      BY <1>2 DEF Refused, T!DataEvents
    <2>2. {RaiseEnd, Return} \cap Named({"reset", "insertAfter", "endError", "notifyEndTask", "throw"}) = {}
      BY CalmCalls
    <2>3. QED BY <1>0, <2>1, <2>2, QuietPair
  <1>3. CASE t.event = "ON_IDLE"
    <2>1. Refused(t) = <<Return>>
      BY <1>3 DEF Refused, T!DataEvents
    <2>2. {Return} \cap Named({"reset", "insertAfter", "endError", "notifyEndTask", "throw"}) = {}
      BY CalmCalls
    <2>3. ScriptInv(<<Return>>, m) /\ Elems(<<Return>>) = {Return}
      BY <1>0, OneCall
    <2>4. QED BY <1>0, <2>1, <2>2, <2>3
  <1>4. t.event \in {"ON_CAN_READ", "ON_CAN_WRITE", "ON_END", "ON_IDLE"} \cup T!DataEvents
    BY TaskSets DEF T!Task, T!Events
  <1>5. QED BY <1>1, <1>2, <1>3, <1>4

\* A module that asks for nothing and keeps what it knows.
LEMMA QuietHandler ==
    ASSUME ChainInv, Start, UNCHANGED <<parser, reader, pob, measured, builded>>, sent' \in Seq(Buffers),
           ScriptInv(script', current'), Elems(script') \subseteq Quiet,
           Elems(script') \cap Named({"reset"}) = {}, Elems(script') \cap Named({"insertAfter"}) = {},
           Elems(script') \cap Named({"endError"}) = {},
           Elems(script') \cap Named({"notifyEndTask"}) # {} => script'[1] \in Named({"throw"})
    PROVE  ChainInv'
  <1>1. /\ Asked(script') = {} /\ Elems(script') \cap IdleCalls = {} /\ Elems(script') \cap ReadCalls = {}
        /\ Elems(script') \cap Gives(Buffers) = {} /\ Once(script', Gives(Buffers))
    BY QuietScript
  <1>2. builded' \in BOOLEAN /\ (builded => builded')
    BY DEF ChainInv, TypeOK
  <1>3. PlainAnswer
    BY <1>1, <1>2 DEF PlainAnswer
  <1>4. QED BY <1>3, PlainHandler

LEMMA RefusedHandler ==
    ASSUME ChainInv, Start, UNCHANGED <<parser, reader, pob, measured, builded, sent>>,
           script' = Refused(task'), task'.event \notin {"ON_CAN_READ", "ON_CAN_WRITE"},
           task'.event \in T!DataEvents => task'.module \in {"reader", "pob"}
    PROVE  ChainInv'
  <1>1. task' \in ChainTasks /\ current' = task'.module /\ current' \in Modules
    BY StartFrame
  <1>2. /\ ScriptInv(script', current') /\ Elems(script') \subseteq Quiet
        /\ Elems(script') \cap Named({"reset", "insertAfter", "endError", "notifyEndTask", "throw"}) = {}
    BY <1>1, RefusedScript
  <1>3. \A n \in {"reset", "insertAfter", "endError", "notifyEndTask", "throw"} : Elems(script') \cap Named({n}) = {}
    BY <1>2, CalmNames
  <1>4. sent' \in Seq(Buffers)
    BY DEF ChainInv, TypeOK
  <1>5. QED BY <1>2, <1>3, <1>4, QuietHandler

-----------------------------------------------------------------------------
(* The modules one by one: those that keep what they know. *)

\* Script s gives the buffers bs and makes the calls Q besides.
HandsOver(s, bs, Q) ==
    /\ bs \subseteq Buffers /\ Q \subseteq Quiet \cup {NeedRead, CallLater}
    /\ Elems(s) = {GiveData(b) : b \in bs} \cup Q

LEMMA AskedIs ==
    ASSUME NEW s, NEW bs, NEW Q, HandsOver(s, bs, Q)
    PROVE  /\ Asked(s) = bs
           /\ \A b \in Buffers : GiveData(b) \in Elems(s) <=> b \in bs
           /\ \A cs \in SUBSET Buffers : bs \subseteq cs => Elems(s) \cap Gives(Buffers) \subseteq Gives(cs)
           /\ bs = {} => Elems(s) \cap Gives(Buffers) = {}
           /\ \A ns : "giveData" \notin ns => Elems(s) \cap Named(ns) = Q \cap Named(ns)
  <1>0. /\ bs \subseteq Buffers /\ Q \subseteq Quiet \cup {NeedRead, CallLater}
        /\ Elems(s) = {GiveData(b) : b \in bs} \cup Q
    BY DEF HandsOver
  <1>1. \A q \in Q : q \notin Gives(Buffers) /\ \A d \in Buffers : q \notin Handing(d)
    <2>1. {NeedRead, CallLater} \cap Gives(Buffers) = {} /\ \A d \in Buffers : {NeedRead, CallLater} \cap Handing(d) = {}
      BY DEF NeedRead, CallLater, Gives, Handing, GiveData, NeedWrite
    <2>2. QED BY <1>0, <2>1, QuietCalls
  <1>2. \A b \in bs, d \in Buffers : GiveData(b) \in Handing(d) <=> d = b
    BY <1>0, HandingCalls
  <1>3. Asked(s) = bs
    BY <1>0, <1>1, <1>2 DEF Asked
  <1>4. \A b \in Buffers : GiveData(b) \in Elems(s) <=> b \in bs
    <2>1. \A b \in Buffers : GiveData(b) \in Gives(Buffers)
      BY HandingCalls
    <2>2. \A b, d : GiveData(b) = GiveData(d) => b = d
      BY DEF GiveData
    <2>3. QED BY <1>0, <1>1, <2>1, <2>2
  <1>5. \A cs \in SUBSET Buffers : bs \subseteq cs => Elems(s) \cap Gives(Buffers) \subseteq Gives(cs)
    <2>1. \A b \in bs : \A cs : b \in cs => GiveData(b) \in Gives(cs)
      BY <1>0, HandingCalls
    <2>2. QED BY <1>0, <1>1, <2>1
  <1>6. \A ns : "giveData" \notin ns => Elems(s) \cap Named(ns) = Q \cap Named(ns)
    <2>1. \A ns, b : "giveData" \notin ns => GiveData(b) \notin Named(ns)
      BY DEF GiveData, Named
    <2>2. QED BY <1>0, <2>1
  <1>7. QED BY <1>0, <1>1, <1>3, <1>4, <1>5, <1>6

LEMMA GiveAndReturn ==
    ASSUME NEW m \in Modules, NEW b \in Buffers, GiveData(b) \in CallsOf(m)
    PROVE  LET s == <<GiveData(b), Return>>
           IN  /\ ScriptInv(s, m) /\ Once(s, Gives(Buffers)) /\ Elems(s) = {GiveData(b), Return}
               /\ Asked(s) = {b} /\ Elems(s) \cap IdleCalls = {}
               /\ Elems(s) \cap ReadCalls # {} => b \in HeaderPieces
               /\ Elems(s) \cap Gives(Buffers) \subseteq Gives({b})
               /\ \A n \in {"reset", "insertAfter", "endError", "notifyEndTask", "throw"} : Elems(s) \cap Named({n}) = {}
  <1> DEFINE s == <<GiveData(b), Return>>
  <1>1. Return \in CallsOf(m) /\ Return \in LastCalls /\ Return \in Quiet
    BY CommonCalls, QuietCalls
  <1>2. /\ GiveData(b) \notin LastCalls /\ GiveData(b) \notin Named({"reset", "endError"})
        /\ GiveData(b) \notin IdleCalls /\ (GiveData(b) \in ReadCalls => b \in HeaderPieces)
    BY HandingCalls
  <1>3. ScriptInv(s, m) /\ Elems(s) = {GiveData(b), Return} /\ Once(s, Gives(Buffers))
    <2> HIDE DEF Return
    <2>1. QED BY <1>1, <1>2, TwoCalls
  <1> HIDE DEF s
  <1>4. Elems(s) = {GiveData(d) : d \in {b}} \cup {Return}
    BY <1>3
  <1>5. /\ Asked(s) = {b} /\ Elems(s) \cap Gives(Buffers) \subseteq Gives({b})
    <2>1. HandsOver(s, {b}, {Return}) /\ {b} \in SUBSET Buffers
      BY <1>1, <1>4 DEF HandsOver
    <2> HIDE DEF Return
    <2>2. QED BY <2>1, AskedIs
  <1>6. Elems(s) \cap IdleCalls = {} /\ (Elems(s) \cap ReadCalls # {} => b \in HeaderPieces)
    BY <1>1, <1>2, <1>3, QuietCalls
  <1>7. \A n \in {"reset", "insertAfter", "endError", "notifyEndTask", "throw"} : Elems(s) \cap Named({n}) = {}
    BY <1>3, CalmCalls, CalmNames
  <1>8. QED BY <1>3, <1>5, <1>6, <1>7 DEF s

\* The buffer a read fills is not in the queue.
LEMMA PieceFresh ==
    ASSUME NEW r, QueueInv(r), ~Reads(r)
    PROVE  HeaderPieces \cap Handed(r) = {}
  <1>1. r.tasks \in Seq(ChainTasks) /\ r.write_buffers \in Seq(Written)
    BY DEF QueueInv, QueueType
  <1>2. Elems(r.tasks) \subseteq ChainTasks /\ Elems(r.write_buffers) \subseteq Written
    BY <1>1, ElemsSeq
  <1>3. HeaderPieces \cap WriteBuffers(r) = {}
    BY <1>2, BufferElems, BufferSets
  <1>4. \A t \in ChainTasks : t.buffer \in HeaderPieces => t \in ReadTasks
    <2> SUFFICES ASSUME NEW t \in ChainTasks, t.buffer \in HeaderPieces PROVE t \in PieceTasks
      BY DEF ReadTasks
    <2>1. t \in FrontTasks
      BY BufferSets, TaskSets
    <2>2. \A b \in HeaderPieces : b # RequestBody /\ b # Headers /\ b \notin Pages \cup DataBuffers /\ b \notin Written
      BY BufferSets
    <2>3. QED BY <2>1, <2>2, TaskSets DEF FrontTasks, DataTasks, BodyTasks, HeadersTasks, ResponseTasks, Tasks
  <1>5. HeaderPieces \cap TaskBuffers(r) = {}
    BY <1>2, <1>4, BufferElems DEF Reads
  <1>6. QED BY <1>3, <1>5 DEF Handed

LEMMA NetworkReadHandler ==
    ASSUME ChainInv, Start, NetworkRead(task')
    PROVE  ChainInv'
  <1> DEFINE n == Len(parser.buffers) + 1
  <1>1. /\ task'.module = "in" /\ task'.event = "ON_CAN_READ"
        /\ \/ script' = <<GiveData(Piece(n)), Return>>
           \/ script' = <<Throw(Orphan), NotifyEndTask(NoBuffer)>>
        /\ UNCHANGED <<parser, reader, pob, measured, builded, sent>>
    BY DEF NetworkRead, Runs, SameModules
  <1>2. /\ task' \in ReadTasks /\ current' = "in" /\ task' \in ChainTasks
        /\ QueueInv(rt') /\ ~Reads(rt') /\ Reads(rt)
    BY <1>1, StartFrame, TaskKinds
  <1>3. sent' \in Seq(Buffers) /\ builded' \in BOOLEAN /\ (builded => builded')
    BY <1>1 DEF ChainInv, TypeOK
  <1>4. Piece(n) \in HeaderPieces
    <2>1. Len(parser.buffers) < Pieces /\ parser.buffers \in Seq(Buffers)
      BY <1>2 DEF ChainInv, Parsing, Reading, TypeOK
    <2>2. Len(parser.buffers) \in Nat
      BY <2>1, LenProperties
    <2>3. n \in 1..Pieces
      BY <2>1, <2>2, RequestChainAssumption
    <2>4. QED BY <2>3 DEF HeaderPieces
  <1> HIDE DEF n
  <1>5. CASE script' = <<GiveData(Piece(n)), Return>>
    <2>1. Piece(n) \in Buffers /\ GiveData(Piece(n)) \in CallsOf("in") /\ "in" \in Modules
      <3>1. GiveData(Piece(n)) \in Gives(HeaderPieces)
        BY <1>4, HandingCalls, BufferSets
      <3>2. QED BY <1>4, <3>1, BufferSets DEF CallsOf, Modules
    <2>2. /\ ScriptInv(script', "in") /\ Once(script', Gives(Buffers))
          /\ Asked(script') = {Piece(n)} /\ Elems(script') \cap IdleCalls = {}
          /\ Elems(script') \cap Gives(Buffers) \subseteq Gives({Piece(n)})
          /\ \A k \in {"reset", "insertAfter", "endError", "notifyEndTask", "throw"} : Elems(script') \cap Named({k}) = {}
      BY <1>5, <2>1, GiveAndReturn
    <2>3. Piece(n) \notin Handed(rt')
      BY <1>2, <1>4, PieceFresh
    <2>4. Gives({Piece(n)}) \subseteq Gives({RequestBody} \cup HeaderPieces)
      BY <1>4 DEF Gives
    <2>5. task' \notin WriteTasks
      BY <1>2, TaskSets
    <2>6. PlainAnswer
      BY <1>1, <1>2, <1>3, <1>4, <2>2, <2>3, <2>4, <2>5 DEF PlainAnswer
    <2>7. QED BY <2>2, <2>6, PlainHandler
  <1>6. CASE script' = <<Throw(Orphan), NotifyEndTask(NoBuffer)>>
    <2>1. /\ Throw(Orphan) \in CallsOf("in") \ LastCalls /\ NotifyEndTask(NoBuffer) \in CallsOf("in")
          /\ NotifyEndTask(NoBuffer) \in LastCalls
          /\ Throw(Orphan) \in Quiet /\ NotifyEndTask(NoBuffer) \in Quiet
      BY CommonCalls, QuietCalls, BufferSets DEF Modules
    <2>2. /\ ScriptInv(script', "in") /\ Elems(script') = {Throw(Orphan), NotifyEndTask(NoBuffer)}
          /\ script'[1] = Throw(Orphan)
      <3> DEFINE c == Throw(Orphan)
                 d == NotifyEndTask(NoBuffer)
      <3> HIDE DEF c, d
      <3>1. c \in CallsOf("in") /\ d \in CallsOf("in") /\ c \notin LastCalls /\ d \in LastCalls
        BY <2>1 DEF c, d
      <3>2. ScriptInv(<<c, d>>, "in") /\ Elems(<<c, d>>) = {c, d} /\ <<c, d>>[1] = c
        BY <3>1, TwoCalls
      <3>3. QED BY <1>6, <3>2 DEF c, d
    <2>3. Throw(Orphan) \in Named({"throw"}) /\ NotifyEndTask(NoBuffer) \in Named({"notifyEndTask"})
      BY CalmCalls, BufferSets
    <2>4. \A k \in {"reset", "insertAfter", "endError"} : Elems(script') \cap Named({k}) = {}
      <3>1. \A k \in {"reset", "insertAfter", "endError"} :
               Named({k}) \cap Named({"throw"}) = {} /\ Named({k}) \cap Named({"notifyEndTask"}) = {}
        BY CalmCalls
      <3>2. QED BY <2>2, <2>3, <3>1
    <2>5. QED BY <1>1, <1>2, <1>3, <2>1, <2>2, <2>3, <2>4, QuietHandler
  <1>7. QED BY <1>1, <1>5, <1>6

LEMMA NetworkWriteHandler ==
    ASSUME ChainInv, Start, NetworkWrite(task')
    PROVE  ChainInv'
  <1> DEFINE b == task'.buffer
  <1>1. /\ task'.module = "out" /\ task'.event = "ON_CAN_WRITE"
        /\ UNCHANGED <<parser, reader, pob, measured, builded>> /\ sent' \in {sent, Append(sent, b)}
        /\ \/ script' = <<Release(b), Return>>
           \/ script' = <<NeedWrite(b), Return>>
           \/ script' = <<Throw(NoBuffer), NotifyEndTask(b)>>
    BY DEF NetworkWrite, Runs, SameModules
  <1>2. /\ current' = "out" /\ task' \in ChainTasks /\ b \in Written /\ b \in Buffers
    BY <1>1, StartFrame, TaskKinds, BufferSets
  <1> HIDE DEF b
  <1>3. sent' \in Seq(Buffers) /\ builded' \in BOOLEAN /\ (builded => builded')
    <2>1. sent \in Seq(Buffers) /\ builded \in BOOLEAN
      BY DEF ChainInv, TypeOK
    <2>2. QED BY <1>1, <1>2, <2>1
  <1>4. Return \in CallsOf("out") /\ Return \in LastCalls /\ Return \in Quiet /\ "out" \in Modules
    BY CommonCalls, QuietCalls DEF Modules
  <1>5. CASE script' = <<Release(b), Return>>
    <2>1. Release(b) \in CallsOf("out") \ LastCalls /\ Release(b) \in Quiet
      BY <1>2, <1>4, CommonCalls, QuietCalls
    <2>2. ScriptInv(script', "out") /\ Elems(script') = {Release(b), Return} /\ Elems(script') \subseteq Quiet
      BY <1>4, <1>5, <2>1, QuietPair
    <2>3. \A k \in {"reset", "insertAfter", "endError", "notifyEndTask", "throw"} : Elems(script') \cap Named({k}) = {}
      BY <1>2, <2>2, CalmCalls, CalmNames
    <2>4. QED BY <1>1, <1>2, <1>3, <2>2, <2>3, QuietHandler
  <1>6. CASE script' = <<NeedWrite(b), Return>>
    <2>1. NeedWrite(b) \in CallsOf("out") /\ NeedWrite(b) \notin LastCalls
      BY <1>2, HandingCalls DEF CallsOf, NeedWrite
    <2>2. ScriptInv(script', "out") /\ Elems(script') = {NeedWrite(b), Return} /\ Once(script', Gives(Buffers))
      <3> HIDE DEF Return, NeedWrite
      <3>1. QED BY <1>4, <1>6, <2>1, TwoCalls
    <2>3. Asked(script') = {b}
      <3>1. \A d \in Buffers : Return \notin Handing(d) /\ (NeedWrite(b) \in Handing(d) <=> d = b)
        BY <1>2, <1>4, HandingCalls, QuietCalls
      <3>2. QED BY <1>2, <2>2, <3>1 DEF Asked
    <2>4. /\ Elems(script') \cap IdleCalls = {} /\ Elems(script') \cap ReadCalls = {}
          /\ Elems(script') \cap Gives(Buffers) = {}
      BY <1>2, <1>4, <2>2, HandingCalls, QuietCalls
    <2>5. \A k \in {"reset", "insertAfter", "endError", "notifyEndTask", "throw"} : Elems(script') \cap Named({k}) = {}
      BY <1>2, <2>2, CalmCalls, CalmNames
    <2>6. PlainAnswer
      BY <1>1, <1>2, <1>3, <2>2, <2>3, <2>4, <2>5 DEF PlainAnswer, b
    <2>7. QED BY <2>5, <2>6, PlainHandler
  <1>7. CASE script' = <<Throw(NoBuffer), NotifyEndTask(b)>>
    <2>1. /\ Throw(NoBuffer) \in CallsOf("out") \ LastCalls /\ NotifyEndTask(b) \in CallsOf("out")
          /\ NotifyEndTask(b) \in LastCalls
          /\ Throw(NoBuffer) \in Quiet /\ NotifyEndTask(b) \in Quiet
      BY <1>2, <1>4, CommonCalls, QuietCalls
    <2>2. /\ ScriptInv(script', "out") /\ Elems(script') = {Throw(NoBuffer), NotifyEndTask(b)}
          /\ script'[1] = Throw(NoBuffer)
      <3> DEFINE c == Throw(NoBuffer)
                 d == NotifyEndTask(b)
      <3> HIDE DEF c, d
      <3>1. c \in CallsOf("out") /\ d \in CallsOf("out") /\ c \notin LastCalls /\ d \in LastCalls
        BY <2>1 DEF c, d
      <3>2. ScriptInv(<<c, d>>, "out") /\ Elems(<<c, d>>) = {c, d} /\ <<c, d>>[1] = c
        BY <3>1, TwoCalls
      <3>3. QED BY <1>7, <3>2 DEF c, d
    <2>3. Throw(NoBuffer) \in Named({"throw"}) /\ NotifyEndTask(b) \in Named({"notifyEndTask"})
      BY <1>2, CalmCalls
    <2>4. \A k \in {"reset", "insertAfter", "endError"} : Elems(script') \cap Named({k}) = {}
      <3>1. \A k \in {"reset", "insertAfter", "endError"} :
               Named({k}) \cap Named({"throw"}) = {} /\ Named({k}) \cap Named({"notifyEndTask"}) = {}
        BY CalmCalls
      <3>2. QED BY <2>2, <2>3, <3>1
    <2>5. QED BY <1>1, <1>2, <1>3, <2>1, <2>2, <2>3, <2>4, QuietHandler
  <1>8. QED BY <1>1, <1>5, <1>6, <1>7

LEMMA RefusingHandlers ==
    ASSUME ChainInv, Start,
           NetworkEnd(task') \/ ParserEnd(task') \/ ReaderData(task') \/ PreOutputRequestData(task')
    PROVE  ChainInv'
  <1>1. /\ script' = Refused(task') /\ UNCHANGED <<parser, reader, pob, measured, builded, sent>>
        /\ task'.event \notin {"ON_CAN_READ", "ON_CAN_WRITE"}
        /\ task'.event \in T!DataEvents => task'.module \in {"reader", "pob"}
    BY DEF NetworkEnd, ParserEnd, ReaderData, PreOutputRequestData, Runs, SameModules, T!DataEvents
  <1>2. QED BY <1>1, RefusedHandler

LEMMA BuilderAgainHandler ==
    ASSUME ChainInv, Start, BuilderAgain(task')
    PROVE  ChainInv'
  <1>1. /\ task'.module = "builder" /\ script' = BuilderAnswer(task', FALSE)
        /\ UNCHANGED <<parser, reader, pob, measured, builded, sent>>
    BY DEF BuilderAgain, Runs, SameModules
  <1>2. current' = "builder" /\ task' \in ChainTasks
    BY <1>1, StartFrame
  <1>3. CASE task'.event = "ON_REQUEST_DATA"
    <2>1. task'.buffer = RequestBody /\ RequestBody \in Buffers /\ RequestBody \notin HeaderPieces
      BY <1>1, <1>2, <1>3, TaskKinds, BufferSets
    <2>2. script' = <<GiveData(RequestBody), Return>>
      <3>1. script' = <<GiveData(RequestBody)>> \o <<Return>>
        BY <1>1, <1>3, <2>1 DEF BuilderAnswer, Done
      <3>2. QED BY <3>1, TwoIsConcat
    <2>3. GiveData(RequestBody) \in CallsOf("builder") /\ "builder" \in Modules
      BY DEF CallsOf, Modules, Gives, GiveData
    <2>4. /\ ScriptInv(script', "builder") /\ Once(script', Gives(Buffers))
          /\ Asked(script') = {RequestBody} /\ Elems(script') \cap IdleCalls = {}
          /\ Elems(script') \cap ReadCalls = {}
          /\ Elems(script') \cap Gives(Buffers) \subseteq Gives({RequestBody})
          /\ \A k \in {"reset", "insertAfter", "endError", "notifyEndTask", "throw"} : Elems(script') \cap Named({k}) = {}
      BY <2>1, <2>2, <2>3, GiveAndReturn
    <2>5. Gives({RequestBody}) \subseteq Gives({RequestBody} \cup HeaderPieces)
      BY DEF Gives
    <2>6. task' \notin WriteTasks
      BY <1>2, <1>3, TaskKinds
    <2>7. sent' \in Seq(Buffers) /\ builded' \in BOOLEAN /\ (builded => builded')
      BY <1>1 DEF ChainInv, TypeOK
    <2>8. PlainAnswer
      BY <1>1, <1>2, <2>1, <2>4, <2>5, <2>6, <2>7 DEF PlainAnswer
    <2>9. QED BY <2>4, <2>8, PlainHandler
  <1>4. CASE task'.event # "ON_REQUEST_DATA"
    <2>1. script' = Refused(task')
      BY <1>1, <1>4 DEF BuilderAnswer
    <2>2. task'.event \notin {"ON_CAN_READ", "ON_CAN_WRITE"} /\ task'.event \notin T!DataEvents
      BY <1>1, <1>2, <1>4, TaskKinds
    <2>3. QED BY <1>1, <2>1, <2>2, RefusedHandler
  <1>5. QED BY <1>3, <1>4

LEMMA ErrorDataHandler ==
    ASSUME ChainInv, Start, ErrorData(task')
    PROVE  ChainInv'
  <1>1. /\ task'.module = "error" /\ task'.event \in T!DataEvents
        /\ script' = <<Release(task'.buffer), Return>>
        /\ UNCHANGED <<parser, reader, pob, measured, builded, sent>>
    BY DEF ErrorData, Runs, SameModules
  <1> DEFINE b == task'.buffer
  <1>2. current' = "error" /\ b \in Buffers
    BY <1>1, StartFrame, TaskKinds
  <1> HIDE DEF b
  <1>3. Release(b) \in CallsOf("error") \ LastCalls /\ Release(b) \in Quiet /\ "error" \in Modules
    BY <1>2, CommonCalls, QuietCalls DEF Modules, Processing
  <1>4. ScriptInv(script', "error") /\ Elems(script') = {Release(b), Return} /\ Elems(script') \subseteq Quiet
    BY <1>1, <1>3, QuietPair DEF b
  <1>5. \A k \in {"reset", "insertAfter", "endError", "notifyEndTask", "throw"} : Elems(script') \cap Named({k}) = {}
    BY <1>2, <1>4, CalmCalls, CalmNames
  <1>6. sent' \in Seq(Buffers)
    BY <1>1 DEF ChainInv, TypeOK
  <1>7. QED BY <1>1, <1>2, <1>4, <1>5, <1>6, QuietHandler

-----------------------------------------------------------------------------
(* The modules that raise errors or read the file. *)

LEMMA PrependQuiet ==
    ASSUME NEW m, NEW s, ScriptInv(s, m), s # <<>>, NEW c \in Quiet, CanPrecede(c, s, m)
    PROVE  /\ ScriptInv(<<c>> \o s, m) /\ Elems(<<c>> \o s) = Elems(s) \cup {c}
           /\ <<c>> \o s # <<>> /\ (<<c>> \o s)[1] = c
           /\ Asked(<<c>> \o s) = Asked(s)
           /\ Elems(<<c>> \o s) \cap IdleCalls = Elems(s) \cap IdleCalls
           /\ Elems(<<c>> \o s) \cap ReadCalls = Elems(s) \cap ReadCalls
           /\ Elems(<<c>> \o s) \cap Gives(Buffers) = Elems(s) \cap Gives(Buffers)
           /\ Once(s, Gives(Buffers)) => Once(<<c>> \o s, Gives(Buffers))
  <1> DEFINE r == <<c>> \o s
  <1>1. c \notin Gives(Buffers) \cup ReadCalls \cup IdleCalls /\ \A b \in Buffers : c \notin Handing(b)
    BY QuietCalls
  <1>2. /\ ScriptInv(r, m) /\ Elems(r) = Elems(s) \cup {c} /\ r # <<>> /\ r[1] = c
        /\ Once(s, Gives(Buffers)) => Once(r, Gives(Buffers))
    BY <1>1, Prepend
  <1> HIDE DEF r
  <1>3. Asked(r) = Asked(s)
    BY <1>1, <1>2 DEF Asked
  <1>4. /\ Elems(r) \cap IdleCalls = Elems(s) \cap IdleCalls /\ Elems(r) \cap ReadCalls = Elems(s) \cap ReadCalls
        /\ Elems(r) \cap Gives(Buffers) = Elems(s) \cap Gives(Buffers)
    BY <1>1, <1>2
  <1>5. QED BY <1>2, <1>3, <1>4 DEF r

\* The end of a script that raises an error.
Tame(s) ==
    /\ s # <<>> /\ Once(s, Gives(Buffers))
    /\ Elems(s) \cap IdleCalls = {} /\ Elems(s) \cap ReadCalls = {}
    /\ Elems(s) \cap Gives(Buffers) \subseteq Gives({RequestBody})
    /\ \A n \in {"reset", "insertAfter", "endError", "notifyEndTask", "throw"} : Elems(s) \cap Named({n}) = {}

LEMMA RaiseErrorScript ==
    ASSUME NEW m \in {"builder", "reader"}, NEW s, ScriptInv(s, m), Tame(s),
           m = "reader" => s \in Seq(Named({"return"}))
    PROVE  LET r == RaiseError \o s
           IN  /\ ScriptInv(r, m) /\ Once(r, Gives(Buffers)) /\ Asked(r) = Asked(s)
               /\ Elems(r) \cap IdleCalls = {} /\ Elems(r) \cap ReadCalls = {}
               /\ Elems(r) \cap Gives(Buffers) = Elems(s) \cap Gives(Buffers)
               /\ Elems(r) \cap Named({"notifyEndTask"}) = {} /\ Elems(r) \cap Named({"insertAfter"}) = {}
               /\ r[1] \in Named({"reset"})
  <1> DEFINE c == <<"reset", NoBuffer>>
             d == <<"endError", NoBuffer>>
             r == <<c>> \o (<<d>> \o s)
  <1>1. RaiseError \o s = r
    <2>1. c \in CallsOf(m) \/ TRUE
      OBVIOUS
    <2>2. s \in Seq(CallsOf(m) \cup {c, d}) /\ <<c>> \in Seq(CallsOf(m) \cup {c, d}) /\ <<d>> \in Seq(CallsOf(m) \cup {c, d})
      <3>1. s \in Seq(CallsOf(m))
        BY DEF ScriptInv
      <3>2. QED BY <3>1, SeqMonotonic
    <2>3. RaiseError = <<c>> \o <<d>>
      BY TwoIsConcat DEF RaiseError
    <2> HIDE DEF c, d
    <2>4. QED BY <2>2, <2>3, ConcatAssociative
  <1>2. c \in Quiet /\ d \in Quiet /\ c \in Named({"reset"}) /\ d \in Named({"endError"})
    BY QuietCalls DEF Named
  <1>3. c \in CallsOf(m) /\ d \in CallsOf(m) /\ c \notin LastCalls /\ d \notin LastCalls
    <2>1. c \notin LastCalls /\ d \notin LastCalls
      BY DEF LastCalls, Named
    <2>2. CASE m = "builder"
      BY <2>1, <2>2 DEF CallsOf, Named
    <2>3. CASE m = "reader"
      BY <2>1, <2>3 DEF CallsOf, Named
    <2>4. QED BY <2>2, <2>3
  <1>4. d \notin Named({"reset", "insertAfter"}) /\ {c, d} \subseteq Named({"reset", "endError", "return"})
        /\ d \notin Named({"notifyEndTask"}) /\ c \notin Named({"notifyEndTask"})
        /\ d \notin Named({"insertAfter"}) /\ c \notin Named({"insertAfter"})
    BY DEF Named
  <1> HIDE DEF c, d
  <1>5. Elems(s) \cap Named({"reset", "insertAfter"}) = {}
    <2>1. Named({"reset", "insertAfter"}) = Named({"reset"}) \cup Named({"insertAfter"})
      BY DEF Named
    <2>2. QED BY <2>1 DEF Tame
  <1>6. m = "reader" => s \in Seq(Named({"reset", "endError", "return"}))
    <2>1. Named({"return"}) \subseteq Named({"reset", "endError", "return"})
      BY NamedMore
    <2>2. QED BY <2>1, SeqMonotonic
  <1>7. CanPrecede(d, s, m)
    <2>1. d \notin ReadCalls \cup IdleCalls /\ \A b \in Buffers : d \notin Handing(b)
      BY <1>2, QuietCalls
    <2>2. QED BY <1>3, <1>4, <1>5, <1>6, <2>1 DEF CanPrecede
  <1> DEFINE q == <<d>> \o s
  <1>8. /\ ScriptInv(q, m) /\ Elems(q) = Elems(s) \cup {d} /\ q # <<>>
        /\ Asked(q) = Asked(s)
        /\ Elems(q) \cap IdleCalls = Elems(s) \cap IdleCalls
        /\ Elems(q) \cap ReadCalls = Elems(s) \cap ReadCalls
        /\ Elems(q) \cap Gives(Buffers) = Elems(s) \cap Gives(Buffers)
        /\ Once(q, Gives(Buffers))
    BY <1>2, <1>7, PrependQuiet DEF Tame
  <1>9. m = "reader" => q \in Seq(Named({"reset", "endError", "return"}))
    BY <1>4, <1>6, PushElems
  <1> HIDE DEF q
  <1>10. CanPrecede(c, q, m)
    <2>1. c \notin ReadCalls \cup IdleCalls /\ \A b \in Buffers : c \notin Handing(b)
      BY <1>2, QuietCalls
    <2>2. Elems(q) \cap Named({"reset", "insertAfter"}) = {}
      BY <1>4, <1>5, <1>8
    <2>3. QED BY <1>3, <1>4, <1>9, <2>1, <2>2 DEF CanPrecede
  <1>11. /\ ScriptInv(<<c>> \o q, m) /\ Elems(<<c>> \o q) = Elems(q) \cup {c}
         /\ (<<c>> \o q)[1] = c /\ Asked(<<c>> \o q) = Asked(q)
         /\ Elems(<<c>> \o q) \cap IdleCalls = Elems(q) \cap IdleCalls
         /\ Elems(<<c>> \o q) \cap ReadCalls = Elems(q) \cap ReadCalls
         /\ Elems(<<c>> \o q) \cap Gives(Buffers) = Elems(q) \cap Gives(Buffers)
         /\ Once(<<c>> \o q, Gives(Buffers))
    BY <1>2, <1>8, <1>10, PrependQuiet
  <1>12. r = <<c>> \o q
    BY DEF q
  <1> HIDE DEF r
  <1>13. /\ Elems(r) \cap Named({"notifyEndTask"}) = {} /\ Elems(r) \cap Named({"insertAfter"}) = {}
    <2>1. Elems(r) = Elems(s) \cup {c, d}
      BY <1>8, <1>11, <1>12
    <2>2. QED BY <1>4, <2>1 DEF Tame
  <1>14. QED BY <1>1, <1>2, <1>8, <1>11, <1>12, <1>13 DEF Tame

\* The builder answers the event that it was started for.
LEMMA BuilderTail ==
    ASSUME ChainInv, Start, task'.module = "builder", NEW error \in BOOLEAN
    PROVE  LET s == BuilderAnswer(task', error)
           IN  /\ ScriptInv(s, "builder") /\ Tame(s) /\ Asked(s) \subseteq {task'.buffer}
               /\ Elems(s) \cap Gives(Buffers) # {} => task' \notin WriteTasks
  <1> DEFINE s == BuilderAnswer(task', error)
             b == task'.buffer
  <1>1. task' \in ChainTasks
    BY StartFrame
  <1>2. "builder" \in Modules /\ "builder" # "reader" /\ "builder" # "in"
    BY DEF Modules
  <1>3. CASE task'.event = "ON_REQUEST_DATA"
    <2>1. b = RequestBody /\ RequestBody \in Buffers /\ RequestBody \notin HeaderPieces /\ task' \notin WriteTasks
      BY <1>1, <1>3, TaskKinds, BufferSets
    <2>2. CASE error
      <3>1. s = <<Release(b), Return>>
        <4>1. s = <<Release(b)>> \o <<Return>>
          BY <1>3, <2>2 DEF BuilderAnswer, Done
        <4>2. QED BY <4>1, TwoIsConcat
      <3> HIDE DEF s
      <3>2. Release(b) \in CallsOf("builder") \ LastCalls /\ Release(b) \in Quiet
        BY <1>2, <2>1, CommonCalls, QuietCalls
      <3>3. ScriptInv(s, "builder") /\ Elems(s) = {Release(b), Return} /\ Elems(s) \subseteq Quiet
        BY <1>2, <3>1, <3>2, QuietPair
      <3>4. \A n \in {"reset", "insertAfter", "endError", "notifyEndTask", "throw"} : Elems(s) \cap Named({n}) = {}
        BY <2>1, <3>3, CalmCalls, CalmNames
      <3>5. Asked(s) = {} /\ Elems(s) \cap IdleCalls = {} /\ Elems(s) \cap ReadCalls = {}
            /\ Elems(s) \cap Gives(Buffers) = {} /\ Once(s, Gives(Buffers))
        BY <3>3, QuietScript
      <3>6. s # <<>>
        BY <3>3, NothingAsked
      <3>7. QED BY <3>3, <3>4, <3>5, <3>6 DEF Tame, s
    <2>3. CASE ~error
      <3>1. s = <<GiveData(RequestBody), Return>>
        <4>1. s = <<GiveData(RequestBody)>> \o <<Return>>
          BY <1>3, <2>1, <2>3 DEF BuilderAnswer, Done
        <4>2. QED BY <4>1, TwoIsConcat
      <3> HIDE DEF s
      <3>2. GiveData(RequestBody) \in CallsOf("builder")
        BY DEF CallsOf, Gives, GiveData
      <3>3. /\ ScriptInv(s, "builder") /\ Once(s, Gives(Buffers)) /\ Elems(s) = {GiveData(RequestBody), Return}
            /\ Asked(s) = {RequestBody} /\ Elems(s) \cap IdleCalls = {} /\ Elems(s) \cap ReadCalls = {}
            /\ Elems(s) \cap Gives(Buffers) \subseteq Gives({RequestBody})
            /\ \A n \in {"reset", "insertAfter", "endError", "notifyEndTask", "throw"} : Elems(s) \cap Named({n}) = {}
        BY <1>2, <2>1, <3>1, <3>2, GiveAndReturn
      <3>4. s # <<>>
        BY <3>3, NothingAsked
      <3>5. QED BY <2>1, <3>3, <3>4 DEF Tame, s
    <2>4. QED BY <2>2, <2>3
  <1>4. CASE task'.event # "ON_REQUEST_DATA"
    <2>1. s = Refused(task')
      BY <1>4 DEF BuilderAnswer
    <2> HIDE DEF s
    <2>2. task'.event \notin {"ON_CAN_READ", "ON_CAN_WRITE"} /\ task'.event \notin T!DataEvents
      BY <1>1, <1>4, TaskKinds
    <2>3. /\ ScriptInv(s, "builder") /\ Elems(s) \subseteq Quiet
          /\ Elems(s) \cap Named({"reset", "insertAfter", "endError", "notifyEndTask", "throw"}) = {}
      BY <1>1, <1>2, <2>1, <2>2, RefusedScript
    <2>4. \A n \in {"reset", "insertAfter", "endError", "notifyEndTask", "throw"} : Elems(s) \cap Named({n}) = {}
      BY <2>3, CalmNames
    <2>5. Asked(s) = {} /\ Elems(s) \cap IdleCalls = {} /\ Elems(s) \cap ReadCalls = {}
          /\ Elems(s) \cap Gives(Buffers) = {} /\ Once(s, Gives(Buffers))
      BY <2>3, QuietScript
    <2>6. s # <<>>
      <3>1. task'.event \in {"ON_END", "ON_IDLE"}
        BY <1>1, <2>2, TaskSets DEF T!Task, T!Events
      <3>2. s = <<RaiseEnd, Return>> \/ s = <<Return>>
        BY <2>1, <3>1 DEF Refused, T!DataEvents
      <3>3. QED BY <3>2
    <2>7. QED BY <2>3, <2>4, <2>5, <2>6 DEF Tame, s
  <1>5. QED BY <1>3, <1>4

LEMMA BuilderFirstHandler ==
    ASSUME ChainInv, Start, BuilderFirst(task')
    PROVE  ChainInv'
  <1>1. /\ task'.module = "builder" /\ ~builded /\ builded' = TRUE
        /\ UNCHANGED <<parser, reader, pob, measured, sent>>
        /\ \/ script' = RaiseError \o BuilderAnswer(task', TRUE)
           \/ script' = RaiseError \o BuilderAnswer(task', FALSE)
           \/ script' = <<Insert>> \o BuilderAnswer(task', FALSE)
    BY DEF BuilderFirst, Runs
  <1>2. current' = "builder" /\ chain = C0
    BY <1>1, StartFrame DEF ChainInv, Shape
  <1>3. sent' \in Seq(Buffers) /\ builded' \in BOOLEAN /\ (builded => builded')
    BY <1>1 DEF ChainInv, TypeOK
  <1>4. Gives({RequestBody}) \subseteq Gives({RequestBody} \cup HeaderPieces)
    BY DEF Gives
  <1>5. ASSUME NEW error \in BOOLEAN, script' = RaiseError \o BuilderAnswer(task', error)
        PROVE  ChainInv'
    <2> DEFINE s == BuilderAnswer(task', error)
    <2>1. /\ ScriptInv(s, "builder") /\ Tame(s) /\ Asked(s) \subseteq {task'.buffer}
          /\ Elems(s) \cap Gives(Buffers) # {} => task' \notin WriteTasks
      BY <1>1, BuilderTail
    <2> HIDE DEF s
    <2>2. /\ ScriptInv(script', "builder") /\ Once(script', Gives(Buffers)) /\ Asked(script') = Asked(s)
          /\ Elems(script') \cap IdleCalls = {} /\ Elems(script') \cap ReadCalls = {}
          /\ Elems(script') \cap Gives(Buffers) = Elems(s) \cap Gives(Buffers)
          /\ Elems(script') \cap Named({"notifyEndTask"}) = {} /\ Elems(script') \cap Named({"insertAfter"}) = {}
          /\ script'[1] \in Named({"reset"})
      <3>1. script' = RaiseError \o s
        BY <1>5 DEF s
      <3>2. QED BY <2>1, <3>1, RaiseErrorScript
    <2>3. PlainAnswer
      BY <1>1, <1>2, <1>3, <1>4, <2>1, <2>2 DEF PlainAnswer, Tame
    <2>4. QED BY <1>1, <1>2, <2>2, <2>3, RaisingHandler
  <1>6. CASE script' = <<Insert>> \o BuilderAnswer(task', FALSE)
    <2> DEFINE s == BuilderAnswer(task', FALSE)
    <2>1. /\ ScriptInv(s, "builder") /\ Tame(s) /\ Asked(s) \subseteq {task'.buffer}
          /\ Elems(s) \cap Gives(Buffers) # {} => task' \notin WriteTasks
      BY <1>1, BuilderTail
    <2> HIDE DEF s
    <2>2. Insert \in Quiet /\ Insert \in CallsOf("builder") /\ Insert \notin LastCalls
          /\ \A n \in {"reset", "endError", "notifyEndTask"} : Insert \notin Named({n})
      BY QuietCalls DEF CallsOf, Named, Insert, LastCalls
    <2>3. CanPrecede(Insert, s, "builder")
      <3>1. Insert \notin ReadCalls \cup IdleCalls /\ \A b \in Buffers : Insert \notin Handing(b)
        BY <2>2, QuietCalls
      <3>2. Elems(s) \cap Named({"reset", "insertAfter"}) = {}
        <4>1. Named({"reset", "insertAfter"}) = Named({"reset"}) \cup Named({"insertAfter"})
          BY DEF Named
        <4>2. QED BY <2>1, <4>1 DEF Tame
      <3>3. QED BY <2>2, <3>1, <3>2 DEF CanPrecede
    <2>4. /\ ScriptInv(script', "builder") /\ Elems(script') = Elems(s) \cup {Insert}
          /\ Asked(script') = Asked(s)
          /\ Elems(script') \cap IdleCalls = Elems(s) \cap IdleCalls
          /\ Elems(script') \cap ReadCalls = Elems(s) \cap ReadCalls
          /\ Elems(script') \cap Gives(Buffers) = Elems(s) \cap Gives(Buffers)
          /\ Once(script', Gives(Buffers))
      <3>1. script' = <<Insert>> \o s
        BY <1>6 DEF s
      <3>2. QED BY <2>1, <2>2, <2>3, <3>1, PrependQuiet DEF Tame
    <2>5. \A n \in {"reset", "endError", "notifyEndTask"} : Elems(script') \cap Named({n}) = {}
      BY <2>1, <2>2, <2>4 DEF Tame
    <2>6. PlainAnswer
      BY <1>1, <1>2, <1>3, <1>4, <2>1, <2>4, <2>5 DEF PlainAnswer, Tame
    <2>7. QED BY <1>1, <1>2, <2>5, <2>6, RaisingHandler
  <1>7. QED BY <1>1, <1>5, <1>6

\* FileReader raises an error: the file is missing, or could not be read.
LEMMA ReaderRaises ==
    ASSUME ChainInv, Start, task'.module = "reader", script' = RaiseError \o Done,
           UNCHANGED <<parser, reader, pob, measured, builded, sent>>
    PROVE  ChainInv'
  <1>1. current' = "reader" /\ chain = CR
    BY StartFrame, Members
  <1>2. "reader" \in Modules
    BY DEF Modules, Processing
  <1>3. /\ ScriptInv(Done, "reader") /\ Tame(Done) /\ Asked(Done) = {} /\ Elems(Done) \cap Gives(Buffers) = {}
        /\ Done \in Seq(Named({"return"}))
    <2>1. Return \in CallsOf("reader") /\ Return \in LastCalls /\ Return \in Quiet
      BY <1>2, CommonCalls, QuietCalls
    <2>2. ScriptInv(Done, "reader") /\ Elems(Done) = {Return} /\ Done # <<>>
      BY <2>1, OneCall DEF Done
    <2>3. Done \in Seq(Named({"return"}))
      BY DEF Done, Return, Named
    <2>4. \A n \in {"reset", "insertAfter", "endError", "notifyEndTask", "throw"} : Elems(Done) \cap Named({n}) = {}
      BY <2>2, CalmCalls, CalmNames
    <2>5. Asked(Done) = {} /\ Elems(Done) \cap IdleCalls = {} /\ Elems(Done) \cap ReadCalls = {}
          /\ Elems(Done) \cap Gives(Buffers) = {} /\ Once(Done, Gives(Buffers))
      BY <2>1, <2>2, QuietScript
    <2>6. QED BY <2>2, <2>3, <2>4, <2>5 DEF Tame
  <1> HIDE DEF Done
  <1>4. /\ ScriptInv(script', "reader") /\ Once(script', Gives(Buffers)) /\ Asked(script') = {}
        /\ Elems(script') \cap IdleCalls = {} /\ Elems(script') \cap ReadCalls = {}
        /\ Elems(script') \cap Gives(Buffers) = {}
        /\ Elems(script') \cap Named({"notifyEndTask"}) = {} /\ Elems(script') \cap Named({"insertAfter"}) = {}
        /\ script'[1] \in Named({"reset"})
    BY <1>3, RaiseErrorScript
  <1>5. sent' \in Seq(Buffers) /\ builded' = TRUE /\ builded \in BOOLEAN
    <2>1. CR # C0
      BY ShapesAre
    <2>2. QED BY <1>1, <2>1 DEF ChainInv, TypeOK, Shape
  <1>6. PlainAnswer
    BY <1>1, <1>4, <1>5 DEF PlainAnswer
  <1>7. QED BY <1>1, <1>4, <1>5, <1>6, RaisingHandler

\* FileReader reads.
LEMMA ReadScript ==
    ASSUME NEW b \in DataBuffers
    PROVE  LET s == <<GiveData(b), CallLater, Return>>
           IN  /\ ScriptInv(s, "reader") /\ Once(s, Gives(Buffers)) /\ HandsOver(s, {b}, {CallLater, Return})
               /\ Elems(s) \cap ReadCalls = {}
               /\ \A n \in {"reset", "insertAfter", "endError", "notifyEndTask", "throw"} : Elems(s) \cap Named({n}) = {}
  <1> DEFINE c == GiveData(b)
             q == <<CallLater, Return>>
  <1>1. b \in Buffers /\ b \notin HeaderPieces /\ "reader" \in Modules
    BY BufferSets DEF Modules, Processing
  <1>2. /\ c \in CallsOf("reader") /\ c \notin LastCalls /\ c \notin ReadCalls \cup IdleCalls
        /\ c \in Gives(Buffers) /\ c \notin Named({"reset", "endError"})
        /\ \A d \in Buffers : c \in Handing(d) <=> d = b
    <2>1. c \in Gives(DataBuffers)
      BY <1>1, HandingCalls
    <2>2. QED BY <1>1, <2>1, HandingCalls DEF CallsOf
  <1>3. /\ CallLater \in CallsOf("reader") /\ CallLater \notin LastCalls /\ CallLater \notin Gives(Buffers)
        /\ CallLater \notin Named({"reset", "endError"}) /\ CallLater \notin ReadCalls
        /\ \A d \in Buffers : CallLater \notin Handing(d)
    BY DEF CallsOf, CallLater, Named, LastCalls, Gives, ReadCalls, Handing, GiveData, NeedWrite
  <1>4. /\ Return \in CallsOf("reader") /\ Return \in LastCalls /\ Return \notin Gives(Buffers)
        /\ Return \notin ReadCalls /\ Return \in Quiet /\ \A d \in Buffers : Return \notin Handing(d)
    BY <1>1, CommonCalls, QuietCalls
  <1>5. ScriptInv(q, "reader") /\ Elems(q) = {CallLater, Return} /\ q # <<>> /\ Once(q, Gives(Buffers))
    <2> HIDE DEF CallLater, Return
    <2>1. QED BY <1>3, <1>4, TwoCalls
  <1> HIDE DEF c, q
  <1>6. \A n \in {"reset", "insertAfter", "endError", "notifyEndTask", "throw"} :
           CallLater \notin Named({n}) /\ Return \notin Named({n}) /\ c \notin Named({n})
    <2>1. {CallLater, Return} \cap Named({"reset", "insertAfter", "endError", "notifyEndTask", "throw"}) = {}
      BY CalmCalls
    <2>2. c \notin Named({"reset", "insertAfter", "endError", "notifyEndTask", "throw"})
      BY <1>1, CalmCalls DEF c
    <2>3. QED BY <2>1, <2>2, CalmNames
  <1>7. CanPrecede(c, q, "reader")
    <2>1. Elems(q) \cap Named({"reset", "endError"}) = {} /\ Elems(q) \cap Named({"reset", "insertAfter"}) = {}
      <3>1. Named({"reset", "insertAfter"}) = Named({"reset"}) \cup Named({"insertAfter"})
            /\ Named({"reset", "endError"}) = Named({"reset"}) \cup Named({"endError"})
        BY DEF Named
      <3>2. QED BY <1>5, <1>6, <3>1
    <2>2. \A d \in Buffers : Elems(q) \cap Handing(d) = {}
      BY <1>3, <1>4, <1>5
    <2>3. QED BY <1>2, <2>1, <2>2 DEF CanPrecede
  <1>8. /\ ScriptInv(<<c>> \o q, "reader") /\ Elems(<<c>> \o q) = Elems(q) \cup {c}
        /\ Once(<<c>> \o q, Gives(Buffers))
    <2>1. Elems(q) \cap Gives(Buffers) = {}
      BY <1>3, <1>4, <1>5
    <2>2. QED BY <1>5, <1>7, <2>1, Prepend
  <1> DEFINE s == <<c>> \o q
  <1>9. <<GiveData(b), CallLater, Return>> = s
    BY ThreeIsConcat DEF c, q
  <1> HIDE DEF s
  <1>10. Elems(s) = {CallLater, Return, c}
    BY <1>5, <1>8 DEF s
  <1>11. HandsOver(s, {b}, {CallLater, Return})
    <2>1. {GiveData(d) : d \in {b}} = {c}
      BY DEF c
    <2>2. QED BY <1>1, <1>4, <1>10, <2>1 DEF HandsOver
  <1>12. Elems(s) \cap ReadCalls = {}
    BY <1>2, <1>3, <1>4, <1>10
  <1>13. \A n \in {"reset", "insertAfter", "endError", "notifyEndTask", "throw"} : Elems(s) \cap Named({n}) = {}
    BY <1>6, <1>10
  <1>14. ScriptInv(s, "reader") /\ Once(s, Gives(Buffers))
    BY <1>8 DEF s
  <1>15. QED BY <1>9, <1>11, <1>12, <1>13, <1>14

\* What FileReader may do with the file, and what it may give.
LEMMA ReaderReads ==
    ASSUME ChainInv, Start, task'.module = "reader", task'.event \in {"ON_IDLE", "ON_END"},
           UNCHANGED <<parser, builded, pob, sent>>,
           measured' = TRUE, ~Idles(rt'), reader'.open = TRUE,
           reader' \in [open : BOOLEAN, left : 0..FileSize, failed : BOOLEAN, delayed : BOOLEAN],
           \/ script' = <<RaiseEnd, Return>> /\ reader'.left = reader.left
           \/ /\ script' = <<GiveData(Data(FileSize - reader.left + 1)), CallLater, Return>>
              /\ reader.left > 0 /\ reader'.left = reader.left - 1
    PROVE  ChainInv'
  <1> DEFINE n == FileSize - reader.left + 1
             bs == IF script' = <<RaiseEnd, Return>> THEN {} ELSE {Data(n)}
  <1>1. /\ current' = "reader" /\ chain = CR /\ chain' = chain /\ task' \in ChainTasks
        /\ Handed(rt') \subseteq Handed(rt) /\ InUse = Handed(rt)
        /\ Planned(rt') \subseteq Planned(rt)
        /\ (Reads(rt') => Reads(rt))
    BY StartFrame, Members
  <1>2. reader.left \in 0..FileSize /\ FileSize \in Nat
    BY RequestChainAssumption DEF ChainInv, TypeOK
  <1>3. "reader" \in Modules
    BY DEF Modules, Processing
  <1>4. n \in 1..FileSize => Data(n) \in DataBuffers
    BY DEF DataBuffers
  <1>5. /\ ScriptInv(script', "reader") /\ Once(script', Gives(Buffers))
        /\ Asked(script') = bs /\ (\A b \in Buffers : Given(b)' <=> b \in bs)
        /\ Elems(script') \cap ReadCalls = {}
        /\ Elems(script') \cap Gives(Buffers) \subseteq Gives(DataBuffers)
        /\ \A k \in {"reset", "insertAfter", "endError", "notifyEndTask", "throw"} : Elems(script') \cap Named({k}) = {}
        /\ bs = {} \/ (bs = {Data(n)} /\ n \in 1..FileSize /\ reader'.left = FileSize - n)
        /\ reader'.left <= reader.left
    <2>1. CASE script' = <<RaiseEnd, Return>>
      <3>1. /\ RaiseEnd \in CallsOf("reader") \ LastCalls /\ RaiseEnd \in Quiet
            /\ RaiseEnd \notin Named({"reset", "endError"})
        <4>1. Named({"reset", "endError"}) \subseteq Named({"reset", "insertAfter", "endError", "notifyEndTask", "throw"})
          BY NamedMore
        <4>2. QED BY <1>3, <4>1, CommonCalls, QuietCalls, CalmCalls
      <3>2. ScriptInv(script', "reader") /\ Elems(script') = {RaiseEnd, Return} /\ Elems(script') \subseteq Quiet
        BY <1>3, <2>1, <3>1, QuietPair
      <3>3. \A k \in {"reset", "insertAfter", "endError", "notifyEndTask", "throw"} : Elems(script') \cap Named({k}) = {}
        BY <3>2, CalmCalls, CalmNames
      <3>4. /\ Asked(script') = {} /\ Elems(script') \cap ReadCalls = {} /\ Elems(script') \cap Gives(Buffers) = {}
            /\ Once(script', Gives(Buffers))
        BY <3>2, QuietScript
      <3>5. bs = {} /\ \A b \in Buffers : ~Given(b)'
        BY <2>1, <3>4, HandingCalls DEF Given
      <3>6. reader'.left = reader.left
        <4>1. Len(<<RaiseEnd, Return>>) = 2 /\ Len(<<GiveData(Data(n)), CallLater, Return>>) = 3
          OBVIOUS
        <4>2. QED BY <2>1, <4>1
      <3> HIDE DEF bs
      <3>7. QED BY <1>2, <3>2, <3>3, <3>4, <3>5, <3>6
    <2>2. CASE script' # <<RaiseEnd, Return>>
      <3>1. bs = {Data(n)} /\ script' = <<GiveData(Data(n)), CallLater, Return>> /\ reader'.left = reader.left - 1
        BY <2>2
      <3>2. n \in 1..FileSize /\ reader'.left = FileSize - n /\ reader'.left <= reader.left
        BY <1>2, <2>2, <3>1
      <3> HIDE DEF bs, n
      <3>3. /\ ScriptInv(script', "reader") /\ Once(script', Gives(Buffers))
            /\ HandsOver(script', {Data(n)}, {CallLater, Return})
            /\ Elems(script') \cap ReadCalls = {}
            /\ \A k \in {"reset", "insertAfter", "endError", "notifyEndTask", "throw"} : Elems(script') \cap Named({k}) = {}
        BY <1>4, <3>1, <3>2, ReadScript DEF n
      <3>4. Asked(script') = bs /\ (\A b \in Buffers : GiveData(b) \in Elems(script') <=> b \in bs)
            /\ Elems(script') \cap Gives(Buffers) \subseteq Gives(DataBuffers)
        <4>1. DataBuffers \in SUBSET Buffers /\ {Data(n)} \subseteq DataBuffers
          BY <1>4, <3>2, BufferSets DEF n
        <4>2. QED BY <3>1, <3>3, <4>1, AskedIs
      <3>5. QED BY <3>1, <3>2, <3>3, <3>4 DEF Given
    <2>3. QED BY <2>1, <2>2
  <1> HIDE DEF bs, n
  <1>6. InUse' \subseteq InUse \cup bs
    BY <1>1, <1>5 DEF InUse
  <1>7. Answering
    BY DEF ChainInv
  <1>8. bs \subseteq DataBuffers /\ bs \cap InUse = {}
    <2>1. CASE bs = {}
      BY <2>1
    <2>2. CASE bs = {Data(n)} /\ n \in 1..FileSize
      <3>1. n > FileSize - reader.left
        BY <1>2 DEF n
      <3>2. Data(n) \notin InUse
        BY <1>2, <1>7, <2>2, <3>1 DEF Answering
      <3>3. QED BY <1>4, <2>2, <3>2 DEF n
    <2>3. QED BY <1>5, <2>1, <2>2
  <1>9. Parsing'
    <2>1. (Reading' => Reading)
      BY <1>1, <1>5 DEF Reading
    <2>2. RequestBody \notin bs
      BY <1>8, BufferSets
    <2>3. QED BY <1>6, <2>1, <2>2 DEF ChainInv, Parsing
  <1>10. Answering'
    <2>1. Headers \notin bs /\ \A b \in Pages : ChunkInfo(b) \notin bs
      <3>1. \A b \in Pages : ChunkInfo(b) \in Infos
        BY DEF Pages, Padding, Page, ChunkInfo, Infos
      <3>2. QED BY <1>8, <3>1, BufferSets
    <2>2. \A b : Coming(b)' => Coming(b)
      BY <1>1 DEF Coming
    <2>3. ~pob'.headers => Headers \notin InUse'
      BY <1>6, <1>7, <2>1 DEF Answering
    <2>4. \A k \in 1..FileSize : Data(k) \in InUse' => k <= FileSize - reader'.left
      <3> SUFFICES ASSUME NEW k \in 1..FileSize, Data(k) \in InUse' PROVE k <= FileSize - reader'.left
        OBVIOUS
      <3>1. CASE Data(k) \in InUse
        <4>1. k <= FileSize - reader.left
          BY <1>7, <3>1 DEF Answering
        <4>2. reader'.left \in 0..FileSize
          OBVIOUS
        <4>3. QED BY <1>2, <1>5, <4>1, <4>2
      <3>2. CASE Data(k) \in bs
        <4>1. bs = {Data(n)} /\ n \in 1..FileSize /\ reader'.left = FileSize - n
          BY <1>5, <3>2
        <4>2. k = n
          BY <3>2, <4>1 DEF Data
        <4>3. QED BY <1>2, <4>1, <4>2
      <3>3. QED BY <1>6, <3>1, <3>2
    <2>5. CR # CE /\ CR # CP
      BY ShapesAre
    <2>6. chain' # CE => ~pob'.chunked
      BY <1>1, <1>7 DEF Answering
    <2>7. \A b \in Pages :
              /\ Coming(b)' => chain' = CE
              /\ Coming(b)' \/ (current' = "error" /\ Given(b)') => ChunkInfo(b) \notin InUse'
      BY <1>1, <1>6, <1>7, <2>1, <2>2 DEF Answering
    <2>8. chain' = CP /\ current' = "pob" => \A b \in Buffers \ {Headers} : ~Given(b)'
      BY <1>1, <2>5
    <2>9. \A b \in DataBuffers : Coming(b)' \/ Given(b)' => chain' = CR /\ measured'
      BY <1>1
    <2>10. QED BY <2>3, <2>4, <2>6, <2>7, <2>8, <2>9 DEF Answering
  <1>11. Answers
    <2>1. Fits(script', "reader", chain, rt')
      <3>1. Asked(script') \cap Handed(rt') = {}
        BY <1>1, <1>5, <1>8
      <3>2. task' \notin WriteTasks
        BY <1>1, TaskKinds
      <3>3. FewFronts(rt'.tasks, 1)
        BY <3>2, StartFrame
      <3>4. script' \in Seq(CallsOf("reader"))
        BY <1>5 DEF ScriptInv
      <3>5. Elems(script') \cap ReadCalls # {} => ~Reads(rt')
        BY <1>5
      <3>6. QED BY <1>5, <3>1, <3>3, <3>4, <3>5, OneGift
    <2>2. Elems(script') \cap Named({"reset", "insertAfter"}) = {}
      <3>1. Named({"reset", "insertAfter"}) = Named({"reset"}) \cup Named({"insertAfter"})
        BY DEF Named
      <3>2. QED BY <1>5, <3>1
    <2>3. TypeOK
      BY DEF ChainInv
    <2>4. QED BY <1>1, <1>5, <2>1, <2>2, <2>3 DEF Answers, TypeOK
  <1>12. QED BY <1>9, <1>10, <1>11, WhenStarted

LEMMA ReaderQuiet ==
    ASSUME ChainInv, Start, task'.module = "reader", script' \in {<<RaiseEnd, Return>>, Done},
           UNCHANGED <<parser, reader, pob, measured, builded, sent>>
    PROVE  ChainInv'
  <1>1. current' = "reader" /\ "reader" \in Modules /\ "reader" # "in"
    BY StartFrame DEF Modules, Processing
  <1>2. /\ RaiseEnd \in CallsOf("reader") \ LastCalls /\ RaiseEnd \in Quiet
        /\ Return \in CallsOf("reader") /\ Return \in LastCalls /\ Return \in Quiet
        /\ RaiseEnd \notin Named({"reset", "endError"})
    <2>1. Named({"reset", "endError"}) \subseteq Named({"reset", "insertAfter", "endError", "notifyEndTask", "throw"})
      BY NamedMore
    <2>2. QED BY <1>1, <2>1, CommonCalls, QuietCalls, CalmCalls
  <1>3. ScriptInv(script', "reader") /\ Elems(script') \subseteq {RaiseEnd, Return}
    <2>1. ScriptInv(<<RaiseEnd, Return>>, "reader") /\ Elems(<<RaiseEnd, Return>>) = {RaiseEnd, Return}
      BY <1>1, <1>2, QuietPair
    <2>2. ScriptInv(Done, "reader") /\ Elems(Done) = {Return}
      BY <1>2, OneCall DEF Done
    <2> HIDE DEF Done
    <2>3. QED BY <2>1, <2>2
  <1>4. Elems(script') \subseteq Quiet
    BY <1>2, <1>3
  <1>5. \A n \in {"reset", "insertAfter", "endError", "notifyEndTask", "throw"} : Elems(script') \cap Named({n}) = {}
    BY <1>3, CalmCalls, CalmNames
  <1>6. sent' \in Seq(Buffers)
    BY DEF ChainInv, TypeOK
  <1>7. QED BY <1>1, <1>3, <1>4, <1>5, <1>6, QuietHandler

LEMMA OneLess ==
    ASSUME NEW r \in [open : BOOLEAN, left : 0..FileSize, failed : BOOLEAN, delayed : BOOLEAN],
           r.left > 0, NEW bad \in BOOLEAN
    PROVE  LET n == [r EXCEPT !.left = @ - 1, !.failed = bad]
           IN  /\ n \in [open : BOOLEAN, left : 0..FileSize, failed : BOOLEAN, delayed : BOOLEAN]
               /\ n.open = r.open /\ n.left = r.left - 1
  <1> DEFINE k == r.left - 1
             n == [r EXCEPT !.left = k, !.failed = bad]
  <1>1. k \in 0..FileSize
    BY RequestChainAssumption
  <1> HIDE DEF k
  <1>2. /\ n \in [open : BOOLEAN, left : 0..FileSize, failed : BOOLEAN, delayed : BOOLEAN]
        /\ n.open = r.open /\ n.left = k
    BY <1>1
  <1>3. QED BY <1>2 DEF k

LEMMA ReaderIdleHandler ==
    ASSUME ChainInv, Start, ReaderIdle(task')
    PROVE  ChainInv'
  <1>1. task'.module = "reader" /\ task'.event = "ON_IDLE" /\ UNCHANGED <<parser, builded, pob, measured, sent>>
    BY DEF ReaderIdle
  <1>2. task' \in IdleTasks /\ Idles(rt) /\ ~Idles(rt')
    BY <1>1, StartFrame, TaskKinds
  <1>3. reader.open = TRUE /\ measured = TRUE /\ TypeOK
    <2>1. Idling /\ Answering /\ TypeOK
      BY <1>2 DEF Idling, ChainInv
    <2>2. QED BY <2>1 DEF Answering, TypeOK
  <1>4. CASE script' = <<RaiseEnd, Return>> /\ UNCHANGED reader
    BY <1>1, <1>4, ReaderQuiet
  <1>5. CASE script' = RaiseError \o Done /\ UNCHANGED reader
    BY <1>1, <1>5, ReaderRaises
  <1>6. CASE ReadOne(reader)
    <2>1. /\ reader.left > 0 /\ script' = <<GiveData(Data(FileSize - reader.left + 1)), CallLater, Return>>
          /\ \E bad \in {FALSE, ReadErrors} : reader' = [reader EXCEPT !.left = @ - 1, !.failed = bad]
      BY <1>6 DEF ReadOne
    <2>2. /\ reader'.open = TRUE /\ reader'.left = reader.left - 1
          /\ reader' \in [open : BOOLEAN, left : 0..FileSize, failed : BOOLEAN, delayed : BOOLEAN]
      <3>1. reader \in [open : BOOLEAN, left : 0..FileSize, failed : BOOLEAN, delayed : BOOLEAN]
        BY <1>3 DEF TypeOK
      <3>2. PICK bad \in BOOLEAN : reader' = [reader EXCEPT !.left = @ - 1, !.failed = bad]
        BY <2>1, RequestChainAssumption
      <3>3. QED BY <1>3, <2>1, <3>1, <3>2, OneLess
    <2>3. QED BY <1>1, <1>2, <1>3, <2>1, <2>2, ReaderReads
  <1>7. QED BY <1>4, <1>5, <1>6 DEF ReaderIdle

LEMMA ReaderEndHandler ==
    ASSUME ChainInv, Start, ReaderEnd(task')
    PROVE  ChainInv'
  <1>1. task'.module = "reader" /\ task'.event = "ON_END" /\ UNCHANGED <<parser, builded, pob, sent>>
    BY DEF ReaderEnd
  <1>2. TypeOK
    BY DEF ChainInv
  <1>3. CASE script' = Done /\ UNCHANGED <<reader, measured>>
    BY <1>1, <1>3, ReaderQuiet
  <1>4. CASE script' = RaiseError \o Done /\ UNCHANGED <<reader, measured>>
    BY <1>1, <1>4, ReaderRaises
  <1>5. ~reader.open => ~Idles(rt')
    <2>1. ~reader.open => ~Idles(rt)
      BY DEF ChainInv, Answering, Idling
    <2>2. QED BY <2>1, StartFrame
  <1>6. CASE /\ ~reader.open /\ measured' = TRUE
             /\ script' = <<RaiseEnd, Return>> /\ reader' = [reader EXCEPT !.open = TRUE]
    <2>1. /\ reader'.open = TRUE /\ reader'.left = reader.left
          /\ reader' \in [open : BOOLEAN, left : 0..FileSize, failed : BOOLEAN, delayed : BOOLEAN]
      BY <1>2, <1>6 DEF TypeOK
    <2>2. QED BY <1>1, <1>5, <1>6, <2>1, ReaderReads
  <1>7. CASE ~reader.open /\ measured' = TRUE /\ ReadOne([reader EXCEPT !.open = TRUE])
    <2> DEFINE r == [reader EXCEPT !.open = TRUE]
    <2>1. r \in [open : BOOLEAN, left : 0..FileSize, failed : BOOLEAN, delayed : BOOLEAN]
          /\ r.open = TRUE /\ r.left = reader.left
      BY <1>2 DEF TypeOK
    <2> HIDE DEF r
    <2>2. /\ r.left > 0 /\ script' = <<GiveData(Data(FileSize - r.left + 1)), CallLater, Return>>
          /\ \E bad \in {FALSE, ReadErrors} : reader' = [r EXCEPT !.left = @ - 1, !.failed = bad]
      BY <1>7 DEF ReadOne, r
    <2>3. /\ reader'.open = TRUE /\ reader'.left = reader.left - 1 /\ reader.left > 0
          /\ reader' \in [open : BOOLEAN, left : 0..FileSize, failed : BOOLEAN, delayed : BOOLEAN]
      <3>1. PICK bad \in BOOLEAN : reader' = [r EXCEPT !.left = @ - 1, !.failed = bad]
        BY <2>2, RequestChainAssumption
      <3>2. QED BY <2>1, <2>2, <3>1, OneLess
    <2>4. script' = <<GiveData(Data(FileSize - reader.left + 1)), CallLater, Return>>
      BY <2>1, <2>2
    <2>5. QED BY <1>1, <1>5, <1>7, <2>3, <2>4, ReaderReads
  <1>8. QED BY <1>3, <1>4, <1>6, <1>7 DEF ReaderEnd

\* A call in front of a script that gives a buffer it does not.
LEMMA PrependGift ==
    ASSUME NEW m \in Modules \ {"reader"}, NEW s, ScriptInv(s, m), s # <<>>, NEW b \in Buffers \ HeaderPieces,
           GiveData(b) \in CallsOf(m), NEW bs, NEW Q, HandsOver(s, bs, Q), b \notin bs,
           Q \cap Named({"reset", "insertAfter"}) = {}
    PROVE  LET r == <<GiveData(b)>> \o s
           IN  /\ ScriptInv(r, m) /\ r # <<>> /\ HandsOver(r, bs \cup {b}, Q)
               /\ Elems(r) = Elems(s) \cup {GiveData(b)}
               /\ bs = {} => Once(r, Gives(Buffers))
  <1> DEFINE c == GiveData(b)
  <1>1. /\ c \notin LastCalls /\ c \notin ReadCalls \cup IdleCalls
        /\ \A d \in Buffers : c \in Handing(d) <=> d = b
    BY HandingCalls
  <1>2. /\ Asked(s) = bs /\ Elems(s) \cap Named({"reset", "insertAfter"}) = {}
        /\ bs = {} => Elems(s) \cap Gives(Buffers) = {}
    BY AskedIs
  <1>3. Elems(s) \cap Handing(b) = {}
    BY <1>2 DEF Asked
  <1> HIDE DEF c
  <1>4. CanPrecede(c, s, m)
    BY <1>1, <1>2, <1>3 DEF CanPrecede, c
  <1>5. bs = {} => Once(s, Gives(Buffers))
    BY <1>2 DEF Once, Elems
  <1>6. /\ ScriptInv(<<c>> \o s, m) /\ Elems(<<c>> \o s) = Elems(s) \cup {c} /\ <<c>> \o s # <<>>
        /\ bs = {} => Once(<<c>> \o s, Gives(Buffers))
    BY <1>2, <1>4, <1>5, Prepend
  <1> DEFINE r == <<c>> \o s
  <1> HIDE DEF r
  <1>7. HandsOver(r, bs \cup {b}, Q)
    <2>1. {GiveData(d) : d \in bs \cup {b}} = {GiveData(d) : d \in bs} \cup {c}
      BY DEF c
    <2>2. QED BY <1>6, <2>1 DEF HandsOver, r
  <1>8. QED BY <1>6, <1>7 DEF r, c

LEMMA EndAndReturn ==
    ASSUME NEW m \in Modules
    PROVE  LET s == <<RaiseEnd, Return>>
           IN  /\ ScriptInv(s, m) /\ s # <<>> /\ HandsOver(s, {}, {RaiseEnd, Return})
               /\ Once(s, Gives(Buffers))
               /\ \A ns \in SUBSET {"reset", "insertAfter", "endError", "notifyEndTask", "throw"} :
                     {RaiseEnd, Return} \cap Named(ns) = {}
  <1> DEFINE s == <<RaiseEnd, Return>>
  <1>1. \A ns \in SUBSET {"reset", "insertAfter", "endError", "notifyEndTask", "throw"} :
           {RaiseEnd, Return} \cap Named(ns) = {}
    <2>1. {RaiseEnd, Return} \cap Named({"reset", "insertAfter", "endError", "notifyEndTask", "throw"}) = {}
      BY CalmCalls
    <2>2. QED BY <2>1, NamedMore
  <1>2. /\ RaiseEnd \in CallsOf(m) \ LastCalls /\ RaiseEnd \in Quiet /\ Return \in Quiet
        /\ RaiseEnd \notin Named({"reset", "endError"})
    BY <1>1, CommonCalls, QuietCalls
  <1>3. ScriptInv(s, m) /\ Elems(s) = {RaiseEnd, Return} /\ Elems(s) \subseteq Quiet
    BY <1>2, QuietPair
  <1>4. s # <<>>
    OBVIOUS
  <1> HIDE DEF s
  <1>5. HandsOver(s, {}, {RaiseEnd, Return})
    BY <1>2, <1>3 DEF HandsOver
  <1>6. Once(s, Gives(Buffers))
    BY <1>3, QuietScript
  <1>7. QED BY <1>1, <1>3, <1>4, <1>5, <1>6 DEF s

LEMMA ErrorEndHandler ==
    ASSUME ChainInv, Start, ErrorEnd(task')
    PROVE  ChainInv'
  <1> DEFINE Q == {RaiseEnd, Return}
             s2 == <<RaiseEnd, Return>>
             s1 == <<GiveData(Page)>> \o s2
             s0 == <<GiveData(Padding)>> \o s1
  <1>1. /\ task'.module = "error" /\ task'.event = "ON_END"
        /\ script' = <<GiveData(Padding), GiveData(Page), RaiseEnd, Return>>
        /\ UNCHANGED <<parser, reader, pob, measured, builded, sent>>
    BY DEF ErrorEnd, Runs, SameModules
  <1>2. /\ current' = "error" /\ chain \in {CE, CP} /\ chain' = chain /\ task' \in ChainTasks
        /\ Handed(rt') \subseteq Handed(rt) /\ InUse = Handed(rt)
        /\ Planned(rt') \subseteq Planned(rt)
        /\ (Reads(rt') => Reads(rt)) /\ (Idles(rt') => Idles(rt))
    BY <1>1, StartFrame, Members
  <1>3. task' \in EndTasks /\ Handed(rt') = {} /\ FewFronts(rt'.tasks, 0) /\ FewFronts(rt'.tasks, 1)
    <2>1. task' \in EndTasks /\ task' \notin WriteTasks
      BY <1>1, <1>2, TaskKinds
    <2>2. QED BY <2>1, StartFrame
  <1>4. /\ "error" \in Modules \ {"reader"} /\ Padding \in Pages /\ Page \in Pages /\ Page # Padding
        /\ Pages \subseteq Buffers \ HeaderPieces /\ \A b \in Pages : GiveData(b) \in CallsOf("error")
    <2>1. Pages \subseteq Buffers \ HeaderPieces
      BY BufferSets
    <2>2. \A b \in Pages : GiveData(b) \in CallsOf("error")
      BY DEF CallsOf, Gives, GiveData
    <2>3. QED BY <2>1, <2>2 DEF Modules, Processing, Pages, Page, Padding
  <1>5. /\ ScriptInv(s2, "error") /\ s2 # <<>> /\ HandsOver(s2, {}, Q)
        /\ \A ns \in SUBSET {"reset", "insertAfter", "endError", "notifyEndTask", "throw"} : Q \cap Named(ns) = {}
    BY <1>4, EndAndReturn
  <1>6. Q \cap Named({"reset", "insertAfter"}) = {}
    BY <1>5
  <1>7. script' = s0 /\ DOMAIN script' = 1..4 /\ script'[3] = RaiseEnd /\ script'[4] = Return
    <2> DEFINE c == GiveData(Page)
               d == GiveData(Padding)
    <2> HIDE DEF c, d, RaiseEnd, Return
    <2>1. <<c, RaiseEnd, Return>> = <<c>> \o <<RaiseEnd, Return>>
      BY ThreeIsConcat
    <2>2. <<d, c, RaiseEnd, Return>> = <<d>> \o <<c, RaiseEnd, Return>>
      BY FourIsConcat
    <2>3. script' = s0
      BY <1>1, <2>1, <2>2 DEF c, d
    <2>4. script' = <<d, c, RaiseEnd, Return>>
      BY <1>1 DEF c, d
    <2>5. QED BY <2>3, <2>4
  <1> HIDE DEF s2, Q
  <1>8. /\ ScriptInv(s1, "error") /\ s1 # <<>> /\ HandsOver(s1, {Page}, Q) /\ Elems(s1) = Elems(s2) \cup {GiveData(Page)}
    <2>1. /\ ScriptInv(s1, "error") /\ s1 # <<>> /\ HandsOver(s1, {} \cup {Page}, Q)
          /\ Elems(s1) = Elems(s2) \cup {GiveData(Page)}
      BY <1>4, <1>5, <1>6, PrependGift
    <2>2. {} \cup {Page} = {Page}
      OBVIOUS
    <2>3. QED BY <2>1, <2>2
  <1> HIDE DEF s1
  <1>9. /\ ScriptInv(s0, "error") /\ HandsOver(s0, {Page, Padding}, Q)
    <2>1. ScriptInv(s0, "error") /\ HandsOver(s0, {Page} \cup {Padding}, Q)
      BY <1>4, <1>6, <1>8, PrependGift
    <2>2. {Page} \cup {Padding} = {Page, Padding}
      OBVIOUS
    <2>3. QED BY <2>1, <2>2
  <1> HIDE DEF s0
  <1>10. /\ Asked(script') = Pages /\ (\A b \in Buffers : Given(b)' <=> b \in Pages)
         /\ \A ns \in SUBSET {"reset", "insertAfter", "endError", "notifyEndTask", "throw"} : Elems(script') \cap Named(ns) = {}
         /\ Elems(script') \cap ReadCalls = {} /\ Elems(script') \cap IdleCalls = {}
    <2>1. {Page, Padding} = Pages
      BY DEF Pages
    <2>2. /\ Asked(script') = Pages /\ (\A b \in Buffers : GiveData(b) \in Elems(script') <=> b \in Pages)
          /\ \A ns : "giveData" \notin ns => Elems(script') \cap Named(ns) = Q \cap Named(ns)
      BY <1>7, <1>9, <2>1, AskedIs
    <2>3. Elems(script') = {GiveData(Page), GiveData(Padding)} \cup Q
      BY <1>7, <1>9 DEF HandsOver
    <2>4. Q \cap (ReadCalls \cup IdleCalls) = {}
      BY QuietCalls DEF Q
    <2>5. {GiveData(Page), GiveData(Padding)} \cap (ReadCalls \cup IdleCalls) = {}
      BY <1>4, HandingCalls
    <2>6. QED BY <1>5, <2>2, <2>3, <2>4, <2>5 DEF Given
  <1>11. Fits(script', "error", chain, rt')
    <2>1. {RaiseEnd, Return} \cap Gives(Buffers) = {}
      BY QuietCalls
    <2>2. AddCalls("error", chain) \subseteq Gives(Buffers)
      BY DEF AddCalls
    <2>3. \A i \in DOMAIN script' : script'[i] \in AddCalls("error", chain) => i \in {1, 2}
      BY <1>7, <2>1, <2>2
    <2>4. \A i, j \in DOMAIN script' : i < j /\ script'[i] \in AddCalls("error", chain) /\ script'[j] \in AddCalls("error", chain)
             => i = 1 /\ j = 2 /\ FewFronts(rt'.tasks, 0)
      BY <1>3, <2>3
    <2>5. Elems(script') \cap Named({"notifyEndTask"}) = {}
      BY <1>10
    <2>6. QED BY <1>3, <1>10, <2>4, <2>5 DEF Fits
  <1>12. Answers
    <2>1. /\ Elems(script') \cap Named({"reset"}) = {} /\ Elems(script') \cap Named({"insertAfter"}) = {}
          /\ Elems(script') \cap Named({"endError"}) = {} /\ Elems(script') \cap Named({"reset", "insertAfter"}) = {}
      BY <1>10
    <2>2. TypeOK
      BY DEF ChainInv
    <2>3. QED BY <1>1, <1>2, <1>7, <1>9, <1>11, <2>1, <2>2 DEF Answers, TypeOK
  <1>13. InUse' = Pages
    BY <1>3, <1>10 DEF InUse
  <1>14. Parsing'
    <2>1. (Reading' => Reading) /\ RequestBody \notin Pages
      BY <1>2, <1>10, BufferSets DEF Reading
    <2>2. QED BY <1>1, <1>13, <2>1 DEF ChainInv, Parsing
  <1>15. Answering'
    <2>1. Answering
      BY DEF ChainInv
    <2>2. Idling' => Idling
      BY <1>2, <1>10 DEF Idling
    <2>3. \A b : Coming(b)' => Coming(b)
      BY <1>2 DEF Coming
    <2>4. Headers \notin Pages /\ Pages \cap DataBuffers = {} /\ DataBuffers \subseteq Buffers
          /\ \A b \in Pages : ChunkInfo(b) \notin Pages
      <3>1. \A b \in Pages : ChunkInfo(b) \in Infos
        BY DEF Pages, Padding, Page, ChunkInfo, Infos
      <3>2. QED BY <3>1, BufferSets
    <2>5. \A n \in 1..FileSize : Data(n) \in DataBuffers
      BY DEF DataBuffers
    <2>6. /\ Idling' => reader'.open
          /\ reader'.open => measured'
          /\ chain' # CE => ~pob'.chunked
          /\ ~pob'.headers => Headers \notin InUse'
      BY <1>1, <1>2, <1>13, <2>1, <2>2, <2>4 DEF Answering
    <2>7. \A n \in 1..FileSize : Data(n) \in InUse' => n <= FileSize - reader'.left
      BY <1>13, <2>4, <2>5
    <2>8. \A b \in DataBuffers : Coming(b)' \/ Given(b)' => chain' = CR /\ measured'
      BY <1>1, <1>2, <1>10, <2>1, <2>3, <2>4 DEF Answering
    <2>9. chain' = CP /\ current' = "pob" => \A b \in Buffers \ {Headers} : ~Given(b)'
      BY <1>2
    <2>10. \A b \in Pages :
              /\ Coming(b)' => chain' = CE
              /\ Coming(b)' \/ (current' = "error" /\ Given(b)') => ChunkInfo(b) \notin InUse'
      BY <1>2, <1>13, <2>1, <2>3, <2>4 DEF Answering
    <2>11. QED BY <2>6, <2>7, <2>8, <2>9, <2>10 DEF Answering
  <1>16. QED BY <1>12, <1>14, <1>15, WhenStarted

LEMMA PobGives ==
    /\ "pob" \in Modules \ {"reader"} /\ Written \subseteq Buffers \ HeaderPieces
    /\ \A b \in Written : GiveData(b) \in CallsOf("pob")
  <1>1. Written \subseteq Buffers \ HeaderPieces
    BY BufferSets
  <1>2. \A b \in Written : GiveData(b) \in CallsOf("pob")
    BY DEF CallsOf, Gives, GiveData
  <1>3. QED BY <1>1, <1>2 DEF Modules

LEMMA PreOutputEndHandler ==
    ASSUME ChainInv, Start, PreOutputEnd(task')
    PROVE  ChainInv'
  <1> DEFINE Q == {RaiseEnd, Return}
             e == <<RaiseEnd, Return>>
             bs == IF ~pob.headers THEN {Headers} ELSE IF pob.chunked THEN {Final} ELSE {}
  <1>1. /\ task'.module = "pob" /\ task'.event = "ON_END" /\ pob' = [pob EXCEPT !.headers = TRUE]
        /\ script' = (IF ~pob.headers THEN <<GiveData(Headers)>>
                      ELSE IF pob.chunked THEN <<GiveData(Final)>> ELSE <<>>) \o e
        /\ UNCHANGED <<parser, reader, measured, builded, sent>>
    BY DEF PreOutputEnd, Runs
  <1>2. /\ current' = "pob" /\ chain' = chain /\ task' \in ChainTasks
        /\ Handed(rt') \subseteq Handed(rt) /\ InUse = Handed(rt)
        /\ Planned(rt') \subseteq Planned(rt)
        /\ (Reads(rt') => Reads(rt)) /\ (Idles(rt') => Idles(rt))
    BY <1>1, StartFrame
  <1>3. Handed(rt') = {} /\ FewFronts(rt'.tasks, 1)
    <2>1. task' \in EndTasks /\ task' \notin WriteTasks
      BY <1>1, <1>2, TaskKinds
    <2>2. QED BY <2>1, StartFrame
  <1>4. /\ ScriptInv(e, "pob") /\ e # <<>> /\ HandsOver(e, {}, Q) /\ Once(e, Gives(Buffers))
        /\ \A ns \in SUBSET {"reset", "insertAfter", "endError", "notifyEndTask", "throw"} : Q \cap Named(ns) = {}
    BY PobGives, EndAndReturn
  <1>5. Q \cap Named({"reset", "insertAfter"}) = {}
    BY <1>4
  <1>6. Headers \in Written /\ Final \in Written /\ Headers # Final
    BY BufferSets
  <1>7. e \in Seq({RaiseEnd, Return})
    OBVIOUS
  <1> HIDE DEF e, Q
  <1>8. ScriptInv(script', "pob") /\ HandsOver(script', bs, Q) /\ Once(script', Gives(Buffers))
    <2>1. ASSUME NEW b \in Written, bs = {b}, script' = <<GiveData(b)>> \o e
          PROVE  ScriptInv(script', "pob") /\ HandsOver(script', bs, Q) /\ Once(script', Gives(Buffers))
      <3>1. /\ ScriptInv(script', "pob") /\ HandsOver(script', {} \cup {b}, Q) /\ Once(script', Gives(Buffers))
        BY <1>4, <1>5, <2>1, PobGives, PrependGift
      <3>2. {} \cup {b} = bs
        BY <2>1
      <3>3. QED BY <3>1, <3>2
    <2>2. CASE bs = {}
      <3>1. script' = <<>> \o e
        BY <1>1, <2>2
      <3>2. script' = e
        BY <1>7, <3>1, ConcatEmptySeq
      <3>3. QED BY <1>4, <2>2, <3>2
    <2>3. bs = {} \/ (bs = {Headers} /\ script' = <<GiveData(Headers)>> \o e)
                  \/ (bs = {Final} /\ script' = <<GiveData(Final)>> \o e)
      BY <1>1
    <2>4. QED BY <1>6, <2>1, <2>2, <2>3
  <1>9. TypeOK /\ Answering
    BY DEF ChainInv
  <1>10. /\ bs \subseteq {Headers, Final} /\ (chain # CE => bs \subseteq {Headers})
         /\ pob'.headers = TRUE /\ pob'.chunked = pob.chunked
         /\ pob' \in [headers : BOOLEAN, chunked : BOOLEAN]
    BY <1>1, <1>9 DEF TypeOK, Answering
  <1> HIDE DEF bs
  <1>11. /\ Asked(script') = bs /\ (\A b \in Buffers : Given(b)' <=> b \in bs)
         /\ \A ns \in SUBSET {"reset", "insertAfter", "endError", "notifyEndTask", "throw"} : Elems(script') \cap Named(ns) = {}
         /\ Elems(script') \cap ReadCalls = {} /\ Elems(script') \cap IdleCalls = {}
    <2>1. /\ Asked(script') = bs /\ (\A b \in Buffers : GiveData(b) \in Elems(script') <=> b \in bs)
          /\ \A ns : "giveData" \notin ns => Elems(script') \cap Named(ns) = Q \cap Named(ns)
      BY <1>8, AskedIs
    <2>2. Elems(script') = {GiveData(b) : b \in bs} \cup Q
      BY <1>8 DEF HandsOver
    <2>3. Q \cap (ReadCalls \cup IdleCalls) = {}
      BY QuietCalls DEF Q
    <2>4. \A b \in bs : GiveData(b) \notin ReadCalls \cup IdleCalls
      BY <1>6, <1>10, PobGives, HandingCalls
    <2>5. QED BY <1>4, <2>1, <2>2, <2>3, <2>4 DEF Given
  <1>12. Fits(script', "pob", chain, rt')
    <2>1. script' \in Seq(CallsOf("pob")) /\ Elems(script') \cap Named({"notifyEndTask"}) = {}
      BY <1>8, <1>11 DEF ScriptInv
    <2>2. QED BY <1>3, <1>8, <1>11, <2>1, OneGift
  <1>13. Answers
    <2>1. /\ Elems(script') \cap Named({"reset"}) = {} /\ Elems(script') \cap Named({"insertAfter"}) = {}
          /\ Elems(script') \cap Named({"endError"}) = {} /\ Elems(script') \cap Named({"reset", "insertAfter"}) = {}
      BY <1>11
    <2>2. QED BY <1>1, <1>2, <1>8, <1>9, <1>10, <1>12, <2>1 DEF Answers, TypeOK
  <1>14. InUse' = bs
    BY <1>3, <1>11 DEF InUse
  <1>15. /\ RequestBody \notin bs /\ bs \cap (Pages \cup DataBuffers \cup Infos) = {}
    BY <1>10, BufferSets
  <1>16. Parsing'
    <2>1. Reading' => Reading
      BY <1>2, <1>11 DEF Reading
    <2>2. QED BY <1>1, <1>14, <1>15, <2>1 DEF ChainInv, Parsing
  <1>17. Answering'
    <2>1. Idling' => Idling
      BY <1>2, <1>11 DEF Idling
    <2>2. \A b : Coming(b)' => Coming(b)
      BY <1>2 DEF Coming
    <2>3. /\ \A n \in 1..FileSize : Data(n) \in DataBuffers
          /\ \A b \in Pages : ChunkInfo(b) \in Infos
          /\ DataBuffers \subseteq Buffers
      BY BufferSets DEF DataBuffers, Pages, Padding, Page, ChunkInfo, Infos
    <2>4. /\ Idling' => reader'.open
          /\ reader'.open => measured'
          /\ chain' # CE => ~pob'.chunked
          /\ ~pob'.headers => Headers \notin InUse'
      BY <1>1, <1>2, <1>9, <1>10, <2>1 DEF Answering
    <2>5. \A n \in 1..FileSize : Data(n) \in InUse' => n <= FileSize - reader'.left
      BY <1>14, <1>15, <2>3
    <2>6. \A b \in DataBuffers : Coming(b)' \/ Given(b)' => chain' = CR /\ measured'
      BY <1>1, <1>2, <1>9, <1>11, <1>15, <2>2, <2>3 DEF Answering
    <2>7. chain' = CP /\ current' = "pob" => \A b \in Buffers \ {Headers} : ~Given(b)'
      BY <1>2, <1>10, <1>11, ShapesAre
    <2>8. \A b \in Pages :
              /\ Coming(b)' => chain' = CE
              /\ Coming(b)' \/ (current' = "error" /\ Given(b)') => ChunkInfo(b) \notin InUse'
      BY <1>2, <1>9, <1>14, <1>15, <2>2, <2>3 DEF Answering
    <2>9. QED BY <2>4, <2>5, <2>6, <2>7, <2>8 DEF Answering
  <1>18. QED BY <1>13, <1>16, <1>17, WhenStarted

\* A script of gifts in front of a script.
LEMMA MaybeGift ==
    ASSUME NEW s, ScriptInv(s, "pob"), s # <<>>, NEW b \in Written, NEW bs, HandsOver(s, bs, {Return}), b \notin bs,
           NEW test \in BOOLEAN, NEW S, s \in Seq(S)
    PROVE  LET r == (IF test THEN <<GiveData(b)>> ELSE <<>>) \o s
           IN  ScriptInv(r, "pob") /\ r # <<>> /\ HandsOver(r, IF test THEN bs \cup {b} ELSE bs, {Return})
  <1>1. CASE test
    <2>1. {Return} \cap Named({"reset", "insertAfter"}) = {}
      BY DEF Named, Return
    <2> DEFINE r == <<GiveData(b)>> \o s
    <2>2. ScriptInv(r, "pob") /\ r # <<>> /\ HandsOver(r, bs \cup {b}, {Return})
      BY <2>1, PobGives, PrependGift
    <2> HIDE DEF r
    <2>3. QED BY <1>1, <2>2 DEF r
  <1>2. CASE ~test
    <2>1. <<>> \o s = s
      BY ConcatEmptySeq
    <2>2. QED BY <1>2, <2>1
  <1>3. QED BY <1>1, <1>2

LEMMA PobScript ==
    ASSUME NEW b \in Pages \cup DataBuffers, NEW h \in BOOLEAN, NEW c \in BOOLEAN, NEW info, c => info \in Infos
    PROVE  LET s == (IF h THEN <<>> ELSE <<GiveData(Headers)>>)
                      \o (IF c THEN <<GiveData(info)>> ELSE <<>>) \o <<GiveData(b), Return>>
               bs == {b} \cup (IF c THEN {info} ELSE {}) \cup (IF h THEN {} ELSE {Headers})
           IN  ScriptInv(s, "pob") /\ HandsOver(s, bs, {Return})
  <1> DEFINE g == GiveData(b)
             gi == GiveData(info)
             gh == GiveData(Headers)
             S == {g, gi, gh, Return}
             s3 == <<g, Return>>
             i == IF c THEN <<gi>> ELSE <<>>
             hd == IF h THEN <<>> ELSE <<gh>>
  <1>0. /\ b \in Written /\ b # Headers /\ (c => info \in Written /\ info # Headers /\ info # b)
        /\ Headers \in Written /\ b \in Buffers
    BY BufferSets
  <1>1. /\ ScriptInv(s3, "pob") /\ s3 # <<>> /\ HandsOver(s3, {b}, {Return})
    <2>1. ScriptInv(s3, "pob") /\ Elems(s3) = {g, Return}
      BY <1>0, PobGives, GiveAndReturn
    <2>2. s3 # <<>>
      OBVIOUS
    <2> HIDE DEF s3
    <2>3. Return \in Quiet
      BY QuietCalls
    <2>4. HandsOver(s3, {b}, {Return})
      BY <1>0, <2>1, <2>3 DEF HandsOver
    <2>5. QED BY <2>1, <2>2, <2>4
  <1>2. s3 \in Seq(S) /\ i \in Seq(S) /\ hd \in Seq(S)
    <2> HIDE DEF g, gi, gh, Return
    <2>1. QED OBVIOUS
  <1>3. (hd \o i) \o s3 = hd \o (i \o s3)
    <2> HIDE DEF s3, i, hd, S
    <2>1. QED BY <1>2, ConcatAssociative
  <1> HIDE DEF S, s3, g, gi, gh
  <1> DEFINE s2 == i \o s3
             b2 == IF c THEN {b} \cup {info} ELSE {b}
  <1>4. ScriptInv(s2, "pob") /\ s2 # <<>> /\ HandsOver(s2, b2, {Return})
    <2>1. CASE c
      <3>1. LET r == (IF TRUE THEN <<GiveData(info)>> ELSE <<>>) \o s3
            IN  ScriptInv(r, "pob") /\ r # <<>> /\ HandsOver(r, IF TRUE THEN {b} \cup {info} ELSE {b}, {Return})
        BY <1>0, <1>1, <1>2, <2>1, MaybeGift
      <3>2. QED BY <2>1, <3>1 DEF gi
    <2>2. CASE ~c
      <3>1. s2 = s3
        BY <1>2, <2>2, ConcatEmptySeq
      <3>2. QED BY <1>1, <2>2, <3>1
    <2>3. QED BY <2>1, <2>2
  <1>5. s2 \in Seq(S)
    BY <1>2, ConcatProperties
  <1> HIDE DEF s2
  <1>6. ScriptInv(hd \o s2, "pob") /\ HandsOver(hd \o s2, IF h THEN b2 ELSE b2 \cup {Headers}, {Return})
    <2>1. CASE h
      <3>1. hd \o s2 = s2
        BY <1>5, <2>1, ConcatEmptySeq
      <3>2. QED BY <1>4, <2>1, <3>1
    <2>2. CASE ~h
      <3>1. Headers \notin b2
        BY <1>0
      <3> HIDE DEF b2
      <3>2. LET r == (IF TRUE THEN <<GiveData(Headers)>> ELSE <<>>) \o s2
            IN  ScriptInv(r, "pob") /\ r # <<>> /\ HandsOver(r, IF TRUE THEN b2 \cup {Headers} ELSE b2, {Return})
        BY <1>0, <1>4, <1>5, <3>1, MaybeGift
      <3>3. QED BY <2>2, <3>2 DEF gh
    <2>3. QED BY <2>1, <2>2
  <1> DEFINE s == (IF h THEN <<>> ELSE <<GiveData(Headers)>>)
                      \o (IF c THEN <<GiveData(info)>> ELSE <<>>) \o <<GiveData(b), Return>>
             bs == {b} \cup (IF c THEN {info} ELSE {}) \cup (IF h THEN {} ELSE {Headers})
  <1>7. s = hd \o s2
    BY <1>3 DEF s2, s3, g, gi, gh
  <1>8. bs = IF h THEN b2 ELSE b2 \cup {Headers}
    OBVIOUS
  <1> HIDE DEF s, bs, b2, hd
  <1>9. ScriptInv(s, "pob") /\ HandsOver(s, bs, {Return})
    BY <1>6, <1>7, <1>8
  <1>10. QED BY <1>9 DEF s, bs

LEMMA PreOutputDataHandler ==
    ASSUME ChainInv, Start, PreOutputData(task')
    PROVE  ChainInv'
  <1> DEFINE b == task'.buffer
             h == pob.headers
             c == pob'.chunked
             info == ChunkInfo(b)
             bs == {b} \cup (IF c THEN {info} ELSE {}) \cup (IF h THEN {} ELSE {Headers})
  <1>1. /\ task'.module = "pob" /\ task'.event = "ON_RESPONSE_DATA"
        /\ pob' = [headers |-> TRUE, chunked |-> pob.chunked \/ (~pob.headers /\ ~measured)]
        /\ script' = (IF h THEN <<>> ELSE <<GiveData(Headers)>>)
                        \o (IF c THEN <<GiveData(info)>> ELSE <<>>) \o <<GiveData(b), Return>>
        /\ UNCHANGED <<parser, reader, measured, builded, sent>>
    BY DEF PreOutputData, Runs
  <1>2. /\ current' = "pob" /\ chain' = chain /\ task' \in ChainTasks /\ task' \in Planned(rt)
        /\ Handed(rt') \subseteq Handed(rt) /\ InUse = Handed(rt) /\ b \notin Handed(rt')
        /\ b \in Buffers => b \in InUse
        /\ Planned(rt') \subseteq Planned(rt) /\ QueueInv(rt')
        /\ (Reads(rt') => Reads(rt)) /\ (Idles(rt') => Idles(rt))
    BY <1>1, StartFrame
  <1>3. /\ task' \in ResponseTasks /\ b \in Pages \cup DataBuffers /\ FewFronts(rt'.tasks, 1)
    <2>1. task' \in ResponseTasks /\ b \in Pages \cup DataBuffers /\ task' \notin WriteTasks
      BY <1>1, <1>2, TaskKinds
    <2>2. QED BY <2>1, StartFrame
  <1>4. TypeOK /\ Answering
    BY DEF ChainInv
  <1>5. Coming(b)
    BY <1>2, <1>3 DEF Coming
  <1> HIDE DEF b
  <1>6. /\ b \in DataBuffers => chain = CR /\ measured
        /\ b \in Pages => chain = CE /\ info \notin InUse /\ info \in Infos
        /\ b \in Buffers
    <2>1. b \in Pages => info \in Infos
      BY DEF Pages, Padding, Page, ChunkInfo, Infos
    <2>2. b \in Buffers
      BY <1>3, BufferSets
    <2>3. QED BY <1>4, <1>5, <2>1, <2>2 DEF Answering
  <1>7. /\ h \in BOOLEAN /\ c \in BOOLEAN /\ (c => b \in Pages)
        /\ pob'.headers = TRUE /\ (chain # CE => ~c)
        /\ pob' \in [headers : BOOLEAN, chunked : BOOLEAN]
    <2>1. pob.headers \in BOOLEAN /\ pob.chunked \in BOOLEAN /\ measured \in BOOLEAN
      BY <1>4 DEF TypeOK
    <2>2. c = (pob.chunked \/ (~pob.headers /\ ~measured)) /\ pob'.headers = TRUE
      BY <1>1
    <2>3. chain # CE => ~pob.chunked
      BY <1>4 DEF Answering
    <2>4. CR # CE
      BY ShapesAre
    <2>5. c => b \in Pages
      BY <1>3, <1>6, <2>2, <2>3, <2>4
    <2>6. pob' \in [headers : BOOLEAN, chunked : BOOLEAN]
      BY <1>1, <2>1
    <2>7. QED BY <1>6, <2>1, <2>2, <2>5, <2>6
  <1> HIDE DEF h, c, info
  <1>8. ScriptInv(script', "pob") /\ HandsOver(script', bs, {Return})
    <2>1. c => info \in Infos
      BY <1>6, <1>7
    <2>2. QED BY <1>1, <1>3, <1>7, <2>1, PobScript
  <1>9. /\ b \in bs /\ \A d \in bs : d = b \/ (d = info /\ c) \/ (d = Headers /\ ~h)
        /\ bs \subseteq Written /\ bs \subseteq Buffers
        /\ bs \cap HeaderPieces = {}
    <2>1. bs \subseteq Written
      BY <1>3, <1>6, <1>7, BufferSets
    <2>2. QED BY <2>1, BufferSets
  <1> HIDE DEF bs
  <1>10. /\ Asked(script') = bs /\ (\A d \in Buffers : Given(d)' <=> d \in bs)
         /\ \A ns \in SUBSET {"reset", "insertAfter", "endError", "notifyEndTask", "throw"} : Elems(script') \cap Named(ns) = {}
         /\ Elems(script') \cap ReadCalls = {} /\ Elems(script') \cap IdleCalls = {}
    <2>1. /\ Asked(script') = bs /\ (\A d \in Buffers : GiveData(d) \in Elems(script') <=> d \in bs)
          /\ \A ns : "giveData" \notin ns => Elems(script') \cap Named(ns) = {Return} \cap Named(ns)
      BY <1>8, AskedIs
    <2>2. Elems(script') = {GiveData(d) : d \in bs} \cup {Return}
      BY <1>8 DEF HandsOver
    <2>3. Return \notin ReadCalls \cup IdleCalls
      BY QuietCalls
    <2>4. \A d \in bs : GiveData(d) \notin ReadCalls \cup IdleCalls
      BY <1>9, HandingCalls
    <2>5. \A ns \in SUBSET {"reset", "insertAfter", "endError", "notifyEndTask", "throw"} : {Return} \cap Named(ns) = {}
      BY DEF Named, Return
    <2>6. QED BY <2>1, <2>2, <2>3, <2>4, <2>5 DEF Given
  <1>11. b \notin Infos /\ Headers \notin Infos /\ b # Headers
    BY <1>3, BufferSets
  <1>12. bs \cap Handed(rt') = {}
    <2>1. ~h => Headers \notin InUse
      BY <1>4 DEF Answering, h
    <2>2. c => info \notin InUse
      BY <1>6, <1>7
    <2>3. QED BY <1>2, <1>9, <2>1, <2>2
  <1>13. Fits(script', "pob", chain, rt')
    <2>1. AddCalls("pob", chain) = {}
      <3>1. CR # CP /\ CE # CP
        BY ShapesAre
      <3>2. chain # CP
        BY <1>3, <1>6, <3>1
      <3>3. QED BY <3>2 DEF AddCalls
    <2>2. Elems(script') \cap Named({"notifyEndTask"}) = {}
      BY <1>10
    <2>3. QED BY <1>10, <1>12, <2>1, <2>2 DEF Fits
  <1>14. Answers
    <2>1. /\ Elems(script') \cap Named({"reset"}) = {} /\ Elems(script') \cap Named({"insertAfter"}) = {}
          /\ Elems(script') \cap Named({"endError"}) = {} /\ Elems(script') \cap Named({"reset", "insertAfter"}) = {}
      BY <1>10
    <2>2. QED BY <1>1, <1>2, <1>4, <1>7, <1>8, <1>13, <2>1 DEF Answers, TypeOK
  <1>15. InUse' \subseteq InUse \cup bs
    BY <1>2, <1>10 DEF InUse
  <1>16. Parsing'
    <2>1. Reading' => Reading
      BY <1>2, <1>10 DEF Reading
    <2>2. RequestBody \notin bs
      BY <1>9, BufferSets
    <2>3. QED BY <1>1, <1>15, <2>1, <2>2 DEF ChainInv, Parsing
  <1>17. Answering'
    <2>1. Idling' => Idling
      BY <1>2, <1>10 DEF Idling
    <2>2. \A d : Coming(d)' => Coming(d)
      BY <1>2 DEF Coming
    <2>3. \A d \in Pages : Coming(d)' => d # b
      <3>1. ASSUME NEW d \in Pages, Coming(d)', d = b PROVE FALSE
        <4>1. PICK t \in Planned(rt') \cap ResponseTasks : t.buffer = b
          BY <3>1 DEF Coming
        <4>2. rt'.end_task \in EndTasks \cup {NoTask} /\ rt'.call_later_task \in IdleTasks \cup {NoTask}
          BY <1>2 DEF QueueInv, QueueType
        <4>3. t \in Elems(rt'.tasks)
          BY <4>1, <4>2, TaskSets DEF Planned
        <4>4. b \in TaskBuffers(rt')
          BY <1>6, <4>1, <4>3, BufferElems, BufferSets
        <4>5. QED BY <1>2, <4>4 DEF Handed
      <3>2. QED BY <3>1
    <2>4. \A d \in Pages : d # b /\ b \in Pages => ChunkInfo(d) # info
      BY DEF Pages, Padding, Page, ChunkInfo, info
    <2>5. /\ \A n \in 1..FileSize : Data(n) \in DataBuffers
          /\ \A d \in Pages : ChunkInfo(d) \in Infos
          /\ DataBuffers \subseteq Buffers /\ DataBuffers \cap Infos = {} /\ Headers \notin DataBuffers
      BY BufferSets DEF DataBuffers, Pages, Padding, Page, ChunkInfo, Infos
    <2>6. /\ Idling' => reader'.open
          /\ reader'.open => measured'
          /\ chain' # CE => ~pob'.chunked
          /\ ~pob'.headers => Headers \notin InUse'
      BY <1>1, <1>2, <1>4, <1>7, <2>1 DEF Answering, c
    <2>7. \A n \in 1..FileSize : Data(n) \in InUse' => n <= FileSize - reader'.left
      <3>1. \A n \in 1..FileSize : Data(n) \in bs => Data(n) = b
        BY <1>6, <1>7, <1>9, <2>5
      <3>2. \A n \in 1..FileSize : Data(n) \in InUse' => Data(n) \in InUse
        BY <1>2, <1>6, <1>15, <3>1
      <3>3. reader' = reader
        BY <1>1
      <3>4. QED BY <1>4, <3>2, <3>3 DEF Answering
    <2>8. \A d \in DataBuffers : Coming(d)' \/ Given(d)' => chain' = CR /\ measured'
      <3>1. \A d \in DataBuffers : d \in bs => d = b
        BY <1>6, <1>7, <1>9, <2>5
      <3>2. QED BY <1>1, <1>2, <1>4, <1>6, <1>10, <2>2, <2>5, <3>1 DEF Answering
    <2>9. chain' = CP /\ current' = "pob" => \A d \in Buffers \ {Headers} : ~Given(d)'
      BY <1>2, <1>3, <1>6, ShapesAre
    <2>10. \A d \in Pages :
              /\ Coming(d)' => chain' = CE
              /\ Coming(d)' \/ (current' = "error" /\ Given(d)') => ChunkInfo(d) \notin InUse'
      <3> SUFFICES ASSUME NEW d \in Pages, Coming(d)' PROVE chain' = CE /\ ChunkInfo(d) \notin InUse'
        BY <1>2
      <3>1. Coming(d) /\ d # b
        BY <2>2, <2>3
      <3>2. chain' = CE /\ ChunkInfo(d) \notin InUse
        BY <1>2, <1>4, <3>1 DEF Answering
      <3>3. ChunkInfo(d) \notin bs
        BY <1>7, <1>9, <1>11, <1>6, <1>3, <2>4, <2>5, <3>1
      <3>4. QED BY <1>15, <3>2, <3>3
    <2>11. QED BY <2>6, <2>7, <2>8, <2>9, <2>10 DEF Answering
  <1>18. QED BY <1>14, <1>16, <1>17, WhenStarted

-----------------------------------------------------------------------------
(* The parser, which releases the buffers of the header. *)

LEMMA ConcatElems ==
    ASSUME NEW S, NEW p \in Seq(S), NEW q \in Seq(S)
    PROVE  /\ p \o q \in Seq(S) /\ Elems(p \o q) = Elems(p) \cup Elems(q)
           /\ Len(p) \in Nat /\ Len(q) \in Nat /\ Len(p \o q) = Len(p) + Len(q)
           /\ DOMAIN (p \o q) = 1..(Len(p) + Len(q)) /\ DOMAIN p = 1..Len(p) /\ DOMAIN q = 1..Len(q)
           /\ \A i \in 1..Len(p) : (p \o q)[i] = p[i]
           /\ \A i \in 1..(Len(p) + Len(q)) : i > Len(p) => i - Len(p) \in DOMAIN q /\ (p \o q)[i] = q[i - Len(p)]
           /\ q # <<>> => p \o q # <<>>
  <1> DEFINE r == p \o q
  <1>1. Len(p) \in Nat /\ Len(q) \in Nat /\ DOMAIN p = 1..Len(p) /\ DOMAIN q = 1..Len(q)
    BY LenProperties
  <1>2. /\ r \in Seq(S) /\ Len(r) = Len(p) + Len(q)
        /\ \A i \in 1..(Len(p) + Len(q)) : r[i] = IF i <= Len(p) THEN p[i] ELSE q[i - Len(p)]
    BY ConcatProperties
  <1>3. q # <<>> => r # <<>>
    BY ConcatEqualIffEmpty
  <1> HIDE DEF r
  <1>4. DOMAIN r = 1..(Len(p) + Len(q))
    BY <1>2, LenProperties
  <1>5. \A i \in 1..Len(p) : i \in DOMAIN r /\ r[i] = p[i]
    BY <1>1, <1>2, <1>4
  <1>6. \A i \in 1..(Len(p) + Len(q)) : i > Len(p) => i - Len(p) \in DOMAIN q /\ r[i] = q[i - Len(p)]
    BY <1>1, <1>2
  <1>7. \A j \in DOMAIN q : j + Len(p) \in DOMAIN r /\ r[j + Len(p)] = q[j]
    BY <1>1, <1>2, <1>4
  <1>8. Elems(r) \subseteq Elems(p) \cup Elems(q)
    <2> SUFFICES ASSUME NEW i \in DOMAIN r PROVE r[i] \in Elems(p) \cup Elems(q)
      BY DEF Elems
    <2>1. CASE i <= Len(p)
      <3>1. i \in DOMAIN p /\ r[i] = p[i]
        BY <1>1, <1>4, <1>5, <2>1
      <3>2. QED BY <3>1 DEF Elems
    <2>2. CASE i > Len(p)
      <3>1. i - Len(p) \in DOMAIN q /\ r[i] = q[i - Len(p)]
        BY <1>4, <1>6, <2>2
      <3>2. QED BY <3>1 DEF Elems
    <2>3. QED BY <1>1, <1>4, <2>1, <2>2
  <1>9. Elems(p) \cup Elems(q) \subseteq Elems(r)
    BY <1>1, <1>5, <1>7 DEF Elems
  <1>10. QED BY <1>1, <1>2, <1>3, <1>4, <1>5, <1>6, <1>8, <1>9 DEF r

LEMMA OnceConcat ==
    ASSUME NEW S, NEW p \in Seq(S), NEW q \in Seq(S), NEW X, Once(q, X), Elems(p) \cap X = {}
    PROVE  Once(p \o q, X)
  <1> DEFINE r == p \o q
  <1>1. /\ Len(p) \in Nat /\ Len(q) \in Nat
        /\ DOMAIN r = 1..(Len(p) + Len(q)) /\ DOMAIN p = 1..Len(p) /\ DOMAIN q = 1..Len(q)
        /\ \A i \in 1..Len(p) : r[i] = p[i]
        /\ \A i \in 1..(Len(p) + Len(q)) : i > Len(p) => i - Len(p) \in DOMAIN q /\ r[i] = q[i - Len(p)]
    BY ConcatElems
  <1> HIDE DEF r
  <1>2. \A i \in DOMAIN r : r[i] \in X => i > Len(p)
    <2>1. \A i \in 1..Len(p) : r[i] \notin X
      BY <1>1 DEF Elems
    <2>2. QED BY <1>1, <2>1
  <1>3. ASSUME NEW i \in DOMAIN r, NEW j \in DOMAIN r, r[i] \in X, r[j] \in X PROVE i = j
    <2>1. /\ i - Len(p) \in DOMAIN q /\ r[i] = q[i - Len(p)]
          /\ j - Len(p) \in DOMAIN q /\ r[j] = q[j - Len(p)]
      BY <1>1, <1>2, <1>3
    <2>2. i - Len(p) = j - Len(p)
      BY <1>3, <2>1 DEF Once
    <2>3. QED BY <1>1, <2>2
  <1>4. QED BY <1>3 DEF Once, r

\* Releases in front of a script.
LEMMA ReleasesFirst ==
    ASSUME NEW q \in Seq(Buffers), NEW s, ScriptInv(s, "parser"), s # <<>>,
           NEW bs, NEW Q, HandsOver(s, bs, Q), Elems(s) \cap Named({"reset", "insertAfter"}) = {}
    PROVE  LET r == ReleaseAll(q) \o s
           IN  /\ ScriptInv(r, "parser") /\ r # <<>>
               /\ HandsOver(r, bs, Q \cup Elems(ReleaseAll(q))) /\ Elems(ReleaseAll(q)) \subseteq Releasing
               /\ Elems(ReleaseAll(q)) \subseteq Quiet /\ ReleaseAll(q) \in Seq(CallsOf("parser"))
               /\ Elems(r) = Elems(ReleaseAll(q)) \cup Elems(s)
               /\ Elems(r) \cap ReadCalls = Elems(s) \cap ReadCalls
               /\ Elems(r) \cap Named({"reset", "insertAfter"}) = {}
               /\ Once(s, Gives(Buffers)) => Once(r, Gives(Buffers))
  <1> DEFINE p == ReleaseAll(q)
             r == p \o s
  <1>1. "parser" \in Modules /\ "parser" # "in" /\ "parser" # "reader"
    BY DEF Modules
  <1>2. p \in Seq(CallsOf("parser")) /\ Elems(p) \subseteq {Release(b) : b \in Buffers}
    <2>1. Len(q) \in Nat /\ DOMAIN q = 1..Len(q) /\ \A i \in 1..Len(q) : q[i] \in Buffers
      BY LenProperties, ElementOfSeq
    <2>2. p = [i \in 1..Len(q) |-> Release(q[i])]
      BY <2>1 DEF ReleaseAll
    <2>3. \A b \in Buffers : Release(b) \in CallsOf("parser")
      BY <1>1, CommonCalls
    <2>4. \A i \in 1..Len(q) : Release(q[i]) \in CallsOf("parser")
      BY <2>1, <2>3
    <2>5. p \in [1..Len(q) -> CallsOf("parser")]
      BY <2>2, <2>4
    <2>6. p \in Seq(CallsOf("parser"))
      BY <2>1, <2>5, SeqDef
    <2>7. Elems(p) \subseteq {Release(b) : b \in Buffers}
      BY <2>1, <2>2 DEF Elems
    <2>8. QED BY <2>6, <2>7
  <1> HIDE DEF p
  <1>3. /\ Elems(p) \subseteq Quiet /\ Elems(p) \subseteq Releasing
        /\ Elems(p) \cap LastCalls = {}
        /\ Elems(p) \cap Named({"reset", "insertAfter"}) = {}
    <2>1. \A b \in Buffers : /\ Release(b) \in Quiet /\ Release(b) \in Releasing /\ Release(b) \notin LastCalls
                             /\ Release(b) \notin Named({"reset", "insertAfter"})
      BY QuietCalls DEF Release, LastCalls, Named
    <2>2. QED BY <1>2, <2>1
  <1>4. s \in Seq(CallsOf("parser"))
    BY DEF ScriptInv
  <1>5. /\ r \in Seq(CallsOf("parser")) /\ Elems(r) = Elems(p) \cup Elems(s) /\ r # <<>>
        /\ Len(p) \in Nat /\ Len(s) \in Nat /\ Len(r) = Len(p) + Len(s)
        /\ DOMAIN r = 1..(Len(p) + Len(s)) /\ DOMAIN p = 1..Len(p)
        /\ \A i \in 1..Len(p) : r[i] = p[i]
        /\ \A i \in 1..(Len(p) + Len(s)) : i > Len(p) => i - Len(p) \in DOMAIN s /\ r[i] = s[i - Len(p)]
    BY <1>2, <1>4, ConcatElems
  <1>6. \A X : Once(s, X) /\ Elems(p) \cap X = {} => Once(r, X)
    BY <1>2, <1>4, OnceConcat
  <1> HIDE DEF r
  <1>7. Elems(p) \cap (Gives(Buffers) \cup ReadCalls \cup IdleCalls) = {} /\ \A b \in Buffers : Elems(p) \cap Handing(b) = {}
    BY <1>3, QuietCalls
  <1>8. ASSUME NEW i \in DOMAIN r, r[i] \in LastCalls PROVE i = Len(r)
    <2>1. i > Len(p)
      <3>1. i <= Len(p) => r[i] \in Elems(p)
        BY <1>5 DEF Elems
      <3>2. QED BY <1>3, <1>5, <1>8, <3>1
    <2>2. i - Len(p) \in DOMAIN s /\ s[i - Len(p)] \in LastCalls
      BY <1>5, <1>8, <2>1
    <2>3. i - Len(p) = Len(s)
      BY <2>2 DEF ScriptInv
    <2>4. Len(p) \in Nat /\ Len(s) \in Nat /\ Len(r) = Len(p) + Len(s) /\ i \in Int
      BY <1>5
    <2>5. QED BY <2>3, <2>4
  <1>9. Elems(r) \cap Named({"reset", "insertAfter"}) = {}
    BY <1>3, <1>5
  <1>10. ScriptInv(r, "parser")
    <2>1. \A i \in DOMAIN r : r[i] \notin Named({"reset", "insertAfter"})
      BY <1>9 DEF Elems
    <2>2. Once(r, ReadCalls) /\ Once(r, IdleCalls) /\ \A b \in Buffers : Once(r, Handing(b))
      BY <1>6, <1>7 DEF ScriptInv
    <2>3. QED BY <1>1, <1>5, <1>8, <2>1, <2>2 DEF ScriptInv
  <1>11. HandsOver(r, bs, Q \cup Elems(p))
    BY <1>3, <1>5 DEF HandsOver
  <1>12. QED BY <1>2, <1>3, <1>5, <1>6, <1>7, <1>9, <1>10, <1>11 DEF p, r

\* A script that gives bs, and else releases and ends.
Gentle(s, bs) ==
    /\ ScriptInv(s, "parser") /\ s # <<>> /\ Once(s, Gives(Buffers))
    /\ \E Q \in SUBSET Quiet : HandsOver(s, bs, Q)
    /\ Elems(s) \cap Named({"reset", "insertAfter", "endError", "notifyEndTask", "throw"}) = {}

LEMMA GentleReleases ==
    ASSUME NEW q \in Seq(Buffers), NEW s, NEW bs, Gentle(s, bs)
    PROVE  Gentle(ReleaseAll(q) \o s, bs)
  <1> DEFINE r == ReleaseAll(q) \o s
             P == Elems(ReleaseAll(q))
  <1>1. PICK Q \in SUBSET Quiet : HandsOver(s, bs, Q)
    BY DEF Gentle
  <1>2. Elems(s) \cap Named({"reset", "insertAfter"}) = {}
    <2>1. Named({"reset", "insertAfter"}) \subseteq Named({"reset", "insertAfter", "endError", "notifyEndTask", "throw"})
      BY NamedMore
    <2>2. QED BY <2>1 DEF Gentle
  <1>3. /\ ScriptInv(r, "parser") /\ r # <<>> /\ HandsOver(r, bs, Q \cup P)
        /\ P \subseteq Quiet /\ P \subseteq Releasing /\ Elems(r) = P \cup Elems(s) /\ Once(r, Gives(Buffers))
    BY <1>1, <1>2, ReleasesFirst DEF Gentle
  <1>4. Releasing \cap Named({"reset", "insertAfter", "endError", "notifyEndTask", "throw"}) = {}
    BY DEF Releasing, Named
  <1> HIDE DEF r, P
  <1>5. Q \cup P \in SUBSET Quiet
    BY <1>3
  <1>6. Gentle(r, bs)
    BY <1>3, <1>4, <1>5 DEF Gentle
  <1>7. QED BY <1>6 DEF r

\* The ends of the parser's scripts.
LEMMA GentleEnds ==
    /\ Gentle(<<Return>>, {}) /\ Gentle(<<RaiseEnd, Return>>, {})
    /\ Gentle(<<GiveData(RequestBody), Return>>, {RequestBody})
    /\ Gentle(<<GiveData(RequestBody), RaiseEnd, Return>>, {RequestBody})
  <1> DEFINE names == {"reset", "insertAfter", "endError", "notifyEndTask", "throw"}
  <1>1. /\ "parser" \in Modules \ {"reader"} /\ "parser" \in Modules
        /\ GiveData(RequestBody) \in CallsOf("parser") /\ RequestBody \in Buffers \ HeaderPieces
    BY BufferSets DEF Modules, CallsOf, Gives, GiveData
  <1>2. /\ Return \in CallsOf("parser") /\ Return \in LastCalls /\ Return \in Quiet /\ RaiseEnd \in Quiet
        /\ {RaiseEnd, Return} \cap Named(names) = {} /\ GiveData(RequestBody) \notin Named(names)
    BY <1>1, CommonCalls, QuietCalls, CalmCalls
  <1>3. Gentle(<<Return>>, {})
    <2> DEFINE s == <<Return>>
    <2>1. ScriptInv(s, "parser") /\ Elems(s) = {Return} /\ s # <<>>
      BY <1>2, OneCall
    <2> HIDE DEF s
    <2>2. Once(s, Gives(Buffers))
      BY <1>2, <2>1, QuietScript
    <2>3. HandsOver(s, {}, {Return})
      BY <1>2, <2>1 DEF HandsOver
    <2>4. QED BY <1>2, <2>1, <2>2, <2>3 DEF Gentle, s
  <1>4. /\ ScriptInv(<<RaiseEnd, Return>>, "parser") /\ <<RaiseEnd, Return>> # <<>>
        /\ HandsOver(<<RaiseEnd, Return>>, {}, {RaiseEnd, Return}) /\ Once(<<RaiseEnd, Return>>, Gives(Buffers))
    BY <1>1, EndAndReturn
  <1>5. Gentle(<<RaiseEnd, Return>>, {})
    <2> DEFINE s == <<RaiseEnd, Return>>
    <2> HIDE DEF s
    <2>1. ScriptInv(s, "parser") /\ s # <<>> /\ HandsOver(s, {}, {RaiseEnd, Return}) /\ Once(s, Gives(Buffers))
      BY <1>4 DEF s
    <2>2. Elems(s) = {RaiseEnd, Return}
      BY <2>1 DEF HandsOver
    <2>3. {RaiseEnd, Return} \in SUBSET Quiet
      BY <1>2
    <2>4. QED BY <1>2, <2>1, <2>2, <2>3 DEF Gentle, s
  <1>6. Gentle(<<GiveData(RequestBody), Return>>, {RequestBody})
    <2> DEFINE s == <<GiveData(RequestBody), Return>>
    <2>1. ScriptInv(s, "parser") /\ Once(s, Gives(Buffers)) /\ Elems(s) = {GiveData(RequestBody), Return}
      BY <1>1, GiveAndReturn
    <2>2. s # <<>>
      OBVIOUS
    <2> HIDE DEF s
    <2>3. HandsOver(s, {RequestBody}, {Return})
      BY <1>1, <1>2, <2>1 DEF HandsOver
    <2>4. {Return} \in SUBSET Quiet
      BY <1>2
    <2>5. QED BY <1>2, <2>1, <2>2, <2>3, <2>4 DEF Gentle, s
  <1>7. Gentle(<<GiveData(RequestBody), RaiseEnd, Return>>, {RequestBody})
    <2> DEFINE e == <<RaiseEnd, Return>>
               s == <<GiveData(RequestBody)>> \o e
    <2>1. s = <<GiveData(RequestBody), RaiseEnd, Return>>
      <3> HIDE DEF GiveData, RaiseEnd, Return
      <3>1. QED BY ThreeIsConcat
    <2>2. {RaiseEnd, Return} \cap Named({"reset", "insertAfter"}) = {}
      <3>1. Named({"reset", "insertAfter"}) \subseteq Named(names)
        BY NamedMore
      <3>2. QED BY <1>2, <3>1
    <2>3. ScriptInv(e, "parser") /\ e # <<>> /\ HandsOver(e, {}, {RaiseEnd, Return})
      BY <1>4
    <2> HIDE DEF e
    <2>4. /\ ScriptInv(s, "parser") /\ s # <<>> /\ HandsOver(s, {} \cup {RequestBody}, {RaiseEnd, Return})
          /\ Once(s, Gives(Buffers)) /\ Elems(s) = Elems(e) \cup {GiveData(RequestBody)}
      BY <1>1, <2>2, <2>3, PrependGift
    <2>5. {} \cup {RequestBody} = {RequestBody}
      OBVIOUS
    <2>6. Elems(e) = {RaiseEnd, Return}
      BY <2>3 DEF HandsOver
    <2> HIDE DEF s
    <2>7. Elems(s) \cap Named(names) = {}
      BY <1>2, <2>4, <2>6
    <2>8. {RaiseEnd, Return} \in SUBSET Quiet
      BY <1>2
    <2>9. Gentle(s, {RequestBody})
      BY <2>4, <2>5, <2>7, <2>8 DEF Gentle
    <2>10. QED BY <2>1, <2>9
  <1>8. QED BY <1>3, <1>5, <1>6, <1>7

\* The answer of the parser.
LEMMA ParserAnswers ==
    ASSUME ChainInv, Start, task'.module = "parser", task'.event = "ON_REQUEST_DATA",
           UNCHANGED <<builded, reader, pob, measured, sent>>,
           parser'.buffers = Append(parser.buffers, task'.buffer), parser'.completed \in BOOLEAN,
           parser' \in [buffers : Seq(Buffers), completed : BOOLEAN],
           NEW s, NEW bs, bs \subseteq {RequestBody}, Gentle(s, bs),
           \/ script' = s /\ Len(parser.buffers) + 1 = Pieces
           \/ script' = <<NeedRead>> \o s /\ bs = {} /\ Len(parser.buffers) + 1 < Pieces
    PROVE  ChainInv'
  <1> DEFINE names == {"reset", "insertAfter", "endError", "notifyEndTask", "throw"}
  <1>1. /\ current' = "parser" /\ chain' = chain /\ task' \in ChainTasks
        /\ Handed(rt') \subseteq Handed(rt) /\ InUse = Handed(rt)
        /\ Planned(rt') \subseteq Planned(rt) /\ (Idles(rt') => Idles(rt))
    BY StartFrame
  <1>2. task' \in ReadTasks /\ task' \notin WriteTasks /\ task'.buffer \in Buffers
    BY <1>1, TaskKinds, TaskSets DEF T!DataEvents
  <1>3. Reads(rt) /\ ~Reads(rt') /\ FewFronts(rt'.tasks, 1)
    BY <1>2, StartFrame
  <1>4. TypeOK /\ Parsing /\ Answering
    BY DEF ChainInv
  <1>5. /\ Len(parser.buffers) < Pieces /\ RequestBody \notin InUse
        /\ Len(parser'.buffers) = Len(parser.buffers) + 1 /\ Len(parser.buffers) \in Nat /\ Pieces \in Nat
    <2>1. Len(parser.buffers) < Pieces
      BY <1>3, <1>4 DEF Parsing, Reading
    <2>2. parser.buffers \in Seq(Buffers)
      BY <1>4 DEF TypeOK
    <2>3. Len(parser'.buffers) = Len(parser.buffers) + 1 /\ Len(parser.buffers) \in Nat
      BY <1>2, <2>2, AppendProperties, LenProperties
    <2>4. QED BY <1>4, <2>1, <2>3, RequestChainAssumption DEF Parsing
  <1>6. /\ RequestBody \in Buffers /\ RequestBody \notin HeaderPieces
        /\ RequestBody \notin {Headers} \cup Pages \cup DataBuffers \cup Infos
    BY BufferSets
  <1>7. PICK Q \in SUBSET Quiet : HandsOver(s, bs, Q)
    BY DEF Gentle
  <1>8. /\ Asked(s) = bs /\ (\A b \in Buffers : GiveData(b) \in Elems(s) <=> b \in bs)
        /\ Elems(s) \cap ReadCalls = {} /\ Elems(s) \cap IdleCalls = {}
        /\ bs = {} => Elems(s) \cap Gives(Buffers) = {}
    <2>1. /\ Asked(s) = bs /\ (\A b \in Buffers : GiveData(b) \in Elems(s) <=> b \in bs)
          /\ bs = {} => Elems(s) \cap Gives(Buffers) = {}
      BY <1>7, AskedIs
    <2>2. Elems(s) = {GiveData(b) : b \in bs} \cup Q
      BY <1>7 DEF HandsOver
    <2>3. \A b \in bs : GiveData(b) \notin ReadCalls \cup IdleCalls
      BY <1>6, HandingCalls
    <2>4. Elems(s) \cap ReadCalls = {} /\ Elems(s) \cap IdleCalls = {}
      BY <2>2, <2>3, QuietCalls
    <2>5. QED BY <2>1, <2>4
  <1>9. Elems(s) \cap Named({"reset", "insertAfter"}) = {}
    <2>1. Named({"reset", "insertAfter"}) \subseteq Named(names)
      BY NamedMore
    <2>2. QED BY <2>1 DEF Gentle
  <1>10. /\ ScriptInv(script', "parser") /\ Once(script', Gives(Buffers))
         /\ Asked(script') = bs /\ (\A b \in Buffers : Given(b)' <=> b \in bs)
         /\ Elems(script') \cap IdleCalls = {} /\ Elems(script') \cap Named(names) = {}
         /\ Elems(script') \cap ReadCalls # {} => Len(parser.buffers) + 1 < Pieces
    <2>1. CASE script' = s
      BY <1>8, <2>1 DEF Gentle, Given
    <2>2. CASE script' = <<NeedRead>> \o s /\ bs = {} /\ Len(parser.buffers) + 1 < Pieces
      <3>1. /\ NeedRead \in CallsOf("parser") /\ NeedRead \notin LastCalls \cup IdleCalls \cup Gives(Buffers)
            /\ \A b \in Buffers : NeedRead \notin Handing(b) /\ NeedRead # GiveData(b)
            /\ NeedRead \notin Named(names)
        BY DEF CallsOf, Named, NeedRead, LastCalls, IdleCalls, Handing, GiveData, NeedWrite, Gives
      <3>2. CanPrecede(NeedRead, s, "parser")
        BY <1>8, <1>9, <3>1 DEF CanPrecede
      <3>3. Elems(s) \cap Gives(Buffers) = {}
        BY <1>8, <2>2
      <3>4. /\ ScriptInv(script', "parser") /\ Elems(script') = Elems(s) \cup {NeedRead} /\ Once(script', Gives(Buffers))
        BY <2>2, <3>1, <3>2, <3>3, Prepend DEF Gentle
      <3>5. Asked(script') = Asked(s)
        BY <3>1, <3>4 DEF Asked
      <3>6. QED BY <1>8, <2>2, <3>1, <3>4, <3>5 DEF Gentle, Given
    <2>3. QED BY <2>1, <2>2
  <1>11. \A n \in names : Elems(script') \cap Named({n}) = {}
    BY <1>10, CalmNames
  <1>12. InUse' \subseteq InUse \cup bs
    BY <1>1, <1>10 DEF InUse
  <1>13. Answers
    <2>1. Fits(script', "parser", chain, rt')
      <3>1. Asked(script') \cap Handed(rt') = {}
        BY <1>1, <1>5, <1>10
      <3>2. script' \in Seq(CallsOf("parser"))
        BY <1>10 DEF ScriptInv
      <3>3. QED BY <1>3, <1>10, <1>11, <3>1, <3>2, OneGift
    <2>2. Elems(script') \cap Named({"reset", "insertAfter"}) = {}
      <3>1. Named({"reset", "insertAfter"}) \subseteq Named(names)
        BY NamedMore
      <3>2. QED BY <1>10, <3>1
    <2>3. QED BY <1>1, <1>4, <1>10, <1>11, <2>1, <2>2 DEF Answers, TypeOK
  <1>14. Parsing'
    <2>1. Reading' => Len(parser'.buffers) < Pieces
      BY <1>3, <1>5, <1>10 DEF Reading
    <2>2. Len(parser'.buffers) <= Pieces
      BY <1>5
    <2>3. Len(parser'.buffers) < Pieces => RequestBody \notin InUse'
      BY <1>5, <1>12
    <2>4. QED BY <2>1, <2>2, <2>3 DEF Parsing
  <1>15. Answering'
    <2>1. Idling' => Idling
      BY <1>1, <1>10 DEF Idling
    <2>2. \A d : Coming(d)' => Coming(d)
      BY <1>1 DEF Coming
    <2>3. /\ \A n \in 1..FileSize : Data(n) \in DataBuffers
          /\ \A d \in Pages : ChunkInfo(d) \in Infos
          /\ DataBuffers \subseteq Buffers /\ Pages \subseteq Buffers
      BY BufferSets DEF DataBuffers, Pages, Padding, Page, ChunkInfo, Infos
    <2>4. /\ Idling' => reader'.open
          /\ reader'.open => measured'
          /\ chain' # CE => ~pob'.chunked
          /\ ~pob'.headers => Headers \notin InUse'
          /\ \A n \in 1..FileSize : Data(n) \in InUse' => n <= FileSize - reader'.left
      BY <1>1, <1>4, <1>6, <1>12, <2>1, <2>3 DEF Answering
    <2>5. \A d \in DataBuffers : Coming(d)' \/ Given(d)' => chain' = CR /\ measured'
      BY <1>1, <1>4, <1>6, <1>10, <2>2, <2>3 DEF Answering
    <2>6. chain' = CP /\ current' = "pob" => \A d \in Buffers \ {Headers} : ~Given(d)'
      BY <1>1
    <2>7. \A d \in Pages :
              /\ Coming(d)' => chain' = CE
              /\ Coming(d)' \/ (current' = "error" /\ Given(d)') => ChunkInfo(d) \notin InUse'
      BY <1>1, <1>4, <1>6, <1>12, <2>2, <2>3 DEF Answering
    <2>8. QED BY <2>4, <2>5, <2>6, <2>7 DEF Answering
  <1>16. QED BY <1>13, <1>14, <1>15, WhenStarted

LEMMA KeptBuffers ==
    ASSUME ChainInv, Start, task'.module = "parser", task'.event = "ON_REQUEST_DATA"
    PROVE  /\ Kept(task') \in Seq(Buffers) /\ Len(Kept(task')) = Len(parser.buffers) + 1
           /\ ReleaseAll(Kept(task')) \in Seq(CallsOf("parser"))
  <1>1. task'.buffer \in Buffers /\ parser.buffers \in Seq(Buffers)
    BY StartFrame, TaskKinds DEF T!DataEvents, ChainInv, TypeOK
  <1>2. Kept(task') \in Seq(Buffers) /\ Len(Kept(task')) = Len(parser.buffers) + 1
    BY <1>1, AppendProperties DEF Kept
  <1>3. Gentle(<<Return>>, {})
    BY GentleEnds
  <1>4. PICK Q \in SUBSET Quiet : HandsOver(<<Return>>, {}, Q)
    BY <1>3 DEF Gentle
  <1>5. Elems(<<Return>>) \cap Named({"reset", "insertAfter"}) = {}
    <2>1. Named({"reset", "insertAfter"}) \subseteq Named({"reset", "insertAfter", "endError", "notifyEndTask", "throw"})
      BY NamedMore
    <2>2. QED BY <1>3, <2>1 DEF Gentle
  <1>6. ScriptInv(<<Return>>, "parser") /\ <<Return>> # <<>>
    BY <1>3 DEF Gentle
  <1> DEFINE s == <<Return>>
             q == Kept(task')
  <1> HIDE DEF s, q
  <1>7. ReleaseAll(q) \in Seq(CallsOf("parser"))
    BY <1>2, <1>4, <1>5, <1>6, ReleasesFirst DEF s, q
  <1>8. QED BY <1>2, <1>7 DEF q

LEMMA ParserIncompleteHandler ==
    ASSUME ChainInv, Start, ParserIncomplete(task')
    PROVE  ChainInv'
  <1> DEFINE q == Kept(task')
             big == Len(Kept(task')) > HeaderLimit
             s == IF big THEN ReleaseAll(q) \o <<RaiseEnd, Return>> ELSE <<Return>>
             S == CallsOf("parser")
  <1>1. /\ task'.module = "parser" /\ task'.event = "ON_REQUEST_DATA" /\ Len(q) < Pieces
        /\ parser' = [parser EXCEPT !.buffers = q]
        /\ script' = <<NeedRead>> \o (IF big THEN ReleaseAll(q) \o <<RaiseEnd>> ELSE <<>>) \o Done
        /\ UNCHANGED <<builded, reader, pob, measured, sent>>
    BY DEF ParserIncomplete, Runs
  <1>2. q \in Seq(Buffers) /\ Len(q) = Len(parser.buffers) + 1 /\ ReleaseAll(q) \in Seq(S)
    BY <1>1, KeptBuffers
  <1>3. /\ parser'.buffers = Append(parser.buffers, task'.buffer) /\ parser'.completed \in BOOLEAN
        /\ parser' \in [buffers : Seq(Buffers), completed : BOOLEAN]
    <2>1. parser \in [buffers : Seq(Buffers), completed : BOOLEAN]
      BY DEF ChainInv, TypeOK
    <2>2. QED BY <1>1, <1>2, <2>1 DEF Kept
  <1> HIDE DEF q, big
  <1>4. Gentle(s, {})
    <2>1. Gentle(ReleaseAll(q) \o <<RaiseEnd, Return>>, {})
      BY <1>2, GentleEnds, GentleReleases
    <2>2. QED BY <2>1, GentleEnds
  <1>5. script' = <<NeedRead>> \o s
    <2>0. NeedRead \in S /\ RaiseEnd \in S /\ Return \in S
      <3>1. "parser" \in Modules
        BY DEF Modules
      <3>2. NeedRead \in S
        BY DEF CallsOf, Named, NeedRead
      <3>3. QED BY <3>1, <3>2, CommonCalls
    <2> HIDE DEF S, NeedRead, RaiseEnd, Return
    <2>1. <<NeedRead>> \in Seq(S) /\ <<RaiseEnd>> \in Seq(S) /\ Done \in Seq(S) /\ <<>> \in Seq(S)
      BY <2>0 DEF Done
    <2>2. <<RaiseEnd, Return>> = <<RaiseEnd>> \o Done
      BY TwoIsConcat DEF Done
    <2>3. CASE big
      <3>1. script' = (<<NeedRead>> \o (ReleaseAll(q) \o <<RaiseEnd>>)) \o Done
        BY <1>1, <2>3
      <3>2. ReleaseAll(q) \o <<RaiseEnd>> \in Seq(S)
        BY <1>2, <2>1, ConcatProperties
      <3> DEFINE a == ReleaseAll(q) \o <<RaiseEnd>>
      <3> HIDE DEF a
      <3>3. (<<NeedRead>> \o a) \o Done = <<NeedRead>> \o (a \o Done)
        BY <2>1, <3>2, ConcatAssociative DEF a
      <3>4. a \o Done = ReleaseAll(q) \o (<<RaiseEnd>> \o Done)
        BY <1>2, <2>1, ConcatAssociative DEF a
      <3>5. s = a \o Done
        BY <2>2, <2>3, <3>4
      <3>6. QED BY <3>1, <3>3, <3>5 DEF a
    <2>4. CASE ~big
      <3>1. script' = (<<NeedRead>> \o <<>>) \o Done
        BY <1>1, <2>4
      <3>2. <<NeedRead>> \o <<>> = <<NeedRead>>
        BY <2>1, ConcatEmptySeq
      <3>3. s = Done
        BY <2>4 DEF Done
      <3>4. QED BY <3>1, <3>2, <3>3
    <2>5. QED BY <2>3, <2>4
  <1> HIDE DEF s
  <1>6. Len(parser.buffers) + 1 < Pieces
    BY <1>1, <1>2
  <1>7. QED BY <1>1, <1>3, <1>4, <1>5, <1>6, ParserAnswers

LEMMA ParserCompleteHandler ==
    ASSUME ChainInv, Start, ParserComplete(task')
    PROVE  ChainInv'
  <1> DEFINE q == Kept(task')
             S == CallsOf("parser")
  <1>1. /\ task'.module = "parser" /\ task'.event = "ON_REQUEST_DATA" /\ Len(q) = Pieces
        /\ parser' = [buffers |-> q, completed |-> TRUE]
        /\ UNCHANGED <<builded, reader, pob, measured, sent>>
        /\ \E rest \in {<<RaiseEnd>>, <<GiveData(RequestBody)>>, <<GiveData(RequestBody), RaiseEnd>>} :
              script' = ReleaseAll(q) \o rest \o Done
    BY DEF ParserComplete, Runs
  <1>2. q \in Seq(Buffers) /\ Len(q) = Len(parser.buffers) + 1 /\ ReleaseAll(q) \in Seq(S)
    BY <1>1, KeptBuffers
  <1>3. /\ parser'.buffers = Append(parser.buffers, task'.buffer) /\ parser'.completed \in BOOLEAN
        /\ parser' \in [buffers : Seq(Buffers), completed : BOOLEAN]
    BY <1>1, <1>2 DEF Kept
  <1> HIDE DEF q
  <1>4. PICK rest \in {<<RaiseEnd>>, <<GiveData(RequestBody)>>, <<GiveData(RequestBody), RaiseEnd>>} :
           script' = ReleaseAll(q) \o rest \o Done
    BY <1>1
  <1>5. script' = ReleaseAll(q) \o (rest \o Done)
    <2>1. RaiseEnd \in S /\ Return \in S /\ GiveData(RequestBody) \in S
      <3>1. "parser" \in Modules
        BY DEF Modules
      <3>2. GiveData(RequestBody) \in S
        BY DEF CallsOf, Gives, GiveData
      <3>3. QED BY <3>1, <3>2, CommonCalls
    <2> DEFINE c == GiveData(RequestBody)
               a == ReleaseAll(q)
    <2>2. rest \in {<<RaiseEnd>>, <<c>>, <<c, RaiseEnd>>} /\ c \in S /\ a \in Seq(S) /\ script' = a \o rest \o Done
      BY <1>2, <1>4, <2>1
    <2> HIDE DEF S, RaiseEnd, Return, c, a
    <2>3. Done \in Seq(S)
      BY <2>1 DEF Done
    <2>4. <<RaiseEnd>> \in Seq(S) /\ <<c>> \in Seq(S) /\ <<c, RaiseEnd>> \in Seq(S)
      BY <2>1, <2>2
    <2>5. rest \in Seq(S)
      BY <2>2, <2>4
    <2>6. (a \o rest) \o Done = a \o (rest \o Done)
      BY <2>2, <2>3, <2>5, ConcatAssociative
    <2>7. QED BY <2>2, <2>6 DEF a
  <1>6. PICK bs \in SUBSET {RequestBody} : Gentle(rest \o Done, bs)
    <2> DEFINE c == GiveData(RequestBody)
    <2> HIDE DEF c, RaiseEnd, Return
    <2>1. <<RaiseEnd>> \o Done = <<RaiseEnd, Return>> /\ <<c>> \o Done = <<c, Return>>
      BY TwoIsConcat DEF Done
    <2>2. <<c, RaiseEnd>> \o Done = <<c, RaiseEnd, Return>>
      <3>1. <<c>> \in Seq({c, RaiseEnd, Return}) /\ <<RaiseEnd>> \in Seq({c, RaiseEnd, Return}) /\ Done \in Seq({c, RaiseEnd, Return})
        BY DEF Done
      <3>2. (<<c>> \o <<RaiseEnd>>) \o Done = <<c>> \o (<<RaiseEnd>> \o Done)
        BY <3>1, ConcatAssociative
      <3>3. <<c, RaiseEnd>> = <<c>> \o <<RaiseEnd>>
        BY TwoIsConcat
      <3>4. <<c, RaiseEnd, Return>> = <<c>> \o <<RaiseEnd, Return>>
        BY ThreeIsConcat
      <3>5. QED BY <2>1, <3>2, <3>3, <3>4
    <2>3. /\ Gentle(<<RaiseEnd, Return>>, {}) /\ Gentle(<<c, Return>>, {RequestBody})
          /\ Gentle(<<c, RaiseEnd, Return>>, {RequestBody})
      BY GentleEnds DEF c
    <2>4. rest \in {<<RaiseEnd>>, <<c>>, <<c, RaiseEnd>>}
      BY <1>4 DEF c
    <2> HIDE DEF Done
    <2>5. QED BY <2>1, <2>2, <2>3, <2>4
  <1> DEFINE s == ReleaseAll(q) \o (rest \o Done)
  <1>7. Gentle(s, bs)
    BY <1>2, <1>6, GentleReleases
  <1> HIDE DEF s
  <1>8. script' = s /\ Len(parser.buffers) + 1 = Pieces
    BY <1>1, <1>2, <1>5 DEF s
  <1>9. QED BY <1>1, <1>3, <1>6, <1>7, <1>8, ParserAnswers

LEMMA StartStep ==
    ASSUME ChainInv, Start
    PROVE  ChainInv'
  <1>1. ProcessRequest(task')
    BY DEF Start
  <1>2. QED
    BY <1>1, NetworkReadHandler, NetworkWriteHandler, RefusingHandlers, ParserIncompleteHandler,
       ParserCompleteHandler, BuilderFirstHandler, BuilderAgainHandler, ReaderIdleHandler,
       ReaderEndHandler, ErrorEndHandler, ErrorDataHandler, PreOutputDataHandler, PreOutputEndHandler
    DEF ProcessRequest

-----------------------------------------------------------------------------
(* The specification. *)

LEMMA NoTasks ==
    ASSUME NEW r, r.tasks = <<>>, r.write_buffers = <<>>, r.call_later_task = NoTask, r.end_task = NoTask
    PROVE  /\ QueueInv(r) /\ Still(r)
           /\ Planned(r) = {} /\ Handed(r) = {} /\ ~Idles(r) /\ (Reads(r) <=> r.wait_read)
  <1>1. /\ \A S : <<>> \in Seq(S)
        /\ DOMAIN r.tasks = {} /\ DOMAIN r.write_buffers = {}
    <2>1. \A S : <<>> \in Seq(S) /\ Len(<<>>) = 0
      BY EmptySeq
    <2>2. QED BY <2>1
  <1>2. Elems(r.tasks) = {} /\ TaskBuffers(r) = {} /\ WriteBuffers(r) = {}
    BY <1>1 DEF Elems, TaskBuffers, WriteBuffers
  <1>3. Planned(r) = {} /\ Handed(r) = {} /\ ~Idles(r) /\ (Reads(r) <=> r.wait_read)
    BY <1>2 DEF Planned, Handed, Idles, Reads
  <1>4. QueueType(r)
    BY <1>1 DEF QueueType
  <1>5. Unshared(r) /\ OneRead(r) /\ OneIdle(r) /\ FrontsFirst(r.tasks)
    BY <1>1, <1>2 DEF Unshared, OneRead, OneIdle, FrontsFirst, Once
  <1>6. Still(r)
    BY <1>1, <1>2 DEF Still, FewFronts
  <1>7. QED BY <1>3, <1>4, <1>5, <1>6 DEF QueueInv

LEMMA InitChainInv == Init => ChainInv
  <1> SUFFICES ASSUME Init PROVE ChainInv
    OBVIOUS
  <1>1. TP!Consistent(rt)
    <2>1. TP!Init => TP!IndInv
      BY TaskHypotheses, TP!InitIndInv
    <2>2. TP!Init
      BY SameMethods DEF Init, TP!Init
    <2>3. QED BY <2>1, <2>2 DEF TP!IndInv
  <1>2. rt.tasks = <<>> /\ rt.write_buffers = <<>> /\ rt.call_later_task = NoTask /\ rt.end_task = NoTask
    BY DEF Init, T!needRead, T!NewTasks, T!Register
  <1>3. /\ QueueInv(rt) /\ Still(rt)
        /\ Planned(rt) = {} /\ Handed(rt) = {} /\ ~Idles(rt)
    BY <1>2, NoTasks
  <1>4. script = <<>> /\ Elems(script) = {} /\ Asked(script) = {}
    <2>1. script = <<>> /\ script \in Seq({}) /\ Len(script) = 0
      BY EmptySeq DEF Init
    <2>2. Elems(script) = {}
      BY <2>1, ElemsSeq
    <2>3. QED BY <2>1, <2>2 DEF Asked
  <1>5. parser.buffers = <<>> /\ Len(parser.buffers) = 0 /\ <<>> \in Seq(Buffers)
    BY EmptySeq DEF Init
  <1>6. TypeOK
    <2>1. rt \in T!State
      BY <1>1, ConsistentType
    <2>2. chain \in Seq(Modules)
      <3>1. "in" \in Modules /\ "parser" \in Modules /\ "builder" \in Modules /\ "pob" \in Modules /\ "out" \in Modules
        BY DEF Modules
      <3>2. QED BY <3>1 DEF Init
    <2>3. parser \in [buffers : Seq(Buffers), completed : BOOLEAN] /\ sent \in Seq(Buffers)
      BY <1>5 DEF Init
    <2>4. reader \in [open : BOOLEAN, left : 0..FileSize, failed : BOOLEAN, delayed : BOOLEAN]
      <3>1. FileSize \in 0..FileSize /\ Delays \subseteq BOOLEAN
        BY RequestChainAssumption
      <3>2. reader \in [open : {FALSE}, left : {FileSize}, failed : {FALSE}, delayed : Delays]
        BY DEF Init
      <3>3. QED BY <3>1, <3>2
    <2>5. pob \in [headers : BOOLEAN, chunked : BOOLEAN] /\ {builded, measured} \subseteq BOOLEAN
      BY DEF Init
    <2>6. arrived \in 0..Pieces
      BY RequestChainAssumption DEF Init
    <2>7. caller \in T!Callers /\ reported \in T!SocketEvents \cup {"NONE"}
      BY DEF Init, T!Callers
    <2>8. QED BY <2>1, <2>2, <2>3, <2>4, <2>5, <2>6, <2>7 DEF Init, TypeOK
  <1>7. Bookkeeping
    BY <1>1, <1>3 DEF Init, Bookkeeping
  <1>8. Shape
    BY <1>3 DEF Init, Shape, C0
  <1>9. Running
    BY <1>4 DEF Running
  <1>10. Parsing
    BY <1>3, <1>4, <1>5, RequestChainAssumption DEF Parsing, InUse
  <1>11. Answering
    <2>1. ~Idling /\ InUse = {}
      BY <1>3, <1>4 DEF Idling, InUse
    <2>2. \A b : ~Coming(b) /\ ~Given(b)
      BY <1>3, <1>4 DEF Coming, Given
    <2>3. ~reader.open /\ ~pob.chunked /\ chain # CP
      BY DEF Init, CP
    <2>4. QED BY <2>1, <2>2, <2>3 DEF Answering
  <1>12. QED BY <1>6, <1>7, <1>8, <1>9, <1>10, <1>11 DEF ChainInv

LEMMA StutterStep ==
    ASSUME ChainInv, UNCHANGED vars
    PROVE  ChainInv'
  <1>1. Bookkeeping' /\ Shape' /\ Running' /\ Parsing' /\ Answering'
    BY IdleStep DEF vars, Parts
  <1>2. TypeOK'
    BY DEF vars, ChainInv, TypeOK
  <1>3. QED BY <1>1, <1>2 DEF ChainInv

LEMMA NextChainInv == ChainInv /\ [Next]_vars => ChainInv'
  <1> SUFFICES ASSUME ChainInv, [Next]_vars PROVE ChainInv'
    OBVIOUS
  <1>1. CASE \E expired, due \in BOOLEAN : Poll(expired, due)
    BY <1>1, PollStep
  <1>2. CASE KeepWaiting \/ Destroy \/ ReleaseLate \/ ClientSends \/ Report
    BY <1>2, ManagerSteps
  <1>3. CASE Start
    BY <1>3, StartStep
  <1>4. CASE ApiCall
    BY <1>4, ApiCallStep
  <1>5. CASE Deliver
    BY <1>5, DeliverStep
  <1>6. CASE Ended \/ UNCHANGED vars
    BY <1>6, StutterStep DEF Ended
  <1>7. QED BY <1>1, <1>2, <1>3, <1>4, <1>5, <1>6 DEF Next

\* ChainInv is inductive: every handler of every module, every call it makes,
\* every poll and every event of the socket keeps it.
THEOREM ChainInductive == Spec => []ChainInv
  <1>1. QED BY InitChainInv, NextChainInv, PTL DEF Spec

\* The request, its chain, its modules and its buffers keep their types.
THEOREM ChainTypeCorrect == Spec => []TypeOK
  <1>1. ChainInv => TypeOK
    BY DEF ChainInv
  <1>2. QED BY <1>1, ChainInductive, PTL

\* Request.cpp:291-296 and ModuleList.cpp:94: a module starts only after the
\* previous one has returned, and whoever runs or is planned to is in the chain.
THEOREM ChainStaysWhole == Spec => []ChainIsWhole
  <1>1. ASSUME ChainInv PROVE ChainIsWhole
    <2>1. ChainNotBroken
      BY <1>1 DEF ChainInv, Bookkeeping, ChainNotBroken
    <2>2. \A i \in DOMAIN rt.tasks : InChain(rt.tasks[i].module)
      <3>1. ASSUME NEW i \in DOMAIN rt.tasks PROVE InChain(rt.tasks[i].module)
        <4>1. rt.tasks \in Seq(ChainTasks)
          BY <1>1 DEF ChainInv, Bookkeeping, QueueInv, QueueType
        <4>2. rt.tasks[i] \in Elems(rt.tasks)
          BY DEF Elems
        <4>3. rt.tasks[i] \in ChainTasks /\ rt.tasks[i] # NoTask
          BY <4>1, <4>2, ElemsSeq, TaskSets
        <4>4. rt.tasks[i] \in Planned(rt)
          BY <4>2, <4>3 DEF Planned
        <4>5. QED BY <1>1, <4>4 DEF ChainInv, Shape
      <3>2. QED BY <3>1
    <2>3. \A t \in {rt.end_task, rt.call_later_task} \ {NoTask} : InChain(t.module)
      BY <1>1 DEF ChainInv, Shape, Planned
    <2>4. ASSUME script # <<>>, Call \in {"giveData", "callLater", "raiseEnd", "insertAfter"}
          PROVE  InChain(current)
      <3>1. InChain(current) \/ script \in Seq(Named({"endError", "return"}))
        BY <1>1, <2>4 DEF ChainInv, Running
      <3>2. ASSUME script \in Seq(Named({"endError", "return"})) PROVE FALSE
        <4>1. Head(script) \in Named({"endError", "return"})
          BY <2>4, <3>2, TailElems
        <4>2. QED BY <2>4, <4>1 DEF Call, Named
      <3>3. QED BY <3>1, <3>2
    <2>5. QED BY <2>1, <2>2, <2>3, <2>4 DEF ChainIsWhole, OnlyModulesOfTheChain
  <1>2. QED BY <1>1, ChainInductive, PTL

\* RequestManager.hpp:113: when the task manager lets a request go and keeps its
\* connection, no event of the socket pool is on its way to it.
THEOREM KeepAliveStaysQuiet == Spec => []KeepAliveIsQuiet
  <1>1. ChainInv => KeepAliveIsQuiet
    BY DEF ChainInv, Bookkeeping, KeepAliveIsQuiet, T!hasPendingEvent
  <1>2. QED BY <1>1, ChainInductive, PTL

-----------------------------------------------------------------------------
(* The request uses its RequestTasks as RequestTasks was proved for.        *)

\* Behind the first n tasks only a read and a call of FileReader wait.
LEMMA FewTasks ==
    ASSUME NEW q \in Seq(ChainTasks), NEW n \in Nat, FewFronts(q, n), Elems(q) \cap EndTasks = {},
           Once(q, ReadTasks), Once(q, IdleTasks)
    PROVE  /\ Len(q) <= n + 2
           /\ Elems(q) \cap ReadTasks = {} \/ Elems(q) \cap IdleTasks = {} => Len(q) <= n + 1
  <1>1. DOMAIN q = 1..Len(q) /\ Len(q) \in Nat
    BY LenProperties
  <1>2. ASSUME NEW i \in 1..Len(q), i > n PROVE q[i] \in ReadTasks \/ q[i] \in IdleTasks
    <2>1. q[i] \in Elems(q)
      BY <1>1 DEF Elems
    <2>2. q[i] \in ChainTasks /\ q[i] \notin EndTasks
      BY <2>1, ElemsSeq
    <2>3. ~(i <= n)
      BY <1>1, <1>2
    <2>4. q[i] \notin FrontTasks
      BY <1>1, <2>3 DEF FewFronts
    <2>5. QED BY <2>2, <2>4 DEF ChainTasks, ReadTasks
  <1>3. ASSUME Len(q) > n + 2 PROVE FALSE
    <2>1. /\ n + 1 \in 1..Len(q) /\ n + 2 \in 1..Len(q) /\ n + 3 \in 1..Len(q)
          /\ n + 1 # n + 2 /\ n + 2 # n + 3 /\ n + 1 # n + 3
          /\ n + 1 > n /\ n + 2 > n /\ n + 3 > n
      BY <1>1, <1>3
    <2> DEFINE i == n + 1
               j == n + 2
               k == n + 3
    <2> HIDE DEF i, j, k
    <2>2. /\ i \in DOMAIN q /\ j \in DOMAIN q /\ k \in DOMAIN q /\ i # j /\ j # k /\ i # k
          /\ q[i] \in ReadTasks \/ q[i] \in IdleTasks
          /\ q[j] \in ReadTasks \/ q[j] \in IdleTasks
          /\ q[k] \in ReadTasks \/ q[k] \in IdleTasks
      BY <1>1, <1>2, <2>1 DEF i, j, k
    <2>3. QED BY <2>2 DEF Once
  <1>4. ASSUME Elems(q) \cap ReadTasks = {} \/ Elems(q) \cap IdleTasks = {}, Len(q) > n + 1 PROVE FALSE
    <2>1. /\ n + 1 \in 1..Len(q) /\ n + 2 \in 1..Len(q)
          /\ n + 1 # n + 2 /\ n + 1 > n /\ n + 2 > n
      BY <1>1, <1>4
    <2> DEFINE i == n + 1
               j == n + 2
    <2> HIDE DEF i, j
    <2>2. /\ i \in DOMAIN q /\ j \in DOMAIN q /\ i # j
          /\ q[i] \in ReadTasks \/ q[i] \in IdleTasks
          /\ q[j] \in ReadTasks \/ q[j] \in IdleTasks
      BY <1>1, <1>2, <2>1 DEF i, j
    <2>3. q[i] \in Elems(q) /\ q[j] \in Elems(q)
      BY <2>2 DEF Elems
    <2>4. QED BY <1>4, <2>2, <2>3 DEF Once
  <1>5. QED BY <1>1, <1>3, <1>4

\* A call that queues a task finds room for it.
LEMMA RoomForCall ==
    ASSUME ChainInv, script # <<>>,
           Elems(script) \cap (AddCalls(current, chain) \cup ReadCalls \cup IdleCalls) # {}
    PROVE  T!Room
  <1>1. /\ rt.tasks \in Seq(ChainTasks) /\ Once(rt.tasks, ReadTasks) /\ Once(rt.tasks, IdleTasks)
        /\ caller = "running" /\ Still(rt)
        /\ Fits(script, current, chain, rt)
    BY DEF ChainInv, Bookkeeping, QueueInv, QueueType, OneRead, OneIdle, Running
  <1>2. FewFronts(rt.tasks, 2) /\ Elems(rt.tasks) \cap EndTasks = {}
    BY <1>1 DEF Still
  <1>3. Len(rt.tasks) \in Nat
    BY <1>1, LenProperties
  <1>4. CASE Elems(script) \cap AddCalls(current, chain) # {}
    <2>1. FewFronts(rt.tasks, 1)
      BY <1>1, <1>4 DEF Fits, Elems
    <2>2. Len(rt.tasks) <= 1 + 2
      BY <1>1, <1>2, <2>1, FewTasks
    <2>3. QED BY <1>3, <2>2 DEF T!Room, TaskBound
  <1>5. CASE Elems(script) \cap (ReadCalls \cup IdleCalls) # {}
    <2>1. ~Reads(rt) \/ ~Idles(rt)
      BY <1>1, <1>5 DEF Fits
    <2>2. Elems(rt.tasks) \cap ReadTasks = {} \/ Elems(rt.tasks) \cap IdleTasks = {}
      BY <2>1 DEF Reads, Idles
    <2>3. Len(rt.tasks) <= 2 + 1
      BY <1>1, <1>2, <2>2, FewTasks
    <2>4. QED BY <1>3, <2>3 DEF T!Room, TaskBound
  <1>6. QED BY <1>4, <1>5

\* A buffer that is given away is not handed over already.
LEMMA FreeToGive ==
    ASSUME ChainInv, script # <<>>, Arg \in Buffers, Head(script) \in Handing(Arg)
    PROVE  Arg \in T!FreeBuffers
  <1>1. Fits(script, current, chain, rt) /\ script \in Seq(CallsOf(current))
    BY DEF ChainInv, Running, ScriptInv
  <1>2. Head(script) \in Elems(script)
    BY <1>1, TailElems DEF Elems
  <1>3. Arg \in Asked(script)
    BY <1>2 DEF Asked
  <1>4. Arg \notin Handed(rt)
    BY <1>1, <1>3 DEF Fits
  <1>5. Arg # NoBuffer
    BY NullAssumption
  <1>6. QED BY <1>4, <1>5 DEF Handed, TaskBuffers, WriteBuffers, T!FreeBuffers

\* Every call of a module is one that RequestTasks expects, or none of its own.
LEMMA ApiCallRefines ==
    ASSUME ChainInv, ApiCall
    PROVE  [T!Next]_T!vars
  <1> USE DEF T!Running
  <1>1. CASE giveData
    <2>1. script # <<>> /\ Call = "giveData" /\ caller = "running" /\ UNCHANGED <<caller, reported>>
      BY <1>1 DEF giveData, Calls, Unrelated
    <2>2. Head(script) = GiveData(Arg) /\ Head(script) \in Elems(script)
      BY <2>1, WhereGivenGoes, CallNamed
    <2>3. ASSUME Arg \in Buffers PROVE Arg \in T!FreeBuffers
      BY <2>1, <2>2, <2>3, FreeToGive DEF Handing
    <2>4. CASE Following(Following(current)) = NoModule
      <3>1. Arg \in Buffers
        BY <2>1, <2>4, WhereGivenGoes, BufferSets
      <3>2. rt' = T!needWrite(rt, Arg)
        BY <1>1, <2>4 DEF giveData
      <3>3. T!NeedWrite
        BY <2>1, <2>3, <3>1, <3>2 DEF T!NeedWrite
      <3>4. QED BY <3>3 DEF T!Next
    <2>5. CASE Following(Following(current)) # NoModule
      <3>1. /\ Gift \in DataTasks /\ Gift.buffer = Arg /\ InChain(Gift.module)
            /\ Head(script) \in AddCalls(current, chain)
        BY <2>1, <2>5, WhereGivenGoes
      <3>2. Arg \in Buffers
        BY <3>1, TaskSets
      <3>3. rt' = T!addTask(rt, Gift)
        BY <1>1, <2>5 DEF giveData, Gift
      <3>4. \E e \in T!DataEvents, m \in Modules : Gift = T!ModuleTask(e, m, Arg)
        <4>1. Gift.module \in Modules
          BY <3>1, <2>1, CallNamed, Members DEF Shapes
        <4>2. Gift.module = Following(current)
          BY DEF Gift, T!ModuleTask
        <4>3. QED BY <4>1, <4>2 DEF Gift, T!DataEvents
      <3>5. T!Room
        BY <2>1, <2>2, <3>1, RoomForCall
      <3>6. T!AddTask
        BY <2>1, <2>3, <3>2, <3>3, <3>4, <3>5 DEF T!AddTask
      <3>7. QED BY <3>6 DEF T!Next
    <2>6. QED BY <2>4, <2>5
  <1>2. CASE needWrite
    <2>1. /\ script # <<>> /\ Call = "needWrite" /\ caller = "running" /\ UNCHANGED <<caller, reported>>
          /\ rt' = T!needWrite(rt, Arg)
      BY <1>2 DEF needWrite, Calls, Unrelated
    <2>2. Head(script) \in Handing(Arg) /\ Arg \in Buffers
      BY <2>1, CallNamed, BufferSets DEF Handing, NeedWrite
    <2>3. T!NeedWrite
      BY <2>1, <2>2, FreeToGive DEF T!NeedWrite
    <2>4. QED BY <2>3 DEF T!Next
  <1>3. CASE needRead
    <2>1. /\ script # <<>> /\ Call = "needRead" /\ caller = "running" /\ UNCHANGED <<caller, reported>>
          /\ rt' = T!needRead(rt)
      BY <1>3 DEF needRead, Calls, Unrelated
    <2>2. Head(script) \in Elems(script) /\ Head(script) \in ReadCalls
      BY <2>1, CallNamed DEF ReadCalls
    <2>3. T!NeedRead
      BY <2>1, <2>2, RoomForCall DEF T!NeedRead
    <2>4. QED BY <2>3 DEF T!Next
  <1>4. CASE callLater
    <2>1. /\ script # <<>> /\ Call = "callLater" /\ caller = "running" /\ UNCHANGED <<caller, reported>>
          /\ rt' = T!addCallLaterTask(rt, current, reader.delayed)
      BY <1>4 DEF callLater, Calls, Unrelated
    <2>2. Head(script) \in Elems(script) /\ Head(script) \in IdleCalls /\ current \in Modules
      BY <2>1, CallNamed DEF IdleCalls
    <2>3. reader.delayed \in BOOLEAN
      BY DEF ChainInv, TypeOK
    <2>4. T!AddCallLaterTask
      BY <2>1, <2>2, <2>3, RoomForCall DEF T!AddCallLaterTask
    <2>5. QED BY <2>4 DEF T!Next
  <1>5. CASE raiseEnd
    <2>1. /\ script # <<>> /\ Call = "raiseEnd" /\ caller = "running" /\ UNCHANGED <<caller, reported>>
          /\ rt' = IF Following(current) = NoModule THEN rt ELSE T!addEndTask(rt, Following(current))
      BY <1>5 DEF raiseEnd, Calls, Unrelated
    <2>2. InChain(current) /\ current \in Modules /\ chain \in Shapes
      BY <2>1, CallNamed
    <2>3. CASE Following(current) = NoModule
      BY <2>1, <2>3 DEF T!vars
    <2>4. CASE Following(current) # NoModule
      <3>1. Following(current) \in Modules
        BY <2>2, <2>4, ChainNext, Members DEF Modules, Processing, Shapes
      <3>2. T!AddEndTask
        BY <2>1, <2>4, <3>1 DEF T!AddEndTask
      <3>3. QED BY <3>2 DEF T!Next
    <2>5. QED BY <2>3, <2>4
  <1>6. CASE raiseErrorReset
    <2>1. T!Reset
      BY <1>6 DEF raiseErrorReset, Calls, Unrelated, T!Reset
    <2>2. QED BY <2>1 DEF T!Next
  <1>7. CASE raiseErrorEnd \/ endInput
    <2>1. T!AddEndTask
      BY <1>7 DEF raiseErrorEnd, endInput, Calls, Unrelated, T!AddEndTask, Modules, Processing
    <2>2. QED BY <2>1 DEF T!Next
  <1>8. CASE release \/ insertAfter
    BY <1>8 DEF release, insertAfter, Unrelated, T!vars
  <1>9. CASE returns \/ notifyEndTask
    <2>1. T!Finish
      BY <1>9 DEF returns, notifyEndTask, Calls, T!Finish
    <2>2. QED BY <2>1 DEF T!Next
  <1>10. CASE throws
    <2>1. T!NotifyHasError
      BY <1>10 DEF throws, Calls, Unrelated, T!NotifyHasError
    <2>2. QED BY <2>1 DEF T!Next
  <1>11. QED
    BY <1>1, <1>2, <1>3, <1>4, <1>5, <1>6, <1>7, <1>8, <1>9, <1>10 DEF ApiCall

LEMMA NextRefines == ChainInv /\ [Next]_vars => [T!Next]_T!vars
  <1> SUFFICES ASSUME ChainInv, [Next]_vars PROVE [T!Next]_T!vars
    OBVIOUS
  <1>1. CASE \E expired, due \in BOOLEAN : Poll(expired, due)
    <2>1. T!Poll
      BY <1>1 DEF Poll, T!Poll
    <2>2. QED BY <2>1 DEF T!Next
  <1>2. CASE KeepWaiting \/ Destroy
    <2>1. T!CheckPending
      BY <1>2 DEF KeepWaiting, Destroy, T!CheckPending
    <2>2. QED BY <2>1 DEF T!Next
  <1>3. CASE Start
    <2>1. T!Take
      BY <1>3 DEF Start, T!Take
    <2>2. QED BY <2>1 DEF T!Next
  <1>4. CASE ApiCall
    BY <1>4, ApiCallRefines
  <1>5. CASE Report
    <2>1. T!Report
      BY <1>5 DEF Report, T!Report, T!SocketEvents
    <2>2. QED BY <2>1 DEF T!Next
  <1>6. CASE Deliver
    <2>1. T!Deliver
      BY <1>6 DEF Deliver, T!Deliver
    <2>2. QED BY <2>1 DEF T!Next
  <1>7. CASE ReleaseLate \/ ClientSends \/ Ended \/ UNCHANGED vars
    BY <1>7 DEF ReleaseLate, ClientSends, Ended, vars, T!vars
  <1>8. QED BY <1>1, <1>2, <1>3, <1>4, <1>5, <1>6, <1>7 DEF Next

\* The modules of a request call its RequestTasks only as RequestTasks expects:
\* one at a time, while they run, with buffers that are not handed over already
\* and with room in the queue.
THEOREM ChainUsesItsTasks == Spec => UsesRequestTasks
  <1>1. Init => T!Init
    BY DEF Init, T!Init
  <1>2. QED BY <1>1, NextRefines, ChainInductive, PTL DEF Spec, UsesRequestTasks, T!Spec

-----------------------------------------------------------------------------
(* What was proved of RequestTasks, of the request that uses it.             *)

LEMMA SameSpec == T!Spec => TP!Spec
  <1>1. T!Init => TP!Init
    BY SameMethods DEF T!Init, TP!Init
  <1>2. ASSUME [T!Next]_T!vars PROVE [TP!Next]_TP!vars
    <2> USE SameMethods DEF T!Running, TP!Running, T!Room, TP!Room
    <2>0. /\ T!FreeBuffers = TP!FreeBuffers /\ T!DataEvents = TP!DataEvents
          /\ T!SocketEvents = TP!SocketEvents
          /\ \A e, m, b : T!ModuleTask(e, m, b) = TP!ModuleTask(e, m, b)
      BY DEF T!FreeBuffers, TP!FreeBuffers, T!DataEvents, TP!DataEvents, T!SocketEvents,
             TP!SocketEvents, T!ModuleTask, TP!ModuleTask
    <2>1. T!Poll => TP!Poll
      BY SameHasWork DEF T!Poll, TP!Poll, T!HasWorkResult, TP!HasWorkResult
    <2>2. T!CheckPending => TP!CheckPending
      BY DEF T!CheckPending, TP!CheckPending, T!hasPendingEvent, TP!hasPendingEvent
    <2>3. (T!Take => TP!Take) /\ (T!Finish => TP!Finish)
      BY DEF T!Take, TP!Take, T!Finish, TP!Finish
    <2>4. (T!Report => TP!Report) /\ (T!Deliver => TP!Deliver)
      BY <2>0 DEF T!Report, TP!Report, T!Deliver, TP!Deliver
    <2>5. T!Ended => TP!Ended
      BY DEF T!Ended, TP!Ended, T!vars, TP!vars
    <2>6. T!AddTask => TP!AddTask
      BY <2>0 DEF T!AddTask, TP!AddTask
    <2>7. T!AddEndTask => TP!AddEndTask
      BY DEF T!AddEndTask, TP!AddEndTask
    <2>8. T!AddCallLaterTask => TP!AddCallLaterTask
      BY DEF T!AddCallLaterTask, TP!AddCallLaterTask
    <2>9. (T!NeedRead => TP!NeedRead) /\ (T!NeedWrite => TP!NeedWrite)
      BY <2>0 DEF T!NeedRead, TP!NeedRead, T!NeedWrite, TP!NeedWrite
    <2>10. (T!Reset => TP!Reset) /\ (T!NotifyHasError => TP!NotifyHasError)
      BY DEF T!Reset, TP!Reset, T!NotifyHasError, TP!NotifyHasError
    <2>11. (UNCHANGED T!vars) => UNCHANGED TP!vars
      BY DEF T!vars, TP!vars
    <2>12. QED
      BY <1>2, <2>1, <2>2, <2>3, <2>4, <2>5, <2>6, <2>7, <2>8, <2>9, <2>10, <2>11 DEF T!Next, TP!Next
  <1>3. QED BY <1>1, <1>2, PTL DEF T!Spec, TP!Spec

\* In the request as in any use of its RequestTasks the socket is in the pool
\* exactly while it is needed, and a request that waits to write has a buffer.
THEOREM RequestKeepsItsWaits == Spec => []T!WaitsAreKept
  <1>1. ChainInv => T!WaitsAreKept
    BY ConsistentType DEF ChainInv, Bookkeeping, T!WaitsAreKept, T!RegisteredIffWanted,
       T!AwaitedWriteHasBuffer
  <1>2. QED BY <1>1, ChainInductive, PTL

\* And the end of the request is handed out when nothing else is left, with no
\* buffer of the response still to be written.
THEOREM RequestEndsLast == Spec => T!EndComesLast
  <1>1. TP!Spec => TP!EndComesLast
    BY TaskHypotheses, TP!EndLast
  <1>2. ASSUME [TP!Take /\ Head(rt.tasks).event = "ON_END" => rt'.tasks = <<>> /\ rt'.write_buffers = <<>>]_TP!vars
        PROVE  [T!Take /\ Head(rt.tasks).event = "ON_END" => rt'.tasks = <<>> /\ rt'.write_buffers = <<>>]_T!vars
    BY <1>2, SameMethods DEF T!Take, TP!Take, T!vars, TP!vars
  <1>3. QED
    BY <1>1, <1>2, SameSpec, ChainUsesItsTasks, PTL
    DEF UsesRequestTasks, TP!EndComesLast, T!EndComesLast

\* The header of the request fits: a longer one is refused by Parser before it
\* is complete.
HeaderFits == Pieces <= HeaderLimit + 1

-----------------------------------------------------------------------------
(* The end.                                                                  *)

\* The modules that come behind n, now or after an error.
Below(n) ==
    CASE n = "in" -> Modules \ {"in"}
      [] n = "parser" -> Modules \ {"in", "parser"}
      [] n = "builder" -> Modules \ {"in", "parser", "builder"}
      [] n = "reader" -> {"error", "pob", "out"}
      [] n = "pob" -> IF chain = CP THEN {"error", "out"} ELSE {"out"}
      [] n = "error" -> IF chain = CP THEN {"out"} ELSE {"pob", "out"}
      [] n = "out" -> {}

\* The end has not come as far as m.
Untold(m) == \A n \in told : m \in Below(n)

UpToReader == {"in", "parser", "builder", "reader"}
EndCalls == Named({"raiseEnd", "endInput", "endError"})
Ending == Planned(rt) \cap EndTasks # {} \/ Elems(script) \cap EndCalls # {}
Writing == rt.write_buffers # <<>> \/ Elems(script) \cap Named({"needWrite"}) # {}

\* Only modules behind the end are going to be called, except FileReader, and
\* then no end is planned; the running module may be the one that was told.
EndPasses ==
    /\ \A t \in Planned(rt) \ IdleTasks : Untold(t.module)
    /\ Idling => told \subseteq UpToReader /\ ~Ending
    /\ reader.open => "reader" \in told
    /\ script # <<>> => \A n \in told : n = current \/ current \in Below(n)
    /\ Writing => Untold("out")
    /\ Len(parser.buffers) < Pieces => told = {} /\ ~Ending
    /\ RequestBody \in InUse \/ Elems(script) \cap Named({"endInput"}) # {} => told = {}
    /\ Elems(rt.tasks) \cap EndTasks # {} => rt.end_task = NoTask

-----------------------------------------------------------------------------
(* What a step does.                                                         *)

\* A call is taken off the script; which modules there are does not change.
LEMMA CallFrameFacts ==
    ASSUME ChainInv, ApiCall
    PROVE  /\ caller = "running" /\ script # <<>> /\ script' = Tail(script)
           /\ Elems(script) = Elems(script') \cup {Head(script)} /\ Elems(script') \subseteq Elems(script)
           /\ Head(script) = <<Call, Arg>> /\ Head(script) \in CallsOf(current) /\ Head(script) = script[1]
           /\ current \in Modules /\ chain \in Shapes
           /\ UNCHANGED <<parser, builded, reader, pob, measured, arrived, sent, told>>
           /\ TP!Consistent(rt) /\ rt \in T!State /\ QueueInv(rt) /\ Still(rt)
           /\ script \in Seq(CallsOf(current))
  <1>1. /\ caller = "running" /\ script # <<>> /\ script' = Tail(script)
        /\ UNCHANGED <<parser, builded, reader, pob, measured, arrived, sent, told>>
    BY DEF ApiCall, giveData, needWrite, needRead, callLater, raiseEnd, raiseErrorReset, raiseErrorEnd,
           release, insertAfter, endInput, returns, throws, notifyEndTask, Calls, Unrelated
  <1>2. /\ Head(script) \in Elems(script) /\ Head(script) \in CallsOf(current) /\ Head(script) = script[1]
        /\ rt \in T!State /\ TP!Consistent(rt) /\ QueueInv(rt) /\ Still(rt)
        /\ current \in Modules /\ chain \in Shapes
        /\ ScriptInv(script, current)
    BY <1>1, FirstCall
  <1>3. Head(script) = <<Call, Arg>>
    BY <1>1, CallNamed
  <1>4. script \in Seq(CallsOf(current))
    BY <1>2 DEF ScriptInv
  <1>5. Elems(script) = Elems(Tail(script)) \cup {Head(script)} /\ Elems(Tail(script)) \subseteq Elems(script)
    BY <1>1, <1>4, TailElems
  <1>6. QED BY <1>1, <1>2, <1>3, <1>4, <1>5

\* A buffer given away becomes a task of the next module or waits for the socket.
LEMMA GiftGoes ==
    ASSUME ChainInv, giveData
    PROVE  /\ Head(script) = GiveData(Arg) /\ Arg \in Buffers /\ chain' = chain /\ current' = current
           /\ \/ /\ Following(current) = "out" /\ Arg \in Written
                 /\ rt'.tasks = rt.tasks /\ rt'.write_buffers = Append(rt.write_buffers, Arg)
                 /\ rt'.call_later_task = rt.call_later_task /\ rt'.end_task = rt.end_task
                 /\ Head(script) \notin AddCalls(current, chain)
              \/ /\ Gift \in DataTasks /\ Gift.buffer = Arg /\ Gift.module = Following(current)
                 /\ Gift.module \in Modules
                 /\ rt'.tasks = <<Gift>> \o rt.tasks /\ SamePlans(rt, rt')
                 /\ Head(script) \in AddCalls(current, chain)
           /\ SameWaits(rt, rt')
  <1>1. /\ script # <<>> /\ Call = "giveData"
        /\ UNCHANGED <<caller, chain, current, live, freed>>
        /\ rt' = IF Following(Following(current)) = NoModule THEN T!needWrite(rt, Arg) ELSE T!addTask(rt, Gift)
    BY DEF giveData, Calls, Gift
  <1>2. /\ Head(script) = GiveData(Arg)
        /\ \/ /\ Following(Following(current)) = NoModule
              /\ Arg \in Written /\ Head(script) \notin AddCalls(current, chain)
           \/ /\ Following(Following(current)) # NoModule
              /\ Gift \in DataTasks /\ Gift.buffer = Arg /\ InChain(Gift.module)
              /\ Head(script) \in AddCalls(current, chain)
    BY <1>1, WhereGivenGoes
  <1>3. /\ current \in Modules /\ chain \in Shapes /\ rt \in T!State /\ InChain(current)
    <2>1. Head(script) \notin Named({"endError", "return"})
      BY <1>2 DEF Named, GiveData
    <2>2. QED BY <1>1, <2>1, FirstCall
  <1>4. CASE Following(Following(current)) = NoModule
    <2>1. Arg \in Written /\ Arg \in Buffers /\ rt' = T!needWrite(rt, Arg) /\ Head(script) \notin AddCalls(current, chain)
      BY <1>1, <1>2, <1>4, BufferSets
    <2>2. /\ rt'.write_buffers = Append(rt.write_buffers, Arg) /\ rt'.tasks = rt.tasks
          /\ rt'.call_later_task = rt.call_later_task /\ rt'.end_task = rt.end_task
          /\ SameWaits(rt, rt')
      BY <1>3, <2>1, NeedWriteEffect
    <2>3. current \in {"pob", "error"} /\ (current = "pob" => chain # CP) /\ (current = "error" => chain = CP)
      <3>1. Head(script) \in Gives(Buffers)
        BY <1>2, <2>1 DEF Gives, GiveData
      <3>2. QED BY <2>1, <3>1 DEF AddCalls
    <2>4. Following(current) = "out"
      BY <1>3, <2>3, ChainNext
    <2>5. QED BY <1>1, <1>2, <2>1, <2>2, <2>4
  <1>5. CASE Following(Following(current)) # NoModule
    <2>1. /\ Gift \in DataTasks /\ Gift.buffer = Arg /\ InChain(Gift.module) /\ rt' = T!addTask(rt, Gift)
          /\ Gift.module = Following(current) /\ Head(script) \in AddCalls(current, chain)
      BY <1>1, <1>2, <1>5 DEF Gift, T!ModuleTask
    <2>2. Gift \in FrontTasks /\ Gift.buffer \in Buffers /\ Gift.module \in Modules
      BY <1>3, <2>1, TaskSets, Members
    <2>3. rt'.tasks = <<Gift>> \o rt.tasks /\ SameWaits(rt, rt') /\ SamePlans(rt, rt')
      BY <1>3, <2>1, <2>2, PushEffect
    <2>4. QED BY <1>1, <1>2, <2>1, <2>2, <2>3
  <1>6. QED BY <1>4, <1>5

\* What a call can plan.
EndFor(m) == T!ModuleTask("ON_END", m, NoBuffer)
PlansEnd(t) ==
    \/ Head(script) \in Named({"raiseEnd"}) /\ Following(current) # NoModule /\ t = EndFor(Following(current))
    \/ Head(script) \in Named({"endInput"}) /\ t = EndFor("in")
    \/ Head(script) \in Named({"endError"}) /\ current \in {"builder", "reader"} /\ t = EndFor("error")
GivesTask(t) ==
    /\ giveData /\ t = Gift /\ t \in DataTasks /\ t.buffer = Arg /\ t.module = Following(current)
    /\ Head(script) = GiveData(Arg) /\ Head(script) \in AddCalls(current, chain)
WritesMore ==
    \/ Following(current) = "out" /\ giveData
    \/ Head(script) \in Named({"needWrite"})

LEMMA GiveDataPlans ==
    ASSUME ChainInv, giveData
    PROVE  /\ CallMade
           /\ \A t \in Planned(rt') \ Planned(rt) : GivesTask(t)
           /\ rt'.write_buffers = rt.write_buffers \/ WritesMore
  <1>0. ApiCall
    BY DEF ApiCall
  <1>1. /\ script # <<>> /\ Call = "giveData" /\ script' = Tail(script) /\ caller = "running"
        /\ Unrelated /\ UNCHANGED <<caller, chain, current, live, freed>>
    BY DEF giveData, Calls
  <1>2. Frame /\ \A m : InChain(m)' <=> InChain(m)
    BY <1>1 DEF Frame, Unrelated, InChain
  <1>3. Head(script) = GiveData(Arg)
    BY GiftGoes
  <1>4. CASE Following(Following(current)) = NoModule
    <2>1. Arg \in Written /\ Head(script) \notin AddCalls(current, chain)
      BY <1>1, <1>4, WhereGivenGoes
    <2>2. rt' = T!needWrite(rt, Arg) /\ Head(script) \in Handing(Arg)
      BY <1>3, <1>4 DEF giveData, Handing
    <2>3. /\ TP!Consistent(rt') /\ QueueInv(rt') /\ Still(rt')
          /\ Advances(script, current, chain, rt, rt')
          /\ Planned(rt') = Planned(rt)
          /\ rt.registered => rt'.registered
      BY <1>1, <2>1, <2>2, WriteCall
    <2>4. Following(current) = "out"
      BY <2>1, GiftGoes
    <2>5. QED BY <1>1, <1>2, <2>3, <2>4 DEF CallMade, WritesMore
  <1>5. CASE Following(Following(current)) # NoModule
    <2>1. /\ Gift \in DataTasks /\ Gift.buffer = Arg
          /\ Head(script) \in AddCalls(current, chain)
          /\ Gift \in ReadTasks => Head(script) \in ReadCalls
      BY <1>1, <1>5, WhereGivenGoes
    <2>2. rt' = T!addTask(rt, Gift) /\ Gift.module = Following(current)
      BY <1>5 DEF giveData, Gift, T!ModuleTask
    <2>3. /\ TP!Consistent(rt') /\ QueueInv(rt') /\ Still(rt')
          /\ Advances(script, current, chain, rt, rt')
          /\ Planned(rt') = Planned(rt) \cup {Gift}
          /\ rt.registered => rt'.registered
      BY <1>1, <1>3, <2>1, <2>2, PushCall
    <2>4. \A t \in Planned(rt') \ Planned(rt) : GivesTask(t)
      BY <1>3, <2>1, <2>2, <2>3 DEF GivesTask
    <2>5. rt'.write_buffers = rt.write_buffers
      <3>1. rt \in T!State /\ Gift \in FrontTasks
        BY <1>0, <2>1, CallFrameFacts, TaskSets
      <3>2. QED BY <2>2, <3>1, PushEffect DEF SamePlans
    <2>6. QED BY <1>1, <1>2, <2>3, <2>4, <2>5 DEF CallMade
  <1>6. QED BY <1>4, <1>5

LEMMA EndPlans ==
    ASSUME ChainInv, raiseEnd \/ endInput \/ raiseErrorEnd
    PROVE  /\ CallMade
           /\ \A t \in Planned(rt') \ Planned(rt) : PlansEnd(t)
           /\ rt'.write_buffers = rt.write_buffers /\ rt'.tasks = rt.tasks
           /\ Head(script) \in EndCalls
  <1>1. /\ script # <<>> /\ Call \in {"raiseEnd", "endInput", "endError"} /\ script' = Tail(script)
        /\ Unrelated /\ UNCHANGED <<caller, chain, current, live, freed>>
    BY DEF raiseEnd, endInput, raiseErrorEnd, Calls
  <1>2. Frame /\ \A m : InChain(m)' <=> InChain(m)
    BY <1>1 DEF Frame, Unrelated, InChain
  <1>3. /\ Call = "raiseEnd" => Head(script) \in Named({"raiseEnd"})
        /\ Call = "endInput" => Head(script) \in Named({"endInput"})
        /\ Call = "endError" => Head(script) \in Named({"endError"}) /\ current \in {"builder", "reader"}
        /\ current \in Modules /\ chain \in Shapes
    BY <1>1, CallNamed
  <1>4. Head(script) \in EndCalls /\ Head(script) \in Named({"raiseEnd", "endInput", "endError"})
    BY <1>1, <1>3 DEF EndCalls, Named
  <1>5. rt \in T!State
    BY <1>1, FirstCall
  <1>6. ASSUME NEW m \in Modules, rt' = T!addEndTask(rt, m),
               PlansEnd(EndFor(m))
        PROVE  /\ CallMade /\ \A t \in Planned(rt') \ Planned(rt) : PlansEnd(t)
               /\ rt'.write_buffers = rt.write_buffers /\ rt'.tasks = rt.tasks
    <2>1. /\ TP!Consistent(rt') /\ QueueInv(rt') /\ Still(rt')
          /\ Advances(script, current, chain, rt, rt')
          /\ Planned(rt') \subseteq Planned(rt) \cup {EndFor(m)}
          /\ rt.registered => rt'.registered
      BY <1>1, <1>4, <1>6, EndCall DEF EndFor
    <2>2. rt'.write_buffers = rt.write_buffers /\ rt'.tasks = rt.tasks
      BY <1>5, <1>6, EndTaskEffect
    <2>3. QED BY <1>1, <1>2, <1>6, <2>1, <2>2 DEF CallMade
  <1>7. CASE raiseEnd
    <2>1. Call = "raiseEnd"
      BY <1>7 DEF raiseEnd, Calls
    <2>2. CASE Following(current) = NoModule
      <3>1. rt' = rt
        BY <1>7, <2>2 DEF raiseEnd
      <3>2. /\ TP!Consistent(rt') /\ QueueInv(rt') /\ Still(rt')
            /\ Advances(script, current, chain, rt, rt')
            /\ Planned(rt') = Planned(rt)
            /\ rt.registered => rt'.registered
        BY <1>1, <1>3, <2>1, <3>1, NamedMore, OtherCall DEF Named
      <3>3. QED BY <1>1, <1>2, <1>4, <3>1, <3>2 DEF CallMade
    <2>3. CASE Following(current) # NoModule
      <3>1. rt' = T!addEndTask(rt, Following(current))
        BY <1>7, <2>3 DEF raiseEnd
      <3>2. Following(current) \in Modules
        <4>1. InChain(current)
          BY <1>1, <2>1, CallNamed
        <4>2. QED BY <1>3, <2>3, <4>1, ChainNext, Members DEF Modules, Processing
      <3>3. PlansEnd(EndFor(Following(current)))
        BY <1>3, <2>1, <2>3 DEF PlansEnd
      <3>4. QED BY <1>4, <1>6, <3>1, <3>2, <3>3
    <2>4. QED BY <2>2, <2>3
  <1>8. CASE endInput
    <2>1. Call = "endInput" /\ rt' = T!addEndTask(rt, "in") /\ "in" \in Modules
      BY <1>8 DEF endInput, Calls, Modules
    <2>2. PlansEnd(EndFor("in"))
      BY <1>3, <2>1 DEF PlansEnd
    <2>3. QED BY <1>4, <1>6, <2>1, <2>2
  <1>9. CASE raiseErrorEnd
    <2>1. Call = "endError" /\ rt' = T!addEndTask(rt, "error") /\ "error" \in Modules
      BY <1>9 DEF raiseErrorEnd, Calls, Modules, Processing
    <2>2. PlansEnd(EndFor("error"))
      BY <1>3, <2>1 DEF PlansEnd
    <2>3. QED BY <1>4, <1>6, <2>1, <2>2
  <1>10. QED BY <1>7, <1>8, <1>9

LEMMA QuietPlans ==
    ASSUME ChainInv, needWrite \/ needRead \/ callLater \/ release \/ insertAfter \/ throws
    PROVE  /\ CallMade
           /\ Planned(rt') \subseteq Planned(rt) \cup IdleTasks
           /\ rt'.write_buffers = rt.write_buffers \/ WritesMore
           /\ callLater \/ rt'.tasks = rt.tasks
  <1>1. /\ script # <<>> /\ Call \in {"needWrite", "needRead", "callLater", "release", "insertAfter", "throw"}
        /\ script' = Tail(script) /\ Unrelated /\ UNCHANGED <<caller, current>>
        /\ insertAfter \/ chain' = chain
    BY DEF needWrite, needRead, callLater, release, insertAfter, throws, Calls
  <1>2. Frame
    BY <1>1 DEF Frame, Unrelated
  <1>3. rt \in T!State /\ TP!Consistent(rt) /\ chain \in Shapes /\ Head(script) = <<Call, Arg>>
    BY <1>1, FirstCall, CallNamed
  <1>4. InChain("error") => InChain("error")'
    <2>1. CASE chain' = chain
      BY <2>1 DEF InChain
    <2>2. CASE insertAfter
      <3>1. Call = "insertAfter"
        BY <2>2 DEF insertAfter, Calls
      <3>2. Head(script) \in Named({"insertAfter"}) /\ Head(script) \in Elems(script)
        BY <1>1, <3>1, CallNamed
      <3>3. chain = C0
        BY <1>1, <3>2 DEF ChainInv, Running
      <3>4. QED BY <1>3, <3>3, Members, ShapesAre
    <2>3. QED BY <1>1, <2>1, <2>2
  <1>5. CASE needWrite
    <2>1. Call = "needWrite" /\ rt' = T!needWrite(rt, Arg) /\ Head(script) \notin Gives(Buffers)
      BY <1>3, <1>5 DEF needWrite, Calls, Gives
    <2>2. Arg \in Written /\ Arg \in Buffers /\ Head(script) = NeedWrite(Arg)
      BY <1>1, <1>3, <2>1, CallNamed, BufferSets DEF NeedWrite
    <2>3. Head(script) \in Handing(Arg) /\ Head(script) \notin AddCalls(current, chain) /\ Head(script) \in Named({"needWrite"})
      BY <2>1, <2>2 DEF Handing, AddCalls, Named, NeedWrite
    <2>4. /\ TP!Consistent(rt') /\ QueueInv(rt') /\ Still(rt')
          /\ Advances(script, current, chain, rt, rt')
          /\ Planned(rt') = Planned(rt)
          /\ rt.registered => rt'.registered
      BY <1>1, <2>1, <2>2, <2>3, WriteCall
    <2>5. rt'.tasks = rt.tasks
      BY <1>3, <2>1, <2>2, NeedWriteEffect
    <2>6. QED BY <1>1, <1>2, <1>4, <2>3, <2>4, <2>5 DEF CallMade, WritesMore
  <1>6. CASE needRead
    <2>1. Call = "needRead" /\ rt' = T!needRead(rt)
      BY <1>6 DEF needRead, Calls
    <2>2. Head(script) \in Named({"needRead"})
      BY <1>1, <2>1, CallNamed
    <2>3. /\ TP!Consistent(rt') /\ QueueInv(rt') /\ Still(rt')
          /\ Advances(script, current, chain, rt, rt')
          /\ Planned(rt') = Planned(rt)
          /\ rt.registered => rt'.registered
      BY <1>1, <2>1, <2>2, NeedReadCall
    <2>4. rt'.tasks = rt.tasks /\ rt'.write_buffers = rt.write_buffers
      BY <1>3, <2>1, NeedReadEffect DEF SameQueue
    <2>5. QED BY <1>1, <1>2, <1>4, <2>3, <2>4 DEF CallMade
  <1>7. CASE callLater
    <2>1. Call = "callLater" /\ rt' = T!addCallLaterTask(rt, current, reader.delayed) /\ reader.delayed \in BOOLEAN
      BY <1>7 DEF callLater, Calls, ChainInv, TypeOK
    <2>2. Head(script) \in Named({"callLater"}) /\ current = "reader"
      BY <1>1, <2>1, CallNamed
    <2>3. /\ TP!Consistent(rt') /\ QueueInv(rt') /\ Still(rt')
          /\ Advances(script, current, chain, rt, rt')
          /\ Planned(rt') \subseteq Planned(rt) \cup IdleTasks
          /\ rt.registered => rt'.registered
      BY <1>1, <2>1, <2>2, CallLaterCall
    <2>4. rt'.write_buffers = rt.write_buffers
      BY <2>1, <1>3 DEF T!addCallLaterTask, T!State
    <2>5. QED BY <1>1, <1>2, <1>4, <1>7, <2>3, <2>4 DEF CallMade
  <1>8. CASE release \/ insertAfter
    <2>1. rt' = rt /\ Call \in {"release", "insertAfter"}
      BY <1>8 DEF release, insertAfter, Calls
    <2>2. Head(script) \in Releasing \cup Named({"insertAfter", "raiseEnd"})
      <3>1. Named({"insertAfter"}) \subseteq Named({"insertAfter", "raiseEnd"})
        BY DEF Named
      <3>2. QED BY <1>1, <2>1, <3>1, CallNamed
    <2>3. /\ TP!Consistent(rt') /\ QueueInv(rt') /\ Still(rt')
          /\ Advances(script, current, chain, rt, rt')
          /\ Planned(rt') = Planned(rt)
          /\ rt.registered => rt'.registered
      BY <1>1, <2>1, <2>2, OtherCall
    <2>4. QED BY <1>1, <1>2, <1>4, <2>1, <2>3 DEF CallMade
  <1>9. CASE throws
    <2>1. Call = "throw" /\ rt' = T!notifyHasError(rt)
      BY <1>9 DEF throws, Calls
    <2>2. Head(script) \in Named({"throw"})
      BY <1>1, <2>1, CallNamed
    <2>3. /\ TP!Consistent(rt') /\ QueueInv(rt') /\ Still(rt')
          /\ Advances(script, current, chain, rt, rt')
          /\ Planned(rt') = Planned(rt)
          /\ rt.registered => rt'.has_error
      BY <1>1, <2>1, <2>2, ThrowCall
    <2>4. rt'.tasks = rt.tasks /\ rt'.write_buffers = rt.write_buffers
      BY <1>3, <2>1, ErrorEffect DEF SameQueue
    <2>5. QED BY <1>1, <1>2, <1>4, <2>3, <2>4 DEF CallMade
  <1>10. QED BY <1>5, <1>6, <1>7, <1>8, <1>9

LEMMA ResetPlans ==
    ASSUME ChainInv, raiseErrorReset
    PROVE  /\ CallMade /\ Planned(rt') = {}
           /\ rt'.tasks = <<>> /\ rt'.end_task = NoTask /\ rt'.call_later_task = NoTask
           /\ rt'.write_buffers = rt.write_buffers /\ rt'.wait_read = FALSE /\ rt'.wait_write = FALSE
           /\ rt'.has_error = rt.has_error
           /\ current' = current /\ current \in {"builder", "reader"}
           /\ \/ current = "builder" /\ chain = C0 /\ chain' = CP
              \/ current = "reader" /\ chain = CR /\ chain' = CE
           /\ Head(script) \in Named({"reset"})
           /\ freed' = freed \cup Handed(rt) /\ live' = live \ Handed(rt)
  <1>1. /\ script # <<>> /\ Call = "reset" /\ script' = Tail(script)
        /\ Unrelated /\ UNCHANGED <<caller, current>>
        /\ chain' = setProcessingModule /\ rt' = T!reset(rt)
        /\ freed' = freed \cup Handed(rt) /\ live' = live \ Handed(rt)
    BY DEF raiseErrorReset, Calls, Releases, Handed
  <1>2. Frame
    BY <1>1 DEF Frame, Unrelated
  <1>3. Head(script) \in Named({"reset"}) /\ Head(script) \in Elems(script) /\ rt \in T!State /\ chain \in Shapes
        /\ current \in {"builder", "reader"}
    BY <1>1, CallNamed, FirstCall
  <1>4. (current = "builder" /\ chain = C0) \/ (current = "reader" /\ chain = CR)
    BY <1>1, <1>3 DEF ChainInv, Running
  <1>5. \/ current = "builder" /\ chain = C0 /\ chain' = CP
        \/ current = "reader" /\ chain = CR /\ chain' = CE
    BY <1>1, <1>4, ChainChanges
  <1>6. /\ TP!Consistent(rt') /\ QueueInv(rt') /\ Still(rt')
        /\ Advances(script, current, chain, rt, rt')
        /\ Planned(rt') = {}
    BY <1>1, <1>3, ResetCall
  <1>7. InChain("error")'
    BY <1>5, MembersNext DEF Shapes
  <1>8. /\ rt'.tasks = <<>> /\ rt'.call_later_task = NoTask /\ rt'.end_task = NoTask
        /\ rt'.write_buffers = rt.write_buffers /\ rt'.wait_read = FALSE
        /\ rt'.has_error = rt.has_error /\ rt'.wait_write = FALSE
    <2>1. rt'.wait_write = FALSE
      BY <1>1, <1>3 DEF T!reset, T!Unregister, T!State
    <2>2. QED BY <1>1, <1>3, <2>1, ResetEffect
  <1>9. CallMade
    BY <1>1, <1>2, <1>6, <1>7 DEF CallMade
  <1>10. QED BY <1>1, <1>3, <1>5, <1>6, <1>8, <1>9

-----------------------------------------------------------------------------
(* The end goes down the chain.                                              *)

LEMMA FollowingIsBelow ==
    ASSUME chain \in Shapes, NEW n \in Modules, NEW m \in Modules, n = m \/ m \in Below(n),
           InChain(m), Following(m) # NoModule
    PROVE  Following(m) \in Below(n)
  <1>1. /\ Following("in") = "parser" /\ Following("parser") = "builder"
        /\ Following("builder") = IF chain = CR THEN "reader" ELSE IF chain = CE THEN "error" ELSE "pob"
        /\ chain = CR => Following("reader") = "pob"
        /\ Following("pob") = IF chain = CP THEN "error" ELSE "out"
        /\ chain = CE => Following("error") = "pob"
        /\ chain = CP => Following("error") = "out"
        /\ Following("out") = NoModule
    BY ChainNext
  <1>2. (InChain("reader") <=> chain = CR) /\ (InChain("error") <=> chain \in {CE, CP})
        /\ CR # CE /\ CR # CP /\ CE # CP
    BY Members, ShapesAre
  <1>3. m \in {"in", "parser", "builder", "pob", "reader", "error"}
    BY <1>1 DEF Modules, Processing
  <1>4. CASE m \in {"in", "parser", "builder"}
    BY <1>1, <1>4 DEF Below, Modules, Processing
  <1>5. CASE m = "reader"
    BY <1>1, <1>2, <1>5 DEF Below, Modules, Processing
  <1>6. CASE m = "pob"
    BY <1>1, <1>2, <1>6 DEF Below, Modules, Processing
  <1>7. CASE m = "error"
    BY <1>1, <1>2, <1>7 DEF Below, Modules, Processing
  <1>8. QED BY <1>3, <1>4, <1>5, <1>6, <1>7

\* Whoever may be running, the module behind it has not been told.
LEMMA NextIsUntold ==
    ASSUME ChainInv, EndPasses, script # <<>>, InChain(current), Following(current) # NoModule
    PROVE  Untold(Following(current))
  <1>1. \A n \in told : n \in Modules /\ (n = current \/ current \in Below(n))
    BY DEF EndPasses, ChainInv, TypeOK
  <1>2. chain \in Shapes /\ current \in Modules
    BY RunningNow
  <1>3. QED BY <1>1, <1>2, FollowingIsBelow DEF Untold

\* What a step must not disturb.
LEMMA EndCarries ==
    ASSUME ChainInv, EndPasses, told' = told, \A n \in told : Below(n)' = Below(n),
           UNCHANGED <<parser, reader>>,
           current' = current \/ script' = <<>>, Elems(script') \subseteq Elems(script),
           script' # <<>> => script # <<>>,
           \A t \in Planned(rt') \ (Planned(rt) \cup IdleTasks) : Untold(t.module),
           Idling' => Idling, Ending' => Ending, Writing' => Writing \/ Untold("out"),
           RequestBody \in InUse' => RequestBody \in InUse,
           Elems(rt'.tasks) \cap EndTasks # {} => rt'.end_task = NoTask
    PROVE  EndPasses'
  <1>1. ASSUME NEW m, Untold(m) PROVE Untold(m)'
    BY <1>1 DEF Untold
  <1>2. \A t \in Planned(rt') \ IdleTasks : Untold(t.module)'
    BY <1>1 DEF EndPasses
  <1>3. script' # <<>> => \A n \in told : n = current' \/ current' \in Below(n)
    BY DEF EndPasses
  <1>4. Writing' => Untold("out")'
    BY <1>1 DEF EndPasses
  <1>5. QED BY <1>2, <1>3, <1>4 DEF EndPasses

LEMMA MadeCallFacts ==
    ASSUME CallMade
    PROVE  /\ InUse' \cap Buffers \subseteq InUse /\ (Idling' => Idling)
           /\ RequestBody \in InUse' => RequestBody \in InUse
           /\ Elems(rt'.tasks) \cap EndTasks = {} /\ Elems(rt'.tasks) \cap WriteTasks = {}
           /\ UNCHANGED <<caller, current, reported, parser, builded, reader, pob, measured>>
           /\ Elems(script') \subseteq Elems(script)
  <1>1. /\ InUse' \cap Buffers \subseteq InUse /\ (Idling' => Idling) /\ Elems(script') \subseteq Elems(script)
    BY CallFrame
  <1>2. Still(rt') /\ UNCHANGED <<caller, current, reported, parser, builded, reader, pob, measured>>
    BY DEF CallMade, Frame
  <1>3. QED BY <1>1, <1>2, BufferSets DEF Still

LEMMA BelowStays ==
    ASSUME chain' = chain \/ (chain' # CP /\ chain # CP) \/ told \subseteq UpToReader, told \subseteq Modules
    PROVE  \A n \in told : Below(n)' = Below(n)
  BY DEF Below, UpToReader

LEMMA CallKeepsEnd ==
    ASSUME ChainInv, ApiCall, EndPasses, CallMade,
           chain' = chain \/ (chain' # CP /\ chain # CP) \/ told \subseteq UpToReader,
           \A t \in Planned(rt') \ (Planned(rt) \cup IdleTasks) : PlansEnd(t) \/ GivesTask(t),
           rt'.write_buffers = rt.write_buffers \/ WritesMore
    PROVE  EndPasses'
  <1>1. /\ script # <<>> /\ Elems(script) = Elems(script') \cup {Head(script)} /\ Elems(script') \subseteq Elems(script)
        /\ told' = told /\ current \in Modules /\ chain \in Shapes /\ Head(script) = <<Call, Arg>>
    BY CallFrameFacts
  <1>2. told \subseteq Modules
    BY DEF ChainInv, TypeOK
  <1>3. \A n \in told : Below(n)' = Below(n)
    BY <1>2, BelowStays
  <1>4. /\ (Idling' => Idling) /\ (RequestBody \in InUse' => RequestBody \in InUse)
        /\ Elems(rt'.tasks) \cap EndTasks = {}
        /\ UNCHANGED <<current, parser, reader>>
    BY MadeCallFacts
  <1>5. ASSUME Call # "endError", Call # "return" PROVE InChain(current)
    BY <1>1, <1>5, CallNamed
  <1>6. DataTasks \cap EndTasks = {}
    BY TaskSets
  <1>7. \A t : PlansEnd(t) => Head(script) \in EndCalls
    BY DEF PlansEnd, EndCalls, Named
  <1>8. ASSUME NEW t, PlansEnd(t) PROVE Untold(t.module)
    <2>1. CASE Head(script) \in Named({"raiseEnd"}) /\ Following(current) # NoModule /\ t = EndFor(Following(current))
      <3>1. Call # "endError" /\ Call # "return"
        BY <1>1, <2>1 DEF Named
      <3>2. QED BY <1>1, <1>5, <2>1, <3>1, NextIsUntold DEF EndFor, T!ModuleTask
    <2>2. CASE Head(script) \in Named({"endInput"})
      <3>1. told = {}
        BY <1>1, <2>2 DEF EndPasses
      <3>2. QED BY <3>1 DEF Untold
    <2>3. CASE Head(script) \in Named({"endError"}) /\ current \in {"builder", "reader"} /\ t = EndFor("error")
      <3>1. \A n \in told : n = current \/ current \in Below(n)
        BY <1>1 DEF EndPasses
      <3>2. \A n \in told : "error" \in Below(n)
        BY <1>2, <2>3, <3>1 DEF Below, Modules, Processing
      <3>3. t.module = "error"
        BY <2>3 DEF EndFor, T!ModuleTask
      <3>4. QED BY <3>2, <3>3 DEF Untold
    <2>4. QED BY <1>8, <2>1, <2>2, <2>3 DEF PlansEnd
  <1>9. ASSUME NEW t, GivesTask(t) PROVE Untold(t.module)
    <2>1. t.module = Following(current) /\ t.module # NoModule /\ Call = "giveData"
      <3>1. giveData /\ t.module = Following(current) /\ t \in DataTasks
        BY <1>9 DEF GivesTask
      <3>2. t \in T!Task /\ Call = "giveData"
        BY <3>1, TaskSets DEF giveData, Calls
      <3>3. t.module \in Modules
        BY <3>2 DEF T!Task
      <3>4. QED BY <1>1, <3>1, <3>2, <3>3, ChainNext
    <2>2. QED BY <1>1, <1>5, <2>1, NextIsUntold
  <1>10. \A t \in Planned(rt') \ (Planned(rt) \cup IdleTasks) : Untold(t.module)
    BY <1>8, <1>9
  <1>11. Ending' => Ending
    <2>1. ASSUME NEW t \in Planned(rt') \cap EndTasks, t \notin Planned(rt) PROVE Head(script) \in EndCalls
      <3>1. t \notin IdleTasks
        BY <2>1, TaskSets
      <3>2. ~GivesTask(t)
        BY <1>6, <2>1 DEF GivesTask
      <3>3. QED BY <1>7, <2>1, <3>1, <3>2
    <2>2. QED BY <1>1, <2>1 DEF Ending
  <1>12. Writing' => Writing \/ Untold("out")
    <2>1. CASE rt'.write_buffers = rt.write_buffers
      BY <1>1, <2>1 DEF Writing
    <2>2. CASE Head(script) \in Named({"needWrite"})
      BY <1>1, <2>2 DEF Writing
    <2>3. CASE giveData /\ Following(current) = "out"
      <3>1. Call = "giveData" /\ "out" # NoModule
        BY <1>1, <2>3, ChainNext DEF giveData, Calls, Modules
      <3>2. Untold("out")
        BY <1>1, <1>5, <2>3, <3>1, NextIsUntold
      <3>3. QED BY <3>2
    <2>4. QED BY <2>1, <2>2, <2>3 DEF WritesMore
  <1>13. QED BY <1>1, <1>3, <1>4, <1>10, <1>11, <1>12, EndCarries

LEMMA ApiCallKeepsEnd ==
    ASSUME ChainInv, ApiCall, EndPasses
    PROVE  EndPasses'
  <1>1. CASE giveData
    <2>1. chain' = chain
      BY <1>1, GiftGoes
    <2>2. /\ CallMade /\ \A t \in Planned(rt') \ Planned(rt) : GivesTask(t)
          /\ rt'.write_buffers = rt.write_buffers \/ WritesMore
      BY <1>1, GiveDataPlans
    <2>3. QED BY <2>1, <2>2, CallKeepsEnd
  <1>2. CASE raiseEnd \/ endInput \/ raiseErrorEnd
    <2>1. chain' = chain
      BY <1>2 DEF raiseEnd, endInput, raiseErrorEnd
    <2>2. /\ CallMade /\ \A t \in Planned(rt') \ Planned(rt) : PlansEnd(t)
          /\ rt'.write_buffers = rt.write_buffers
      BY <1>2, EndPlans
    <2>3. QED BY <2>1, <2>2, CallKeepsEnd
  <1>3. CASE needWrite \/ needRead \/ callLater \/ release \/ insertAfter \/ throws
    <2>1. chain' = chain \/ (chain' # CP /\ chain # CP)
      <3>1. CASE insertAfter
        <4>1. script # <<>> /\ Call = "insertAfter" /\ chain' = InsertAfter(Position(current), "reader")
          BY <3>1 DEF insertAfter, Calls
        <4>2. Head(script) \in Named({"insertAfter"}) /\ Head(script) \in Elems(script)
          BY <4>1, CallNamed
        <4>3. chain = C0 /\ current = "builder"
          BY <4>1, <4>2 DEF ChainInv, Running
        <4>4. QED BY <4>1, <4>3, ChainChanges, ShapesAre
      <3>2. CASE ~insertAfter
        BY <1>3, <3>2 DEF needWrite, needRead, callLater, release, throws
      <3>3. QED BY <3>1, <3>2
    <2>2. /\ CallMade
          /\ Planned(rt') \subseteq Planned(rt) \cup IdleTasks
          /\ rt'.write_buffers = rt.write_buffers \/ WritesMore
      BY <1>3, QuietPlans
    <2>3. QED BY <2>1, <2>2, CallKeepsEnd
  <1>4. CASE raiseErrorReset
    <2>1. /\ CallMade /\ Planned(rt') = {} /\ rt'.write_buffers = rt.write_buffers
          /\ current \in {"builder", "reader"}
      BY <1>4, ResetPlans
    <2>2. told \subseteq UpToReader
      <3>1. script # <<>>
        BY CallFrameFacts
      <3>2. \A n \in told : n \in Modules /\ (n = current \/ current \in Below(n))
        BY <3>1 DEF EndPasses, ChainInv, TypeOK
      <3>3. QED BY <2>1, <3>2 DEF Below, UpToReader, Modules, Processing
    <2>3. QED BY <2>1, <2>2, CallKeepsEnd
  <1>5. CASE returns \/ notifyEndTask
    <2>1. script' = <<>>
      <3>1. Head(script) \in LastCalls /\ script # <<>>
        <4>1. script # <<>> /\ Call \in {"return", "notifyEndTask"}
          BY <1>5 DEF returns, notifyEndTask, Calls
        <4>2. QED BY <4>1, CallNamed DEF LastCalls, Named
      <3>2. QED BY <3>1, FirstCall, TailOfScript, CallFrameFacts
    <2>2. /\ UNCHANGED <<rt, chain, parser, reader, told>>
      BY <1>5 DEF returns, notifyEndTask
    <2>3. /\ Elems(script') = {} /\ Asked(script') = {}
      BY <2>1, NothingAsked DEF Asked
    <2>4. /\ (Idling' => Idling) /\ (Ending' => Ending) /\ (Writing' => Writing)
          /\ (RequestBody \in InUse' => RequestBody \in InUse)
      BY <2>2, <2>3 DEF Idling, Ending, Writing, InUse
    <2>5. Elems(rt'.tasks) \cap EndTasks = {}
      BY <2>2, CallFrameFacts DEF Still
    <2>6. \A n \in told : Below(n)' = Below(n)
      BY <2>2 DEF Below
    <2>7. QED BY <2>1, <2>2, <2>3, <2>4, <2>5, <2>6, EndCarries
  <1>6. QED BY <1>1, <1>2, <1>3, <1>4, <1>5 DEF ApiCall

-----------------------------------------------------------------------------
(* What hasWork does to the queue, part by part.                             *)

WriteTask(b) == T!ModuleTask("ON_CAN_WRITE", "out", b)

\* Nothing that was planned or handed over is forgotten.
Forwards(s, r) ==
    /\ Handed(s) \subseteq Handed(r) /\ Planned(s) \subseteq Planned(r)
    /\ (Reads(s) => Reads(r)) /\ (Idles(s) => Idles(r))

SameWrites(s, r) == r.write_buffers = s.write_buffers /\ r.wait_write = s.wait_write /\ r.can_write = s.can_write

LEMMA ReadPart ==
    ASSUME NEW s, TP!Consistent(s), QueueInv(s), Still(s)
    PROVE  LET r == T!DispatchRead(s)
           IN  /\ SameWrites(s, r) /\ r.end_task = s.end_task /\ Forwards(s, r)
               /\ Planned(r) \subseteq Planned(s) \cup (IF s.wait_read THEN {CanRead} ELSE {})
  <1> DEFINE r == T!DispatchRead(s)
  <1>0. s \in T!State
    BY ConsistentType
  <1>1. CASE s.wait_read /\ s.can_read
    <2>1. /\ r.tasks = Append(s.tasks, CanRead) /\ SamePlans(s, r) /\ r.wait_read = FALSE
          /\ SameWrites(s, r)
      BY <1>0, <1>1 DEF T!DispatchRead, T!addTask, T!State, T!ModuleTask, CanRead, SamePlans,
         T!DataEvents, SameWrites
    <2> HIDE DEF r
    <2>2. Elems(s.tasks) \cap ReadTasks = {} /\ CanRead \notin IdleTasks /\ CanRead \in ReadTasks
      BY <1>1, TaskSets DEF QueueInv, OneRead, ReadTasks
    <2>3. /\ Elems(r.tasks) = Elems(s.tasks) \cup {CanRead}
          /\ Handed(r) = Handed(s) /\ Planned(r) \subseteq Planned(s) \cup {CanRead}
      BY <2>1, <2>2, AppendTask DEF SamePlans
    <2>4. Forwards(s, r)
      BY <2>1, <2>2, <2>3 DEF Forwards, Planned, Reads, Idles, SamePlans
    <2>5. QED BY <1>1, <2>1, <2>3, <2>4 DEF SamePlans, r
  <1>2. CASE ~(s.wait_read /\ s.can_read)
    BY <1>2 DEF T!DispatchRead, Forwards, SameWrites
  <1>3. QED BY <1>1, <1>2

\* The first buffer that waits goes to the output module, or nothing does.
Writes(s, r) ==
    \/ /\ r.write_buffers = s.write_buffers /\ r.wait_write = s.wait_write
       /\ s.wait_write => Len(s.write_buffers) <= WriteLimit
    \/ /\ s.write_buffers # <<>> /\ r.write_buffers = Tail(s.write_buffers)
       /\ r.wait_write = (Len(s.write_buffers) > 1)
       /\ r.tasks # <<>> /\ Head(r.tasks) = WriteTask(Head(s.write_buffers))
       /\ Head(r.tasks) \in WriteTasks

LEMMA WritePart ==
    ASSUME NEW s, TP!Consistent(s), QueueInv(s), Still(s)
    PROVE  LET r == T!DispatchWrite(s)
           IN  /\ Writes(s, r) /\ r.end_task = s.end_task /\ Forwards(s, r)
               /\ Planned(r) \subseteq Planned(s) \cup
                     (IF s.write_buffers # <<>> THEN {WriteTask(Head(s.write_buffers))} ELSE {})
  <1> DEFINE r == T!DispatchWrite(s)
             t == WriteTask(Head(s.write_buffers))
  <1>0. s \in T!State /\ (s.wait_write => s.write_buffers # <<>>)
    BY ConsistentType
  <1>1. CASE T!WriteReady(s)
    <2>1. s.write_buffers \in Seq(Written) /\ s.write_buffers # <<>>
      BY <1>0, <1>1 DEF T!WriteReady, QueueInv, QueueType
    <2>2. /\ Head(s.write_buffers) \in Written
          /\ Elems(s.write_buffers) = Elems(Tail(s.write_buffers)) \cup {Head(s.write_buffers)}
      BY <2>1, TailElems
    <2>3. t \in WriteTasks /\ t.buffer = Head(s.write_buffers) /\ t.event = "ON_CAN_WRITE"
      BY <2>2 DEF WriteTasks, Tasks, T!ModuleTask, WriteTask
    <2> DEFINE w == [s EXCEPT !.can_write = FALSE, !.write_buffers = Tail(@),
                              !.wait_write = Len(s.write_buffers) > 1]
               u == T!addTask(w, t)
    <2>5. r = T!Register(u)
      BY <1>1 DEF T!DispatchWrite, t, WriteTask
    <2> HIDE DEF t
    <2>4. /\ u.tasks = <<t>> \o s.tasks /\ u.write_buffers = Tail(s.write_buffers)
          /\ u.call_later_task = s.call_later_task /\ u.end_task = s.end_task
          /\ u.wait_read = s.wait_read
          /\ u.wait_write = (Len(s.write_buffers) > 1) /\ u.has_error = s.has_error
      BY <1>0, <2>3 DEF T!addTask, T!State, T!DataEvents
    <2>6. /\ r.tasks = u.tasks /\ r.write_buffers = u.write_buffers
          /\ r.call_later_task = u.call_later_task /\ r.end_task = u.end_task
          /\ r.wait_read = u.wait_read
          /\ r.wait_write = u.wait_write /\ r.has_error = u.has_error
      BY <1>0, <2>3, <2>5 DEF T!Register, T!addTask, T!State, T!DataEvents
    <2> HIDE DEF r, u, w
    <2>7. s.tasks \in Seq(ChainTasks) /\ t \in ChainTasks /\ t.buffer # NoBuffer
      BY <2>2, <2>3, TaskSets, BufferSets DEF QueueInv, QueueType
    <2>8. /\ r.tasks # <<>> /\ r.tasks \in Seq(ChainTasks) /\ r.tasks[1] = t
          /\ Elems(r.tasks) = Elems(s.tasks) \cup {t}
      BY <2>4, <2>6, <2>7, PushElems
    <2>9. Head(r.tasks) = t
      BY <2>8, TailElems
    <2>10. Forwards(s, r)
      <3>1. TaskBuffers(r) = TaskBuffers(s) \cup ({t.buffer} \ {NoBuffer})
        <4>1. Elems(r.tasks) = Elems(s.tasks) \cup {t}
          BY <2>8
        <4>2. QED BY <4>1, MoreTaskBuffers, Zenon
      <3>2. WriteBuffers(s) \subseteq WriteBuffers(r) \cup {t.buffer}
        BY <2>2, <2>3, <2>4, <2>6, BufferElems
      <3>3. Handed(s) \subseteq Handed(r)
        BY <2>7, <3>1, <3>2 DEF Handed
      <3>4. /\ Planned(s) \subseteq Planned(r)
            /\ (Reads(s) => Reads(r)) /\ (Idles(s) => Idles(r))
        BY <2>4, <2>6, <2>8 DEF Planned, Reads, Idles
      <3>5. QED BY <3>3, <3>4 DEF Forwards
    <2>11. Planned(r) \subseteq Planned(s) \cup {t}
      BY <2>4, <2>6, <2>8 DEF Planned
    <2>12. Writes(s, r)
      BY <2>1, <2>3, <2>4, <2>6, <2>8, <2>9 DEF Writes, t
    <2>13. QED BY <2>1, <2>4, <2>6, <2>10, <2>11, <2>12 DEF r, t
  <1>2. CASE ~T!WriteReady(s)
    <2>1. r = s
      BY <1>2 DEF T!DispatchWrite
    <2>2. s.wait_write => Len(s.write_buffers) <= WriteLimit
      <3>1. s.write_buffers \in Seq(Written)
        BY DEF QueueInv, QueueType
      <3>2. Len(s.write_buffers) \in Nat
        BY <3>1, LenProperties
      <3>3. QED BY <1>2, <3>2, RequestChainAssumption DEF T!WriteReady
    <2>3. QED BY <2>1, <2>2 DEF Writes, Forwards
  <1>3. QED BY <1>1, <1>2

LEMMA HeadOfAppend ==
    ASSUME NEW S, NEW q \in Seq(S), q # <<>>, NEW x \in S
    PROVE  Head(Append(q, x)) = Head(q)
  <1>1. /\ Append(q, x) \in Seq(S) /\ Append(q, x) # <<>> /\ \A i \in 1..Len(q) : Append(q, x)[i] = q[i]
    BY AppendElems
  <1>2. 1 \in 1..Len(q) /\ Head(q) = q[1] /\ Head(Append(q, x)) = Append(q, x)[1]
    BY <1>1, TailElems
  <1>3. QED BY <1>1, <1>2

LEMMA CallLaterPart ==
    ASSUME NEW s, TP!Consistent(s), QueueInv(s), Filled(s), NEW due \in BOOLEAN
    PROVE  LET r == T!DispatchCallLater(s, due)
           IN  /\ SameWrites(s, r) /\ r.end_task = s.end_task /\ Forwards(s, r)
               /\ s.tasks # <<>> => r.tasks # <<>> /\ Head(r.tasks) = Head(s.tasks)
               /\ Planned(r) \subseteq Planned(s)
  <1> DEFINE r == T!DispatchCallLater(s, due)
             t == s.call_later_task
  <1>0. s \in T!State
    BY ConsistentType
  <1>1. CASE due /\ t # NoTask
    <2>1. /\ r.tasks = Append(s.tasks, t) /\ r.call_later_task = NoTask
          /\ r.write_buffers = s.write_buffers /\ r.end_task = s.end_task
          /\ r.wait_read = s.wait_read /\ SameWrites(s, r)
      BY <1>0, <1>1 DEF T!DispatchCallLater, T!State, SameWrites
    <2>2. t \in IdleTasks /\ Elems(s.tasks) \cap IdleTasks = {} /\ t \in Planned(s) /\ s.tasks \in Seq(ChainTasks)
      BY <1>1 DEF QueueInv, QueueType, OneIdle, Planned
    <2>3. t # CanRead /\ t \in ChainTasks
      BY <2>2, TaskSets
    <2> HIDE DEF r, t
    <2>4. /\ Elems(r.tasks) = Elems(s.tasks) \cup {t} /\ r.tasks # <<>>
          /\ Handed(r) = Handed(s) /\ Planned(r) \subseteq Planned(s) \cup {t}
      BY <2>1, <2>2, <2>3, AppendTask
    <2>5. s.tasks # <<>> => Head(r.tasks) = Head(s.tasks)
      BY <2>1, <2>2, <2>3, HeadOfAppend
    <2>6. Forwards(s, r)
      BY <2>1, <2>2, <2>4 DEF Forwards, Planned, Reads, Idles, t
    <2>7. QED BY <2>1, <2>2, <2>4, <2>5, <2>6 DEF r
  <1>2. CASE ~(due /\ t # NoTask)
    BY <1>2 DEF T!DispatchCallLater, Forwards, SameWrites
  <1>3. QED BY <1>1, <1>2

LEMMA EndPart ==
    ASSUME NEW s, TP!Consistent(s), QueueInv(s), Elems(s.tasks) \cap EndTasks = {}
    PROVE  LET r == T!DispatchEnd(s)
           IN  /\ SameWrites(s, r) /\ Forwards(s, r)
               /\ s.tasks # <<>> => r.tasks # <<>> /\ Head(r.tasks) = Head(s.tasks)
               /\ Planned(r) \subseteq Planned(s)
               /\ Elems(r.tasks) \cap EndTasks # {} => r.end_task = NoTask
  <1> DEFINE r == T!DispatchEnd(s)
             t == s.end_task
  <1>0. s \in T!State
    BY ConsistentType
  <1>1. CASE t # NoTask /\ s.tasks = <<>> /\ s.write_buffers = <<>>
    <2>1. /\ r.tasks = <<t>> /\ r.end_task = NoTask
          /\ r.call_later_task = s.call_later_task
          /\ r.wait_read = s.wait_read /\ SameWrites(s, r)
      BY <1>0, <1>1 DEF T!DispatchEnd, T!State, SameWrites
    <2>2. t \in Planned(s)
      BY <1>1 DEF Planned
    <2> HIDE DEF r
    <2>3. Elems(r.tasks) = {t} /\ Elems(s.tasks) = {}
      <3>1. DOMAIN <<t>> = 1..1 /\ <<t>>[1] = t /\ 1..1 = {1}
        OBVIOUS
      <3>2. s.tasks \in Seq(ChainTasks)
        BY DEF QueueInv, QueueType
      <3>3. Elems(s.tasks) = {}
        BY <1>1, <3>2, ElemsSeq
      <3>4. QED BY <2>1, <3>1, <3>3 DEF Elems
    <2>4. Planned(r) = Planned(s)
      BY <1>1, <2>1, <2>3 DEF Planned
    <2>5. Handed(s) = {}
      <3>1. s.write_buffers \in Seq(Written)
        BY DEF QueueInv, QueueType
      <3>2. Elems(s.write_buffers) = {}
        BY <1>1, <3>1, ElemsSeq
      <3>3. QED BY <2>3, <3>2, BufferElems DEF Handed
    <2>6. (Reads(s) => Reads(r)) /\ (Idles(s) => Idles(r))
      BY <2>1, <2>3 DEF Reads, Idles
    <2>7. QED BY <1>1, <2>1, <2>4, <2>5, <2>6 DEF Forwards, r
  <1>2. CASE ~(t # NoTask /\ s.tasks = <<>> /\ s.write_buffers = <<>>)
    BY <1>2 DEF T!DispatchEnd, Forwards, SameWrites
  <1>3. QED BY <1>1, <1>2

\* A round of hasWork finds an error, or moves on what the socket and the time
\* allow.
LEMMA HasWorkEffect ==
    ASSUME NEW s, TP!Consistent(s), QueueInv(s), Still(s), NEW e \in BOOLEAN, NEW d \in BOOLEAN
    PROVE  LET r == T!hasWork(s, e, d)
           IN  /\ Forwards(s, r) \/ (r.has_error /\ ~s.has_error)
               /\ Handed(r) = Handed(s)
               /\ \/ r.has_error /\ SameQueue(s, r)
                  \/ ~s.has_error /\ ~r.has_error /\ Writes(s, r)
               /\ Planned(r) \subseteq Planned(s)
                     \cup (IF s.wait_read THEN {CanRead} ELSE {})
                     \cup (IF s.write_buffers # <<>> THEN {WriteTask(Head(s.write_buffers))} ELSE {})
               /\ Elems(r.tasks) \cap EndTasks # {} => r.end_task = NoTask
               /\ r.write_buffers # <<>> => s.write_buffers # <<>>
  <1> DEFINE r == T!hasWork(s, e, d)
  <1>0. s \in T!State /\ Elems(s.tasks) \cap EndTasks = {} /\ s.write_buffers \in Seq(Written)
    BY ConsistentType DEF Still, QueueInv, QueueType
  <1>1. CASE s.has_error
    BY <1>0, <1>1 DEF T!hasWork, SameQueue, Forwards
  <1>2. CASE ~s.has_error /\ T!Silent(s) /\ e
    <2>1. r = T!TimeOut(s)
      BY <1>2 DEF T!hasWork
    <2>2. SameQueue(s, r) /\ r.has_error = TRUE
      BY <1>0, <2>1 DEF T!TimeOut, T!Unregister, T!State, SameQueue
    <2> HIDE DEF r
    <2>3. Handed(r) = Handed(s) /\ Planned(r) = Planned(s)
      BY <2>2, BufferElems DEF SameQueue, Handed, Planned
    <2>4. QED BY <1>0, <1>2, <2>2, <2>3 DEF SameQueue, r
  <1>3. CASE ~s.has_error /\ ~(T!Silent(s) /\ e)
    <2> DEFINE p == T!DispatchRead(s)
               q == T!DispatchWrite(p)
               c == T!DispatchCallLater(q, d)
    <2>1. r = T!DispatchEnd(c)
      BY <1>3 DEF T!hasWork
    <2>2. /\ QueueInv(p) /\ Still(p) /\ p.has_error = s.has_error /\ TP!Consistent(p)
          /\ SameWrites(s, p) /\ p.end_task = s.end_task /\ Forwards(s, p) /\ Later(s, p)
          /\ Planned(p) \subseteq Planned(s) \cup (IF s.wait_read THEN {CanRead} ELSE {})
      BY ReadLater, ReadPart, PartsConsistent
    <2> HIDE DEF p
    <2>3. /\ QueueInv(q) /\ Filled(q) /\ Elems(q.tasks) \cap EndTasks = {}
          /\ q.has_error = p.has_error /\ TP!Consistent(q) /\ Later(p, q)
          /\ Writes(p, q) /\ q.end_task = p.end_task /\ Forwards(p, q)
          /\ Planned(q) \subseteq Planned(p) \cup
                (IF p.write_buffers # <<>> THEN {WriteTask(Head(p.write_buffers))} ELSE {})
      BY <2>2, WriteLater, WritePart, PartsConsistent
    <2> HIDE DEF q
    <2>4. /\ QueueInv(c) /\ Elems(c.tasks) \cap EndTasks = {}
          /\ c.has_error = q.has_error /\ TP!Consistent(c) /\ Later(q, c)
          /\ SameWrites(q, c) /\ c.end_task = q.end_task /\ Forwards(q, c)
          /\ q.tasks # <<>> => c.tasks # <<>> /\ Head(c.tasks) = Head(q.tasks)
          /\ Planned(c) \subseteq Planned(q)
      BY <2>3, CallLaterLater, CallLaterPart, PartsConsistent
    <2> HIDE DEF c, r
    <2>5. /\ r.has_error = c.has_error /\ Later(c, r)
          /\ SameWrites(c, r) /\ Forwards(c, r)
          /\ c.tasks # <<>> => r.tasks # <<>> /\ Head(r.tasks) = Head(c.tasks)
          /\ Planned(r) \subseteq Planned(c)
          /\ Elems(r.tasks) \cap EndTasks # {} => r.end_task = NoTask
      <3>1. r = T!DispatchEnd(c) /\ TP!Consistent(c) /\ QueueInv(c) /\ Elems(c.tasks) \cap EndTasks = {} /\ Filled(c)
        BY <2>1, <2>3, <2>4, CallLaterLater DEF c
      <3>2. QED BY <3>1, EndLater, EndPart
    <2>6. Forwards(s, r) /\ Handed(r) = Handed(s)
      BY <2>2, <2>3, <2>4, <2>5 DEF Forwards, Later
    <2>7. /\ s.write_buffers = p.write_buffers /\ s.wait_write = p.wait_write
          /\ r.write_buffers = q.write_buffers /\ r.wait_write = q.wait_write
          /\ q.tasks # <<>> => r.tasks # <<>> /\ Head(r.tasks) = Head(q.tasks)
      BY <2>2, <2>4, <2>5 DEF SameWrites
    <2>8. Writes(s, r)
      BY <2>3, <2>7 DEF Writes
    <2>9. r.write_buffers # <<>> => s.write_buffers # <<>>
      BY <2>8 DEF Writes
    <2>10. QED BY <1>3, <2>2, <2>3, <2>4, <2>5, <2>6, <2>7, <2>8, <2>9 DEF r
  <1>4. QED BY <1>1, <1>2, <1>3
-----------------------------------------------------------------------------
(* The steps around the modules keep what is known of the end.               *)

\* A worker is told to run when the queue is ready, and then no module is.
LEMMA PollFacts ==
    ASSUME ChainInv, NEW expired \in BOOLEAN, NEW due \in BOOLEAN, Poll(expired, due)
    PROVE  /\ rt' = T!hasWork(rt, expired, due) /\ caller = "polling"
           /\ caller' = IF T!HasWorkResult(rt') THEN "dispatching" ELSE "noWork"
           /\ UNCHANGED Parts /\ UNCHANGED <<reported, arrived>> /\ UNCHANGED Request
           /\ script = <<>> /\ script' = <<>> /\ Elems(script) = {} /\ Asked(script) = {}
           /\ TP!Consistent(rt) /\ QueueInv(rt) /\ Still(rt)
  <1>1. /\ caller = "polling" /\ rt' = T!hasWork(rt, expired, due)
        /\ caller' = IF T!HasWorkResult(rt') THEN "dispatching" ELSE "noWork"
        /\ UNCHANGED <<reported, arrived>> /\ UNCHANGED Request
    BY DEF Poll
  <1>2. UNCHANGED Parts /\ script' = script
    BY <1>1 DEF Request, Parts
  <1>3. script = <<>>
    BY <1>1, NoScript
  <1>4. Elems(script) = {} /\ Asked(script) = {}
    BY <1>3, NothingAsked DEF Asked
  <1>5. TP!Consistent(rt) /\ QueueInv(rt) /\ Still(rt)
    BY <1>1 DEF ChainInv, Bookkeeping
  <1>6. QED BY <1>1, <1>2, <1>3, <1>4, <1>5

LEMMA PollKeepsEnd ==
    ASSUME ChainInv, EndPasses, NEW expired \in BOOLEAN, NEW due \in BOOLEAN, Poll(expired, due)
    PROVE  EndPasses'
  <1>1. /\ rt' = T!hasWork(rt, expired, due) /\ UNCHANGED Parts /\ UNCHANGED Request
        /\ script = <<>> /\ script' = <<>> /\ Elems(script) = {} /\ Asked(script) = {}
        /\ TP!Consistent(rt) /\ QueueInv(rt) /\ Still(rt)
    BY PollFacts
  <1>2. UNCHANGED <<chain, parser, reader, told, current>>
    BY <1>1 DEF Request
  <1>3. /\ Handed(rt') = Handed(rt)
        /\ Planned(rt') \subseteq Planned(rt)
              \cup (IF rt.wait_read THEN {CanRead} ELSE {})
              \cup (IF rt.write_buffers # <<>> THEN {WriteTask(Head(rt.write_buffers))} ELSE {})
        /\ Elems(rt'.tasks) \cap EndTasks # {} => rt'.end_task = NoTask
        /\ rt'.write_buffers # <<>> => rt.write_buffers # <<>>
    BY <1>1, HasWorkEffect
  <1>4. (Idles(rt') => Idles(rt)) /\ Planned(rt') \subseteq Planned(rt) \cup {CanRead} \cup WriteTasks
    BY <1>1, HasWorkLater
  <1>5. ASSUME rt.wait_read PROVE told = {}
    <2>1. Len(parser.buffers) < Pieces
      BY <1>5 DEF ChainInv, Parsing, Reading, Reads
    <2>2. QED BY <2>1 DEF EndPasses
  <1>6. ASSUME rt.write_buffers # <<>> PROVE Untold("out")
    BY <1>6 DEF EndPasses, Writing
  <1>7. \A t \in Planned(rt') \ (Planned(rt) \cup IdleTasks) : Untold(t.module)
    <2> SUFFICES ASSUME NEW t \in Planned(rt'), t \notin Planned(rt) PROVE Untold(t.module)
      OBVIOUS
    <2>1. CASE t = CanRead /\ rt.wait_read
      BY <1>5, <2>1 DEF Untold
    <2>2. CASE rt.write_buffers # <<>> /\ t = WriteTask(Head(rt.write_buffers))
      BY <1>6, <2>2 DEF WriteTask, T!ModuleTask
    <2>3. QED BY <1>3, <2>1, <2>2
  <1>8. Idling' => Idling
    BY <1>1, <1>4 DEF Idling
  <1>9. Ending' => Ending
    <2>1. EndTasks \cap ({CanRead} \cup WriteTasks) = {}
      BY TaskSets DEF ReadTasks, FrontTasks
    <2>2. QED BY <1>1, <1>4, <2>1 DEF Ending
  <1>10. Writing' => Writing
    BY <1>1, <1>3 DEF Writing
  <1>11. RequestBody \in InUse' => RequestBody \in InUse
    BY <1>1, <1>3 DEF InUse, Asked
  <1>12. \A n \in told : Below(n)' = Below(n)
    BY <1>2 DEF Below
  <1>13. QED
    BY <1>1, <1>2, <1>3, <1>7, <1>8, <1>9, <1>10, <1>11, <1>12, EndCarries

\* The other steps plan nothing and do nothing to the modules.
LEMMA SameEnd ==
    ASSUME EndPasses, Planned(rt') = Planned(rt), rt'.write_buffers = rt.write_buffers,
           Handed(rt') = Handed(rt), Idles(rt') <=> Idles(rt), rt'.tasks = rt.tasks,
           rt'.end_task = rt.end_task,
           UNCHANGED <<script, chain, current, parser, reader, told>>
    PROVE  EndPasses'
  <1>1. \A n, m : (m \in Below(n))' <=> m \in Below(n)
    BY DEF Below
  <1>2. \A m : Untold(m)' <=> Untold(m)
    BY <1>1 DEF Untold
  <1>3. /\ (Idling' <=> Idling) /\ (Ending' <=> Ending) /\ (Writing' <=> Writing)
        /\ InUse' = InUse
    BY DEF Idling, Ending, Writing, InUse, Asked
  <1>4. QED BY <1>1, <1>2, <1>3 DEF EndPasses

LEMMA AroundKeepsEnd ==
    ASSUME ChainInv, EndPasses,
           KeepWaiting \/ Destroy \/ ReleaseLate \/ ClientSends \/ Report \/ Deliver
    PROVE  EndPasses'
  <1>1. CASE KeepWaiting \/ Destroy \/ ReleaseLate \/ ClientSends \/ Report
    <2>1. UNCHANGED <<rt, script, chain, current, parser, reader, told>>
      BY <1>1 DEF KeepWaiting, Destroy, ReleaseLate, ClientSends, Report, Request
    <2>2. QED BY <2>1, SameEnd
  <1>2. CASE Deliver
    <2>1. /\ reported \in T!SocketEvents /\ rt' = T!handleSocketEvent(rt, reported)
          /\ UNCHANGED <<script, chain, current, parser, reader, told>>
      BY <1>2 DEF ChainInv, TypeOK, Deliver, Request
    <2>2. TP!Consistent(rt) /\ rt \in T!State /\ QueueInv(rt)
      BY ConsistentType DEF ChainInv, Bookkeeping
    <2>3. SameQueue(rt, rt') /\ rt'.wait_read = rt.wait_read
      BY <2>1, <2>2, SocketEffect
    <2>4. /\ Handed(rt') = Handed(rt) /\ Planned(rt') = Planned(rt)
          /\ (Idles(rt') <=> Idles(rt))
      BY <2>2, <2>3, SameTasks
    <2>5. QED BY <2>1, <2>3, <2>4, SameEnd DEF SameQueue
  <1>3. QED BY <1>1, <1>2
=============================================================================
