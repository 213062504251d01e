------------------------- MODULE RequestAnswerProofs -------------------------
(***************************************************************************)
(* Proofs about RequestChain, above the invariant ChainInv of              *)
(* RequestChainProofs and the way of the end down the chain (EndPasses):   *)
(* what becomes of the buffers of the answer, who holds them, in which     *)
(* order they are sent and what a clean end leaves, for any size of the    *)
(* file, any write limit and any header that fits HeaderLimit.             *)
(***************************************************************************)
EXTENDS RequestChainProofs, FiniteSetTheorems

-----------------------------------------------------------------------------
(* Which handler answers which task, and with which calls.                   *)

LEMMA KindsAre ==
    ASSUME NEW t \in ChainTasks
    PROVE  /\ t = CanRead => t.event = "ON_CAN_READ" /\ t.module = "in"
           /\ t \in WriteTasks => t.event = "ON_CAN_WRITE" /\ t.module = "out" /\ t.buffer \in Written
           /\ t \in PieceTasks => t.event = "ON_REQUEST_DATA" /\ t.module = "parser" /\ t.buffer \in HeaderPieces
           /\ t \in BodyTasks => t.event = "ON_REQUEST_DATA" /\ t.module \in {"builder", "reader", "pob", "error"}
                                   /\ t.buffer = RequestBody
           /\ t \in HeadersTasks => t.event = "ON_REQUEST_DATA" /\ t.module = "error" /\ t.buffer = Headers
           /\ t \in ResponseTasks => t.event = "ON_RESPONSE_DATA" /\ t.module = "pob" /\ t.buffer \in Pages \cup DataBuffers
           /\ t \in IdleTasks => t.event = "ON_IDLE" /\ t.module = "reader"
           /\ t \in EndTasks => t.event = "ON_END" /\ t.module \in Modules
           /\ t = CanRead \/ t \in WriteTasks \/ t \in PieceTasks \/ t \in BodyTasks \/ t \in HeadersTasks
                \/ t \in ResponseTasks \/ t \in IdleTasks \/ t \in EndTasks
  <1>1. t = CanRead \/ t \in WriteTasks \/ t \in PieceTasks \/ t \in BodyTasks \/ t \in HeadersTasks
          \/ t \in ResponseTasks \/ t \in IdleTasks \/ t \in EndTasks
    BY DEF ChainTasks, FrontTasks, DataTasks
  <1>2. t = CanRead => t.event = "ON_CAN_READ" /\ t.module = "in"
    BY DEF CanRead, T!ModuleTask
  <1>3. QED
    BY <1>1, <1>2 DEF WriteTasks, PieceTasks, BodyTasks, HeadersTasks, ResponseTasks, IdleTasks, EndTasks, Tasks

LEMMA Handlers ==
    ASSUME NEW t \in ChainTasks, ProcessRequest(t)
    PROVE  /\ t = CanRead => NetworkRead(t)
           /\ t \in WriteTasks => NetworkWrite(t)
           /\ t \in PieceTasks => ParserIncomplete(t) \/ ParserComplete(t)
           /\ t \in BodyTasks => \/ t.module = "builder" /\ (BuilderFirst(t) \/ BuilderAgain(t))
                                 \/ t.module = "reader" /\ ReaderData(t)
                                 \/ t.module = "pob" /\ PreOutputRequestData(t)
                                 \/ t.module = "error" /\ ErrorData(t)
           /\ t \in HeadersTasks => ErrorData(t)
           /\ t \in ResponseTasks => PreOutputData(t)
           /\ t \in IdleTasks => ReaderIdle(t)
           /\ t \in EndTasks => \/ NetworkEnd(t) \/ ParserEnd(t) \/ BuilderFirst(t) \/ BuilderAgain(t)
                                \/ ReaderEnd(t) \/ ErrorEnd(t) \/ PreOutputEnd(t)
  <1>1. /\ NetworkRead(t) => t.event = "ON_CAN_READ" /\ t.module = "in"
        /\ NetworkWrite(t) => t.event = "ON_CAN_WRITE" /\ t.module = "out"
        /\ NetworkEnd(t) => t.event = "ON_END"
        /\ ParserIncomplete(t) => t.event = "ON_REQUEST_DATA" /\ t.module = "parser"
        /\ ParserComplete(t) => t.event = "ON_REQUEST_DATA" /\ t.module = "parser"
        /\ ParserEnd(t) => t.event = "ON_END"
        /\ BuilderFirst(t) => t.module = "builder"
        /\ BuilderAgain(t) => t.module = "builder"
    BY DEF NetworkRead, NetworkWrite, NetworkEnd, ParserIncomplete, ParserComplete, ParserEnd, BuilderFirst,
           BuilderAgain, Runs
  <1>2. /\ ReaderIdle(t) => t.event = "ON_IDLE" /\ t.module = "reader"
        /\ ReaderEnd(t) => t.event = "ON_END" /\ t.module = "reader"
        /\ ReaderData(t) => t.event \in T!DataEvents /\ t.module = "reader"
        /\ ErrorEnd(t) => t.event = "ON_END" /\ t.module = "error"
        /\ ErrorData(t) => t.event \in T!DataEvents /\ t.module = "error"
        /\ PreOutputData(t) => t.event = "ON_RESPONSE_DATA" /\ t.module = "pob"
        /\ PreOutputEnd(t) => t.event = "ON_END" /\ t.module = "pob"
        /\ PreOutputRequestData(t) => t.event = "ON_REQUEST_DATA" /\ t.module = "pob"
    BY DEF ReaderIdle, ReaderEnd, ReaderData, ErrorEnd, ErrorData, PreOutputData, PreOutputEnd,
           PreOutputRequestData, Runs
  <1>3. T!DataEvents = {"ON_REQUEST_DATA", "ON_RESPONSE_DATA"}
    BY DEF T!DataEvents
  <1>4. QED BY <1>1, <1>2, <1>3, KindsAre DEF ProcessRequest

LEMMA ShortScripts ==
    /\ Elems(<<>>) = {}
    /\ \A a : Elems(<<a>>) = {a} /\ Len(<<a>>) = 1
    /\ \A a, b : Elems(<<a, b>>) = {a, b} /\ Len(<<a, b>>) = 2
    /\ \A a, b, c : Elems(<<a, b, c>>) = {a, b, c} /\ Len(<<a, b, c>>) = 3
    /\ \A a, b, c, d : Elems(<<a, b, c, d>>) = {a, b, c, d} /\ Len(<<a, b, c, d>>) = 4
  <1>1. Elems(<<>>) = {} /\ (\A a : Elems(<<a>>) = {a}) /\ (\A a, b : Elems(<<a, b>>) = {a, b})
    BY DEF Elems
  <1>2. \A a, b, c : Elems(<<a, b, c>>) = {a, b, c}
    BY DEF Elems
  <1>3. \A a, b, c, d : Elems(<<a, b, c, d>>) = {a, b, c, d}
    BY DEF Elems
  <1>4. QED BY <1>1, <1>2, <1>3

\* Scripts put together.
LEMMA JoinedElems ==
    ASSUME NEW S, NEW p \in Seq(S), NEW q \in Seq(S)
    PROVE  Elems(p \o q) = Elems(p) \cup Elems(q) /\ Len(p \o q) = Len(p) + Len(q)
  BY ConcatElems

LEMMA ThreeJoined ==
    ASSUME NEW S, NEW p \in Seq(S), NEW q \in Seq(S), NEW r \in Seq(S)
    PROVE  /\ Elems((p \o q) \o r) = (Elems(p) \cup Elems(q)) \cup Elems(r)
           /\ Len((p \o q) \o r) = (Len(p) + Len(q)) + Len(r)
  <1> DEFINE t == p \o q
  <1>1. Elems(t) = Elems(p) \cup Elems(q) /\ Len(t) = Len(p) + Len(q)
    BY JoinedElems
  <1>2. t \in Seq(S)
    OBVIOUS
  <1> HIDE DEF t
  <1>3. Elems(t \o r) = Elems(t) \cup Elems(r) /\ Len(t \o r) = Len(t) + Len(r)
    BY <1>2, JoinedElems
  <1>4. QED BY <1>1, <1>3 DEF t

ErrorCalls == {<<"reset", NoBuffer>>, <<"endError", NoBuffer>>}

LEMMA RefusedElems ==
    ASSUME NEW t \in ChainTasks
    PROVE  /\ t.event \in T!DataEvents => Refused(t) = <<Release(t.buffer), EndInput, Return>>
           /\ t.event = "ON_END" => Refused(t) = <<RaiseEnd, Return>>
  BY DEF Refused, T!DataEvents

\* The module that runs is told to do at most this.
LEMMA ReadAnswer ==
    ASSUME ChainInv, Start, task' = CanRead
    PROVE  /\ SameModules /\ sent' = sent /\ Len(script') = 2
           /\ \/ Elems(script') = {GiveData(Piece(Len(parser.buffers) + 1)), Return}
              \/ Elems(script') = {Throw(Orphan), NotifyEndTask(NoBuffer)}
  <1>1. task' \in ChainTasks /\ ProcessRequest(task')
    BY StartFrame
  <1>2. NetworkRead(task')
    BY <1>1, Handlers
  <1>3. /\ SameModules /\ sent' = sent
        /\ \/ script' = <<GiveData(Piece(Len(parser.buffers) + 1)), Return>>
           \/ script' = <<Throw(Orphan), NotifyEndTask(NoBuffer)>>
    BY <1>2 DEF NetworkRead, Runs
  <1>4. QED BY <1>3, ShortScripts

LEMMA WriteAnswer ==
    ASSUME ChainInv, Start, task' \in WriteTasks
    PROVE  /\ SameModules /\ Len(script') = 2
           /\ \/ Elems(script') = {Release(task'.buffer), Return} /\ sent' = Append(sent, task'.buffer)
              \/ Elems(script') = {NeedWrite(task'.buffer), Return} /\ sent' = Append(sent, task'.buffer)
              \/ Elems(script') = {Throw(NoBuffer), NotifyEndTask(task'.buffer)} /\ sent' = sent
  <1>1. task' \in ChainTasks /\ ProcessRequest(task')
    BY StartFrame
  <1>2. NetworkWrite(task')
    BY <1>1, Handlers
  <1>3. /\ SameModules
        /\ \/ script' = <<Release(task'.buffer), Return>> /\ sent' = Append(sent, task'.buffer)
           \/ script' = <<NeedWrite(task'.buffer), Return>> /\ sent' = Append(sent, task'.buffer)
           \/ script' = <<Throw(NoBuffer), NotifyEndTask(task'.buffer)>> /\ sent' = sent
    BY <1>2 DEF NetworkWrite, Runs
  <1>4. QED BY <1>3, ShortScripts

Released(q) == {Release(b) : b \in Elems(q)}

LEMMA ReleaseAllElems ==
    ASSUME NEW q \in Seq(Buffers), NEW S, {Release(b) : b \in Buffers} \subseteq S
    PROVE  Elems(ReleaseAll(q)) = Released(q) /\ ReleaseAll(q) \in Seq(S) /\ Len(ReleaseAll(q)) = Len(q)
  <1>1. q \in [1..Len(q) -> Buffers] /\ Len(q) \in Nat /\ DOMAIN q = 1..Len(q)
    BY LenProperties
  <1>2. ReleaseAll(q) \in [1..Len(q) -> S]
    BY <1>1 DEF ReleaseAll
  <1>3. ReleaseAll(q) \in Seq(S)
    BY <1>1, <1>2, SeqDef
  <1>4. Elems(ReleaseAll(q)) = Released(q)
    BY <1>1 DEF Elems, Released, ReleaseAll
  <1>5. Len(ReleaseAll(q)) = Len(q)
    <2>1. DOMAIN ReleaseAll(q) = 1..Len(q) /\ DOMAIN ReleaseAll(q) = 1..Len(ReleaseAll(q)) /\ Len(ReleaseAll(q)) \in Nat
      BY <1>1, <1>3, LenProperties DEF ReleaseAll
    <2>2. QED BY <1>1, <2>1
  <1>6. QED BY <1>3, <1>4, <1>5

LEMMA PieceAnswer ==
    ASSUME ChainInv, Start, task' \in PieceTasks
    PROVE  /\ UNCHANGED <<builded, reader, pob, measured, sent>> /\ parser'.buffers = Kept(task')
           /\ Kept(task') \in Seq(Buffers) /\ Len(Kept(task')) = Len(parser.buffers) + 1
           /\ \/ /\ Len(Kept(task')) < Pieces /\ parser'.completed = parser.completed
                 /\ Elems(script') = {NeedRead, Return} \cup
                       (IF Len(Kept(task')) > HeaderLimit THEN Released(Kept(task')) \cup {RaiseEnd} ELSE {})
              \/ /\ Len(Kept(task')) = Pieces /\ parser'.completed = TRUE
                 /\ \E R \in {{RaiseEnd}, {GiveData(RequestBody)}, {GiveData(RequestBody), RaiseEnd}} :
                       Elems(script') = Released(Kept(task')) \cup R \cup {Return}
  <1> DEFINE q == Kept(task')
             S == {Release(b) : b \in Buffers} \cup {NeedRead, Return, RaiseEnd, GiveData(RequestBody)}
  <1>1. task' \in ChainTasks /\ ProcessRequest(task')
    BY StartFrame
  <1>2. task'.module = "parser" /\ task'.event = "ON_REQUEST_DATA" /\ (ParserIncomplete(task') \/ ParserComplete(task'))
    BY <1>1, Handlers, KindsAre
  <1>3. q \in Seq(Buffers) /\ Len(q) = Len(parser.buffers) + 1
    BY <1>2, KeptBuffers
  <1>4. UNCHANGED <<builded, reader, pob, measured, sent>> /\ parser'.buffers = q
    BY <1>2 DEF ParserIncomplete, ParserComplete, ChainInv, TypeOK
  <1> HIDE DEF q
  <1>5. /\ Elems(ReleaseAll(q)) = Released(q) /\ ReleaseAll(q) \in Seq(S)
    BY <1>3, ReleaseAllElems
  <1>6. /\ <<NeedRead>> \in Seq(S) /\ <<RaiseEnd>> \in Seq(S) /\ Done \in Seq(S) /\ <<>> \in Seq(S)
        /\ <<GiveData(RequestBody)>> \in Seq(S) /\ <<GiveData(RequestBody), RaiseEnd>> \in Seq(S)
    <2>1. NeedRead \in S /\ RaiseEnd \in S /\ Return \in S /\ GiveData(RequestBody) \in S
      OBVIOUS
    <2> HIDE DEF S, NeedRead, RaiseEnd, Return, GiveData
    <2>2. QED BY <2>1 DEF Done
  <1>7. /\ Elems(<<NeedRead>>) = {NeedRead} /\ Elems(<<RaiseEnd>>) = {RaiseEnd} /\ Elems(Done) = {Return}
        /\ Elems(<<>>) = {} /\ Elems(<<GiveData(RequestBody)>>) = {GiveData(RequestBody)}
        /\ Elems(<<GiveData(RequestBody), RaiseEnd>>) = {GiveData(RequestBody), RaiseEnd}
    BY ShortScripts DEF Done
  <1> HIDE DEF S
  <1>8. CASE ParserIncomplete(task')
    <2> DEFINE x == IF Len(q) > HeaderLimit THEN ReleaseAll(q) \o <<RaiseEnd>> ELSE <<>>
    <2>1. /\ Len(q) < Pieces /\ parser'.completed = parser.completed
          /\ script' = (<<NeedRead>> \o x) \o Done
      <3>1. parser' = [parser EXCEPT !.buffers = q] /\ parser \in [buffers : Seq(Buffers), completed : BOOLEAN]
        BY <1>8 DEF ParserIncomplete, ChainInv, TypeOK, q
      <3>2. QED BY <1>8, <3>1 DEF ParserIncomplete, Runs, q
    <2>2. /\ x \in Seq(S)
          /\ Elems(x) = IF Len(q) > HeaderLimit THEN Released(q) \cup {RaiseEnd} ELSE {}
      <3> DEFINE u == ReleaseAll(q) \o <<RaiseEnd>>
      <3>1. u \in Seq(S) /\ Elems(u) = Elems(ReleaseAll(q)) \cup Elems(<<RaiseEnd>>)
        <4>1. ReleaseAll(q) \in Seq(S) /\ <<RaiseEnd>> \in Seq(S)
          BY <1>5, <1>6
        <4>2. u \in Seq(S)
          BY <4>1
        <4>3. QED BY <4>1, <4>2, JoinedElems
      <3> HIDE DEF u
      <3>2. u \in Seq(S) /\ Elems(u) = Released(q) \cup {RaiseEnd}
        BY <1>5, <1>7, <3>1
      <3>3. CASE Len(q) > HeaderLimit
        <4>1. x = u
          BY <3>3 DEF u
        <4>2. QED BY <3>2, <3>3, <4>1
      <3>4. CASE ~(Len(q) > HeaderLimit)
        <4>1. x = <<>>
          BY <3>4
        <4>2. QED BY <1>6, <1>7, <3>4, <4>1
      <3>5. QED BY <3>3, <3>4
    <2> HIDE DEF x
    <2>3. Elems(script') = (Elems(<<NeedRead>>) \cup Elems(x)) \cup Elems(Done)
      <3> DEFINE n == <<NeedRead>>
      <3>1. n \in Seq(S) /\ x \in Seq(S) /\ Done \in Seq(S)
        BY <1>6, <2>2
      <3>2. script' = (n \o x) \o Done
        BY <2>1
      <3> HIDE DEF n, Done
      <3>3. Elems((n \o x) \o Done) = (Elems(n) \cup Elems(x)) \cup Elems(Done)
        BY <3>1, ThreeJoined
      <3>4. QED BY <3>2, <3>3 DEF n
    <2>4. QED BY <1>3, <1>4, <1>7, <2>1, <2>2, <2>3 DEF q
  <1>9. CASE ParserComplete(task')
    <2>1. /\ Len(q) = Pieces /\ parser'.completed = TRUE
          /\ \E rest \in {<<RaiseEnd>>, <<GiveData(RequestBody)>>, <<GiveData(RequestBody), RaiseEnd>>} :
                script' = (ReleaseAll(q) \o rest) \o Done
      BY <1>9 DEF ParserComplete, Runs, q
    <2>2. PICK rest \in {<<RaiseEnd>>, <<GiveData(RequestBody)>>, <<GiveData(RequestBody), RaiseEnd>>} :
             script' = (ReleaseAll(q) \o rest) \o Done
      BY <2>1
    <2>3. rest \in Seq(S) /\ Elems(rest) \in {{RaiseEnd}, {GiveData(RequestBody)}, {GiveData(RequestBody), RaiseEnd}}
      BY <1>6, <1>7
    <2>4. Elems(script') = (Elems(ReleaseAll(q)) \cup Elems(rest)) \cup Elems(Done)
      <3> DEFINE n == ReleaseAll(q)
      <3>1. n \in Seq(S) /\ rest \in Seq(S) /\ Done \in Seq(S)
        BY <1>5, <1>6, <2>3
      <3>2. script' = (n \o rest) \o Done
        BY <2>2
      <3> HIDE DEF n, Done
      <3>3. Elems((n \o rest) \o Done) = (Elems(n) \cup Elems(rest)) \cup Elems(Done)
        BY <3>1, ThreeJoined
      <3>4. QED BY <3>2, <3>3 DEF n
    <2>5. Elems(script') = Released(q) \cup Elems(rest) \cup {Return}
      BY <1>5, <1>7, <2>4
    <2>6. QED BY <1>3, <1>4, <2>1, <2>3, <2>5 DEF q
  <1>10. QED BY <1>2, <1>8, <1>9
LEMMA BuilderScript ==
    ASSUME ChainInv, Start, task'.module = "builder", task' \in BodyTasks \cup EndTasks
    PROVE  /\ UNCHANGED <<parser, reader, pob, measured, sent>>
           /\ \E X \in {{}, ErrorCalls, {Insert}} :
                 \/ task' \in EndTasks /\ Elems(script') = X \cup {RaiseEnd, Return}
                 \/ task' \in BodyTasks /\ Elems(script') = X \cup {Release(task'.buffer), Return}
                 \/ task' \in BodyTasks /\ Elems(script') = X \cup {GiveData(task'.buffer), Return}
  <1> DEFINE b == task'.buffer
             A(error) == BuilderAnswer(task', error)
             S == {Release(b), GiveData(b), RaiseEnd, Return, Insert} \cup ErrorCalls
  <1>1. task' \in ChainTasks /\ ProcessRequest(task')
    BY StartFrame
  <1>2. /\ task' \in EndTasks => task'.event = "ON_END"
        /\ task' \in BodyTasks => task'.event = "ON_REQUEST_DATA"
    BY <1>1, KindsAre
  <1>3. BuilderFirst(task') \/ BuilderAgain(task')
    <2>1. CASE task' \in BodyTasks
      BY <1>1, <2>1, Handlers
    <2>2. CASE task' \in EndTasks
      <3>1. \/ NetworkEnd(task') \/ ParserEnd(task') \/ BuilderFirst(task') \/ BuilderAgain(task')
            \/ ReaderEnd(task') \/ ErrorEnd(task') \/ PreOutputEnd(task')
        BY <1>1, <2>2, Handlers
      <3>2. QED BY <3>1 DEF NetworkEnd, ParserEnd, ReaderEnd, ErrorEnd, PreOutputEnd, Runs
    <2>3. QED BY <2>1, <2>2
  <1>4. ASSUME NEW error \in BOOLEAN
        PROVE  /\ \/ task' \in EndTasks /\ A(error) = <<RaiseEnd, Return>>
                  \/ task' \in BodyTasks /\ A(error) = <<Release(b), Return>>
                  \/ task' \in BodyTasks /\ A(error) = <<GiveData(b), Return>>
    <2>1. CASE task' \in EndTasks
      BY <1>1, <1>2, <2>1, RefusedElems DEF BuilderAnswer
    <2>2. CASE task' \in BodyTasks
      <3>1. A(error) = <<IF error THEN Release(b) ELSE GiveData(b)>> \o Done
        BY <1>2, <2>2 DEF BuilderAnswer
      <3>2. <<Release(b)>> \o Done = <<Release(b), Return>> /\ <<GiveData(b)>> \o Done = <<GiveData(b), Return>>
        BY TwoIsConcat DEF Done
      <3>3. QED BY <2>2, <3>1, <3>2
    <2>3. QED BY <2>1, <2>2
  <1>5. ASSUME NEW error \in BOOLEAN
        PROVE  /\ A(error) \in Seq(S)
               /\ \/ task' \in EndTasks /\ Elems(A(error)) = {RaiseEnd, Return}
                  \/ task' \in BodyTasks /\ Elems(A(error)) = {Release(b), Return}
                  \/ task' \in BodyTasks /\ Elems(A(error)) = {GiveData(b), Return}
    <2> HIDE DEF RaiseEnd, Return, Release, GiveData, Insert, ErrorCalls, A, b
    <2>1. <<RaiseEnd, Return>> \in Seq(S) /\ <<Release(b), Return>> \in Seq(S) /\ <<GiveData(b), Return>> \in Seq(S)
      OBVIOUS
    <2>2. QED BY <1>4, <2>1, ShortScripts
  <1>6. /\ RaiseError \in Seq(S) /\ Elems(RaiseError) = ErrorCalls
        /\ <<Insert>> \in Seq(S) /\ Elems(<<Insert>>) = {Insert}
    <2>1. RaiseError \in Seq(S)
      BY DEF RaiseError, ErrorCalls
    <2>2. Elems(RaiseError) = ErrorCalls
      BY ShortScripts DEF RaiseError, ErrorCalls
    <2>3. <<Insert>> \in Seq(S) /\ Elems(<<Insert>>) = {Insert}
      <3> HIDE DEF Insert
      <3>1. QED BY ShortScripts
    <2>4. QED BY <2>1, <2>2, <2>3
  <1> HIDE DEF S, A
  <1>7. /\ UNCHANGED <<parser, reader, pob, measured, sent>>
        /\ \/ script' = RaiseError \o A(TRUE)
           \/ script' = RaiseError \o A(FALSE)
           \/ script' = <<Insert>> \o A(FALSE)
           \/ script' = A(FALSE)
    BY <1>3 DEF BuilderFirst, BuilderAgain, Runs, SameModules, A
  <1>8. \E X \in {{}, ErrorCalls, {Insert}}, error \in BOOLEAN : Elems(script') = X \cup Elems(A(error))
    <2>1. ASSUME NEW error \in BOOLEAN
          PROVE  /\ Elems(RaiseError \o A(error)) = ErrorCalls \cup Elems(A(error))
                 /\ Elems(<<Insert>> \o A(error)) = {Insert} \cup Elems(A(error))
      <3> DEFINE a == A(error)
      <3>1. a \in Seq(S) /\ RaiseError \in Seq(S) /\ <<Insert>> \in Seq(S)
        BY <1>5, <1>6
      <3> HIDE DEF a
      <3>2. /\ Elems(RaiseError \o a) = Elems(RaiseError) \cup Elems(a)
            /\ Elems(<<Insert>> \o a) = Elems(<<Insert>>) \cup Elems(a)
        BY <3>1, JoinedElems, Zenon
      <3>3. QED BY <1>6, <3>2 DEF a
    <2>2. QED BY <1>7, <2>1
  <1>9. PICK X \in {{}, ErrorCalls, {Insert}}, error \in BOOLEAN : Elems(script') = X \cup Elems(A(error))
    BY <1>8
  <1>10. \/ task' \in EndTasks /\ Elems(script') = X \cup {RaiseEnd, Return}
         \/ task' \in BodyTasks /\ Elems(script') = X \cup {Release(b), Return}
         \/ task' \in BodyTasks /\ Elems(script') = X \cup {GiveData(b), Return}
    BY <1>5, <1>9
  <1>11. QED BY <1>7, <1>10

LEMMA BodyAnswer ==
    ASSUME ChainInv, Start, task' \in BodyTasks, task'.module # "builder"
    PROVE  /\ SameModules /\ sent' = sent /\ Len(script') \in {2, 3}
           /\ \/ task'.module \in {"reader", "pob"} /\ Elems(script') = {Release(task'.buffer), EndInput, Return}
              \/ task'.module = "error" /\ Elems(script') = {Release(task'.buffer), Return}
  <1>1. task' \in ChainTasks /\ ProcessRequest(task')
    BY StartFrame
  <1>2. task'.event \in T!DataEvents
    BY <1>1, KindsAre DEF T!DataEvents
  <1>3. Refused(task') = <<Release(task'.buffer), EndInput, Return>>
    BY <1>1, <1>2, RefusedElems
  <1>4. \/ task'.module = "reader" /\ ReaderData(task')
        \/ task'.module = "pob" /\ PreOutputRequestData(task')
        \/ task'.module = "error" /\ ErrorData(task')
    BY <1>1, Handlers
  <1>5. /\ SameModules /\ sent' = sent
        /\ \/ task'.module \in {"reader", "pob"} /\ script' = Refused(task')
           \/ task'.module = "error" /\ script' = <<Release(task'.buffer), Return>>
    BY <1>4 DEF ReaderData, PreOutputRequestData, ErrorData, Runs
  <1> HIDE DEF Release, EndInput, Return
  <1>6. QED BY <1>3, <1>5, ShortScripts

LEMMA HeadersAnswer ==
    ASSUME ChainInv, Start, task' \in HeadersTasks
    PROVE  SameModules /\ sent' = sent /\ Elems(script') = {Release(task'.buffer), Return} /\ Len(script') = 2
  <1>1. task' \in ChainTasks /\ ProcessRequest(task')
    BY StartFrame
  <1>2. ErrorData(task')
    BY <1>1, Handlers
  <1>3. SameModules /\ sent' = sent /\ script' = <<Release(task'.buffer), Return>>
    BY <1>2 DEF ErrorData, Runs
  <1>4. QED BY <1>3, ShortScripts

LEMMA ResponseAnswer ==
    ASSUME ChainInv, Start, task' \in ResponseTasks
    PROVE  /\ UNCHANGED <<parser, builded, reader, measured, sent>>
           /\ pob' = [headers |-> TRUE, chunked |-> pob.chunked \/ (~pob.headers /\ ~measured)]
           /\ Elems(script') = (IF pob.headers THEN {} ELSE {GiveData(Headers)})
                 \cup (IF pob'.chunked THEN {GiveData(ChunkInfo(task'.buffer))} ELSE {})
                 \cup {GiveData(task'.buffer), Return}
           /\ Len(script') = (IF pob.headers THEN 0 ELSE 1) + (IF pob'.chunked THEN 1 ELSE 0) + 2
  <1> DEFINE gh == GiveData(Headers)
             gi == GiveData(ChunkInfo(task'.buffer))
             gb == GiveData(task'.buffer)
             S == {gh, gi, gb, Return}
             x == IF pob.headers THEN <<>> ELSE <<gh>>
             y == IF pob'.chunked THEN <<gi>> ELSE <<>>
             z == <<gb, Return>>
  <1>1. task' \in ChainTasks /\ ProcessRequest(task')
    BY StartFrame
  <1>2. PreOutputData(task')
    BY <1>1, Handlers
  <1>3. /\ UNCHANGED <<parser, builded, reader, measured, sent>>
        /\ pob' = [headers |-> TRUE, chunked |-> pob.chunked \/ (~pob.headers /\ ~measured)]
        /\ script' = (x \o y) \o z
    BY <1>2 DEF PreOutputData, Runs
  <1> HIDE DEF gh, gi, gb, Return
  <1>4. /\ x \in Seq(S) /\ y \in Seq(S) /\ z \in Seq(S)
        /\ Elems(x) = (IF pob.headers THEN {} ELSE {gh}) /\ Elems(y) = (IF pob'.chunked THEN {gi} ELSE {})
        /\ Elems(z) = {gb, Return} /\ Len(z) = 2
        /\ Len(x) = (IF pob.headers THEN 0 ELSE 1) /\ Len(y) = (IF pob'.chunked THEN 1 ELSE 0)
    <2>1. /\ <<gh>> \in Seq(S) /\ <<gi>> \in Seq(S) /\ <<>> \in Seq(S) /\ z \in Seq(S)
      OBVIOUS
    <2>2. Elems(z) = {gb, Return} /\ Len(z) = 2 /\ Elems(<<gh>>) = {gh} /\ Len(<<gh>>) = 1
          /\ Elems(<<gi>>) = {gi} /\ Len(<<gi>>) = 1 /\ Elems(<<>>) = {} /\ Len(<<>>) = 0
      BY ShortScripts
    <2>3. x \in Seq(S) /\ Elems(x) = (IF pob.headers THEN {} ELSE {gh}) /\ Len(x) = (IF pob.headers THEN 0 ELSE 1)
      <3>1. CASE pob.headers
        <4>1. x = <<>>
          BY <3>1
        <4>2. QED BY <2>1, <2>2, <3>1, <4>1
      <3>2. CASE ~pob.headers
        <4>1. x = <<gh>>
          BY <3>2
        <4>2. QED BY <2>1, <2>2, <3>2, <4>1
      <3>3. QED BY <3>1, <3>2
    <2>4. y \in Seq(S) /\ Elems(y) = (IF pob'.chunked THEN {gi} ELSE {}) /\ Len(y) = (IF pob'.chunked THEN 1 ELSE 0)
      <3>1. CASE pob'.chunked
        <4>1. y = <<gi>>
          BY <3>1
        <4>2. QED BY <2>1, <2>2, <3>1, <4>1
      <3>2. CASE ~pob'.chunked
        <4>1. y = <<>>
          BY <3>2
        <4>2. QED BY <2>1, <2>2, <3>2, <4>1
      <3>3. QED BY <3>1, <3>2
    <2>5. QED BY <2>1, <2>2, <2>3, <2>4
  <1> HIDE DEF x, y, z, S
  <1>5. Elems(script') = (Elems(x) \cup Elems(y)) \cup Elems(z) /\ Len(script') = (Len(x) + Len(y)) + Len(z)
    <2>1. /\ Elems((x \o y) \o z) = (Elems(x) \cup Elems(y)) \cup Elems(z)
          /\ Len((x \o y) \o z) = (Len(x) + Len(y)) + Len(z)
      <3>1. x \in Seq(S) /\ y \in Seq(S) /\ z \in Seq(S)
        BY <1>4
      <3>2. QED BY <3>1, ThreeJoined
    <2>2. QED BY <1>3, <2>1
  <1>6. QED BY <1>3, <1>4, <1>5 DEF gh, gi, gb

\* FileReader reads one buffer.
ReadsOne(r) ==
    /\ r.left > 0 /\ reader'.open = r.open /\ reader'.left = r.left - 1 /\ reader'.delayed = r.delayed
    /\ Elems(script') = {GiveData(Data(FileSize - r.left + 1)), CallLater, Return}

LEMMA ReadOneAnswer ==
    ASSUME NEW r, r \in [open : BOOLEAN, left : 0..FileSize, failed : BOOLEAN, delayed : BOOLEAN], ReadOne(r)
    PROVE  ReadsOne(r)
  <1>1. r.left > 0 /\ reader'.open = r.open /\ reader'.left = r.left - 1 /\ reader'.delayed = r.delayed
    BY DEF ReadOne
  <1>2. script' = <<GiveData(Data(FileSize - r.left + 1)), CallLater, Return>>
    BY DEF ReadOne
  <1> DEFINE g == GiveData(Data(FileSize - r.left + 1))
  <1> HIDE DEF g, CallLater, Return
  <1>3. Elems(script') = {g, CallLater, Return}
    BY <1>2, ShortScripts DEF g
  <1>4. QED BY <1>1, <1>3 DEF ReadsOne, g

LEMMA RaisedElems ==
    /\ Elems(RaiseError \o Done) = ErrorCalls \cup {Return}
  <1> DEFINE S == ErrorCalls \cup {Return}
  <1>1. RaiseError \in Seq(S) /\ Done \in Seq(S)
    BY DEF RaiseError, ErrorCalls, Done
  <1>2. Elems(RaiseError) = ErrorCalls /\ Elems(Done) = {Return}
    BY ShortScripts DEF RaiseError, ErrorCalls, Done
  <1> HIDE DEF S
  <1>3. QED BY <1>1, <1>2, JoinedElems

LEMMA IdleAnswer ==
    ASSUME ChainInv, Start, task' \in IdleTasks
    PROVE  /\ UNCHANGED <<parser, builded, pob, measured, sent>> /\ current' = "reader"
           /\ \/ ~reader.failed /\ reader.left = 0 /\ reader' = reader /\ Elems(script') = {RaiseEnd, Return}
              \/ ~reader.failed /\ ReadsOne(reader)
              \/ reader.failed /\ reader' = reader /\ Elems(script') = ErrorCalls \cup {Return}
  <1>1. task' \in ChainTasks /\ ProcessRequest(task') /\ current' = task'.module
    BY StartFrame
  <1>2. ReaderIdle(task') /\ task'.module = "reader"
    BY <1>1, Handlers, KindsAre
  <1>3. reader \in [open : BOOLEAN, left : 0..FileSize, failed : BOOLEAN, delayed : BOOLEAN]
    BY DEF ChainInv, TypeOK
  <1>4. /\ UNCHANGED <<parser, builded, pob, measured, sent>>
        /\ \/ ~reader.failed /\ reader.left = 0 /\ script' = <<RaiseEnd, Return>> /\ reader' = reader
           \/ ~reader.failed /\ ReadOne(reader)
           \/ reader.failed /\ script' = RaiseError \o Done /\ reader' = reader
    BY <1>2 DEF ReaderIdle
  <1>5. Elems(<<RaiseEnd, Return>>) = {RaiseEnd, Return} /\ (ReadOne(reader) => ReadsOne(reader))
    BY <1>3, ReadOneAnswer, ShortScripts
  <1>6. QED BY <1>1, <1>2, <1>4, <1>5, RaisedElems

\* A module is told of the end.
ReaderAtEnd ==
    \/ reader.open /\ Elems(script') = {Return} /\ UNCHANGED <<reader, measured>>
    \/ ~reader.open /\ Elems(script') = ErrorCalls \cup {Return} /\ UNCHANGED <<reader, measured>>
    \/ /\ ~reader.open /\ measured' = TRUE /\ reader' = [reader EXCEPT !.open = TRUE]
       /\ Elems(script') = {RaiseEnd, Return}
    \/ ~reader.open /\ measured' = TRUE /\ ReadsOne([reader EXCEPT !.open = TRUE])

LEMMA EndAnswer ==
    ASSUME ChainInv, Start, task' \in EndTasks, task'.module # "builder"
    PROVE  /\ UNCHANGED <<parser, builded, sent>>
           /\ \/ task'.module \in {"in", "out", "parser"} /\ SameModules /\ Elems(script') = {RaiseEnd, Return}
                   /\ Len(script') = 2
              \/ task'.module = "reader" /\ UNCHANGED pob /\ ReaderAtEnd
              \/ task'.module = "error" /\ SameModules /\ Len(script') = 4
                   /\ Elems(script') = {GiveData(Padding), GiveData(Page), RaiseEnd, Return}
              \/ task'.module = "pob" /\ UNCHANGED <<reader, measured>> /\ pob' = [pob EXCEPT !.headers = TRUE]
                   /\ Len(script') \in {2, 3}
                   /\ Elems(script') = (IF ~pob.headers THEN {GiveData(Headers)}
                                        ELSE IF pob.chunked THEN {GiveData(Final)} ELSE {}) \cup {RaiseEnd, Return}
  <1>1. task' \in ChainTasks /\ ProcessRequest(task')
    BY StartFrame
  <1>2. task'.event = "ON_END" /\ Refused(task') = <<RaiseEnd, Return>>
    BY <1>1, KindsAre, RefusedElems
  <1>3. \/ NetworkEnd(task') \/ ParserEnd(task') \/ BuilderFirst(task') \/ BuilderAgain(task')
        \/ ReaderEnd(task') \/ ErrorEnd(task') \/ PreOutputEnd(task')
    BY <1>1, Handlers
  <1>4. CASE NetworkEnd(task') \/ ParserEnd(task')
    <2>1. task'.module \in {"in", "out", "parser"} /\ SameModules /\ script' = <<RaiseEnd, Return>> /\ sent' = sent
      BY <1>2, <1>4 DEF NetworkEnd, ParserEnd, Runs
    <2>2. QED BY <2>1, ShortScripts DEF SameModules
  <1>5. CASE ReaderEnd(task')
    <2>1. reader \in [open : BOOLEAN, left : 0..FileSize, failed : BOOLEAN, delayed : BOOLEAN]
      BY DEF ChainInv, TypeOK
    <2>2. [reader EXCEPT !.open = TRUE] \in [open : BOOLEAN, left : 0..FileSize, failed : BOOLEAN, delayed : BOOLEAN]
      BY <2>1
    <2> DEFINE r == [reader EXCEPT !.open = TRUE]
    <2>3. /\ task'.module = "reader" /\ UNCHANGED <<parser, builded, pob, sent>>
          /\ \/ reader.open /\ script' = Done /\ UNCHANGED <<reader, measured>>
             \/ ~reader.open /\ script' = RaiseError \o Done /\ UNCHANGED <<reader, measured>>
             \/ ~reader.open /\ measured' = TRUE /\ script' = <<RaiseEnd, Return>> /\ reader' = r
             \/ ~reader.open /\ measured' = TRUE /\ ReadOne(r)
      BY <1>5 DEF ReaderEnd
    <2> HIDE DEF r
    <2>4. ReadOne(r) => ReadsOne(r)
      BY <2>2, ReadOneAnswer DEF r
    <2>5. Elems(Done) = {Return} /\ Elems(<<RaiseEnd, Return>>) = {RaiseEnd, Return}
      BY ShortScripts DEF Done
    <2>6. QED BY <2>3, <2>4, <2>5, RaisedElems DEF ReaderAtEnd, r
  <1>6. CASE ErrorEnd(task')
    <2>1. /\ task'.module = "error" /\ SameModules /\ sent' = sent
          /\ script' = <<GiveData(Padding), GiveData(Page), RaiseEnd, Return>>
      BY <1>6 DEF ErrorEnd, Runs
    <2> DEFINE a == GiveData(Padding)
               b == GiveData(Page)
    <2> HIDE DEF a, b, RaiseEnd, Return
    <2>2. Elems(script') = {a, b, RaiseEnd, Return} /\ Len(script') = 4
      BY <2>1, ShortScripts DEF a, b
    <2>3. QED BY <2>1, <2>2 DEF SameModules, a, b
  <1>7. CASE PreOutputEnd(task')
    <2> DEFINE g == GiveData(Headers)
               f == GiveData(Final)
               S == {g, f, RaiseEnd, Return}
               x == IF ~pob.headers THEN <<g>> ELSE IF pob.chunked THEN <<f>> ELSE <<>>
               z == <<RaiseEnd, Return>>
    <2>1. /\ task'.module = "pob" /\ UNCHANGED <<parser, builded, reader, measured, sent>>
          /\ pob' = [pob EXCEPT !.headers = TRUE]
          /\ script' = x \o z
      BY <1>7 DEF PreOutputEnd, Runs
    <2> HIDE DEF g, f, RaiseEnd, Return
    <2>2. /\ x \in Seq(S) /\ z \in Seq(S)
          /\ Elems(x) = (IF ~pob.headers THEN {g} ELSE IF pob.chunked THEN {f} ELSE {})
          /\ Elems(z) = {RaiseEnd, Return} /\ Len(z) = 2 /\ Len(x) \in {0, 1}
      <3>1. <<g>> \in Seq(S) /\ <<f>> \in Seq(S) /\ <<>> \in Seq(S) /\ z \in Seq(S)
        OBVIOUS
      <3>2. /\ Elems(z) = {RaiseEnd, Return} /\ Len(z) = 2 /\ Elems(<<g>>) = {g} /\ Len(<<g>>) = 1
            /\ Elems(<<f>>) = {f} /\ Len(<<f>>) = 1 /\ Elems(<<>>) = {} /\ Len(<<>>) = 0
        BY ShortScripts
      <3>3. QED BY <3>1, <3>2
    <2> HIDE DEF x, z, S
    <2>3. Elems(script') = Elems(x) \cup Elems(z) /\ Len(script') = Len(x) + Len(z)
      <3>1. Elems(x \o z) = Elems(x) \cup Elems(z) /\ Len(x \o z) = Len(x) + Len(z)
        <4>1. x \in Seq(S) /\ z \in Seq(S)
          BY <2>2
        <4>2. QED BY <4>1, JoinedElems
      <3>2. QED BY <2>1, <3>1
    <2>4. QED BY <2>1, <2>2, <2>3 DEF g, f
  <1>8. ~BuilderFirst(task') /\ ~BuilderAgain(task')
    BY DEF BuilderFirst, BuilderAgain, Runs
  <1>9. QED BY <1>3, <1>4, <1>5, <1>6, <1>7, <1>8
-----------------------------------------------------------------------------
(* A module starts.                                                          *)

\* Which calls are which.
LEMMA CallTags ==
    ASSUME NEW b, NEW d
    PROVE  /\ {GiveData(d), Release(d), NeedWrite(d), Throw(d), NotifyEndTask(d), NeedRead, CallLater, Insert, Return}
                 \cap EndCalls = {}
           /\ ({GiveData(d), Release(d), Throw(d), NotifyEndTask(d), NeedRead, CallLater, Insert, Return,
                RaiseEnd, EndInput} \cup ErrorCalls) \cap Named({"needWrite"}) = {}
           /\ ({GiveData(d), Release(d), NeedWrite(d), Throw(d), NotifyEndTask(d), NeedRead, Insert, Return,
                RaiseEnd, EndInput} \cup ErrorCalls) \cap IdleCalls = {}
           /\ ({GiveData(d), Release(d), NeedWrite(d), Throw(d), NotifyEndTask(d), NeedRead, CallLater, Insert, Return,
                RaiseEnd} \cup ErrorCalls) \cap Named({"endInput"}) = {}
           /\ ({Release(d), Throw(d), NotifyEndTask(d), NeedRead, CallLater, Insert, Return,
                RaiseEnd, EndInput} \cup ErrorCalls) \cap Handing(b) = {}
           /\ GiveData(d) \in Handing(b) <=> d = b
           /\ NeedWrite(d) \in Handing(b) <=> d = b
  BY DEF EndCalls, Named, IdleCalls, Handing, GiveData, Release, NeedWrite, Throw, NotifyEndTask, NeedRead, CallLater,
         Insert, Return, RaiseEnd, EndInput, ErrorCalls

NotBody == Buffers \ {RequestBody}

LEMMA OtherBuffers ==
    /\ Written \subseteq NotBody /\ HeaderPieces \subseteq NotBody
    /\ \A n \in 1..FileSize : Data(n) \in Written
    /\ Headers \in Written /\ Final \in Written /\ Padding \in Written /\ Page \in Written
    /\ \A b \in Pages \cup DataBuffers : ChunkInfo(b) \in Infos \/ ChunkInfo(b) # RequestBody
    /\ Pages \cup DataBuffers \subseteq Written
  <1>1. Written \subseteq Buffers /\ HeaderPieces \subseteq Buffers
    BY BufferSets
  <1>2. RequestBody \notin Written \cup HeaderPieces
    BY DEF Written, Headers, Final, Pages, Padding, Page, Infos, DataBuffers, Data, HeaderPieces, Piece, RequestBody
  <1>3. \A b : ChunkInfo(b) # RequestBody
    BY DEF ChunkInfo, RequestBody
  <1>4. QED
    BY <1>1, <1>2, <1>3 DEF NotBody, Written, Pages, DataBuffers

LEMMA QuietStarts ==
    ASSUME ChainInv, Start, task' \in {CanRead} \cup WriteTasks \cup HeadersTasks \cup ResponseTasks
    PROVE  /\ UNCHANGED <<parser, reader>> /\ Elems(script') \cap IdleCalls = {}
           /\ Elems(script') \cap Named({"needWrite"}) # {} => task' \in WriteTasks
           /\ Elems(script') \cap EndCalls = {} /\ Elems(script') \cap Named({"endInput"}) = {}
           /\ task' = CanRead \/ RequestBody \notin Asked(script')
  <1> USE CallTags, OtherBuffers DEF Asked
  <1>1. CASE task' = CanRead
    <2>1. /\ SameModules
          /\ \/ Elems(script') = {GiveData(Piece(Len(parser.buffers) + 1)), Return}
             \/ Elems(script') = {Throw(Orphan), NotifyEndTask(NoBuffer)}
      BY <1>1, ReadAnswer
    <2> DEFINE p == Piece(Len(parser.buffers) + 1)
    <2> HIDE DEF p, Piece, GiveData, Return, Throw, NotifyEndTask, Handing, EndCalls, IdleCalls
    <2>2. Elems(script') \subseteq {GiveData(p), Return, Throw(Orphan), NotifyEndTask(NoBuffer)}
      BY <2>1 DEF p
    <2>3. /\ Elems(script') \cap IdleCalls = {} /\ Elems(script') \cap Named({"needWrite"}) = {}
          /\ Elems(script') \cap EndCalls = {} /\ Elems(script') \cap Named({"endInput"}) = {}
      BY <2>2
    <2>4. QED BY <1>1, <2>1, <2>3 DEF SameModules
  <1>2. CASE task' \in WriteTasks
    <2> DEFINE b == task'.buffer
    <2>1. /\ SameModules
          /\ Elems(script') \subseteq {Release(b), NeedWrite(b), Return, Throw(NoBuffer), NotifyEndTask(b)}
      BY <1>2, WriteAnswer
    <2>2. b \in Written
      BY <1>2, TaskSets
    <2> HIDE DEF b, Release, NeedWrite, Return, Throw, NotifyEndTask, Handing, EndCalls, IdleCalls
    <2>3. /\ Elems(script') \cap IdleCalls = {}
          /\ Elems(script') \cap EndCalls = {} /\ Elems(script') \cap Named({"endInput"}) = {}
      BY <2>1
    <2>4. RequestBody \notin Asked(script')
      BY <2>1, <2>2 DEF NotBody
    <2>5. QED BY <1>2, <2>1, <2>3, <2>4 DEF SameModules
  <1>3. CASE task' \in HeadersTasks
    <2>1. SameModules /\ Elems(script') = {Release(task'.buffer), Return}
      BY <1>3, HeadersAnswer
    <2> HIDE DEF Release, Return, Handing, EndCalls, IdleCalls
    <2>2. /\ Elems(script') \cap IdleCalls = {} /\ Elems(script') \cap Named({"needWrite"}) = {}
          /\ Elems(script') \cap EndCalls = {} /\ Elems(script') \cap Named({"endInput"}) = {}
      BY <2>1
    <2>3. RequestBody \notin Asked(script')
      BY <2>1
    <2>4. QED BY <2>1, <2>2, <2>3 DEF SameModules
  <1>4. CASE task' \in ResponseTasks
    <2> DEFINE b == task'.buffer
    <2>1. b \in Pages \cup DataBuffers
      <3>1. task' \in ChainTasks
        BY StartFrame
      <3>2. QED BY <1>4, <3>1, KindsAre
    <2>2. /\ UNCHANGED <<parser, reader>>
          /\ Elems(script') \subseteq {GiveData(Headers), GiveData(ChunkInfo(b)), GiveData(b), Return}
      BY <1>4, ResponseAnswer
    <2>3. {Headers, ChunkInfo(b), b} \cap {RequestBody} = {}
      BY <2>1 DEF NotBody, ChunkInfo, RequestBody
    <2> HIDE DEF b, GiveData, Return, Handing, EndCalls, IdleCalls
    <2>4. /\ Elems(script') \cap IdleCalls = {} /\ Elems(script') \cap Named({"needWrite"}) = {}
          /\ Elems(script') \cap EndCalls = {} /\ Elems(script') \cap Named({"endInput"}) = {}
      BY <2>2
    <2>5. RequestBody \notin Asked(script')
      <3> DEFINE i == ChunkInfo(b)
      <3>1. Headers # RequestBody /\ i # RequestBody /\ b # RequestBody
        BY <2>3
      <3>2. Elems(script') \subseteq {GiveData(Headers), GiveData(i), GiveData(b), Return}
        BY <2>2
      <3> HIDE DEF i
      <3>3. {GiveData(Headers), GiveData(i), GiveData(b), Return} \cap Handing(RequestBody) = {}
        BY <3>1
      <3>4. QED BY <3>2, <3>3
    <2>6. QED BY <2>2, <2>4, <2>5
  <1>5. QED BY <1>1, <1>2, <1>3, <1>4

LEMMA PieceStarts ==
    ASSUME HeaderFits, ChainInv, Start, task' \in PieceTasks
    PROVE  /\ reader' = reader /\ Len(parser'.buffers) = Len(parser.buffers) + 1
           /\ Elems(script') \cap IdleCalls = {} /\ Elems(script') \cap Named({"needWrite"}) = {}
           /\ Len(parser'.buffers) < Pieces => Elems(script') \cap EndCalls = {}
  <1> DEFINE R == Released(Kept(task'))
  <1>1. /\ reader' = reader /\ Len(parser'.buffers) = Len(parser.buffers) + 1
        /\ \/ /\ Len(parser'.buffers) < Pieces
              /\ Elems(script') = {NeedRead, Return} \cup
                    (IF Len(parser'.buffers) > HeaderLimit THEN R \cup {RaiseEnd} ELSE {})
           \/ /\ Len(parser'.buffers) = Pieces
              /\ Elems(script') \subseteq R \cup {RaiseEnd, GiveData(RequestBody), Return}
    BY PieceAnswer
  <1>2. Len(parser.buffers) \in Nat
    BY LenProperties DEF ChainInv, TypeOK
  <1>3. Len(parser'.buffers) < Pieces => ~(Len(parser'.buffers) > HeaderLimit)
    BY <1>1, <1>2, RequestChainAssumption DEF HeaderFits
  <1>4. Len(parser'.buffers) < Pieces => Elems(script') = {NeedRead, Return}
    BY <1>1, <1>2, <1>3, RequestChainAssumption
  <1>5. Elems(script') \subseteq R \cup {NeedRead, RaiseEnd, GiveData(RequestBody), Return}
    BY <1>1
  <1>6. R \cap IdleCalls = {} /\ R \cap Named({"needWrite"}) = {}
    BY CallTags DEF Released
  <1> HIDE DEF R, NeedRead, RaiseEnd, GiveData, Return, EndCalls, IdleCalls
  <1>7. Elems(script') \cap IdleCalls = {} /\ Elems(script') \cap Named({"needWrite"}) = {}
    BY <1>5, <1>6, CallTags
  <1>8. Len(parser'.buffers) < Pieces => Elems(script') \cap EndCalls = {}
    BY <1>4, CallTags
  <1>9. QED BY <1>1, <1>7, <1>8

LEMMA BodyStarts ==
    ASSUME ChainInv, Start, task' \in BodyTasks
    PROVE  /\ UNCHANGED <<parser, reader>>
           /\ Elems(script') \cap IdleCalls = {} /\ Elems(script') \cap Named({"needWrite"}) = {}
  <1> DEFINE b == task'.buffer
  <1>1. /\ UNCHANGED <<parser, reader>>
        /\ Elems(script') \subseteq ErrorCalls \cup {Insert, RaiseEnd, Return, Release(b), GiveData(b), EndInput}
    <2>1. CASE task'.module = "builder"
      BY <2>1, BuilderScript
    <2>2. CASE task'.module # "builder"
      BY <2>2, BodyAnswer DEF SameModules
    <2>3. QED BY <2>1, <2>2
  <1> HIDE DEF b, ErrorCalls, Insert, RaiseEnd, Return, Release, GiveData, EndInput, IdleCalls
  <1>2. QED BY <1>1, CallTags

\* FileReader, called by itself or at the end.
LEMMA ReadsOneCalls ==
    ASSUME NEW r, ReadsOne(r), r.left \in 0..FileSize
    PROVE  /\ Elems(script') \cap EndCalls = {} /\ Elems(script') \cap Named({"needWrite"}) = {}
           /\ Elems(script') \cap Named({"endInput"}) = {} /\ RequestBody \notin Asked(script')
  <1> DEFINE n == FileSize - r.left + 1
  <1>1. Elems(script') = {GiveData(Data(n)), CallLater, Return} /\ r.left > 0
    BY DEF ReadsOne
  <1>2. n \in 1..FileSize
    BY <1>1, RequestChainAssumption
  <1>3. Data(n) # RequestBody
    BY DEF Data, RequestBody
  <1> HIDE DEF n, GiveData, CallLater, Return, EndCalls, Handing
  <1>4. QED BY <1>1, <1>3, CallTags DEF Asked

LEMMA IdleStarts ==
    ASSUME ChainInv, Start, task' \in IdleTasks
    PROVE  /\ UNCHANGED parser /\ reader'.open = reader.open /\ current' = "reader"
           /\ Elems(script') \cap Named({"needWrite"}) = {} /\ Elems(script') \cap Named({"endInput"}) = {}
           /\ RequestBody \notin Asked(script')
           /\ Elems(script') \cap IdleCalls # {} => Elems(script') \cap EndCalls = {}
  <1>1. /\ UNCHANGED parser /\ current' = "reader"
        /\ \/ reader' = reader /\ Elems(script') \subseteq ErrorCalls \cup {RaiseEnd, Return}
           \/ ReadsOne(reader)
    BY IdleAnswer
  <1>2. reader.left \in 0..FileSize
    BY DEF ChainInv, TypeOK
  <1>3. CASE ReadsOne(reader)
    BY <1>1, <1>2, <1>3, ReadsOneCalls DEF ReadsOne
  <1>4. CASE reader' = reader /\ Elems(script') \subseteq ErrorCalls \cup {RaiseEnd, Return}
    <2> HIDE DEF ErrorCalls, RaiseEnd, Return, EndCalls, IdleCalls, Handing
    <2>1. /\ Elems(script') \cap Named({"needWrite"}) = {} /\ Elems(script') \cap Named({"endInput"}) = {}
          /\ Elems(script') \cap IdleCalls = {}
      BY <1>4, CallTags
    <2>2. RequestBody \notin Asked(script')
      BY <1>4, CallTags DEF Asked
    <2>3. QED BY <1>1, <1>4, <2>1, <2>2
  <1>5. QED BY <1>1, <1>3, <1>4

LEMMA EndStarts ==
    ASSUME ChainInv, Start, task' \in EndTasks
    PROVE  /\ UNCHANGED parser /\ (reader'.open => reader.open \/ current' = "reader")
           /\ Elems(script') \cap Named({"needWrite"}) = {} /\ Elems(script') \cap Named({"endInput"}) = {}
           /\ RequestBody \notin Asked(script')
           /\ Elems(script') \cap IdleCalls # {} => current' = "reader" /\ Elems(script') \cap EndCalls = {}
  <1>0. current' = task'.module /\ reader \in [open : BOOLEAN, left : 0..FileSize, failed : BOOLEAN, delayed : BOOLEAN]
    BY StartFrame DEF ChainInv, TypeOK
  <1> DEFINE X == {GiveData(b) : b \in Written} \cup ErrorCalls \cup {Insert, RaiseEnd, Return}
  <1>1. ASSUME Elems(script') \subseteq X
        PROVE  /\ Elems(script') \cap Named({"needWrite"}) = {} /\ Elems(script') \cap Named({"endInput"}) = {}
               /\ RequestBody \notin Asked(script') /\ Elems(script') \cap IdleCalls = {}
    <2> HIDE DEF GiveData, ErrorCalls, Insert, RaiseEnd, Return, EndCalls, IdleCalls, Handing
    <2>1. X \cap Named({"needWrite"}) = {} /\ X \cap Named({"endInput"}) = {} /\ X \cap IdleCalls = {}
      BY CallTags
    <2>2. X \cap Handing(RequestBody) = {}
      <3>1. RequestBody \notin Written
        BY OtherBuffers DEF NotBody
      <3>2. QED BY <3>1, CallTags
    <2>3. QED BY <1>1, <2>1, <2>2 DEF Asked
  <1>2. CASE task'.module = "builder"
    <2>1. UNCHANGED <<parser, reader>> /\ Elems(script') \subseteq ErrorCalls \cup {Insert, RaiseEnd, Return}
      <3>1. task' \notin BodyTasks
        BY TaskSets DEF DataTasks
      <3>2. QED BY <1>2, <3>1, BuilderScript
    <2>2. QED BY <1>1, <2>1
  <1>3. CASE task'.module = "reader"
    <2>1. UNCHANGED parser /\ ReaderAtEnd
      BY <1>3, EndAnswer
    <2>2. CASE Elems(script') \subseteq ErrorCalls \cup {RaiseEnd, Return}
      BY <1>0, <1>1, <1>3, <2>1, <2>2
    <2>3. CASE ReadsOne([reader EXCEPT !.open = TRUE])
      <3>1. [reader EXCEPT !.open = TRUE].left \in 0..FileSize
        BY <1>0
      <3>2. QED BY <1>0, <1>3, <2>1, <2>3, <3>1, ReadsOneCalls
    <2>4. QED BY <2>1, <2>2, <2>3 DEF ReaderAtEnd
  <1>4. CASE task'.module \notin {"builder", "reader"}
    <2>1. UNCHANGED <<parser, reader>>
      BY <1>4, EndAnswer DEF SameModules
    <2>2. Elems(script') \subseteq X
      <3>1. {Headers, Final, Padding, Page} \subseteq Written
        BY OtherBuffers
      <3>2. Elems(script') \subseteq {GiveData(Padding), GiveData(Page), GiveData(Headers), GiveData(Final), RaiseEnd, Return}
        BY <1>4, EndAnswer
      <3> HIDE DEF GiveData, Padding, Page, Headers, Final, RaiseEnd, Return
      <3>3. QED BY <3>1, <3>2
    <2>3. QED BY <1>1, <2>1, <2>2
  <1>5. QED BY <1>2, <1>3, <1>4

LEMMA StartTakes ==
    ASSUME ChainInv, Start
    PROVE  /\ rt'.write_buffers = rt.write_buffers /\ rt'.end_task = rt.end_task
           /\ rt'.call_later_task = rt.call_later_task
           /\ rt'.tasks = Tail(rt.tasks) /\ task' \in Elems(rt.tasks)
           /\ told' = IF task' \in EndTasks THEN told \cup {current'} ELSE told
           /\ \A n : Below(n)' = Below(n)
           /\ task' \in EndTasks => rt'.tasks = <<>> /\ rt'.write_buffers = <<>>
  <1>1. /\ caller = "dispatching" /\ rt' = T!getNextTask(rt) /\ task' = Head(rt.tasks) /\ chain' = chain
        /\ task' \in ChainTasks /\ rt \in T!State
    BY StartFrame
  <1>2. QueueInv(rt) /\ Ready(rt)
    BY <1>1 DEF ChainInv, Bookkeeping
  <1>3. rt'.tasks = Tail(rt.tasks) /\ SameWaits(rt, rt') /\ SamePlans(rt, rt')
    BY <1>1, TakeEffect
  <1>4. task' \in Elems(rt.tasks) /\ (task' \in EndTasks => rt'.tasks = <<>> /\ rt'.write_buffers = <<>>)
    BY <1>1, <1>2, <1>3, TakeTask DEF SameWaits
  <1>5. task'.event = "ON_END" <=> task' \in EndTasks
    BY <1>1, KindsAre, TaskKinds
  <1>6. told' = IF task' \in EndTasks THEN told \cup {current'} ELSE told
    BY <1>5 DEF Start
  <1>7. \A n : Below(n)' = Below(n)
    BY <1>1 DEF Below
  <1>8. QED BY <1>3, <1>4, <1>6, <1>7 DEF SamePlans

\* A module that is not told of the end.
LEMMA OtherStarts ==
    ASSUME HeaderFits, ChainInv, EndPasses, Start, task' \notin EndTasks
    PROVE  EndPasses'
  <1>1. /\ script = <<>> /\ current' = task'.module /\ task' \in ChainTasks /\ task' \in Planned(rt)
        /\ Planned(rt') \subseteq Planned(rt) /\ (Idles(rt') => Idles(rt)) /\ Handed(rt') \subseteq Handed(rt)
        /\ InUse = Handed(rt) /\ (task'.buffer \in Buffers => task'.buffer \in InUse)
        /\ task' \in ReadTasks => Reads(rt)
        /\ task' \in IdleTasks => Idles(rt) /\ ~Idles(rt')
        /\ Still(rt') /\ Elems(script) = {}
    BY StartFrame, NothingAsked
  <1>2. /\ rt'.write_buffers = rt.write_buffers /\ told' = told /\ \A n : Below(n)' = Below(n)
    BY StartTakes
  <1>3. \A m : Untold(m)' <=> Untold(m)
    BY <1>2 DEF Untold
  <1>4. \A t \in Planned(rt') \ IdleTasks : Untold(t.module)'
    BY <1>1, <1>3 DEF EndPasses
  <1>5. /\ task' \in {CanRead} \cup WriteTasks \cup HeadersTasks \cup ResponseTasks
           \/ task' \in PieceTasks \/ task' \in BodyTasks \/ task' \in IdleTasks
    BY <1>1, KindsAre
  <1>6. ASSUME task' \in {CanRead} \cup PieceTasks PROVE Len(parser.buffers) < Pieces /\ told = {} /\ ~Ending
    <2>1. Reading
      BY <1>1, <1>6 DEF ReadTasks, Reading
    <2>2. QED BY <2>1 DEF ChainInv, Parsing, EndPasses
  <1>7. ASSUME task' \in BodyTasks PROVE RequestBody \in InUse /\ told = {} /\ ~(Len(parser.buffers) < Pieces)
    <2>1. task'.buffer = RequestBody /\ RequestBody \in Buffers
      BY <1>1, <1>7, KindsAre, BufferSets
    <2>2. RequestBody \in InUse
      BY <1>1, <2>1
    <2>3. QED BY <2>2 DEF ChainInv, Parsing, EndPasses
  <1>8. ASSUME Idles(rt) PROVE reader.open /\ "reader" \in told /\ told \subseteq UpToReader /\ ~Ending
    <2>1. Idling
      BY <1>8 DEF Idling
    <2>2. QED BY <2>1 DEF ChainInv, Answering, EndPasses
  <1>9. /\ reader'.open = reader.open
        /\ Elems(script') \cap Named({"needWrite"}) # {} => task' \in WriteTasks
        /\ Elems(script') \cap IdleCalls # {} => task' \in IdleTasks /\ Elems(script') \cap EndCalls = {}
    BY <1>5, QuietStarts, PieceStarts, BodyStarts, IdleStarts
  <1>10. ASSUME RequestBody \in Asked(script') \/ Elems(script') \cap Named({"endInput"}) # {} PROVE told = {}
    BY <1>5, <1>6, <1>7, <1>10, QuietStarts, IdleStarts
  <1>11. ASSUME ~Ending PROVE Planned(rt') \cap EndTasks = {}
    BY <1>1, <1>11 DEF Ending
  <1>12. Idling' => told' \subseteq UpToReader /\ ~Ending'
    <2>1. CASE Idles(rt')
      <3>1. "reader" \in told /\ told \subseteq UpToReader /\ ~Ending
        BY <1>1, <1>8, <2>1
      <3>2. task' \in {CanRead} \cup WriteTasks \cup HeadersTasks \cup ResponseTasks
        BY <1>1, <1>5, <1>6, <1>7, <2>1, <3>1
      <3>3. Elems(script') \cap EndCalls = {}
        BY <3>2, QuietStarts
      <3>4. QED BY <1>2, <1>11, <3>1, <3>3 DEF Ending
    <2>2. CASE Elems(script') \cap IdleCalls # {}
      <3>1. task' \in IdleTasks /\ Elems(script') \cap EndCalls = {}
        BY <1>9, <2>2
      <3>2. told \subseteq UpToReader /\ ~Ending
        BY <1>1, <1>8, <3>1
      <3>3. QED BY <1>2, <1>11, <3>1, <3>2 DEF Ending
    <2>3. QED BY <2>1, <2>2 DEF Idling
  <1>13. \A n \in told' : n = current' \/ current' \in Below(n)'
    <2>1. CASE task' \in IdleTasks
      <3>1. current' = "reader" /\ told \subseteq UpToReader
        BY <1>1, <1>8, <2>1, IdleStarts
      <3>2. \A n \in UpToReader \ {"reader"} : "reader" \in Below(n)
        BY DEF UpToReader, Below, Modules, Processing
      <3>3. QED BY <1>2, <3>1, <3>2
    <2>2. CASE task' \notin IdleTasks
      <3>1. Untold(current')
        BY <1>1, <2>2 DEF EndPasses
      <3>2. QED BY <1>2, <3>1 DEF Untold
    <2>3. QED BY <2>1, <2>2
  <1>14. Writing' => Untold("out")'
    <2>1. CASE rt'.write_buffers # <<>>
      BY <1>2, <1>3, <2>1 DEF EndPasses, Writing
    <2>2. CASE Elems(script') \cap Named({"needWrite"}) # {}
      <3>1. task' \in WriteTasks
        BY <1>9, <2>2
      <3>2. task'.module = "out" /\ task' \notin IdleTasks
        BY <1>1, <3>1, KindsAre, TaskSets
      <3>3. QED BY <1>1, <1>3, <3>2 DEF EndPasses
    <2>3. QED BY <2>1, <2>2 DEF Writing
  <1>15. ASSUME Len(parser'.buffers) < Pieces PROVE told' = {} /\ ~Ending'
    <2>1. Len(parser.buffers) < Pieces
      <3>1. Len(parser.buffers) \in Nat
        BY LenProperties DEF ChainInv, TypeOK
      <3>2. parser' = parser \/ Len(parser'.buffers) = Len(parser.buffers) + 1
        BY <1>5, QuietStarts, PieceStarts, BodyStarts, IdleStarts
      <3>3. QED BY <1>15, <3>1, <3>2, RequestChainAssumption
    <2>2. told = {} /\ ~Ending
      BY <2>1 DEF EndPasses
    <2>3. task' \notin BodyTasks /\ task' \notin IdleTasks
      BY <1>1, <1>7, <1>8, <2>1, <2>2
    <2>4. Elems(script') \cap EndCalls = {}
      BY <1>5, <1>15, <2>3, QuietStarts, PieceStarts
    <2>5. QED BY <1>2, <1>11, <2>2, <2>4 DEF Ending
  <1>16. RequestBody \in InUse' \/ Elems(script') \cap Named({"endInput"}) # {} => told' = {}
    <2>1. ASSUME RequestBody \in Handed(rt') PROVE told = {}
      BY <1>1, <2>1 DEF EndPasses
    <2>2. QED BY <1>2, <1>10, <2>1 DEF InUse
  <1>17. Elems(rt'.tasks) \cap EndTasks = {}
    BY <1>1 DEF Still
  <1>18. reader'.open => "reader" \in told'
    BY <1>2, <1>9 DEF EndPasses
  <1>19. QED
    BY <1>4, <1>12, <1>13, <1>14, <1>15, <1>16, <1>17, <1>18 DEF EndPasses

\* A module is told of the end: nothing else was planned.
LEMMA EndTold ==
    ASSUME ChainInv, EndPasses, Start, task' \in EndTasks
    PROVE  EndPasses'
  <1>1. /\ current' = task'.module /\ task' \in ChainTasks /\ task' \in Planned(rt)
        /\ Planned(rt') \subseteq Planned(rt) /\ (Idles(rt') => Idles(rt)) /\ Handed(rt') = {}
        /\ Still(rt') /\ current' \in Modules
    BY StartFrame
  <1>2. /\ rt'.tasks = <<>> /\ rt'.write_buffers = <<>> /\ told' = told \cup {current'} /\ \A n : Below(n)' = Below(n)
        /\ rt'.end_task = rt.end_task /\ rt'.call_later_task = rt.call_later_task /\ task' \in Elems(rt.tasks)
    BY StartTakes
  <1>3. Ending
    BY <1>1 DEF Ending
  <1>4. ~Idles(rt) /\ ~(Len(parser.buffers) < Pieces) /\ rt.end_task = NoTask
    BY <1>2, <1>3 DEF EndPasses, Idling
  <1>5. rt'.call_later_task = NoTask /\ rt'.end_task = NoTask
    BY <1>2, <1>4 DEF Idles
  <1>6. Planned(rt') = {} /\ ~Idles(rt')
    BY <1>2, <1>5, NoTasks
  <1>7. Untold(current') /\ told \subseteq Modules
    <2>1. task' \notin IdleTasks
      BY TaskSets
    <2>2. QED BY <1>1, <2>1 DEF EndPasses, ChainInv, TypeOK
  <1>8. /\ UNCHANGED parser /\ (reader'.open => reader.open \/ current' = "reader")
        /\ Elems(script') \cap Named({"needWrite"}) = {} /\ Elems(script') \cap Named({"endInput"}) = {}
        /\ RequestBody \notin Asked(script')
        /\ Elems(script') \cap IdleCalls # {} => current' = "reader" /\ Elems(script') \cap EndCalls = {}
    BY EndStarts
  <1>9. Idling' => told' \subseteq UpToReader /\ ~Ending'
    <2>1. ASSUME Idling' PROVE current' = "reader" /\ Elems(script') \cap EndCalls = {}
      BY <1>6, <1>8, <2>1 DEF Idling
    <2>2. ASSUME current' = "reader" PROVE told' \subseteq UpToReader
      <3>1. \A n \in told : n \in {"in", "parser", "builder"}
        BY <1>7, <2>2 DEF Untold, Below, Modules, Processing
      <3>2. QED BY <1>2, <2>2, <3>1 DEF UpToReader
    <2>3. QED BY <1>6, <2>1, <2>2 DEF Ending
  <1>10. \A n \in told' : n = current' \/ current' \in Below(n)'
    BY <1>2, <1>7 DEF Untold
  <1>11. RequestBody \notin InUse'
    BY <1>1, <1>8 DEF InUse
  <1>12. ~Writing'
    BY <1>2, <1>8 DEF Writing
  <1>13. reader'.open => "reader" \in told'
    BY <1>2, <1>8 DEF EndPasses
  <1>14. Elems(rt'.tasks) \cap EndTasks = {}
    BY <1>1 DEF Still
  <1>15. QED
    BY <1>4, <1>6, <1>8, <1>9, <1>10, <1>11, <1>12, <1>13, <1>14 DEF EndPasses

LEMMA InitEndPasses == Init => EndPasses
  <1> SUFFICES ASSUME Init PROVE EndPasses
    OBVIOUS
  <1>1. rt.tasks = <<>> /\ rt.write_buffers = <<>> /\ rt.call_later_task = NoTask /\ rt.end_task = NoTask
    BY DEF Init, T!needRead, T!NewTasks, T!Register
  <1>2. Planned(rt) = {} /\ Handed(rt) = {} /\ ~Idles(rt)
    BY <1>1, NoTasks
  <1>3. script = <<>> /\ Elems(script) = {} /\ Asked(script) = {}
    BY NothingAsked DEF Init, Asked
  <1>4. ~Idling /\ ~Ending /\ ~Writing /\ InUse = {} /\ told = {} /\ ~reader.open
    BY <1>1, <1>2, <1>3 DEF Idling, Ending, Writing, InUse, Init
  <1>5. QED BY <1>1, <1>2, <1>3, <1>4 DEF EndPasses

LEMMA NextEndPasses == HeaderFits /\ ChainInv /\ EndPasses /\ [Next]_vars => EndPasses'
  <1> SUFFICES ASSUME HeaderFits, ChainInv, EndPasses, [Next]_vars PROVE EndPasses'
    OBVIOUS
  <1>1. CASE \E expired, due \in BOOLEAN : Poll(expired, due)
    BY <1>1, PollKeepsEnd
  <1>2. CASE KeepWaiting \/ Destroy \/ ReleaseLate \/ ClientSends \/ Report \/ Deliver
    BY <1>2, AroundKeepsEnd
  <1>3. CASE Start
    BY <1>3, OtherStarts, EndTold
  <1>4. CASE ApiCall
    BY <1>4, ApiCallKeepsEnd
  <1>5. CASE Ended \/ UNCHANGED vars
    <2>1. UNCHANGED vars
      BY <1>5 DEF Ended
    <2>2. QED BY <2>1, SameEnd DEF vars
  <1>6. QED BY <1>1, <1>2, <1>3, <1>4, <1>5 DEF Next

\* The end stays in front of the modules it has not reached: whoever is planned
\* to run, FileReader excepted, comes behind every module that was told.
THEOREM EndStaysAhead == HeaderFits => (Spec => [](ChainInv /\ EndPasses))
  <1>1. Init => ChainInv /\ EndPasses
    BY InitChainInv, InitEndPasses
  <1>2. ASSUME HeaderFits PROVE ChainInv /\ EndPasses /\ [Next]_vars => (ChainInv /\ EndPasses)'
    BY <1>2, NextChainInv, NextEndPasses
  <1>3. ASSUME HeaderFits PROVE Spec => [](ChainInv /\ EndPasses)
    BY <1>1, <1>2, <1>3, PTL DEF Spec
  <1>4. QED BY <1>3

\* constants.hpp:48-49: no module is told ON_END twice, and one that was told gets
\* nothing more but the calls that FileReader asked for.
THEOREM EndIsToldAtMostOnce == HeaderFits => (Spec => EndIsToldOnce)
  <1>1. ASSUME ChainInv, EndPasses, Start
        PROVE  /\ task'.event = "ON_END" => task'.module \notin told
               /\ task'.module \in told => task'.module = "reader" /\ task'.event = "ON_IDLE"
    <2>1. task' \in ChainTasks /\ task' \in Planned(rt)
      BY <1>1, StartFrame
    <2>2. \A n \in told : n \notin Below(n)
      <3>1. told \subseteq Modules
        BY <1>1 DEF ChainInv, TypeOK
      <3>2. QED BY <3>1 DEF Below, Modules, Processing
    <2>3. task' \notin IdleTasks => task'.module \notin told
      BY <1>1, <2>1, <2>2 DEF EndPasses, Untold
    <2>4. task' \in IdleTasks => task'.module = "reader" /\ task'.event = "ON_IDLE"
      BY <2>1, KindsAre
    <2>5. QED BY <2>3, <2>4
  <1>2. ASSUME ChainInv, EndPasses, [Next]_vars
        PROVE  /\ [Start /\ task'.event = "ON_END" => task'.module \notin told]_vars
               /\ [Start /\ task'.module \in told => task'.module = "reader" /\ task'.event = "ON_IDLE"]_vars
    BY <1>1, <1>2
  <1>3. ASSUME HeaderFits PROVE Spec => EndIsToldOnce
    BY <1>2, <1>3, EndStaysAhead, PTL DEF Spec, EndIsToldOnce, EndOnce, NothingAfterEnd
  <1>4. QED BY <1>3
-----------------------------------------------------------------------------
(* Back-pressure.                                                            *)

\* The modules behind whom the buffers wait, and how many wait.
Writers == {"out", "pob", "error"}
Waiting == Len(rt.write_buffers)

\* A buffer more is a call less; FileReader and a worker with another task find no
\* more than WriteLimit buffers; before the headers there are none.
WritersRoom ==
    /\ Waiting <= WriteLimit + 2
    /\ script # <<>> => /\ Elems(script) \cap LastCalls # {}
                        /\ current \in Writers => Waiting + Len(script) <= WriteLimit + 3
                        /\ current \notin Writers => Waiting <= WriteLimit
    /\ caller = "dispatching" => Waiting <= IF Head(rt.tasks) \in WriteTasks THEN WriteLimit + 1 ELSE WriteLimit
    /\ ~rt.wait_write /\ ~rt.has_error => Waiting <= WriteLimit
    /\ ~pob.headers /\ chain # CP =>
          /\ rt.write_buffers = <<>> /\ Planned(rt) \cap WriteTasks = {}
          /\ current = "out" => Elems(script) \subseteq Named({"raiseEnd", "return"})
          /\ current = "pob" => Elems(script) \cap Gives(Buffers) = {}

LEMMA WaitEffects ==
    ASSUME NEW s \in T!State
    PROVE  /\ \A t : T!addTask(s, t).wait_write = s.wait_write /\ T!addTask(s, t).has_error = s.has_error
           /\ \A m : T!addEndTask(s, m).wait_write = s.wait_write /\ T!addEndTask(s, m).has_error = s.has_error
           /\ \A m, d : /\ T!addCallLaterTask(s, m, d).wait_write = s.wait_write
                        /\ T!addCallLaterTask(s, m, d).has_error = s.has_error
           /\ T!needRead(s).wait_write = s.wait_write /\ T!needRead(s).has_error = s.has_error
           /\ T!getNextTask(s).wait_write = s.wait_write /\ T!getNextTask(s).has_error = s.has_error
           /\ \A e \in T!SocketEvents : /\ T!handleSocketEvent(s, e).wait_write = s.wait_write
                                        /\ s.has_error => T!handleSocketEvent(s, e).has_error
           /\ \A b : T!needWrite(s, b).wait_write = TRUE
  <1>1. \A t : T!addTask(s, t).wait_write = s.wait_write /\ T!addTask(s, t).has_error = s.has_error
    BY DEF T!addTask, T!State
  <1>2. \A m : T!addEndTask(s, m).wait_write = s.wait_write /\ T!addEndTask(s, m).has_error = s.has_error
    BY DEF T!addEndTask, T!State
  <1>3. \A m, d : /\ T!addCallLaterTask(s, m, d).wait_write = s.wait_write
                  /\ T!addCallLaterTask(s, m, d).has_error = s.has_error
    BY DEF T!addCallLaterTask, T!State
  <1>4. T!needRead(s).wait_write = s.wait_write /\ T!needRead(s).has_error = s.has_error
    BY DEF T!needRead, T!Register, T!State
  <1>5. T!getNextTask(s).wait_write = s.wait_write /\ T!getNextTask(s).has_error = s.has_error
    BY DEF T!getNextTask, T!State
  <1>6. \A e \in T!SocketEvents : /\ T!handleSocketEvent(s, e).wait_write = s.wait_write
                                  /\ s.has_error => T!handleSocketEvent(s, e).has_error
    BY DEF T!handleSocketEvent, T!Unregister, T!State, T!SocketEvents
  <1>7. ASSUME NEW b PROVE T!needWrite(s, b).wait_write = TRUE
    <2> DEFINE q == Append(s.write_buffers, b)
               pushed == [s EXCEPT !.write_buffers = q]
               w == [pushed EXCEPT !.wait_write = TRUE]
    <2>1. \/ s.wait_write /\ T!needWrite(s, b) = pushed
          \/ T!needWrite(s, b) = w \/ T!needWrite(s, b) = [w EXCEPT !.registered = TRUE]
      BY DEF T!needWrite, T!Register
    <2> HIDE DEF q
    <2>2. (s.wait_write => pushed.wait_write = TRUE) /\ w.wait_write = TRUE
          /\ [w EXCEPT !.registered = TRUE].wait_write = TRUE
      BY DEF T!State
    <2>3. QED BY <2>1, <2>2
  <1>8. QED BY <1>1, <1>2, <1>3, <1>4, <1>5, <1>6, <1>7

\* A call hands a buffer to the socket, or changes neither the buffers nor the
\* wait for it; only an error stops that wait, and reset.
BufferWaits ==
    /\ rt'.write_buffers = Append(rt.write_buffers, Arg) /\ Arg \in Written /\ rt'.wait_write = TRUE
    /\ \/ current = "out" /\ Head(script) \in Named({"needWrite"})
       \/ Head(script) \in Gives(Buffers) /\ ((current = "pob" /\ chain # CP) \/ (current = "error" /\ chain = CP))

LEMMA RoomTaken ==
    ASSUME ChainInv, ApiCall
    PROVE  /\ \/ BufferWaits
              \/ /\ rt'.write_buffers = rt.write_buffers
                 /\ \/ rt'.has_error \/ current \in {"builder", "reader"}
                    \/ rt'.wait_write = rt.wait_write /\ rt'.has_error = rt.has_error
           /\ Planned(rt') \cap WriteTasks \subseteq Planned(rt)
           /\ chain' # CP => chain # CP
           /\ current' = current \/ current' = NoModule
  <1>0. rt \in T!State /\ script # <<>> /\ Head(script) = <<Call, Arg>> /\ reader.delayed \in BOOLEAN
        /\ Head(script) \in CallsOf(current) /\ current \in Modules
    BY CallFrameFacts DEF ChainInv, TypeOK
  <1>w. /\ \A t : T!addTask(rt, t).wait_write = rt.wait_write /\ T!addTask(rt, t).has_error = rt.has_error
        /\ \A m : T!addEndTask(rt, m).wait_write = rt.wait_write /\ T!addEndTask(rt, m).has_error = rt.has_error
        /\ \A m, d : /\ T!addCallLaterTask(rt, m, d).wait_write = rt.wait_write
                     /\ T!addCallLaterTask(rt, m, d).has_error = rt.has_error
        /\ T!needRead(rt).wait_write = rt.wait_write /\ T!needRead(rt).has_error = rt.has_error
        /\ \A b : T!needWrite(rt, b).wait_write = TRUE
    BY <1>0, WaitEffects
  <1>1. CASE giveData
    <2>1. CallMade /\ (\A t \in Planned(rt') \ Planned(rt) : t \in DataTasks)
      BY <1>1, GiveDataPlans DEF GivesTask
    <2>2. /\ chain' = chain /\ current' = current /\ Head(script) = GiveData(Arg) /\ Arg \in Buffers
          /\ \/ /\ Arg \in Written /\ rt'.write_buffers = Append(rt.write_buffers, Arg)
                /\ Head(script) \notin AddCalls(current, chain) /\ rt'.tasks = rt.tasks
             \/ /\ rt'.tasks = <<Gift>> \o rt.tasks /\ SamePlans(rt, rt') /\ Head(script) \in AddCalls(current, chain)
      BY <1>1, GiftGoes
    <2>3. Head(script) \in Gives(Buffers)
      BY <2>2 DEF Gives, GiveData
    <2>4. \/ rt' = T!needWrite(rt, Arg) /\ Following(Following(current)) = NoModule
          \/ rt' = T!addTask(rt, Gift) /\ Following(Following(current)) # NoModule
      BY <1>1 DEF giveData, Gift
    <2>5. Following(Following(current)) = NoModule => Head(script) \notin AddCalls(current, chain)
      BY <1>1, <1>0, WhereGivenGoes DEF giveData, Calls
    <2>6. Following(Following(current)) # NoModule => Head(script) \in AddCalls(current, chain)
      BY <1>1, <1>0, WhereGivenGoes DEF giveData, Calls
    <2>7. CASE Head(script) \notin AddCalls(current, chain)
      <3>1. rt'.wait_write = TRUE
        BY <1>w, <2>4, <2>6, <2>7
      <3>2. (current = "pob" /\ chain # CP) \/ (current = "error" /\ chain = CP)
        BY <2>3, <2>7 DEF AddCalls
      <3>3. BufferWaits
        BY <2>2, <2>3, <2>7, <3>1, <3>2 DEF BufferWaits
      <3>4. QED BY <2>1, <2>2, <3>3, TaskSets
    <2>8. CASE Head(script) \in AddCalls(current, chain)
      <3>1. rt'.wait_write = rt.wait_write /\ rt'.has_error = rt.has_error
        BY <1>w, <2>4, <2>5, <2>8
      <3>2. QED BY <2>1, <2>2, <2>8, <3>1, TaskSets DEF SamePlans
    <2>9. QED BY <2>7, <2>8
  <1>2. CASE raiseEnd \/ endInput \/ raiseErrorEnd
    <2>1. /\ CallMade /\ (\A t \in Planned(rt') \ Planned(rt) : PlansEnd(t))
          /\ rt'.write_buffers = rt.write_buffers
      BY <1>2, EndPlans
    <2>2. \A t : PlansEnd(t) => t.event = "ON_END"
      BY DEF PlansEnd, EndFor, T!ModuleTask
    <2>3. \A t \in WriteTasks : t.event # "ON_END"
      BY DEF WriteTasks, Tasks
    <2>4. rt' = rt \/ \E m : rt' = T!addEndTask(rt, m)
      BY <1>2 DEF raiseEnd, endInput, raiseErrorEnd
    <2>5. chain' = chain /\ current' = current
      BY <1>2 DEF raiseEnd, endInput, raiseErrorEnd
    <2>6. rt'.wait_write = rt.wait_write /\ rt'.has_error = rt.has_error
      BY <1>w, <2>4
    <2>7. QED BY <2>1, <2>2, <2>3, <2>5, <2>6
  <1>3. CASE needWrite \/ needRead \/ callLater \/ release \/ insertAfter \/ throws
    <2>1. /\ CallMade /\ Planned(rt') \subseteq Planned(rt) \cup IdleTasks
      BY <1>3, QuietPlans
    <2>2. Planned(rt') \cap WriteTasks \subseteq Planned(rt) /\ current' = current
      BY <2>1, TaskSets DEF CallMade, Frame
    <2>3. CASE needWrite
      <3>1. Call = "needWrite" /\ rt' = T!needWrite(rt, Arg) /\ chain' = chain
        BY <2>3 DEF needWrite, Calls
      <3>2. Arg \in Written /\ Arg \in Buffers
        BY <1>0, <3>1, CallNamed, BufferSets
      <3>3. rt'.write_buffers = Append(rt.write_buffers, Arg) /\ rt'.wait_write = TRUE
        BY <1>w, <1>0, <3>1, <3>2, NeedWriteEffect
      <3>4. Head(script) \in Named({"needWrite"}) /\ Head(script) = NeedWrite(Arg)
        BY <1>0, <3>1, <3>2 DEF Named, NeedWrite
      <3>5. current = "out"
        BY <1>0, <3>4 DEF CallsOf, Named, NeedWrite, Gives, Releasing, Modules, Processing
      <3>6. QED BY <2>2, <3>1, <3>2, <3>3, <3>4, <3>5 DEF BufferWaits
    <2>4. CASE insertAfter
      <3>1. rt' = rt /\ script # <<>> /\ Call = "insertAfter"
        BY <2>4 DEF insertAfter, Calls
      <3>2. chain = C0
        <4>1. Head(script) \in Named({"insertAfter"}) /\ Head(script) \in Elems(script)
          BY <3>1, CallNamed
        <4>2. QED BY <3>1, <4>1 DEF ChainInv, Running
      <3>3. QED BY <2>2, <3>1, <3>2, ShapesAre
    <2>5. CASE needRead \/ callLater \/ release \/ throws
      <3>1. chain' = chain
        BY <2>5 DEF needRead, callLater, release, throws
      <3>2. rt'.write_buffers = rt.write_buffers
        <4>1. CASE needRead
          BY <1>0, <4>1 DEF needRead, T!needRead, T!Register, T!State
        <4>2. CASE callLater
          BY <1>0, <4>2 DEF callLater, T!addCallLaterTask, T!State
        <4>3. CASE release
          BY <4>3 DEF release
        <4>4. CASE throws
          BY <1>0, <4>4, ErrorEffect DEF throws, SameQueue
        <4>5. QED BY <2>5, <4>1, <4>2, <4>3, <4>4
      <3>3. rt'.has_error \/ (rt'.wait_write = rt.wait_write /\ rt'.has_error = rt.has_error)
        <4>1. CASE needRead
          BY <1>w, <4>1 DEF needRead
        <4>2. CASE callLater
          BY <1>w, <4>2 DEF callLater
        <4>3. CASE release
          BY <4>3 DEF release
        <4>4. CASE throws
          BY <1>0, <4>4, ErrorEffect DEF throws
        <4>5. QED BY <2>5, <4>1, <4>2, <4>3, <4>4
      <3>4. QED BY <2>2, <3>1, <3>2, <3>3
    <2>6. QED BY <1>3, <2>3, <2>4, <2>5
  <1>4. CASE raiseErrorReset
    <2>1. /\ Planned(rt') = {} /\ rt'.write_buffers = rt.write_buffers /\ current \in {"builder", "reader"}
          /\ current' = current /\ chain \in {C0, CR}
      BY <1>4, ResetPlans
    <2>2. QED BY <2>1, ShapesAre
  <1>5. CASE returns \/ notifyEndTask
    BY <1>5 DEF returns, notifyEndTask
  <1>6. QED BY <1>1, <1>2, <1>3, <1>4, <1>5 DEF ApiCall

LEMMA ApiCallKeepsRoom ==
    ASSUME ChainInv, ApiCall, WritersRoom
    PROVE  WritersRoom'
  <1>1. /\ caller = "running" /\ script # <<>> /\ script' = Tail(script) /\ script \in Seq(CallsOf(current))
        /\ Elems(script) = Elems(script') \cup {Head(script)} /\ Elems(script') \subseteq Elems(script)
        /\ Head(script) \in Elems(script) /\ pob' = pob /\ current \in Modules
        /\ rt.write_buffers \in Seq(Written) /\ ScriptInv(script, current)
    BY CallFrameFacts, FirstCall DEF QueueInv, QueueType
  <1>2. Waiting \in Nat /\ Len(script) \in Nat \ {0} /\ Len(script') = Len(script) - 1 /\ WriteLimit \in Nat
        /\ (script' = <<>> <=> Len(script) = 1)
    BY <1>1, TailElems, LenProperties, RequestChainAssumption DEF Waiting
  <1>3. /\ \/ BufferWaits
           \/ /\ rt'.write_buffers = rt.write_buffers
              /\ \/ rt'.has_error \/ current \in {"builder", "reader"}
                 \/ rt'.wait_write = rt.wait_write /\ rt'.has_error = rt.has_error
        /\ Planned(rt') \cap WriteTasks \subseteq Planned(rt)
        /\ chain' # CP => chain # CP
        /\ current' = current \/ current' = NoModule
    BY RoomTaken
  <1>4. caller' \in {"running", "polling"}
    BY <1>1 DEF ApiCall, giveData, needWrite, needRead, callLater, raiseEnd, raiseErrorReset, raiseErrorEnd,
           release, insertAfter, endInput, returns, throws, notifyEndTask
  <1>5. Head(script) \in LastCalls => script' = <<>>
    BY <1>1, <1>2 DEF ScriptInv, Elems
  <1>6. script' # <<>> => Elems(script') \cap LastCalls # {} /\ current' = current
    <2>1. script' # <<>> => Elems(script') \cap LastCalls # {}
      BY <1>1, <1>5 DEF WritersRoom
    <2>2. script' # <<>> => current' = current
      <3>1. current' = NoModule /\ current' # current => returns
        BY <1>1 DEF ApiCall, giveData, needWrite, needRead, callLater, raiseEnd, raiseErrorReset, raiseErrorEnd,
           release, insertAfter, endInput, throws, notifyEndTask
      <3>2. returns => Head(script) \in LastCalls
        <4>1. returns => Call = "return"
          BY DEF returns, Calls
        <4>2. Call = "return" => Head(script) \in Named({"return"})
          BY <1>1, CallNamed
        <4>3. QED BY <4>1, <4>2 DEF LastCalls, Named
      <3>3. QED BY <1>3, <1>5, <3>1, <3>2
    <2>3. QED BY <2>1, <2>2
  <1>7. CASE BufferWaits
    <2>1. /\ Waiting' = Waiting + 1 /\ rt'.wait_write = TRUE /\ current \in Writers
      <3>1. /\ rt'.write_buffers = Append(rt.write_buffers, Arg) /\ Arg \in Written /\ rt'.wait_write = TRUE
            /\ current \in Writers
        BY <1>7 DEF BufferWaits, Writers
      <3>2. Len(Append(rt.write_buffers, Arg)) = Len(rt.write_buffers) + 1
        BY <1>1, <3>1
      <3>3. QED BY <3>1, <3>2 DEF Waiting
    <2>2. script' # <<>>
      <3>1. Head(script) \notin LastCalls
        <4>1. Head(script) \in Named({"needWrite"}) \/ Head(script) \in Gives(Buffers)
          BY <1>7 DEF BufferWaits
        <4>2. QED BY <4>1 DEF LastCalls, Named, Gives
      <3>2. QED BY <1>1, <3>1, NothingAsked DEF WritersRoom
    <2>3. Waiting + Len(script) <= WriteLimit + 3
      BY <1>1, <2>1 DEF WritersRoom
    <2>4. ~(~pob.headers /\ chain # CP)
      <3> SUFFICES ASSUME ~pob.headers, chain # CP PROVE FALSE
        OBVIOUS
      <3>1. /\ current = "out" => Elems(script) \subseteq Named({"raiseEnd", "return"})
            /\ current = "pob" => Elems(script) \cap Gives(Buffers) = {}
        BY DEF WritersRoom
      <3>2. Named({"raiseEnd", "return"}) \cap Named({"needWrite"}) = {}
        BY DEF Named
      <3>3. QED BY <1>1, <1>7, <3>1, <3>2 DEF BufferWaits
    <2>5. Waiting' \in Nat
      BY <1>2, <2>1
    <2> HIDE DEF Waiting, BufferWaits
    <2>6. Waiting' <= WriteLimit + 2 /\ Waiting' + Len(script') <= WriteLimit + 3
      BY <1>2, <2>1, <2>2, <2>3
    <2>7. QED BY <1>1, <1>3, <1>4, <1>6, <2>1, <2>4, <2>6 DEF WritersRoom
  <1>8. CASE ~BufferWaits
    <2>1. /\ rt'.write_buffers = rt.write_buffers /\ Waiting' = Waiting
          /\ \/ rt'.has_error \/ current \in {"builder", "reader"}
             \/ rt'.wait_write = rt.wait_write /\ rt'.has_error = rt.has_error
      BY <1>3, <1>8 DEF Waiting
    <2>2. Waiting' <= WriteLimit + 2
      BY <2>1 DEF WritersRoom
    <2>3. script' # <<>> => /\ current' \in Writers => Waiting' + Len(script') <= WriteLimit + 3
                            /\ current' \notin Writers => Waiting' <= WriteLimit
      <3>1. ASSUME script' # <<>>, current \in Writers PROVE Waiting' + Len(script') <= WriteLimit + 3
        <4>1. Waiting + Len(script) <= WriteLimit + 3
          BY <1>1, <3>1 DEF WritersRoom
        <4> HIDE DEF Waiting
        <4>2. QED BY <1>2, <2>1, <4>1
      <3>2. current \notin Writers => Waiting' <= WriteLimit
        BY <1>1, <2>1 DEF WritersRoom
      <3>3. QED BY <1>6, <3>1, <3>2
    <2>4. ~rt'.wait_write /\ ~rt'.has_error => Waiting' <= WriteLimit
      <3>1. current \in {"builder", "reader"} => Waiting <= WriteLimit
        BY <1>1 DEF WritersRoom, Writers
      <3>2. QED BY <2>1, <3>1 DEF WritersRoom
    <2>5. ~pob'.headers /\ chain' # CP =>
             /\ rt'.write_buffers = <<>> /\ Planned(rt') \cap WriteTasks = {}
             /\ current' = "out" => Elems(script') \subseteq Named({"raiseEnd", "return"})
             /\ current' = "pob" => Elems(script') \cap Gives(Buffers) = {}
      <3> SUFFICES ASSUME ~pob'.headers, chain' # CP
                   PROVE  /\ rt'.write_buffers = <<>> /\ Planned(rt') \cap WriteTasks = {}
                          /\ current' = "out" => Elems(script') \subseteq Named({"raiseEnd", "return"})
                          /\ current' = "pob" => Elems(script') \cap Gives(Buffers) = {}
        OBVIOUS
      <3>1. /\ rt.write_buffers = <<>> /\ Planned(rt) \cap WriteTasks = {}
            /\ current = "out" => Elems(script) \subseteq Named({"raiseEnd", "return"})
            /\ current = "pob" => Elems(script) \cap Gives(Buffers) = {}
        BY <1>1, <1>3 DEF WritersRoom
      <3>2. NoModule \notin {"out", "pob"}
        BY ChainNext, CallFrameFacts, NullAssumption DEF Modules
      <3>3. QED BY <1>1, <1>3, <2>1, <3>1, <3>2
    <2>6. caller' # "dispatching"
      BY <1>4
    <2>7. QED BY <1>6, <2>2, <2>3, <2>4, <2>5, <2>6 DEF WritersRoom
  <1>9. QED BY <1>7, <1>8

LEMMA PollKeepsRoom ==
    ASSUME ChainInv, WritersRoom, NEW expired \in BOOLEAN, NEW due \in BOOLEAN, Poll(expired, due)
    PROVE  WritersRoom'
  <1>1. /\ rt' = T!hasWork(rt, expired, due) /\ caller = "polling" /\ UNCHANGED Request
        /\ caller' = IF T!HasWorkResult(rt') THEN "dispatching" ELSE "noWork"
        /\ script = <<>> /\ script' = <<>> /\ Elems(script) = {}
        /\ TP!Consistent(rt) /\ QueueInv(rt) /\ Still(rt)
    BY PollFacts
  <1>2. UNCHANGED <<chain, pob, current>>
    BY <1>1 DEF Request
  <1>3. /\ \/ rt'.has_error /\ SameQueue(rt, rt')
           \/ ~rt.has_error /\ ~rt'.has_error /\ Writes(rt, rt')
        /\ Planned(rt') \subseteq Planned(rt)
              \cup (IF rt.wait_read THEN {CanRead} ELSE {})
              \cup (IF rt.write_buffers # <<>> THEN {WriteTask(Head(rt.write_buffers))} ELSE {})
        /\ rt'.write_buffers # <<>> => rt.write_buffers # <<>>
    BY <1>1, HasWorkEffect
  <1>4. rt.write_buffers \in Seq(Written) /\ Waiting \in Nat /\ WriteLimit \in Nat
    BY <1>1, LenProperties, RequestChainAssumption DEF QueueInv, QueueType, Waiting
  <1>5. caller' = "dispatching" => ~rt'.has_error
    BY <1>1 DEF T!HasWorkResult
  <1>6. ~pob'.headers /\ chain' # CP => rt'.write_buffers = <<>> /\ Planned(rt') \cap WriteTasks = {}
    <2>1. CanRead \notin WriteTasks
      BY TaskSets
    <2>2. QED BY <1>2, <1>3, <2>1 DEF WritersRoom
  <1>7. Elems(script') = {}
    BY <1>1
  <1>8. CASE rt'.has_error /\ SameQueue(rt, rt')
    <2>1. Waiting' = Waiting
      BY <1>8 DEF SameQueue, Waiting
    <2>2. QED BY <1>1, <1>2, <1>5, <1>6, <1>7, <1>8, <2>1 DEF WritersRoom
  <1>9. CASE ~rt.has_error /\ ~rt'.has_error /\ Writes(rt, rt')
    <2>1. CASE /\ rt'.write_buffers = rt.write_buffers /\ rt'.wait_write = rt.wait_write
               /\ rt.wait_write => Len(rt.write_buffers) <= WriteLimit
      <3>1. Waiting' = Waiting /\ Waiting <= WriteLimit
        BY <1>9, <2>1 DEF Waiting, WritersRoom
      <3> HIDE DEF Waiting
      <3>2. Waiting' <= WriteLimit + 1 /\ Waiting' <= WriteLimit + 2 /\ Waiting' <= WriteLimit
        BY <1>4, <3>1
      <3>3. QED BY <1>1, <1>2, <1>6, <1>7, <3>2 DEF WritersRoom
    <2>2. CASE /\ rt.write_buffers # <<>> /\ rt'.write_buffers = Tail(rt.write_buffers)
               /\ rt'.wait_write = (Len(rt.write_buffers) > 1)
               /\ rt'.tasks # <<>> /\ Head(rt'.tasks) = WriteTask(Head(rt.write_buffers))
               /\ Head(rt'.tasks) \in WriteTasks
      <3>1. Waiting' = Waiting - 1 /\ Waiting \in Nat \ {0}
        BY <1>4, <2>2, TailElems DEF Waiting
      <3>2. Waiting <= WriteLimit + 2
        BY DEF WritersRoom
      <3>3. ~rt'.wait_write => ~(Waiting > 1)
        BY <2>2 DEF Waiting
      <3> HIDE DEF Waiting
      <3>4. Waiting' <= WriteLimit + 1 /\ Waiting' <= WriteLimit + 2
        BY <1>4, <3>1, <3>2
      <3>5. ~rt'.wait_write => Waiting' <= WriteLimit
        BY <1>4, <3>1, <3>3
      <3>6. QED BY <1>1, <1>2, <1>6, <1>7, <2>2, <3>4, <3>5 DEF WritersRoom
    <2>3. QED BY <1>9, <2>1, <2>2 DEF Writes
  <1>10. QED BY <1>3, <1>8, <1>9

\* The other steps hand nothing over.
LEMMA SameRoom ==
    ASSUME WritersRoom, rt'.write_buffers = rt.write_buffers, rt'.tasks = rt.tasks, Planned(rt') = Planned(rt),
           rt'.wait_write = rt.wait_write, rt.has_error => rt'.has_error,
           UNCHANGED <<script, chain, current, pob>>, caller' = "dispatching" => caller = "dispatching"
    PROVE  WritersRoom'
  <1>1. Waiting' = Waiting
    BY DEF Waiting
  <1>2. QED BY <1>1 DEF WritersRoom

LEMMA AroundKeepsRoom ==
    ASSUME ChainInv, WritersRoom,
           KeepWaiting \/ Destroy \/ ReleaseLate \/ ClientSends \/ Report \/ Deliver
    PROVE  WritersRoom'
  <1>1. CASE KeepWaiting \/ Destroy \/ ReleaseLate \/ ClientSends \/ Report
    <2>1. UNCHANGED <<rt, script, chain, current, pob>> /\ (caller' = "dispatching" => caller = "dispatching")
      BY <1>1 DEF KeepWaiting, Destroy, ReleaseLate, ClientSends, Report, Request
    <2>2. QED BY <2>1, SameRoom
  <1>2. CASE Deliver
    <2>1. /\ reported \in T!SocketEvents /\ rt' = T!handleSocketEvent(rt, reported)
          /\ UNCHANGED <<script, chain, current, pob, caller>>
      BY <1>2 DEF ChainInv, TypeOK, Deliver, Request
    <2>2. TP!Consistent(rt) /\ rt \in T!State /\ QueueInv(rt)
      BY ConsistentType DEF ChainInv, Bookkeeping
    <2>3. SameQueue(rt, rt') /\ rt'.wait_read = rt.wait_read
      BY <2>1, <2>2, SocketEffect
    <2>4. Planned(rt') = Planned(rt)
      BY <2>2, <2>3, SameTasks
    <2>5. rt'.wait_write = rt.wait_write /\ (rt.has_error => rt'.has_error)
      BY <2>1, <2>2, WaitEffects
    <2>6. QED BY <2>1, <2>3, <2>4, <2>5, SameRoom DEF SameQueue
  <1>3. QED BY <1>1, <1>2

LEMMA InitWritersRoom == Init => WritersRoom
  <1> SUFFICES ASSUME Init PROVE WritersRoom
    OBVIOUS
  <1>1. rt.tasks = <<>> /\ rt.write_buffers = <<>> /\ rt.call_later_task = NoTask /\ rt.end_task = NoTask
    BY DEF Init, T!needRead, T!NewTasks, T!Register
  <1>2. Planned(rt) = {} /\ script = <<>> /\ Elems(script) = {} /\ caller = "polling"
    BY <1>1, NoTasks, NothingAsked DEF Init
  <1>3. Waiting = 0
    BY <1>1 DEF Waiting
  <1>4. QED BY <1>1, <1>2, <1>3, RequestChainAssumption DEF WritersRoom

\* Every answer ends with return, or with the report of an error.
LEMMA ScriptEnds ==
    ASSUME ChainInv, Start
    PROVE  Elems(script') \cap LastCalls # {}
  <1>1. Return \in LastCalls /\ \A b \in Buffers \cup {NoBuffer} : NotifyEndTask(b) \in LastCalls
    BY DEF LastCalls, Named, Return, NotifyEndTask
  <1>2. /\ task' \in ChainTasks
        /\ task' = CanRead \/ task' \in WriteTasks \/ task' \in PieceTasks \/ task' \in BodyTasks \/ task' \in HeadersTasks
             \/ task' \in ResponseTasks \/ task' \in IdleTasks \/ task' \in EndTasks
    BY StartFrame, KindsAre
  <1> HIDE DEF Return, NotifyEndTask
  <1>3. CASE task' = CanRead
    BY <1>1, <1>3, ReadAnswer
  <1>4. CASE task' \in WriteTasks
    <2>1. task'.buffer \in Buffers
      BY <1>4, TaskSets, BufferSets
    <2>2. Return \in Elems(script') \/ NotifyEndTask(task'.buffer) \in Elems(script')
      BY <1>4, WriteAnswer
    <2>3. QED BY <1>1, <2>1, <2>2
  <1>5. CASE task' \in PieceTasks
    <2>1. Return \in Elems(script')
      BY <1>5, PieceAnswer
    <2>2. QED BY <1>1, <2>1
  <1>6. CASE task' \in BodyTasks \cup EndTasks /\ task'.module = "builder"
    <2>1. Return \in Elems(script')
      BY <1>6, BuilderScript
    <2>2. QED BY <1>1, <2>1
  <1>7. CASE task' \in BodyTasks /\ task'.module # "builder"
    <2>1. Return \in Elems(script')
      BY <1>7, BodyAnswer
    <2>2. QED BY <1>1, <2>1
  <1>8. CASE task' \in EndTasks /\ task'.module # "builder"
    <2>1. Return \in Elems(script')
      BY <1>8, EndAnswer DEF ReaderAtEnd, ReadsOne
    <2>2. QED BY <1>1, <2>1
  <1>9. CASE task' \in HeadersTasks
    BY <1>1, <1>9, HeadersAnswer
  <1>10. CASE task' \in ResponseTasks
    <2>1. Return \in Elems(script')
      BY <1>10, ResponseAnswer
    <2>2. QED BY <1>1, <2>1
  <1>11. CASE task' \in IdleTasks
    <2>1. Return \in Elems(script')
      BY <1>11, IdleAnswer DEF ReadsOne
    <2>2. QED BY <1>1, <2>1
  <1>12. QED BY <1>2, <1>3, <1>4, <1>5, <1>6, <1>7, <1>8, <1>9, <1>10, <1>11

\* What the modules of the response answer with is short.
LEMMA AnswersAreShort ==
    ASSUME ChainInv, Start, current' \in Writers
    PROVE  /\ task' \in WriteTasks => Len(script') = 2
           /\ \/ Len(script') \in {2, 3}
              \/ Len(script') = 4 /\ (task' \in EndTasks \/ (task' \in ResponseTasks /\ ~pob.headers))
           /\ pob'.headers = pob.headers \/ pob'.headers = TRUE
           /\ ~pob'.headers => /\ current' = "out" /\ task' \notin WriteTasks => Elems(script') = {RaiseEnd, Return}
                               /\ current' = "pob" => Elems(script') = {Release(task'.buffer), EndInput, Return}
  <1>1. /\ task' \in ChainTasks /\ current' = task'.module
        /\ pob \in [headers : BOOLEAN, chunked : BOOLEAN]
    BY StartFrame DEF ChainInv, TypeOK
  <1>2. /\ task' = CanRead => task'.module = "in"
        /\ task' \in PieceTasks => task'.module = "parser"
        /\ task' \in IdleTasks => task'.module = "reader"
        /\ task' \in WriteTasks => task'.module = "out"
        /\ task' \in HeadersTasks => task'.module = "error"
        /\ task' \in ResponseTasks => task'.module = "pob"
        /\ task' \in BodyTasks => task'.module # "out"
        /\ task' = CanRead \/ task' \in WriteTasks \/ task' \in PieceTasks \/ task' \in BodyTasks \/ task' \in HeadersTasks
             \/ task' \in ResponseTasks \/ task' \in IdleTasks \/ task' \in EndTasks
    BY <1>1, KindsAre
  <1>3. \/ task' \in WriteTasks \/ task' \in BodyTasks \/ task' \in HeadersTasks \/ task' \in ResponseTasks \/ task' \in EndTasks
    BY <1>1, <1>2 DEF Writers
  <1>4. current' # "builder" /\ task'.module # "reader" /\ task'.module # "in"
    BY <1>1 DEF Writers
  <1> HIDE DEF Writers
  <1>5. CASE task' \in WriteTasks
    <2>1. pob' = pob /\ Len(script') = 2
      BY <1>5, WriteAnswer DEF SameModules
    <2>2. QED BY <1>1, <1>2, <1>5, <2>1
  <1>6. CASE task' \in BodyTasks
    <2>1. /\ pob' = pob /\ Len(script') \in {2, 3}
          /\ \/ task'.module \in {"reader", "pob"} /\ Elems(script') = {Release(task'.buffer), EndInput, Return}
             \/ task'.module = "error"
      BY <1>1, <1>4, <1>6, BodyAnswer DEF SameModules
    <2>2. task' \notin WriteTasks
      BY <1>6, TaskSets DEF DataTasks
    <2>3. QED BY <1>1, <1>2, <1>6, <2>1, <2>2
  <1>7. CASE task' \in HeadersTasks
    <2>1. pob' = pob /\ Len(script') = 2
      BY <1>7, HeadersAnswer DEF SameModules
    <2>2. QED BY <1>1, <1>2, <1>7, <2>1
  <1>8. CASE task' \in ResponseTasks
    <2>1. pob'.headers = TRUE /\ Len(script') = (IF pob.headers THEN 0 ELSE 1) + (IF pob'.chunked THEN 1 ELSE 0) + 2
      BY <1>8, ResponseAnswer
    <2>2. task' \notin WriteTasks
      BY <1>8, TaskSets
    <2>3. QED BY <1>8, <2>1, <2>2
  <1>9. CASE task' \in EndTasks
    <2>1. task' \notin WriteTasks
      BY <1>9, TaskSets
    <2>2. \/ task'.module = "out" /\ pob' = pob /\ Elems(script') = {RaiseEnd, Return} /\ Len(script') = 2
          \/ task'.module \notin {"out", "pob"} /\ pob' = pob /\ Len(script') \in {2, 4}
          \/ task'.module = "pob" /\ pob'.headers = TRUE /\ Len(script') \in {2, 3}
      BY <1>1, <1>4, <1>9, EndAnswer DEF SameModules
    <2>3. QED BY <1>1, <1>9, <2>1, <2>2
  <1>10. QED BY <1>3, <1>5, <1>6, <1>7, <1>8, <1>9

LEMMA HeadersStay ==
    ASSUME ChainInv, Start
    PROVE  pob'.headers = pob.headers \/ pob'.headers = TRUE
  <1>1. current' = task'.module /\ ProcessRequest(task') /\ pob \in [headers : BOOLEAN, chunked : BOOLEAN]
    BY StartFrame DEF ChainInv, TypeOK
  <1>2. pob' = pob \/ PreOutputData(task') \/ PreOutputEnd(task')
    BY <1>1 DEF ProcessRequest, NetworkRead, NetworkWrite, NetworkEnd, ParserIncomplete, ParserComplete, ParserEnd,
       BuilderFirst, BuilderAgain, ReaderIdle, ReaderEnd, ReaderData, ErrorEnd, ErrorData, PreOutputRequestData,
       SameModules
  <1>3. QED BY <1>1, <1>2 DEF PreOutputData, PreOutputEnd

LEMMA StartKeepsRoom ==
    ASSUME ChainInv, WritersRoom, Start
    PROVE  WritersRoom'
  <1>1. /\ caller = "dispatching" /\ caller' = "running" /\ rt' = T!getNextTask(rt) /\ task' = Head(rt.tasks)
        /\ chain' = chain /\ current' = task'.module /\ task' \in ChainTasks /\ task' \in Planned(rt)
        /\ Planned(rt') \subseteq Planned(rt) /\ rt \in T!State
    BY StartFrame
  <1>2. rt'.write_buffers = rt.write_buffers /\ (task' \in EndTasks => rt'.write_buffers = <<>>)
    BY StartTakes
  <1>3. rt'.wait_write = rt.wait_write /\ rt'.has_error = rt.has_error
    BY <1>1, WaitEffects
  <1>4. Waiting' = Waiting /\ Waiting \in Nat /\ WriteLimit \in Nat \ {0}
    <2>1. rt.write_buffers \in Seq(Written)
      BY DEF ChainInv, Bookkeeping, QueueInv, QueueType
    <2>2. QED BY <1>2, <2>1, LenProperties, RequestChainAssumption DEF Waiting
  <1>5. Waiting <= (IF task' \in WriteTasks THEN WriteLimit + 1 ELSE WriteLimit) /\ Waiting <= WriteLimit + 2
    BY <1>1 DEF WritersRoom
  <1>6. Elems(script') \cap LastCalls # {}
    BY ScriptEnds
  <1>7. ASSUME current' \in Writers PROVE Waiting' + Len(script') <= WriteLimit + 3
    <2>1. /\ task' \in WriteTasks => Len(script') = 2
          /\ \/ Len(script') \in {2, 3}
             \/ Len(script') = 4 /\ (task' \in EndTasks \/ (task' \in ResponseTasks /\ ~pob.headers))
      BY <1>7, AnswersAreShort
    <2>2. task' \in EndTasks => Waiting = 0
      BY <1>2 DEF Waiting
    <2>3. task' \in ResponseTasks /\ ~pob.headers => Waiting = 0
      <3> SUFFICES ASSUME task' \in ResponseTasks, ~pob.headers PROVE Waiting = 0
        OBVIOUS
      <3>1. task'.buffer \in Pages \cup DataBuffers /\ Coming(task'.buffer)
        BY <1>1, KindsAre DEF Coming
      <3>2. chain # CP
        BY <3>1, ShapesAre DEF ChainInv, Answering
      <3>3. rt.write_buffers = <<>>
        BY <3>2 DEF WritersRoom
      <3>4. QED BY <3>3 DEF Waiting
    <2> DEFINE w == Waiting
               n == Len(script')
    <2>4. /\ w \in Nat /\ Waiting' = w /\ n \in {2, 3, 4}
          /\ n = 4 => w = 0
          /\ n = 3 => w <= WriteLimit
          /\ w <= WriteLimit + 1
      <3> HIDE DEF Waiting
      <3>1. n = 3 => task' \notin WriteTasks
        BY <2>1
      <3>2. QED BY <1>4, <1>5, <2>1, <2>2, <2>3, <3>1
    <2> HIDE DEF w, n
    <2>5. w + n <= WriteLimit + 3
      BY <1>4, <2>4
    <2>6. QED BY <2>4, <2>5 DEF n
  <1>8. current' \notin Writers => Waiting' <= WriteLimit
    <2>1. task' \in WriteTasks => current' \in Writers
      BY <1>1, KindsAre DEF Writers
    <2>2. QED BY <1>4, <1>5, <2>1
  <1>9. ~rt'.wait_write /\ ~rt'.has_error => Waiting' <= WriteLimit
    BY <1>3, <1>4 DEF WritersRoom
  <1>10. ASSUME ~pob'.headers, chain' # CP
         PROVE  /\ rt'.write_buffers = <<>> /\ Planned(rt') \cap WriteTasks = {}
                /\ current' = "out" => Elems(script') \subseteq Named({"raiseEnd", "return"})
                /\ current' = "pob" => Elems(script') \cap Gives(Buffers) = {}
    <2>1. ~pob.headers /\ chain # CP
      BY <1>1, <1>10, HeadersStay
    <2>2. rt.write_buffers = <<>> /\ Planned(rt) \cap WriteTasks = {}
      BY <2>1 DEF WritersRoom
    <2>3. task' \notin WriteTasks
      BY <1>1, <2>2
    <2>4. current' = "out" => Elems(script') = {RaiseEnd, Return}
      BY <1>10, <2>3, AnswersAreShort DEF Writers
    <2>5. current' = "pob" => Elems(script') = {Release(task'.buffer), EndInput, Return}
      BY <1>10, AnswersAreShort DEF Writers
    <2>6. {RaiseEnd, Return} \subseteq Named({"raiseEnd", "return"})
      BY DEF RaiseEnd, Return, Named
    <2>7. {Release(task'.buffer), EndInput, Return} \cap Gives(Buffers) = {}
      BY DEF Release, EndInput, Return, Gives
    <2>8. QED BY <1>1, <1>2, <2>2, <2>4, <2>5, <2>6, <2>7
  <1>11. Waiting' <= WriteLimit + 2
    BY <1>4, <1>5
  <1> HIDE DEF Waiting
  <1>12. QED BY <1>1, <1>6, <1>7, <1>8, <1>9, <1>10, <1>11 DEF WritersRoom

LEMMA NextWritersRoom == ChainInv /\ WritersRoom /\ [Next]_vars => WritersRoom'
  <1> SUFFICES ASSUME ChainInv, WritersRoom, [Next]_vars PROVE WritersRoom'
    OBVIOUS
  <1>1. CASE \E expired, due \in BOOLEAN : Poll(expired, due)
    BY <1>1, PollKeepsRoom
  <1>2. CASE KeepWaiting \/ Destroy \/ ReleaseLate \/ ClientSends \/ Report \/ Deliver
    BY <1>2, AroundKeepsRoom
  <1>3. CASE Start
    BY <1>3, StartKeepsRoom
  <1>4. CASE ApiCall
    BY <1>4, ApiCallKeepsRoom
  <1>5. CASE Ended \/ UNCHANGED vars
    <2>1. UNCHANGED vars
      BY <1>5 DEF Ended
    <2>2. QED BY <2>1, SameRoom DEF vars
  <1>6. QED BY <1>1, <1>2, <1>3, <1>4, <1>5 DEF Next

\* RequestTasks.cpp:141: no more buffers wait for the socket than the limit and
\* what one handler adds, whatever the size of the file and the limit.
THEOREM BuffersStayFew == Spec => []BackPressure
  <1>1. Init => ChainInv /\ WritersRoom
    BY InitChainInv, InitWritersRoom
  <1>2. ChainInv /\ WritersRoom /\ [Next]_vars => (ChainInv /\ WritersRoom)'
    BY NextChainInv, NextWritersRoom
  <1>3. WritersRoom => BackPressure
    BY DEF WritersRoom, BackPressure, Waiting
  <1>4. QED BY <1>1, <1>2, <1>3, PTL DEF Spec
-----------------------------------------------------------------------------
(* Who owns a buffer.                                                        *)

\* The buffers a script names; the hands a buffer can be in, besides the tasks
\* and _write_buffers (Handed): the running module's, the parser's, those of a
\* ModuleTask that failed.
BuffersOf(q) == {c[2] : c \in Elems(q)} \ {NoBuffer}
InHand == BuffersOf(script) \ {Orphan}
Keeping == IF parser.completed THEN {} ELSE Elems(parser.buffers)
Late == {late} \ {NoBuffer}
Held == Handed(rt) \cup InHand \cup Keeping \cup Late
Spent == live \cup freed

\* Only these calls name a buffer, and each its own.
Carriers == {"giveData", "needWrite", "release", "notifyEndTask"}
Tidy(q) == \A c \in Elems(q) : c = Throw(Orphan) \/ c[2] = NoBuffer \/ (c[1] \in Carriers /\ c[2] # Orphan)
OnceEach(q) == \A i, j \in DOMAIN q : q[i][2] = q[j][2] /\ q[i][2] # NoBuffer => i = j
Injective(q) == \A i, j \in DOMAIN q : q[i] = q[j] => i = j

\* No buffer is in two hands.
Apart ==
    /\ OnceEach(script) /\ Tidy(script) /\ (~parser.completed => Injective(parser.buffers))
    /\ InHand \cap Handed(rt) = {} /\ InHand \cap Keeping = {} /\ Keeping \cap Handed(rt) = {}
    /\ Late \cap Handed(rt) = {} /\ Late \cap Keeping = {}
    /\ late # NoBuffer => rt.has_error /\ caller \in {"polling", "noWork"}
    /\ Orphan \notin Held

\* The file had an error while buffers waited for the socket: reset released
\* them and kept them, and nothing will happen to the request any more.
Stuck ==
    /\ reader.failed /\ rt.write_buffers # <<>> /\ rt.tasks = <<>> /\ rt.call_later_task = NoTask
    /\ ~rt.wait_read /\ ~rt.wait_write
    /\ Elems(script) \subseteq Named({"endError", "return"})

\* Every live buffer is in a hand, and every buffer in a hand is live.
Alive ==
    /\ live \cap freed = {} /\ live \ {Orphan} \subseteq Held /\ Held \subseteq Spent /\ Orphan \notin freed
    /\ Held \subseteq live \/ (Stuck /\ Held \subseteq live \cup WriteBuffers(rt))

\* A module makes a buffer that there was not before.
Asks == rt.wait_read \/ CanRead \in Planned(rt) \/ Elems(script) \cap Named({"needRead"}) # {}
Fresh ==
    /\ \A n \in 1..Pieces : Piece(n) \in Spent =>
          n <= Len(parser.buffers) + 1 /\ (Asks => n <= Len(parser.buffers))
    /\ ~pob.headers => Headers \notin Spent
    /\ Final \in Spent => "pob" \in told
    /\ Spent \cap Pages # {} => "error" \in told
    /\ \A b \in Pages : ChunkInfo(b) \in Spent =>
          ~Coming(b) /\ ~(current = "error" /\ Given(b)) /\ "error" \in told
    /\ \A n \in 1..FileSize : Data(n) \in Spent => n <= FileSize - reader.left
    /\ Len(parser.buffers) < Pieces => RequestBody \notin Spent
    /\ Len(parser.buffers) < Pieces <=> ~parser.completed

Ledger == caller # "ended" => Apart /\ Alive /\ Fresh
Gone == caller = "ended" => live \cap freed = {} /\ live \subseteq {late, Orphan}

LEMMA CountOne ==
    ASSUME NEW A, \A i, j \in A : i = j
    PROVE  Cardinality(A) = IF A = {} THEN 0 ELSE 1
  <1>1. CASE A = {}
    BY <1>1, FS_EmptySet
  <1>2. CASE A # {}
    <2>1. PICK x : x \in A
      BY <1>2
    <2>2. A = {x}
      BY <2>1
    <2>3. QED BY <1>2, <2>2, FS_Singleton
  <1>3. QED BY <1>1, <1>2

LEMMA HeldOnce ==
    ASSUME ChainInv, Apart, NEW b \in Buffers \ {Orphan}
    PROVE  Owners(b) = IF b \in Held THEN 1 ELSE 0
  <1> DEFINE A == {i \in DOMAIN rt.tasks : rt.tasks[i].buffer = b}
             W == {i \in DOMAIN rt.write_buffers : rt.write_buffers[i] = b}
             S == {i \in DOMAIN script : script[i][2] = b}
             K == {i \in DOMAIN parser.buffers : parser.buffers[i] = b}
  <1>0. b # NoBuffer /\ QueueInv(rt)
    BY NullAssumption DEF ChainInv, Bookkeeping
  <1>1. Cardinality(A) = IF b \in TaskBuffers(rt) THEN 1 ELSE 0
    <2>1. Once(rt.tasks, With(b)) /\ Elems(rt.tasks) \subseteq ChainTasks
      BY <1>0, ElemsSeq DEF QueueInv, Unshared, QueueType
    <2>2. \A i, j \in A : i = j
      BY <2>1 DEF Once, With, Elems
    <2>3. A = {} <=> b \notin TaskBuffers(rt)
      BY <1>0 DEF TaskBuffers
    <2> HIDE DEF A
    <2>4. QED BY <2>2, <2>3, CountOne
  <1>2. Cardinality(W) = IF b \in WriteBuffers(rt) THEN 1 ELSE 0
    <2>1. Once(rt.write_buffers, {b})
      BY <1>0 DEF QueueInv, Unshared
    <2>2. \A i, j \in W : i = j
      BY <2>1 DEF Once
    <2>3. W = {} <=> b \notin WriteBuffers(rt)
      BY DEF WriteBuffers
    <2> HIDE DEF W
    <2>4. QED BY <2>2, <2>3, CountOne
  <1>3. Cardinality(S) = IF b \in InHand THEN 1 ELSE 0
    <2>1. \A i, j \in S : i = j
      BY <1>0 DEF Apart, OnceEach
    <2>2. S = {} <=> b \notin InHand
      BY <1>0 DEF InHand, BuffersOf, Elems
    <2> HIDE DEF S
    <2>3. QED BY <2>1, <2>2, CountOne
  <1>4. (IF ~parser.completed THEN Cardinality(K) ELSE 0) = IF b \in Keeping THEN 1 ELSE 0
    <2>1. CASE parser.completed
      BY <2>1 DEF Keeping
    <2>2. CASE ~parser.completed
      <3>1. \A i, j \in K : i = j
        BY <2>2 DEF Apart, Injective
      <3>2. K = {} <=> b \notin Keeping
        BY <2>2 DEF Keeping, Elems
      <3> HIDE DEF K
      <3>3. QED BY <2>2, <3>1, <3>2, CountOne
    <2>3. QED BY <2>1, <2>2
  <1>5. (IF b = late THEN 1 ELSE 0) = IF b \in Late THEN 1 ELSE 0
    BY <1>0 DEF Late
  <1>6. \/ b \notin TaskBuffers(rt) \/ b \notin WriteBuffers(rt)
    BY <1>0 DEF QueueInv, Unshared
  <1>7. ~(late # NoBuffer /\ script # <<>>)
    BY DEF Apart, ChainInv, Running
  <1>8. b \notin Late \/ b \notin InHand
    <2>1. script = <<>> => InHand = {}
      BY NothingAsked DEF InHand, BuffersOf
    <2>2. QED BY <1>7, <2>1 DEF Late
  <1> DEFINE a == Cardinality(A)
             w == Cardinality(W)
             s == Cardinality(S)
             k == IF ~parser.completed THEN Cardinality(K) ELSE 0
             l == IF b = late THEN 1 ELSE 0
  <1>9. Owners(b) = a + w + s + k + l
    BY DEF Owners
  <1> HIDE DEF A, W, S, K, Late, Keeping, InHand
  <1>10. /\ a = (IF b \in TaskBuffers(rt) THEN 1 ELSE 0) /\ w = (IF b \in WriteBuffers(rt) THEN 1 ELSE 0)
         /\ s = (IF b \in InHand THEN 1 ELSE 0) /\ k = (IF b \in Keeping THEN 1 ELSE 0)
         /\ l = (IF b \in Late THEN 1 ELSE 0)
    BY <1>1, <1>2, <1>3, <1>4, <1>5
  <1> HIDE DEF a, w, s, k, l
  <1>11. QED BY <1>6, <1>8, <1>9, <1>10 DEF Apart, Held, Handed

\* The books balance: a live buffer has one owner, a released one none.
LEMMA LedgerOwners ==
    ASSUME ChainInv, Ledger, Gone
    PROVE  OneOwner
  <1>1. live \cap freed = {} /\ (caller = "ended" => live \subseteq {late, Orphan})
    BY DEF Ledger, Gone, Alive
  <1>2. live \cup freed \subseteq Buffers
    BY DEF ChainInv, TypeOK
  <1>3. ASSUME caller # "ended" PROVE \A b \in live \ {Orphan} : Owners(b) = 1
    BY <1>2, <1>3, HeldOnce DEF Ledger, Alive
  <1>4. ASSUME ~reader.failed, caller # "ended", NEW b \in freed PROVE Owners(b) = 0
    <2>1. b # Orphan /\ b \notin Held /\ Apart
      BY <1>4 DEF Ledger, Alive, Stuck
    <2>2. QED BY <1>2, <1>4, <2>1, HeldOnce
  <1>5. QED BY <1>1, <1>3, <1>4 DEF OneOwner, ReleasedIsForgotten

-----------------------------------------------------------------------------
(* Before Builder has run.                                                   *)

\* Until then nothing has passed it.
Unbuilt ==
    ~builded =>
    /\ ~pob.headers
    /\ \A t \in Planned(rt) : t.module \in {"in", "parser", "builder"}
    /\ script # <<>> => current \in {"in", "parser"}

\* reset finds no buffer that waits for the socket, unless the file failed.
Resetting == Elems(script) \cap Named({"reset"}) # {}
ResetIsClean == Resetting => rt.write_buffers = <<>> \/ (current = "reader" /\ reader.failed)

LEMMA ApiCallKeepsUnbuilt ==
    ASSUME ChainInv, ChainInv', ApiCall, Unbuilt
    PROVE  Unbuilt'
  <1> SUFFICES ASSUME ~builded' PROVE Unbuilt'
    BY DEF Unbuilt
  <1>1. /\ script # <<>> /\ script' = Tail(script) /\ UNCHANGED <<builded, pob>>
        /\ Head(script) \in CallsOf(current) /\ chain \in Shapes /\ current \in Modules
    BY CallFrameFacts
  <1>2. /\ ~builded /\ ~pob.headers /\ current \in {"in", "parser"}
        /\ \A t \in Planned(rt) : t.module \in {"in", "parser", "builder"}
    BY <1>1 DEF Unbuilt
  <1>3. Planned(rt') \cap IdleTasks = {}
    <2>1. chain' = C0 /\ chain' \in Shapes
      BY DEF ChainInv, Shape, Shapes
    <2>2. ~InChain("reader")'
      BY <2>1, MembersNext, ShapesAre
    <2>3. \A t \in Planned(rt') : InChain(t.module)'
      BY DEF ChainInv, Shape
    <2>4. \A t \in IdleTasks : t.module = "reader"
      BY DEF IdleTasks, Tasks
    <2>5. QED BY <2>2, <2>3, <2>4
  <1>4. Following(current) \in {"parser", "builder"}
    BY <1>1, <1>2, ChainNext
  <1>5. \A t \in Planned(rt') \ Planned(rt) : t.module \in {"in", "parser", "builder"}
    <2>1. CASE giveData
      BY <1>4, <2>1, GiveDataPlans DEF GivesTask
    <2>2. CASE raiseEnd \/ endInput \/ raiseErrorEnd
      <3> SUFFICES ASSUME NEW t \in Planned(rt') \ Planned(rt) PROVE t.module \in {"in", "parser", "builder"}
        OBVIOUS
      <3>1. PlansEnd(t)
        BY <2>2, EndPlans
      <3>2. \A m : EndFor(m).module = m
        BY DEF EndFor, T!ModuleTask
      <3>3. QED BY <1>2, <1>4, <3>1, <3>2 DEF PlansEnd
    <2>3. CASE needWrite \/ needRead \/ callLater \/ release \/ insertAfter \/ throws
      BY <1>3, <2>3, QuietPlans
    <2>4. CASE raiseErrorReset
      BY <2>4, ResetPlans
    <2>5. CASE returns \/ notifyEndTask
      BY <2>5 DEF returns, notifyEndTask
    <2>6. QED BY <2>1, <2>2, <2>3, <2>4, <2>5 DEF ApiCall
  <1>6. script' # <<>> => current' \in {"in", "parser"}
    <2>1. CASE returns \/ notifyEndTask
      <3>1. Head(script) \in LastCalls
        <4>1. Call \in {"return", "notifyEndTask"}
          BY <2>1 DEF returns, notifyEndTask, Calls
        <4>2. Head(script) \in Named({"return"}) \cup Named({"notifyEndTask"})
          BY <1>1, <4>1, CallNamed
        <4>3. QED BY <4>2 DEF LastCalls, Named
      <3>2. script' = <<>>
        BY <1>1, <3>1, RunningNow, TailOfScript
      <3>3. QED BY <3>2
    <2>2. CASE ~(returns \/ notifyEndTask)
      <3>1. current' = current
        BY <2>2 DEF ApiCall, giveData, needWrite, needRead, callLater, raiseEnd, raiseErrorReset,
           raiseErrorEnd, release, insertAfter, endInput, throws
      <3>2. QED BY <1>2, <3>1
    <2>3. QED BY <2>1, <2>2
  <1>7. QED BY <1>1, <1>2, <1>5, <1>6 DEF Unbuilt

LEMMA StartKeepsUnbuilt ==
    ASSUME ChainInv, Start, Unbuilt
    PROVE  Unbuilt'
  <1> SUFFICES ASSUME ~builded' PROVE Unbuilt'
    BY DEF Unbuilt
  <1>1. /\ ProcessRequest(task') /\ current' = task'.module /\ task' \in Planned(rt)
        /\ Planned(rt') \subseteq Planned(rt) /\ task' \in ChainTasks
    BY StartFrame
  <1>2. builded' = builded \/ BuilderFirst(task')
    BY <1>1 DEF ProcessRequest, NetworkRead, NetworkWrite, NetworkEnd, ParserIncomplete, ParserComplete, ParserEnd,
       BuilderAgain, ReaderIdle, ReaderEnd, ReaderData, ErrorEnd, ErrorData, PreOutputRequestData, PreOutputData,
       PreOutputEnd, SameModules
  <1>3. ~builded /\ ~BuilderFirst(task') /\ ~BuilderAgain(task')
    <2>1. BuilderFirst(task') => builded'
      BY DEF BuilderFirst
    <2>2. BuilderAgain(task') => builded
      BY DEF BuilderAgain
    <2>3. ~builded
      BY <1>2, <2>1
    <2>4. QED BY <2>1, <2>2, <2>3
  <1>4. /\ task'.module \in {"in", "parser", "builder"} /\ ~pob.headers
        /\ \A t \in Planned(rt') : t.module \in {"in", "parser", "builder"}
    BY <1>1, <1>3 DEF Unbuilt
  <1>5. pob' = pob /\ task'.module \in {"in", "parser"}
    BY <1>1, <1>3, <1>4 DEF ProcessRequest, NetworkRead, NetworkWrite, NetworkEnd, ParserIncomplete, ParserComplete,
       ParserEnd, ReaderIdle, ReaderEnd, ReaderData, ErrorEnd, ErrorData, PreOutputRequestData, PreOutputData,
       PreOutputEnd, SameModules, Runs
  <1>6. QED BY <1>1, <1>4, <1>5 DEF Unbuilt

LEMMA PollKeepsUnbuilt ==
    ASSUME ChainInv, WritersRoom, Unbuilt, NEW expired \in BOOLEAN, NEW due \in BOOLEAN, Poll(expired, due)
    PROVE  Unbuilt'
  <1> SUFFICES ASSUME ~builded' PROVE Unbuilt'
    BY DEF Unbuilt
  <1>1. /\ UNCHANGED <<builded, pob, chain>> /\ script' = <<>> /\ rt' = T!hasWork(rt, expired, due)
        /\ TP!Consistent(rt) /\ QueueInv(rt) /\ Still(rt)
    BY PollFacts DEF Parts
  <1>2. ~pob.headers /\ \A t \in Planned(rt) : t.module \in {"in", "parser", "builder"}
    BY <1>1 DEF Unbuilt
  <1>3. rt.write_buffers = <<>>
    <2>1. chain # CP
      BY <1>1, ShapesAre DEF ChainInv, Shape
    <2>2. QED BY <1>2, <2>1 DEF WritersRoom
  <1>4. Planned(rt') \subseteq Planned(rt) \cup {CanRead}
    BY <1>1, <1>3, HasWorkEffect
  <1>5. CanRead.module = "in"
    BY DEF CanRead, T!ModuleTask
  <1>6. QED BY <1>1, <1>2, <1>4, <1>5 DEF Unbuilt

LEMMA NextUnbuilt == ChainInv /\ WritersRoom /\ Unbuilt /\ [Next]_vars => Unbuilt'
  <1> SUFFICES ASSUME ChainInv, WritersRoom, Unbuilt, [Next]_vars PROVE Unbuilt'
    OBVIOUS
  <1>1. CASE \E expired, due \in BOOLEAN : Poll(expired, due)
    BY <1>1, PollKeepsUnbuilt
  <1>2. CASE KeepWaiting \/ Destroy \/ ReleaseLate \/ ClientSends \/ Report
    BY <1>2 DEF KeepWaiting, Destroy, ReleaseLate, ClientSends, Report, Request, Unbuilt
  <1>3. CASE Deliver
    <2>1. UNCHANGED <<builded, pob, script, current>>
      BY <1>3 DEF Deliver, Request
    <2>2. Planned(rt') = Planned(rt)
      <3>1. reported \in T!SocketEvents /\ rt' = T!handleSocketEvent(rt, reported) /\ rt \in T!State
        BY <1>3 DEF ChainInv, TypeOK, Deliver
      <3>2. QED BY <3>1, SocketEffect, SameTasks
    <2>3. QED BY <2>1, <2>2 DEF Unbuilt
  <1>4. CASE Start
    BY <1>4, StartKeepsUnbuilt
  <1>5. CASE ApiCall
    <2>1. ChainInv'
      BY NextChainInv
    <2>2. QED BY <1>5, <2>1, ApiCallKeepsUnbuilt
  <1>6. CASE Ended \/ UNCHANGED vars
    BY <1>6 DEF Ended, vars, Unbuilt
  <1>7. QED BY <1>1, <1>2, <1>3, <1>4, <1>5, <1>6 DEF Next

\* Who resets: Builder the first time, FileReader at the end or when the file
\* has failed.
LEMMA StartKeepsReset ==
    ASSUME ChainInv, WritersRoom, Unbuilt, Start
    PROVE  ResetIsClean'
  <1> SUFFICES ASSUME Elems(script') \cap Named({"reset"}) # {}
               PROVE  rt'.write_buffers = <<>> \/ (current' = "reader" /\ reader'.failed)
    BY DEF ResetIsClean, Resetting
  <1>1. /\ ProcessRequest(task') /\ current' = task'.module /\ task' \in ChainTasks
        /\ chain' = chain
    BY StartFrame
  <1>2. /\ rt'.write_buffers = rt.write_buffers
        /\ task' \in EndTasks => rt'.write_buffers = <<>>
    BY StartTakes
  <1>3. CASE task' \in EndTasks
    BY <1>2, <1>3
  <1>4. CASE ~builded
    <2>1. ~pob.headers /\ chain # CP
      BY <1>4, ShapesAre DEF ChainInv, Shape, Unbuilt
    <2>2. QED BY <1>2, <2>1 DEF WritersRoom
  <1>5. CASE builded /\ task' \notin EndTasks
    <2>1. \A b : ({GiveData(b), Release(b), NeedWrite(b), Throw(b), NotifyEndTask(b), NeedRead, CallLater, Return,
                   RaiseEnd, EndInput}) \cap Named({"reset"}) = {}
      BY DEF GiveData, Release, NeedWrite, Throw, NotifyEndTask, NeedRead, CallLater, Return, RaiseEnd, EndInput, Named
    <2> HIDE DEF GiveData, Release, NeedWrite, Throw, NotifyEndTask, NeedRead, CallLater, Return, RaiseEnd, EndInput
    <2>2. CASE task' = CanRead
      BY <2>1, <2>2, ReadAnswer
    <2>3. CASE task' \in WriteTasks
      BY <2>1, <2>3, WriteAnswer
    <2>4. CASE task' \in PieceTasks
      <3>1. PICK R \in {{RaiseEnd}, {GiveData(RequestBody)}, {GiveData(RequestBody), RaiseEnd}} :
               Elems(script') \subseteq {NeedRead, Return, RaiseEnd} \cup Released(Kept(task')) \cup R
        BY <2>4, PieceAnswer
      <3>2. Released(Kept(task')) \cap Named({"reset"}) = {}
        BY <2>1 DEF Released
      <3>3. QED BY <2>1, <3>1, <3>2
    <2>5. CASE task' \in BodyTasks
      <3>1. CASE task'.module = "builder"
        <4>1. BuilderAgain(task')
          BY <1>1, <1>5, <2>5, <3>1, Handlers, KindsAre DEF BuilderFirst
        <4>2. task'.event = "ON_REQUEST_DATA"
          BY <1>1, <2>5, KindsAre
        <4>3. script' = <<GiveData(task'.buffer)>> \o Done
          BY <4>1, <4>2 DEF BuilderAgain, Runs, BuilderAnswer
        <4>4. script' = <<GiveData(task'.buffer), Return>>
          BY <4>3, TwoIsConcat DEF Done
        <4>5. QED BY <2>1, <4>4, ShortScripts
      <3>2. QED BY <2>1, <2>5, <3>1, BodyAnswer
    <2>6. CASE task' \in HeadersTasks
      BY <2>1, <2>6, HeadersAnswer
    <2>7. CASE task' \in ResponseTasks
      BY <2>1, <2>7, ResponseAnswer
    <2>8. CASE task' \in IdleTasks
      <3>1. /\ current' = "reader"
            /\ \/ ~reader.failed /\ reader.left = 0 /\ reader' = reader /\ Elems(script') = {RaiseEnd, Return}
               \/ ~reader.failed /\ ReadsOne(reader)
               \/ reader.failed /\ reader' = reader /\ Elems(script') = ErrorCalls \cup {Return}
        BY <2>8, IdleAnswer
      <3>2. QED BY <2>1, <3>1 DEF ReadsOne
    <2>9. QED BY <1>1, <1>5, <2>2, <2>3, <2>4, <2>5, <2>6, <2>7, <2>8, KindsAre
  <1>6. QED BY <1>3, <1>4, <1>5

LEMMA NextResetIsClean == ChainInv /\ WritersRoom /\ Unbuilt /\ ResetIsClean /\ [Next]_vars => ResetIsClean'
  <1> SUFFICES ASSUME ChainInv, WritersRoom, Unbuilt, ResetIsClean, [Next]_vars PROVE ResetIsClean'
    OBVIOUS
  <1>1. CASE Start
    BY <1>1, StartKeepsReset
  <1>2. CASE ApiCall
    <2>1. script # <<>> /\ script' = Tail(script)
      BY <1>2, CallFrameFacts
    <2>2. Elems(script') \cap Named({"reset", "insertAfter"}) = {}
      BY <2>1, RunningNow, TailOfScript
    <2>3. QED BY <2>2 DEF ResetIsClean, Resetting, Named
  <1>3. CASE caller # "running" /\ script' = script
    <2>1. Elems(script') = {}
      BY <1>3, NoScript, NothingAsked
    <2>2. QED BY <2>1 DEF ResetIsClean, Resetting
  <1>4. CASE UNCHANGED <<script, current, reader>> /\ rt'.write_buffers = rt.write_buffers
    BY <1>4 DEF ResetIsClean, Resetting
  <1>5. CASE KeepWaiting \/ Destroy \/ ReleaseLate \/ ClientSends \/ Report \/ Ended \/ UNCHANGED vars
    <2>1. UNCHANGED <<script, current, reader, rt>>
      BY <1>5 DEF KeepWaiting, Destroy, ReleaseLate, ClientSends, Report, Request, Ended, vars
    <2>2. QED BY <1>4, <2>1
  <1>6. CASE Deliver
    <2>1. /\ reported \in T!SocketEvents /\ rt' = T!handleSocketEvent(rt, reported) /\ rt \in T!State
          /\ UNCHANGED <<script, current, reader>>
      BY <1>6 DEF ChainInv, TypeOK, Deliver, Request
    <2>2. rt'.write_buffers = rt.write_buffers
      BY <2>1, SocketEffect DEF SameQueue
    <2>3. QED BY <1>4, <2>1, <2>2
  <1>7. CASE \E expired, due \in BOOLEAN : Poll(expired, due)
    BY <1>3, <1>7 DEF Poll, Request
  <1>8. QED BY <1>1, <1>2, <1>5, <1>6, <1>7 DEF Next

LEMMA InitUnbuilt == Init => Unbuilt /\ ResetIsClean
  <1> SUFFICES ASSUME Init PROVE Unbuilt /\ ResetIsClean
    OBVIOUS
  <1>1. rt.tasks = <<>> /\ rt.write_buffers = <<>> /\ rt.call_later_task = NoTask /\ rt.end_task = NoTask
    BY DEF Init, T!needRead, T!NewTasks, T!Register
  <1>2. Planned(rt) = {} /\ script = <<>> /\ Elems(script) = {} /\ ~pob.headers
    BY <1>1, NoTasks, NothingAsked DEF Init
  <1>3. QED BY <1>2 DEF Unbuilt, ResetIsClean, Resetting

-----------------------------------------------------------------------------
(* The buffers a script names.                                               *)

CallNames == {"giveData", "release", "needWrite", "needRead", "callLater", "raiseEnd", "endInput", "insertAfter",
              "return", "throw", "notifyEndTask", "reset", "endError"}
Fair == {c \in Named(CallNames) : c = Throw(Orphan) \/ c[2] = NoBuffer \/ (c[1] \in Carriers /\ c[2] # Orphan)}
Of(c) == {c[2]} \ {NoBuffer}

\* The script names just these buffers, each once.
Booked(q, bs) == q \in Seq(Fair) /\ OnceEach(q) /\ BuffersOf(q) = bs

LEMMA FairCalls ==
    /\ \A b \in Buffers \ {Orphan} :
          /\ {GiveData(b), Release(b), NeedWrite(b), NotifyEndTask(b)} \subseteq Fair
          /\ Of(GiveData(b)) = {b} /\ Of(Release(b)) = {b} /\ Of(NeedWrite(b)) = {b} /\ Of(NotifyEndTask(b)) = {b}
    /\ {Throw(Orphan), Throw(NoBuffer), NotifyEndTask(NoBuffer), NeedRead, CallLater, RaiseEnd, EndInput, Insert,
        Return, <<"reset", NoBuffer>>, <<"endError", NoBuffer>>} \subseteq Fair
    /\ Of(Throw(Orphan)) = {Orphan} /\ Of(Throw(NoBuffer)) = {} /\ Of(NotifyEndTask(NoBuffer)) = {}
    /\ Of(NeedRead) = {} /\ Of(CallLater) = {} /\ Of(RaiseEnd) = {} /\ Of(EndInput) = {} /\ Of(Insert) = {}
    /\ Of(Return) = {} /\ Of(<<"reset", NoBuffer>>) = {} /\ Of(<<"endError", NoBuffer>>) = {}
  <1>1. NoBuffer \notin Buffers /\ Orphan \in Buffers
    BY BufferSets
  <1>2. \A n \in CallNames, b \in Buffers \cup {NoBuffer} : <<n, b>> \in Named(CallNames)
    BY DEF Named
  <1>3. ASSUME NEW b \in Buffers \ {Orphan}
        PROVE  {GiveData(b), Release(b), NeedWrite(b), NotifyEndTask(b)} \subseteq Fair
    BY <1>2 DEF Fair, Carriers, CallNames, GiveData, Release, NeedWrite, NotifyEndTask
  <1>4. ASSUME NEW b \in Buffers \ {Orphan}
        PROVE  Of(GiveData(b)) = {b} /\ Of(Release(b)) = {b} /\ Of(NeedWrite(b)) = {b} /\ Of(NotifyEndTask(b)) = {b}
    BY <1>1 DEF Of, GiveData, Release, NeedWrite, NotifyEndTask
  <1>5. {Throw(Orphan), Throw(NoBuffer), NotifyEndTask(NoBuffer), NeedRead, CallLater, RaiseEnd, EndInput, Insert,
         Return, <<"reset", NoBuffer>>, <<"endError", NoBuffer>>} \subseteq Fair
    <2>1. \A n \in CallNames : <<n, NoBuffer>> \in Fair
      BY <1>2 DEF Fair
    <2>2. Throw(Orphan) \in Fair
      <3>1. Throw(Orphan) \in Named(CallNames)
        BY <1>1, <1>2 DEF Throw, CallNames
      <3>2. QED BY <3>1 DEF Fair
    <2>3. QED BY <2>1, <2>2 DEF CallNames, Throw, NotifyEndTask, NeedRead, CallLater, RaiseEnd, EndInput, Insert, Return
  <1>6. /\ Of(Throw(Orphan)) = {Orphan} /\ Of(Throw(NoBuffer)) = {} /\ Of(NotifyEndTask(NoBuffer)) = {}
        /\ Of(NeedRead) = {} /\ Of(CallLater) = {} /\ Of(RaiseEnd) = {} /\ Of(EndInput) = {} /\ Of(Insert) = {}
        /\ Of(Return) = {} /\ Of(<<"reset", NoBuffer>>) = {} /\ Of(<<"endError", NoBuffer>>) = {}
    <2>1. Of(Throw(Orphan)) = {Orphan}
      BY <1>1 DEF Of, Throw
    <2>2. \A n : Of(<<n, NoBuffer>>) = {}
      BY DEF Of
    <2>3. QED BY <2>1, <2>2 DEF Throw, NotifyEndTask, NeedRead, CallLater, RaiseEnd, EndInput, Insert, Return
  <1>7. QED BY <1>3, <1>4, <1>5, <1>6

LEMMA BookedTidy ==
    ASSUME NEW q, NEW bs, Booked(q, bs)
    PROVE  Tidy(q) /\ OnceEach(q) /\ BuffersOf(q) = bs /\ NoBuffer \notin bs
  <1>1. q \in Seq(Fair) /\ OnceEach(q) /\ BuffersOf(q) = bs
    BY DEF Booked
  <1>2. Elems(q) \subseteq Fair
    BY <1>1, ElemsSeq
  <1>3. QED BY <1>1, <1>2 DEF Tidy, Fair, BuffersOf

LEMMA BookedOne ==
    ASSUME NEW c \in Fair
    PROVE  Booked(<<c>>, Of(c))
  <1>1. <<c>> \in Seq(Fair) /\ OnceEach(<<c>>)
    BY DEF OnceEach
  <1>2. Elems(<<c>>) = {c}
    BY ShortScripts
  <1>3. BuffersOf(<<c>>) = Of(c)
    BY <1>2 DEF BuffersOf, Of
  <1>4. QED BY <1>1, <1>3 DEF Booked

LEMMA BookedPush ==
    ASSUME NEW q, NEW bs, Booked(q, bs), NEW c \in Fair, Of(c) \cap bs = {}
    PROVE  Booked(<<c>> \o q, Of(c) \cup bs)
  <1> DEFINE r == <<c>> \o q
  <1>1. q \in Seq(Fair) /\ OnceEach(q) /\ BuffersOf(q) = bs
    BY DEF Booked
  <1>2. /\ r \in Seq(Fair) /\ Elems(r) = Elems(q) \cup {c} /\ DOMAIN r = 1..(Len(q) + 1) /\ r[1] = c
        /\ \A i \in 2..(Len(q) + 1) : r[i] = q[i - 1]
    BY <1>1, PushElems
  <1>3. Len(q) \in Nat /\ DOMAIN q = 1..Len(q)
    BY <1>1, LenProperties
  <1> HIDE DEF r
  <1>4. BuffersOf(r) = Of(c) \cup bs
    BY <1>1, <1>2 DEF BuffersOf, Of
  <1>5. OnceEach(r)
    <2> SUFFICES ASSUME NEW i \in DOMAIN r, NEW j \in DOMAIN r, r[i][2] = r[j][2], r[i][2] # NoBuffer PROVE i = j
      BY DEF OnceEach
    <2>1. ASSUME NEW k \in 2..(Len(q) + 1) PROVE k - 1 \in DOMAIN q /\ q[k - 1] = r[k] /\ (r[k][2] # NoBuffer => r[k][2] \in bs)
      <3>1. k - 1 \in DOMAIN q /\ q[k - 1] = r[k]
        BY <1>2, <1>3
      <3>2. q[k - 1] \in Elems(q)
        BY <3>1 DEF Elems
      <3>3. QED BY <1>1, <3>1, <3>2 DEF BuffersOf
    <2>2. c[2] # NoBuffer => c[2] \notin bs
      BY DEF Of
    <2>3. i = 1 \/ i \in 2..(Len(q) + 1)
      BY <1>2, <1>3
    <2>4. j = 1 \/ j \in 2..(Len(q) + 1)
      BY <1>2, <1>3
    <2>5. CASE i = 1 /\ j = 1
      BY <2>5
    <2>6. CASE i = 1 /\ j \in 2..(Len(q) + 1)
      BY <1>2, <2>1, <2>2, <2>6
    <2>7. CASE j = 1 /\ i \in 2..(Len(q) + 1)
      BY <1>2, <2>1, <2>2, <2>7
    <2>8. CASE i \in 2..(Len(q) + 1) /\ j \in 2..(Len(q) + 1)
      <3>1. i - 1 = j - 1
        BY <1>1, <2>1, <2>8 DEF OnceEach
      <3>2. QED BY <1>3, <2>8, <3>1
    <2>9. QED BY <2>3, <2>4, <2>5, <2>6, <2>7, <2>8
  <1>6. QED BY <1>2, <1>4, <1>5 DEF Booked, r

LEMMA BookedTwo ==
    ASSUME NEW c \in Fair, NEW d \in Fair, Of(c) \cap Of(d) = {}
    PROVE  Booked(<<c, d>>, Of(c) \cup Of(d))
  <1>1. Booked(<<d>>, Of(d))
    BY BookedOne
  <1>2. Booked(<<c>> \o <<d>>, Of(c) \cup Of(d))
    BY <1>1, BookedPush
  <1>3. QED BY <1>2, TwoIsConcat

LEMMA BookedThree ==
    ASSUME NEW c \in Fair, NEW d \in Fair, NEW e \in Fair, Of(c) \cap (Of(d) \cup Of(e)) = {}, Of(d) \cap Of(e) = {}
    PROVE  Booked(<<c, d, e>>, Of(c) \cup (Of(d) \cup Of(e)))
  <1>1. Booked(<<d, e>>, Of(d) \cup Of(e))
    BY BookedTwo
  <1>2. Booked(<<c>> \o <<d, e>>, Of(c) \cup (Of(d) \cup Of(e)))
    BY <1>1, BookedPush
  <1>3. QED BY <1>2, ThreeIsConcat

LEMMA BookedFour ==
    ASSUME NEW c \in Fair, NEW d \in Fair, NEW e \in Fair, NEW f \in Fair,
           Of(c) \cap (Of(d) \cup (Of(e) \cup Of(f))) = {}, Of(d) \cap (Of(e) \cup Of(f)) = {}, Of(e) \cap Of(f) = {}
    PROVE  Booked(<<c, d, e, f>>, Of(c) \cup (Of(d) \cup (Of(e) \cup Of(f))))
  <1>1. Booked(<<d, e, f>>, Of(d) \cup (Of(e) \cup Of(f)))
    BY BookedThree
  <1>2. Booked(<<c>> \o <<d, e, f>>, Of(c) \cup (Of(d) \cup (Of(e) \cup Of(f))))
    BY <1>1, BookedPush
  <1>3. QED BY <1>2, FourIsConcat

LEMMA BookedRaised ==
    ASSUME NEW q, NEW bs, Booked(q, bs)
    PROVE  Booked(RaiseError \o q, bs)
  <1> DEFINE c == <<"reset", NoBuffer>>
             d == <<"endError", NoBuffer>>
  <1>1. c \in Fair /\ d \in Fair /\ Of(c) = {} /\ Of(d) = {}
    BY FairCalls
  <1>2. q \in Seq(Fair)
    BY DEF Booked
  <1>3. RaiseError = <<c>> \o <<d>>
    BY TwoIsConcat DEF RaiseError
  <1> HIDE DEF c, d
  <1>4. <<c>> \in Seq(Fair) /\ <<d>> \in Seq(Fair)
    BY <1>1
  <1>5. RaiseError \o q = <<c>> \o (<<d>> \o q)
    BY <1>2, <1>3, <1>4, ConcatAssociative
  <1>6. Booked(<<d>> \o q, Of(d) \cup bs)
    BY <1>1, BookedPush
  <1>7. Of(d) \cup bs = bs
    BY <1>1
  <1>8. Booked(<<c>> \o (<<d>> \o q), Of(c) \cup bs)
    BY <1>1, <1>6, <1>7, BookedPush
  <1>9. QED BY <1>1, <1>5, <1>8

\* A call is taken off: its buffer is named no more.
LEMMA HeadTaken ==
    ASSUME NEW S, NEW q \in Seq(S), q # <<>>, OnceEach(q), Tidy(q)
    PROVE  /\ OnceEach(Tail(q)) /\ Tidy(Tail(q))
           /\ BuffersOf(q) = BuffersOf(Tail(q)) \cup Of(Head(q)) /\ Of(Head(q)) \cap BuffersOf(Tail(q)) = {}
           /\ Head(q) = Throw(Orphan) \/ Head(q)[2] = NoBuffer \/ (Head(q)[1] \in Carriers /\ Head(q)[2] # Orphan)
  <1> DEFINE r == Tail(q)
             h == Head(q)
  <1>1. /\ h = q[1] /\ 1 \in DOMAIN q /\ DOMAIN q = 1..Len(q) /\ Len(q) \in Nat \ {0}
        /\ DOMAIN r = 1..(Len(q) - 1)
        /\ \A i \in DOMAIN r : i + 1 \in DOMAIN q /\ r[i] = q[i + 1]
        /\ Elems(r) \subseteq Elems(q) /\ Elems(q) = Elems(r) \cup {h}
    BY TailElems
  <1> HIDE DEF r, h
  <1>2. Tidy(r) /\ (h = Throw(Orphan) \/ h[2] = NoBuffer \/ (h[1] \in Carriers /\ h[2] # Orphan))
    BY <1>1 DEF Tidy
  <1>3. BuffersOf(q) = BuffersOf(r) \cup Of(h)
    BY <1>1 DEF BuffersOf, Of
  <1>4. OnceEach(r)
    <2> SUFFICES ASSUME NEW i \in DOMAIN r, NEW j \in DOMAIN r, r[i][2] = r[j][2], r[i][2] # NoBuffer PROVE i = j
      BY DEF OnceEach
    <2>1. i + 1 \in DOMAIN q /\ j + 1 \in DOMAIN q /\ r[i] = q[i + 1] /\ r[j] = q[j + 1]
      BY <1>1
    <2>2. i + 1 = j + 1
      BY <2>1 DEF OnceEach
    <2>3. i \in Nat /\ j \in Nat
      BY <1>1
    <2>4. QED BY <2>2, <2>3
  <1>5. Of(h) \cap BuffersOf(r) = {}
    <2> SUFFICES ASSUME h[2] # NoBuffer, h[2] \in BuffersOf(r) PROVE FALSE
      BY DEF Of
    <2>1. PICK i \in DOMAIN r : r[i][2] = h[2]
      BY DEF BuffersOf, Elems
    <2>2. i + 1 \in DOMAIN q /\ q[i + 1][2] = q[1][2] /\ q[1][2] # NoBuffer
      BY <1>1, <2>1
    <2>3. i + 1 = 1
      BY <1>1, <2>2 DEF OnceEach
    <2>4. i \in 1..(Len(q) - 1)
      BY <1>1
    <2>5. QED BY <1>1, <2>3, <2>4
  <1>6. QED BY <1>2, <1>3, <1>4, <1>5 DEF r, h

-----------------------------------------------------------------------------
(* The calls keep the books.                                                 *)

\* A call on the request as the lemmas above name it.
LEMMA CallCases ==
    ASSUME ApiCall
    PROVE  /\ Calls(Call) /\ script # <<>> /\ caller = "running"
           /\ giveData => Call = "giveData"
           /\ needWrite => Call = "needWrite"
           /\ needRead => Call = "needRead"
           /\ callLater => Call = "callLater"
           /\ raiseEnd => Call = "raiseEnd"
           /\ raiseErrorReset => Call = "reset"
           /\ raiseErrorEnd => Call = "endError"
           /\ release => Call = "release"
           /\ insertAfter => Call = "insertAfter"
           /\ endInput => Call = "endInput"
           /\ returns => Call = "return"
           /\ throws => Call = "throw"
           /\ notifyEndTask => Call = "notifyEndTask"
  BY DEF ApiCall, giveData, needWrite, needRead, callLater, raiseEnd, raiseErrorReset, raiseErrorEnd,
         release, insertAfter, endInput, returns, throws, notifyEndTask, Calls

\* What stays in the tasks and in _write_buffers.
LEMMA CallHands ==
    ASSUME ChainInv, ApiCall
    PROVE  /\ giveData \/ needWrite => Handed(rt') = Handed(rt) \cup {Arg} /\ Arg \in Buffers
           /\ raiseErrorReset => Handed(rt') = WriteBuffers(rt) /\ WriteBuffers(rt') = WriteBuffers(rt)
           /\ ~(giveData \/ needWrite \/ raiseErrorReset) => Handed(rt') = Handed(rt)
           /\ rt'.wait_read => rt.wait_read \/ Head(script) \in Named({"needRead"})
           /\ returns \/ raiseErrorEnd => /\ rt'.tasks = rt.tasks /\ rt'.write_buffers = rt.write_buffers
                                          /\ rt'.call_later_task = rt.call_later_task
                                          /\ rt'.wait_read = rt.wait_read /\ rt'.wait_write = rt.wait_write
  <1>1. /\ rt \in T!State /\ TP!Consistent(rt) /\ QueueInv(rt) /\ script # <<>>
        /\ Head(script) = <<Call, Arg>> /\ Arg \in Buffers \cup {NoBuffer}
        /\ rt.tasks \in Seq(ChainTasks) /\ rt.write_buffers \in Seq(Written)
    BY CallFrameFacts, CallNamed DEF QueueInv, QueueType
  <1>2. ASSUME Arg \in Written, rt'.write_buffers = Append(rt.write_buffers, Arg), rt'.tasks = rt.tasks
        PROVE  Handed(rt') = Handed(rt) \cup {Arg}
    <2>1. WriteBuffers(rt') = WriteBuffers(rt) \cup {Arg}
      <3> DEFINE w == rt.write_buffers
                 a == Arg
      <3>1. w \in Seq(Written) /\ a \in Written
        BY <1>1, <1>2
      <3> HIDE DEF w, a
      <3>2. Elems(Append(w, a)) = Elems(w) \cup {a}
        BY <3>1, AppendElems
      <3>3. WriteBuffers(rt') = Elems(Append(w, a)) /\ WriteBuffers(rt) = Elems(w)
        BY <1>2 DEF WriteBuffers, Elems, w, a
      <3>4. QED BY <3>2, <3>3 DEF a
    <2>2. TaskBuffers(rt') = TaskBuffers(rt)
      BY <1>2 DEF TaskBuffers
    <2>3. QED BY <2>1, <2>2 DEF Handed
  <1>3. ASSUME rt'.write_buffers = rt.write_buffers, rt'.tasks = rt.tasks
        PROVE  Handed(rt') = Handed(rt)
    BY <1>3 DEF Handed, TaskBuffers, WriteBuffers
  <1>4. CASE giveData
    <2>1. Arg \in Buffers /\ SameWaits(rt, rt')
      BY <1>4, GiftGoes
    <2>2. Handed(rt') = Handed(rt) \cup {Arg}
      <3>1. CASE /\ Arg \in Written /\ rt'.tasks = rt.tasks /\ rt'.write_buffers = Append(rt.write_buffers, Arg)
        BY <1>2, <3>1
      <3>2. CASE /\ Gift \in DataTasks /\ Gift.buffer = Arg /\ rt'.tasks = <<Gift>> \o rt.tasks /\ SamePlans(rt, rt')
        <4>1. TaskBuffers(rt') = TaskBuffers(rt) \cup ({Arg} \ {NoBuffer})
          BY <1>1, <3>2, TaskSets, QueuedBuffers
        <4>2. WriteBuffers(rt') = WriteBuffers(rt)
          BY <3>2 DEF SamePlans, WriteBuffers
        <4>3. Arg # NoBuffer
          BY <2>1, BufferSets
        <4>4. QED BY <4>1, <4>2, <4>3 DEF Handed
      <3>3. QED BY <1>4, <3>1, <3>2, GiftGoes
    <2>3. Call = "giveData"
      BY <1>4, CallCases
    <2>4. ~returns /\ ~raiseErrorEnd /\ ~raiseErrorReset
      BY <2>3, CallCases
    <2>5. QED BY <1>4, <2>1, <2>2, <2>4 DEF SameWaits
  <1>5. CASE needWrite
    <2>1. Call = "needWrite" /\ Arg \in Written /\ Arg \in Buffers /\ rt' = T!needWrite(rt, Arg)
      BY <1>1, <1>5, CallCases, CallNamed, BufferSets DEF needWrite
    <2>2. rt'.write_buffers = Append(rt.write_buffers, Arg) /\ rt'.tasks = rt.tasks /\ SameWaits(rt, rt')
      BY <1>1, <2>1, NeedWriteEffect
    <2>3. ~returns /\ ~raiseErrorEnd /\ ~raiseErrorReset
      BY <2>1, CallCases
    <2>4. QED BY <1>2, <1>5, <2>1, <2>2, <2>3 DEF SameWaits
  <1>6. CASE needRead
    <2>1. Call = "needRead" /\ Head(script) \in Named({"needRead"}) /\ rt' = T!needRead(rt)
      BY <1>1, <1>6, CallCases, CallNamed DEF needRead
    <2>2. SameQueue(rt, rt')
      BY <1>1, <2>1, NeedReadEffect
    <2>3. ~returns /\ ~raiseErrorEnd /\ ~raiseErrorReset /\ ~giveData /\ ~needWrite
      BY <2>1, CallCases
    <2>4. QED BY <1>3, <2>1, <2>2, <2>3 DEF SameQueue
  <1>7. CASE callLater
    <2>1. Call = "callLater" /\ Head(script) \in Named({"callLater"}) /\ current = "reader"
      BY <1>1, <1>7, CallCases, CallNamed
    <2>2. rt' = T!addCallLaterTask(rt, "reader", reader.delayed) /\ reader.delayed \in BOOLEAN
      BY <1>7, <2>1 DEF callLater, ChainInv, TypeOK
    <2>3. rt.call_later_task = NoTask
      <3>1. Head(script) \in IdleCalls
        BY <2>1 DEF IdleCalls
      <3>2. ~Idles(rt)
        BY <1>1, <3>1, FirstCall
      <3>3. QED BY <3>2 DEF Idles
    <2>4. /\ rt'.write_buffers = rt.write_buffers /\ SameWaits(rt, rt')
          /\ rt'.tasks = rt.tasks \/ rt'.tasks = Append(rt.tasks, T!ModuleTask("ON_IDLE", "reader", NoBuffer))
      BY <1>1, <2>2, <2>3, CallLaterEffect
    <2>5. Handed(rt') = Handed(rt)
      <3>1. CASE rt'.tasks = rt.tasks
        BY <1>3, <2>4, <3>1
      <3>2. CASE rt'.tasks = Append(rt.tasks, T!ModuleTask("ON_IDLE", "reader", NoBuffer))
        <4> DEFINE t == T!ModuleTask("ON_IDLE", "reader", NoBuffer)
        <4>1. t \in IdleTasks /\ t.buffer = NoBuffer
          BY DEF T!ModuleTask, IdleTasks, Tasks
        <4>2. t \in ChainTasks
          BY <4>1, TaskSets
        <4> HIDE DEF t
        <4>3. TaskBuffers(rt') = TaskBuffers(rt) \cup ({t.buffer} \ {NoBuffer})
          BY <1>1, <3>2, <4>2, QueuedBuffers DEF t
        <4>4. TaskBuffers(rt') = TaskBuffers(rt)
          BY <4>1, <4>3
        <4>5. QED BY <2>4, <4>4 DEF Handed, WriteBuffers
      <3>3. QED BY <2>4, <3>1, <3>2
    <2>6. ~returns /\ ~raiseErrorEnd /\ ~raiseErrorReset /\ ~giveData /\ ~needWrite
      BY <2>1, CallCases
    <2>7. QED BY <2>4, <2>5, <2>6 DEF SameWaits
  <1>8. CASE raiseErrorReset
    <2>1. rt'.tasks = <<>> /\ rt'.write_buffers = rt.write_buffers /\ rt'.wait_read = FALSE
      BY <1>8, ResetPlans
    <2>2. TaskBuffers(rt') = {} /\ WriteBuffers(rt') = WriteBuffers(rt)
      BY <2>1 DEF TaskBuffers, WriteBuffers
    <2>3. Call = "reset"
      BY <1>8, CallCases
    <2>4. ~returns /\ ~raiseErrorEnd /\ ~giveData /\ ~needWrite
      BY <2>3, CallCases
    <2>5. QED BY <1>8, <2>1, <2>2, <2>4 DEF Handed
  <1>9. CASE raiseEnd \/ endInput \/ raiseErrorEnd
    <2>1. Call \in {"raiseEnd", "endInput", "endError"}
      BY <1>9, CallCases
    <2>2. /\ ~giveData /\ ~needWrite /\ ~raiseErrorReset /\ ~returns
      BY <2>1, CallCases
    <2>3. PICK m : m \in Modules /\ (rt' = T!addEndTask(rt, m) \/ (rt' = rt /\ ~raiseErrorEnd))
      <3>1. CASE raiseEnd
        <4>1. rt' = IF Following(current) = NoModule THEN rt ELSE T!addEndTask(rt, Following(current))
          BY <3>1 DEF raiseEnd
        <4>2. ~raiseErrorEnd
          BY <3>1, CallCases
        <4>3. CASE Following(current) = NoModule
          BY <4>1, <4>2, <4>3 DEF Modules
        <4>4. CASE Following(current) # NoModule
          <5>1. InChain(Following(current))
            <6>1. Head(script) \notin Named({"endError", "return"})
              BY <1>1, <3>1, CallCases DEF Named
            <6>2. current \in Modules /\ chain \in Shapes /\ InChain(current)
              BY <1>1, <6>1, FirstCall
            <6>3. Following(current) \in {"parser", "builder", "reader", "error", "pob", "out"}
              BY <4>4, <6>2, ChainNext, Members DEF Modules, Processing
            <6>4. QED BY <6>2, <6>3, <4>4, ChainNext, Members DEF Modules, Processing
          <5>2. Following(current) \in Modules
            BY <1>1, <5>1, CallFrameFacts, Members
          <5>3. QED BY <4>1, <4>4, <5>2
        <4>5. QED BY <4>3, <4>4
      <3>2. CASE endInput
        BY <3>2, TaskHypotheses DEF endInput
      <3>3. CASE raiseErrorEnd
        BY <3>3 DEF raiseErrorEnd, Modules, Processing
      <3>4. QED BY <1>9, <3>1, <3>2, <3>3
    <2>4. CASE rt' = rt /\ ~raiseErrorEnd
      BY <2>2, <2>4
    <2>5. CASE rt' = T!addEndTask(rt, m)
      <3>1. /\ rt'.tasks = rt.tasks /\ rt'.write_buffers = rt.write_buffers
            /\ rt'.call_later_task = rt.call_later_task /\ SameWaits(rt, rt')
        BY <1>1, <2>3, <2>5, EndTaskEffect
      <3>2. rt'.wait_write = rt.wait_write
        BY <1>1, <2>5, WaitEffects
      <3>3. QED BY <1>3, <2>2, <3>1, <3>2 DEF SameWaits
    <2>6. QED BY <2>3, <2>4, <2>5
  <1>10. CASE release \/ insertAfter \/ returns \/ notifyEndTask
    <2>1. rt' = rt
      BY <1>10 DEF release, insertAfter, returns, notifyEndTask
    <2>2. Call \in {"release", "insertAfter", "return", "notifyEndTask"}
      BY <1>10, CallCases
    <2>3. ~giveData /\ ~needWrite /\ ~raiseErrorReset
      BY <2>2, CallCases
    <2>4. QED BY <2>1, <2>3
  <1>11. CASE throws
    <2>1. rt' = T!notifyHasError(rt) /\ Call = "throw"
      BY <1>11, CallCases DEF throws
    <2>2. SameQueue(rt, rt') /\ rt'.wait_read = rt.wait_read
      BY <1>1, <2>1, ErrorEffect
    <2>3. ~giveData /\ ~needWrite /\ ~raiseErrorReset /\ ~returns /\ ~raiseErrorEnd
      BY <2>1, CallCases
    <2>4. QED BY <1>3, <2>2, <2>3 DEF SameQueue
  <1>12. QED BY <1>4, <1>5, <1>6, <1>7, <1>8, <1>9, <1>10, <1>11 DEF ApiCall

\* What the tasks and the script make of the request's last read and of its
\* error page does not grow.
LEMMA CallAsksNoMore ==
    ASSUME ChainInv, ApiCall
    PROVE  /\ Asks' => Asks
           /\ \A b \in Pages : Coming(b)' => Coming(b) \/ (current = "error" /\ Given(b))
           /\ \A b \in Pages : current' = "error" /\ Given(b)' => current = "error" /\ Given(b)
  <1>1. /\ Elems(script') \subseteq Elems(script) /\ Head(script) \in Elems(script) /\ script # <<>>
        /\ Head(script) = <<Call, Arg>> /\ current \in Modules /\ chain \in Shapes
    BY CallFrameFacts
  <1>2. current' = current \/ current' = NoModule
    BY RoomTaken
  <1>3. "error" # NoModule
    BY <1>1, ChainNext DEF Modules, Processing
  <1>4. \A t \in Planned(rt') \ Planned(rt) :
           \/ t \in EndTasks \/ t \in IdleTasks
           \/ t \in DataTasks /\ (t \in ResponseTasks /\ t.buffer \in Pages => current = "error" /\ Given(t.buffer))
    <2>1. CASE giveData
      <3> SUFFICES ASSUME NEW t \in Planned(rt') \ Planned(rt)
                   PROVE  t \in DataTasks /\ (t \in ResponseTasks /\ t.buffer \in Pages => current = "error" /\ Given(t.buffer))
        OBVIOUS
      <3>1. /\ t = Gift /\ t \in DataTasks /\ t.buffer = Arg /\ Head(script) = GiveData(Arg)
            /\ Head(script) \in AddCalls(current, chain)
        BY <2>1, GiveDataPlans DEF GivesTask
      <3>2. \/ Head(script) \notin AddCalls(current, chain)
            \/ Gift \in ResponseTasks /\ Arg \in Pages => current = "error" /\ chain = CE
        BY <1>1, <2>1, CallCases, WhereGivenGoes
      <3>3. Given(t.buffer)
        BY <1>1, <3>1 DEF Given
      <3>4. QED BY <3>1, <3>2, <3>3
    <2>2. CASE raiseEnd \/ endInput \/ raiseErrorEnd
      <3> SUFFICES ASSUME NEW t \in Planned(rt') \ Planned(rt) PROVE t \in EndTasks
        OBVIOUS
      <3>1. PlansEnd(t)
        BY <2>2, EndPlans
      <3>2. PICK m : t = EndFor(m)
        BY <3>1 DEF PlansEnd
      <3>3. t \in Planned(rt') /\ ChainInv'
        BY NextChainInv DEF Next
      <3>4. t.event = "ON_END"
        BY <3>2 DEF EndFor, T!ModuleTask
      <3>5. t \in ChainTasks
        <4>1. QueueInv(rt')
          BY <3>3 DEF ChainInv, Bookkeeping
        <4>2. Elems(rt'.tasks) \subseteq ChainTasks
          BY <4>1, ElemsSeq DEF QueueInv, QueueType
        <4>3. QED BY <3>3, <4>1, <4>2, TaskSets DEF Planned, QueueInv, QueueType
      <3>6. QED BY <3>4, <3>5, TaskKinds
    <2>3. CASE needWrite \/ needRead \/ callLater \/ release \/ insertAfter \/ throws
      BY <2>3, QuietPlans
    <2>4. CASE raiseErrorReset
      BY <2>4, ResetPlans
    <2>5. CASE returns \/ notifyEndTask
      BY <2>5 DEF returns, notifyEndTask
    <2>6. QED BY <2>1, <2>2, <2>3, <2>4, <2>5 DEF ApiCall
  <1>5. Asks' => Asks
    <2>1. CanRead \notin EndTasks \cup IdleTasks \cup DataTasks
      BY TaskSets DEF CanRead, EndTasks, IdleTasks, DataTasks, PieceTasks, BodyTasks, HeadersTasks, ResponseTasks, Tasks,
         T!ModuleTask
    <2>2. CanRead \in Planned(rt') => CanRead \in Planned(rt)
      BY <1>4, <2>1
    <2>3. rt'.wait_read => rt.wait_read \/ Head(script) \in Named({"needRead"})
      BY CallHands
    <2>4. QED BY <1>1, <2>2, <2>3 DEF Asks
  <1>6. \A b \in Pages : Coming(b)' => Coming(b) \/ (current = "error" /\ Given(b))
    <2>1. ResponseTasks \cap (EndTasks \cup IdleTasks) = {}
      BY TaskSets
    <2>2. QED BY <1>4, <2>1 DEF Coming
  <1>7. QED BY <1>1, <1>2, <1>3, <1>5, <1>6 DEF Given

\* Nothing is made by a call.
LEMMA CallKeepsFresh ==
    ASSUME ChainInv, ApiCall, Fresh, Spent' \subseteq Spent
    PROVE  Fresh'
  <1>1. UNCHANGED <<parser, reader, pob, told>>
    BY CallFrameFacts
  <1>2. /\ Asks' => Asks
        /\ \A b \in Pages : Coming(b)' => Coming(b) \/ (current = "error" /\ Given(b))
        /\ \A b \in Pages : current' = "error" /\ Given(b)' => current = "error" /\ Given(b)
    BY CallAsksNoMore
  <1>3. \A b \in Pages : ChunkInfo(b)' = ChunkInfo(b)
    BY DEF ChunkInfo
  <1> HIDE DEF Asks, Spent
  <1>4. /\ \A n \in 1..Pieces : Piece(n) \in Spent' =>
              n <= Len(parser'.buffers) + 1 /\ (Asks' => n <= Len(parser'.buffers))
    BY <1>1, <1>2 DEF Fresh
  <1>5. \A b \in Pages : ChunkInfo(b) \in Spent' =>
          ~Coming(b)' /\ ~(current' = "error" /\ Given(b)') /\ "error" \in told'
    BY <1>1, <1>2 DEF Fresh
  <1>6. /\ ~pob'.headers => Headers \notin Spent'
        /\ Final \in Spent' => "pob" \in told'
        /\ Spent' \cap Pages # {} => "error" \in told'
        /\ \A n \in 1..FileSize : Data(n) \in Spent' => n <= FileSize - reader'.left
        /\ Len(parser'.buffers) < Pieces => RequestBody \notin Spent'
        /\ Len(parser'.buffers) < Pieces <=> ~parser'.completed
    BY <1>1 DEF Fresh
  <1>7. QED BY <1>4, <1>5, <1>6 DEF Fresh

\* The buffer of the call leaves the script; nothing else does.
LEMMA CallBooks ==
    ASSUME ChainInv, ApiCall, Apart
    PROVE  /\ OnceEach(script') /\ Tidy(script')
           /\ InHand = InHand' \cup ({Arg} \ {NoBuffer, Orphan}) /\ (Arg # NoBuffer => Arg \notin InHand')
           /\ late = NoBuffer /\ Late = {} /\ Keeping' = Keeping /\ parser' = parser
           /\ Call \in Carriers \/ Arg \in {NoBuffer, Orphan}
           /\ Call # "throw" => Arg # Orphan
           /\ Arg \in Buffers \cup {NoBuffer} /\ NoBuffer \notin Buffers /\ Orphan \in Buffers
  <1>1. /\ script \in Seq(CallsOf(current)) /\ script # <<>> /\ script' = Tail(script) /\ parser' = parser
        /\ Head(script) = <<Call, Arg>> /\ caller = "running" /\ Arg \in Buffers \cup {NoBuffer}
    BY CallFrameFacts, CallNamed
  <1>2. OnceEach(script) /\ Tidy(script) /\ (late # NoBuffer => caller \in {"polling", "noWork"})
    BY DEF Apart
  <1>3. /\ OnceEach(script') /\ Tidy(script')
        /\ BuffersOf(script) = BuffersOf(script') \cup Of(Head(script)) /\ Of(Head(script)) \cap BuffersOf(script') = {}
        /\ \/ Head(script) = Throw(Orphan) \/ Head(script)[2] = NoBuffer
           \/ Head(script)[1] \in Carriers /\ Head(script)[2] # Orphan
    BY <1>1, <1>2, HeadTaken
  <1>4. Head(script)[1] = Call /\ Head(script)[2] = Arg /\ Of(Head(script)) = {Arg} \ {NoBuffer}
    BY <1>1 DEF Of, Call, Arg
  <1>5. InHand = InHand' \cup ({Arg} \ {NoBuffer, Orphan}) /\ (Arg # NoBuffer => Arg \notin InHand')
    BY <1>3, <1>4 DEF InHand
  <1>6. Call \in Carriers \/ Arg \in {NoBuffer, Orphan}
    BY <1>3, <1>4 DEF Throw
  <1>7. Call # "throw" => Arg # Orphan
    <2>1. Head(script) = Throw(Orphan) => Call = "throw"
      BY <1>1 DEF Throw
    <2>2. NoBuffer # Orphan
      BY BufferSets
    <2>3. QED BY <1>3, <1>4, <2>1, <2>2
  <1>8. late = NoBuffer /\ Late = {} /\ Keeping' = Keeping
    BY <1>1, <1>2 DEF Late, Keeping
  <1>9. QED BY <1>1, <1>3, <1>5, <1>6, <1>7, <1>8, BufferSets

\* A stuck request only finishes its script.
LEMMA StuckCalls ==
    ASSUME ChainInv, ApiCall, Stuck
    PROVE  /\ Call \in {"endError", "return"} /\ (raiseErrorEnd \/ returns) /\ Stuck' /\ WriteBuffers(rt') = WriteBuffers(rt)
  <1>1. /\ Elems(script') \subseteq Elems(script) /\ Head(script) \in Elems(script) /\ Head(script) = <<Call, Arg>>
        /\ reader' = reader
    BY CallFrameFacts
  <1>2. Call \in {"endError", "return"}
    BY <1>1 DEF Stuck, Named
  <1>3. raiseErrorEnd \/ returns
    BY <1>2, CallCases DEF ApiCall
  <1>4. /\ rt'.tasks = rt.tasks /\ rt'.write_buffers = rt.write_buffers
        /\ rt'.call_later_task = rt.call_later_task
        /\ rt'.wait_read = rt.wait_read /\ rt'.wait_write = rt.wait_write
    BY <1>3, CallHands
  <1>5. QED BY <1>1, <1>2, <1>3, <1>4 DEF Stuck, WriteBuffers

\* The buffer goes to the tasks or to _write_buffers.
LEMMA HandOverKeeps ==
    ASSUME ChainInv, ApiCall, Apart, Alive, giveData \/ needWrite
    PROVE  Apart' /\ Alive' /\ Spent' \subseteq Spent
  <1>1. /\ OnceEach(script') /\ Tidy(script')
        /\ InHand = InHand' \cup ({Arg} \ {NoBuffer, Orphan}) /\ (Arg # NoBuffer => Arg \notin InHand')
        /\ late = NoBuffer /\ Late = {} /\ Keeping' = Keeping /\ parser' = parser
        /\ Call # "throw" => Arg # Orphan
        /\ NoBuffer \notin Buffers
    BY CallBooks
  <1>2. Call \in {"giveData", "needWrite"}
    BY CallCases
  <1>3. Arg \in Buffers /\ Handed(rt') = Handed(rt) \cup {Arg}
    BY CallHands
  <1>4. UNCHANGED <<live, freed, late>>
    BY DEF giveData, needWrite, Unrelated
  <1>5. Arg \in InHand /\ Arg # Orphan /\ Arg # NoBuffer
    BY <1>1, <1>2, <1>3
  <1>6. Late' = {} /\ late' = NoBuffer
    BY <1>1, <1>4 DEF Late
  <1>7. Held' = Held /\ Spent' = Spent
    BY <1>1, <1>3, <1>4, <1>5, <1>6 DEF Held, Spent
  <1>8. ~Stuck
    BY <1>2, StuckCalls
  <1>9. Apart'
    <2>1. /\ InHand \cap Handed(rt) = {} /\ InHand \cap Keeping = {} /\ Keeping \cap Handed(rt) = {}
          /\ Orphan \notin Held /\ (~parser.completed => Injective(parser.buffers))
      BY DEF Apart
    <2>2. /\ InHand' \cap Handed(rt') = {} /\ InHand' \cap Keeping' = {} /\ Keeping' \cap Handed(rt') = {}
          /\ Orphan \notin Held' /\ (~parser'.completed => Injective(parser'.buffers))
      BY <1>1, <1>3, <1>5, <1>7, <2>1
    <2>3. QED BY <1>1, <1>6, <2>2 DEF Apart
  <1>10. Alive'
    BY <1>4, <1>7, <1>8 DEF Alive
  <1>11. QED BY <1>7, <1>9, <1>10

\* The buffer is released.
LEMMA ReleaseKeeps ==
    ASSUME ChainInv, ApiCall, Apart, Alive, release
    PROVE  Apart' /\ Alive' /\ Spent' \subseteq Spent
  <1>1. /\ OnceEach(script') /\ Tidy(script')
        /\ InHand = InHand' \cup ({Arg} \ {NoBuffer, Orphan}) /\ (Arg # NoBuffer => Arg \notin InHand')
        /\ late = NoBuffer /\ Late = {} /\ Keeping' = Keeping /\ parser' = parser
        /\ Call # "throw" => Arg # Orphan
        /\ NoBuffer \notin Buffers
    BY CallBooks
  <1>2. Call = "release" /\ ~giveData /\ ~needWrite /\ ~raiseErrorReset
    <2>1. Call = "release"
      BY CallCases
    <2>2. QED BY <2>1, CallCases
  <1>3. Arg \in Buffers /\ Handed(rt') = Handed(rt)
    <2>1. Arg \in Buffers
      BY <1>2, CallFrameFacts, CallNamed
    <2>2. QED BY <1>2, <2>1, CallHands
  <1>4. freed' = freed \cup {Arg} /\ live' = live \ {Arg} /\ late' = late
    BY DEF release, Releases, Unrelated
  <1>5. Arg \in InHand /\ Arg # Orphan /\ Arg # NoBuffer /\ ~Stuck
    BY <1>1, <1>2, <1>3, StuckCalls
  <1>6. Late' = {} /\ late' = NoBuffer
    BY <1>1, <1>4 DEF Late
  <1>7. /\ InHand \cap Handed(rt) = {} /\ InHand \cap Keeping = {} /\ Keeping \cap Handed(rt) = {}
        /\ Orphan \notin Held /\ (~parser.completed => Injective(parser.buffers))
    BY DEF Apart
  <1>8. /\ live \cap freed = {} /\ live \ {Orphan} \subseteq Held /\ Held \subseteq live /\ Orphan \notin freed
    BY <1>5 DEF Alive
  <1>9. Held' = Held \ {Arg} /\ Arg \in live
    BY <1>1, <1>3, <1>5, <1>6, <1>7, <1>8 DEF Held
  <1>10. Spent' = Spent
    BY <1>4, <1>9 DEF Spent
  <1>11. Apart'
    <2>2. /\ InHand' \cap Handed(rt') = {} /\ InHand' \cap Keeping' = {} /\ Keeping' \cap Handed(rt') = {}
          /\ Orphan \notin Held' /\ (~parser'.completed => Injective(parser'.buffers))
      BY <1>1, <1>3, <1>7, <1>9
    <2>3. QED BY <1>1, <1>6, <2>2 DEF Apart
  <1>12. Alive'
    <2>1. live' \cap freed' = {} /\ live' \ {Orphan} \subseteq Held' /\ Held' \subseteq live' /\ Orphan \notin freed'
      BY <1>4, <1>5, <1>8, <1>9
    <2>2. QED BY <2>1 DEF Alive, Spent
  <1>13. QED BY <1>10, <1>11, <1>12

\* reset releases what the tasks hold, and what waits for the socket.
LEMMA ResetKeeps ==
    ASSUME ChainInv, ApiCall, Apart, Alive, ResetIsClean, raiseErrorReset
    PROVE  Apart' /\ Alive' /\ Spent' \subseteq Spent
  <1>1. /\ OnceEach(script') /\ Tidy(script')
        /\ InHand = InHand' \cup ({Arg} \ {NoBuffer, Orphan})
        /\ late = NoBuffer /\ Late = {} /\ Keeping' = Keeping /\ parser' = parser
        /\ Call \in Carriers \/ Arg \in {NoBuffer, Orphan}
    BY CallBooks
  <1>2. Call = "reset"
    BY CallCases
  <1>3. InHand' = InHand
    BY <1>1, <1>2 DEF Carriers
  <1>4. Handed(rt') = WriteBuffers(rt) /\ WriteBuffers(rt') = WriteBuffers(rt) /\ WriteBuffers(rt) \subseteq Handed(rt)
    BY CallHands DEF Handed
  <1>5. /\ freed' = freed \cup Handed(rt) /\ live' = live \ Handed(rt) /\ late' = late
        /\ rt'.tasks = <<>> /\ rt'.call_later_task = NoTask
        /\ rt'.write_buffers = rt.write_buffers /\ rt'.wait_read = FALSE /\ rt'.wait_write = FALSE
        /\ Head(script) \in Named({"reset"}) /\ reader' = reader
    BY ResetPlans, CallFrameFacts DEF raiseErrorReset, Unrelated
  <1>6. Late' = {} /\ late' = NoBuffer
    BY <1>1, <1>5 DEF Late
  <1>7. /\ InHand \cap Handed(rt) = {} /\ InHand \cap Keeping = {} /\ Keeping \cap Handed(rt) = {}
        /\ Orphan \notin Held /\ (~parser.completed => Injective(parser.buffers))
    BY DEF Apart
  <1>8. /\ live \cap freed = {} /\ live \ {Orphan} \subseteq Held /\ Held \subseteq live /\ Orphan \notin freed
    BY <1>2, StuckCalls DEF Alive
  <1>9. Held = Handed(rt) \cup InHand \cup Keeping /\ Held' = WriteBuffers(rt) \cup InHand \cup Keeping
    BY <1>1, <1>3, <1>4, <1>6 DEF Held
  <1>10. Spent' = Spent
    BY <1>5, <1>8, <1>9 DEF Spent
  <1>11. Apart'
    <2>2. /\ InHand' \cap Handed(rt') = {} /\ InHand' \cap Keeping' = {} /\ Keeping' \cap Handed(rt') = {}
          /\ Orphan \notin Held' /\ (~parser'.completed => Injective(parser'.buffers))
      BY <1>1, <1>3, <1>4, <1>7, <1>9
    <2>3. QED BY <1>1, <1>6, <2>2 DEF Apart
  <1>12. /\ live' \cap freed' = {} /\ live' \ {Orphan} \subseteq Held' /\ Held' \subseteq Spent' /\ Orphan \notin freed'
    <2>1. Orphan \notin Handed(rt)
      BY <1>7, <1>9
    <2>2. QED BY <1>4, <1>5, <1>8, <1>9, <1>10, <2>1 DEF Spent
  <1>13. Held' \subseteq live' \/ (Stuck' /\ Held' \subseteq live' \cup WriteBuffers(rt'))
    <2>1. CASE rt.write_buffers = <<>>
      <3>1. WriteBuffers(rt) = {}
        BY <2>1 DEF WriteBuffers
      <3>2. QED BY <1>5, <1>7, <1>8, <1>9, <3>1
    <2>2. CASE rt.write_buffers # <<>>
      <3>1. current = "reader" /\ reader.failed
        <4>1. Resetting
          BY <1>5, CallFrameFacts DEF Resetting
        <4>2. QED BY <2>2, <4>1 DEF ResetIsClean
      <3>2. Elems(script') \subseteq Named({"endError", "return"})
        <4>1. script # <<>> /\ script' = Tail(script) /\ Elems(script') \subseteq Elems(script) /\ Head(script) \in Elems(script)
          BY CallFrameFacts
        <4>2. ScriptInv(script, "reader")
          BY <3>1, <4>1, RunningNow
        <4>3. Elems(script) \cap Named({"reset", "endError"}) # {}
          <5>1. Named({"reset"}) \subseteq Named({"reset", "endError"})
            BY NamedMore
          <5>2. QED BY <1>5, <4>1, <5>1
        <4>4. Elems(script) \subseteq Named({"reset", "endError", "return"})
          <5>1. script \in Seq(Named({"reset", "endError", "return"}))
            BY <4>2, <4>3 DEF ScriptInv
          <5>2. QED BY <5>1, ElemsSeq
        <4>5. Elems(script') \cap Named({"reset", "insertAfter"}) = {}
          BY <4>1, <4>2, TailOfScript
        <4>6. QED BY <4>1, <4>4, <4>5 DEF Named
      <3>3. Stuck'
        BY <1>5, <2>2, <3>1, <3>2 DEF Stuck
      <3>4. Held' \subseteq live' \cup WriteBuffers(rt')
        BY <1>4, <1>5, <1>7, <1>8, <1>9
      <3>5. QED BY <3>3, <3>4
    <2>3. QED BY <2>1, <2>2
  <1>14. QED BY <1>10, <1>11, <1>12, <1>13 DEF Alive

\* A ModuleTask that failed keeps its buffer until it is destroyed.
LEMMA FailedTaskKeeps ==
    ASSUME ChainInv, ApiCall, Apart, Alive, notifyEndTask
    PROVE  Apart' /\ Alive' /\ Spent' \subseteq Spent
  <1>1. /\ OnceEach(script') /\ Tidy(script')
        /\ InHand = InHand' \cup ({Arg} \ {NoBuffer, Orphan}) /\ (Arg # NoBuffer => Arg \notin InHand')
        /\ late = NoBuffer /\ Late = {} /\ Keeping' = Keeping /\ parser' = parser
        /\ Call # "throw" => Arg # Orphan
        /\ NoBuffer \notin Buffers
    BY CallBooks
  <1>2. Call = "notifyEndTask"
    BY CallCases
  <1>3. UNCHANGED <<rt, live, freed>> /\ late' = Arg /\ caller' = "polling"
    BY DEF notifyEndTask
  <1>4. Late' = InHand \ InHand' /\ Handed(rt') = Handed(rt)
    BY <1>1, <1>2, <1>3 DEF Late
  <1>5. Held' = Held /\ Spent' = Spent
    BY <1>1, <1>3, <1>4 DEF Held, Spent
  <1>6. rt.has_error
    <2>1. Head(script) \in Named({"notifyEndTask"}) /\ Head(script) \in Elems(script) /\ script # <<>> /\ Head(script) = script[1]
      BY <1>2, CallFrameFacts, CallNamed
    <2>2. Fits(script, current, chain, rt)
      BY <2>1, RunningNow
    <2>3. script[1] \notin Named({"throw"})
      BY <2>1 DEF Named
    <2>4. QED BY <2>1, <2>2, <2>3 DEF Fits
  <1>7. Apart'
    <2>1. /\ InHand \cap Handed(rt) = {} /\ InHand \cap Keeping = {} /\ Keeping \cap Handed(rt) = {}
          /\ Orphan \notin Held /\ (~parser.completed => Injective(parser.buffers))
      BY DEF Apart
    <2>2. /\ InHand' \cap Handed(rt') = {} /\ InHand' \cap Keeping' = {} /\ Keeping' \cap Handed(rt') = {}
          /\ Late' \cap Handed(rt') = {} /\ Late' \cap Keeping' = {}
          /\ Orphan \notin Held' /\ (~parser'.completed => Injective(parser'.buffers))
      BY <1>1, <1>4, <1>5, <2>1
    <2>3. late' # NoBuffer => rt'.has_error /\ caller' \in {"polling", "noWork"}
      BY <1>3, <1>6
    <2>4. QED BY <1>1, <2>2, <2>3 DEF Apart
  <1>8. ~Stuck
    BY <1>2, StuckCalls
  <1>9. Alive'
    BY <1>3, <1>5, <1>8 DEF Alive
  <1>10. QED BY <1>5, <1>7, <1>9

\* Every other call moves no buffer.
LEMMA PlainCallKeeps ==
    ASSUME ChainInv, ApiCall, Apart, Alive,
           needRead \/ callLater \/ raiseEnd \/ raiseErrorEnd \/ insertAfter \/ endInput \/ returns \/ throws
    PROVE  Apart' /\ Alive' /\ Spent' \subseteq Spent
  <1>1. /\ OnceEach(script') /\ Tidy(script')
        /\ InHand = InHand' \cup ({Arg} \ {NoBuffer, Orphan})
        /\ late = NoBuffer /\ Late = {} /\ Keeping' = Keeping /\ parser' = parser
        /\ Call \in Carriers \/ Arg \in {NoBuffer, Orphan}
    BY CallBooks
  <1>2. Call \in {"needRead", "callLater", "raiseEnd", "endError", "insertAfter", "endInput", "return", "throw"}
    BY CallCases
  <1>3. InHand' = InHand
    BY <1>1, <1>2 DEF Carriers
  <1>4. Handed(rt') = Handed(rt)
    <2>1. ~giveData /\ ~needWrite /\ ~raiseErrorReset
      BY <1>2, CallCases
    <2>2. QED BY <2>1, CallHands
  <1>5. UNCHANGED <<live, freed, late>>
    BY DEF needRead, callLater, raiseEnd, raiseErrorEnd, insertAfter, endInput, returns, throws, Unrelated
  <1>6. Late' = {} /\ late' = NoBuffer
    BY <1>1, <1>5 DEF Late
  <1>7. Held' = Held /\ Spent' = Spent
    BY <1>1, <1>3, <1>4, <1>5, <1>6 DEF Held, Spent
  <1>8. Apart'
    <2>1. /\ InHand \cap Handed(rt) = {} /\ InHand \cap Keeping = {} /\ Keeping \cap Handed(rt) = {}
          /\ Orphan \notin Held /\ (~parser.completed => Injective(parser.buffers))
      BY DEF Apart
    <2>2. /\ InHand' \cap Handed(rt') = {} /\ InHand' \cap Keeping' = {} /\ Keeping' \cap Handed(rt') = {}
          /\ Orphan \notin Held' /\ (~parser'.completed => Injective(parser'.buffers))
      BY <1>1, <1>3, <1>4, <1>7, <2>1
    <2>3. QED BY <1>1, <1>6, <2>2 DEF Apart
  <1>9. Alive'
    <2>1. Stuck => Stuck' /\ WriteBuffers(rt') = WriteBuffers(rt)
      BY StuckCalls
    <2>2. QED BY <1>5, <1>7, <2>1 DEF Alive
  <1>10. QED BY <1>7, <1>8, <1>9

LEMMA ApiCallKeepsLedger ==
    ASSUME ChainInv, ApiCall, Ledger, ResetIsClean
    PROVE  Ledger'
  <1>1. caller = "running" /\ Apart /\ Alive /\ Fresh
    BY CallCases DEF Ledger
  <1>2. Apart' /\ Alive' /\ Spent' \subseteq Spent
    <2>1. CASE giveData \/ needWrite
      BY <1>1, <2>1, HandOverKeeps
    <2>2. CASE release
      BY <1>1, <2>2, ReleaseKeeps
    <2>3. CASE raiseErrorReset
      BY <1>1, <2>3, ResetKeeps
    <2>4. CASE notifyEndTask
      BY <1>1, <2>4, FailedTaskKeeps
    <2>5. CASE needRead \/ callLater \/ raiseEnd \/ raiseErrorEnd \/ insertAfter \/ endInput \/ returns \/ throws
      BY <1>1, <2>5, PlainCallKeeps
    <2>6. QED BY <2>1, <2>2, <2>3, <2>4, <2>5 DEF ApiCall
  <1>3. Fresh'
    BY <1>1, <1>2, CallKeepsFresh
  <1>4. QED BY <1>2, <1>3 DEF Ledger

-----------------------------------------------------------------------------
(* The task manager, the client and the pool keep the books.                 *)

\* hasWork asks for no read that was not asked for, and does nothing to a
\* request that waits for nothing.
LEMMA WorkWaits ==
    ASSUME NEW s \in T!State, NEW e \in BOOLEAN, NEW d \in BOOLEAN
    PROVE  LET r == T!hasWork(s, e, d)
           IN  /\ r.wait_read => s.wait_read
               /\ s.has_error => r = s /\ ~T!HasWorkResult(r)
               /\ ~s.wait_read /\ ~s.wait_write /\ s.tasks = <<>> /\ s.call_later_task = NoTask /\ s.write_buffers # <<>>
                    => r = s
  <1> DEFINE a == T!DispatchRead(s)
             b == T!DispatchWrite(a)
             c == T!DispatchCallLater(b, d)
             f == T!DispatchEnd(c)
             r == T!hasWork(s, e, d)
  <1>1. s.has_error => r = s /\ ~T!HasWorkResult(r)
    BY DEF T!hasWork, T!HasWorkResult
  <1>2. ~s.has_error /\ T!Silent(s) /\ e => r = T!TimeOut(s)
    BY DEF T!hasWork
  <1>3. ~s.has_error /\ ~(T!Silent(s) /\ e) => r = f
    BY DEF T!hasWork
  <1>4. T!TimeOut(s).wait_read => s.wait_read
    <2> DEFINE u == [s EXCEPT !.wait_read = FALSE, !.wait_write = FALSE, !.has_error = TRUE]
    <2>1. u.wait_read = FALSE /\ [u EXCEPT !.registered = FALSE].wait_read = FALSE
      BY DEF T!State
    <2>2. T!TimeOut(s) = IF T!Wanted(u) THEN u ELSE [u EXCEPT !.registered = FALSE]
      BY DEF T!TimeOut, T!Unregister
    <2>3. QED BY <2>1, <2>2
  <1>5. a.wait_read => s.wait_read
    BY DEF T!DispatchRead, T!addTask, T!ModuleTask, T!State, T!DataEvents
  <1>6. b.wait_read => a.wait_read
    <2>1. CASE ~T!WriteReady(a)
      BY <2>1 DEF T!DispatchWrite
    <2>2. CASE T!WriteReady(a)
      <3> DEFINE u == [a EXCEPT !.can_write = FALSE, !.write_buffers = Tail(@), !.wait_write = Len(a.write_buffers) > 1]
                 t == T!ModuleTask("ON_CAN_WRITE", "out", Head(a.write_buffers))
                 v == T!addTask(u, t)
      <3>1. a \in T!State
        <4>1. a = s \/ a = T!addTask([s EXCEPT !.wait_read = FALSE, !.can_read = FALSE], CanRead)
          BY DEF T!DispatchRead, CanRead
        <4>2. CanRead \in T!Task
          BY TaskSets DEF ReadTasks
        <4>3. CASE a = s
          BY <4>3
        <4>4. CASE a = T!addTask([s EXCEPT !.wait_read = FALSE, !.can_read = FALSE], CanRead)
          <5> DEFINE w == [s EXCEPT !.wait_read = FALSE, !.can_read = FALSE]
          <5>1. w \in T!State
            BY DEF T!State
          <5> HIDE DEF w
          <5>2. CanRead.event = "ON_CAN_READ"
            BY DEF CanRead, T!ModuleTask
          <5>3. T!addTask(w, CanRead) = [w EXCEPT !.tasks = Append(@, CanRead)]
            BY <5>2 DEF T!addTask, T!DataEvents
          <5>4. w.tasks \in Seq(T!Task)
            BY <5>1 DEF T!State
          <5>5. Append(w.tasks, CanRead) \in Seq(T!Task)
            BY <4>2, <5>4
          <5>6. [w EXCEPT !.tasks = Append(@, CanRead)] \in T!State
            BY <5>1, <5>5 DEF T!State
          <5>7. QED BY <4>4, <5>3, <5>6 DEF w
        <4>5. QED BY <4>1, <4>3, <4>4
      <3>2. u.wait_read = a.wait_read /\ v.wait_read = u.wait_read /\ [v EXCEPT !.registered = TRUE].wait_read = v.wait_read
        <4> HIDE DEF a
        <4>1. u.wait_read = a.wait_read
          BY <3>1 DEF T!State
        <4>2. t.event = "ON_CAN_WRITE"
          BY DEF T!ModuleTask
        <4> HIDE DEF t
        <4>3. v = [u EXCEPT !.tasks = <<t>> \o @]
          BY <4>2 DEF T!addTask
        <4>4. v.wait_read = u.wait_read
          BY <3>1, <4>3 DEF T!State
        <4>5. [v EXCEPT !.registered = TRUE].wait_read = v.wait_read
          <5> HIDE DEF u
          <5>1. QED BY <4>3
        <4>6. QED BY <4>1, <4>4, <4>5
      <3>3. b = T!Register(v)
        BY <2>2 DEF T!DispatchWrite
      <3> HIDE DEF a, u, t, v
      <3>4. b = v \/ b = [v EXCEPT !.registered = TRUE]
        BY <3>3 DEF T!Register
      <3>5. QED BY <3>2, <3>4
    <2>3. QED BY <2>1, <2>2
  <1> HIDE DEF a, b
  <1>7. c.wait_read = b.wait_read
    BY DEF T!DispatchCallLater
  <1> HIDE DEF c
  <1>8. f.wait_read = c.wait_read
    BY DEF T!DispatchEnd
  <1> HIDE DEF f
  <1>9. r.wait_read => s.wait_read
    BY <1>1, <1>2, <1>3, <1>4, <1>5, <1>6, <1>7, <1>8
  <1>10. ~s.wait_read /\ ~s.wait_write /\ s.tasks = <<>> /\ s.call_later_task = NoTask /\ s.write_buffers # <<>> => r = s
    <2> SUFFICES ASSUME ~s.wait_read, ~s.wait_write, s.tasks = <<>>, s.call_later_task = NoTask, s.write_buffers # <<>>
                 PROVE  r = s
      OBVIOUS
    <2>1. ~T!Silent(s) /\ a = s
      BY DEF T!Silent, T!DispatchRead, a
    <2>2. b = a
      BY <2>1 DEF T!DispatchWrite, T!WriteReady, b
    <2>3. c = b
      BY <2>1, <2>2 DEF T!DispatchCallLater, c
    <2>4. f = c
      BY <2>1, <2>2, <2>3 DEF T!DispatchEnd, f
    <2>5. QED BY <1>1, <1>3, <2>1, <2>2, <2>3, <2>4
  <1>11. QED BY <1>1, <1>9, <1>10

\* The same hands hold the same buffers.
LEMMA SameBooks ==
    ASSUME Apart, Alive, Handed(rt') = Handed(rt), UNCHANGED <<script, parser, late, live, freed>>,
           late # NoBuffer => rt'.has_error /\ caller' \in {"polling", "noWork"},
           Stuck => Stuck' /\ WriteBuffers(rt') = WriteBuffers(rt)
    PROVE  Apart' /\ Alive'
  <1>1. InHand' = InHand /\ Keeping' = Keeping /\ Late' = Late /\ Spent' = Spent
    BY DEF InHand, BuffersOf, Keeping, Late, Spent
  <1>2. Held' = Held
    BY <1>1 DEF Held
  <1>3. Apart'
    <2>1. OnceEach(script') /\ Tidy(script') /\ (~parser'.completed => Injective(parser'.buffers))
      BY DEF Apart
    <2> HIDE DEF InHand, Keeping, Late, Held
    <2>2. QED BY <1>1, <1>2, <2>1 DEF Apart
  <1>4. Alive'
    BY <1>1, <1>2 DEF Alive
  <1>5. QED BY <1>3, <1>4

LEMMA SameFresh ==
    ASSUME Fresh, Spent' \subseteq Spent, UNCHANGED <<script, current, parser, reader, pob, told>>,
           rt'.wait_read => rt.wait_read, CanRead \in Planned(rt') => CanRead \in Planned(rt) \/ rt.wait_read,
           Planned(rt') \cap ResponseTasks \subseteq Planned(rt)
    PROVE  Fresh'
  <1>1. Asks' => Asks
    BY DEF Asks
  <1>2. \A b \in Pages : (Coming(b)' => Coming(b)) /\ (Given(b)' => Given(b))
    BY DEF Coming, Given
  <1> HIDE DEF Asks, Spent
  <1>3. QED BY <1>1, <1>2 DEF Fresh

LEMMA PollKeepsLedger ==
    ASSUME ChainInv, Ledger, NEW expired \in BOOLEAN, NEW due \in BOOLEAN, Poll(expired, due)
    PROVE  Ledger'
  <1>1. /\ rt' = T!hasWork(rt, expired, due) /\ caller = "polling"
        /\ caller' = IF T!HasWorkResult(rt') THEN "dispatching" ELSE "noWork"
        /\ TP!Consistent(rt) /\ QueueInv(rt) /\ Still(rt) /\ rt \in T!State
        /\ UNCHANGED <<script, current, parser, reader, pob, told, late, live, freed>>
    BY PollFacts, ConsistentType DEF Request
  <1>2. Apart /\ Alive /\ Fresh
    BY <1>1 DEF Ledger
  <1>3. /\ Handed(rt') = Handed(rt)
        /\ Planned(rt') \subseteq Planned(rt)
              \cup (IF rt.wait_read THEN {CanRead} ELSE {})
              \cup (IF rt.write_buffers # <<>> THEN {WriteTask(Head(rt.write_buffers))} ELSE {})
    BY <1>1, HasWorkEffect
  <1>4. /\ rt'.wait_read => rt.wait_read
        /\ rt.has_error => rt' = rt /\ ~T!HasWorkResult(rt')
        /\ Stuck => rt' = rt
    BY <1>1, WorkWaits DEF Stuck
  <1>5. Apart' /\ Alive'
    <2>1. late # NoBuffer => rt'.has_error /\ caller' \in {"polling", "noWork"}
      BY <1>1, <1>2, <1>4 DEF Apart
    <2>2. Stuck => Stuck' /\ WriteBuffers(rt') = WriteBuffers(rt)
      BY <1>1, <1>4 DEF Stuck
    <2>3. QED BY <1>1, <1>2, <1>3, <2>1, <2>2, SameBooks
  <1>6. Fresh'
    <2>1. \A b : WriteTask(b) # CanRead /\ WriteTask(b) \notin ResponseTasks /\ CanRead \notin ResponseTasks
      BY DEF WriteTask, CanRead, ResponseTasks, Tasks, T!ModuleTask
    <2>2. CanRead \in Planned(rt') => CanRead \in Planned(rt) \/ rt.wait_read
      BY <1>3, <2>1
    <2>3. Planned(rt') \cap ResponseTasks \subseteq Planned(rt)
      BY <1>3, <2>1
    <2>4. Spent' = Spent
      BY <1>1 DEF Spent
    <2>5. QED BY <1>1, <1>2, <1>4, <2>2, <2>3, <2>4, SameFresh
  <1>7. QED BY <1>5, <1>6 DEF Ledger

LEMMA AroundKeepsLedger ==
    ASSUME ChainInv, Ledger, KeepWaiting \/ ClientSends \/ Report \/ Deliver, caller # "ended"
    PROVE  Ledger'
  <1>1. /\ UNCHANGED <<script, current, parser, reader, pob, told, late, live, freed>>
        /\ caller' = caller \/ caller' = "polling"
    BY DEF KeepWaiting, ClientSends, Report, Deliver, Request
  <1>2. /\ rt \in T!State /\ Apart /\ Alive /\ Fresh
    BY DEF Ledger, ChainInv, TypeOK
  <1>3. /\ SameQueue(rt, rt') /\ rt'.wait_read = rt.wait_read /\ rt'.wait_write = rt.wait_write
        /\ rt.has_error => rt'.has_error
    <2>1. CASE KeepWaiting \/ ClientSends \/ Report
      BY <2>1 DEF KeepWaiting, ClientSends, Report, SameQueue
    <2>2. CASE Deliver
      <3>1. reported \in T!SocketEvents /\ rt' = T!handleSocketEvent(rt, reported)
        BY <2>2 DEF ChainInv, TypeOK, Deliver
      <3>2. QED BY <1>2, <3>1, SocketEffect, WaitEffects
    <2>3. QED BY <2>1, <2>2
  <1>4. Handed(rt') = Handed(rt) /\ Planned(rt') = Planned(rt) /\ WriteBuffers(rt') = WriteBuffers(rt)
    BY <1>3, SameTasks
  <1>5. Apart' /\ Alive'
    <2>1. late # NoBuffer => rt'.has_error /\ caller' \in {"polling", "noWork"}
      BY <1>1, <1>2, <1>3 DEF Apart
    <2>2. Stuck => Stuck' /\ WriteBuffers(rt') = WriteBuffers(rt)
      BY <1>1, <1>3, <1>4 DEF Stuck, SameQueue
    <2>3. QED BY <1>1, <1>2, <1>4, <2>1, <2>2, SameBooks
  <1>6. Fresh'
    <2>1. Spent' = Spent
      BY <1>1 DEF Spent
    <2>2. QED BY <1>1, <1>2, <1>3, <1>4, <2>1, SameFresh
  <1>7. QED BY <1>5, <1>6 DEF Ledger

\* A module that failed is through, and so is its script.
LEMMA LateHands ==
    ASSUME ChainInv, Ledger, late # NoBuffer, caller # "ended"
    PROVE  /\ InHand = {} /\ Late = {late} /\ late \in Held /\ late # Orphan
           /\ late \notin Handed(rt) \cup InHand \cup Keeping /\ late \in Buffers
  <1>1. Apart /\ late \in Buffers
    BY DEF Ledger, ChainInv, TypeOK
  <1>2. caller # "running"
    BY <1>1 DEF Apart
  <1>3. InHand = {}
    BY <1>2, NoScript, NothingAsked DEF InHand, BuffersOf
  <1>4. QED BY <1>1, <1>3 DEF Apart, Late, Held

LEMMA ReleaseLateKeepsLedger ==
    ASSUME ChainInv, Ledger, Gone, ReleaseLate
    PROVE  Ledger' /\ Gone'
  <1>1. /\ late # NoBuffer /\ freed' = freed \cup {late} /\ live' = live \ {late} /\ late' = NoBuffer
        /\ UNCHANGED <<rt, caller, script, current, parser, reader, pob, told>>
    BY DEF ReleaseLate, Releases
  <1>2. CASE caller = "ended"
    BY <1>1, <1>2 DEF Gone, Ledger
  <1>3. CASE caller # "ended"
    <2>1. /\ InHand = {} /\ Late = {late} /\ late \in Held /\ late # Orphan
          /\ late \notin Handed(rt) \cup InHand \cup Keeping
      BY <1>1, <1>3, LateHands
    <2>2. Apart /\ Alive /\ Fresh
      BY <1>3 DEF Ledger
    <2>3. InHand' = InHand /\ Keeping' = Keeping /\ Late' = {}
      BY <1>1 DEF InHand, BuffersOf, Keeping, Late
    <2>4. Held' = Held \ {late} /\ Held = Handed(rt) \cup InHand \cup Keeping \cup {late}
      BY <1>1, <2>1, <2>3 DEF Held
    <2>5. Spent' = Spent
      BY <1>1, <2>1, <2>2 DEF Spent, Alive
    <2>6. Apart'
      <3>1. OnceEach(script') /\ Tidy(script') /\ (~parser'.completed => Injective(parser'.buffers))
        BY <1>1, <2>2 DEF Apart
      <3>2. late' = NoBuffer /\ Late' = {} /\ Orphan \notin Held'
        BY <1>1, <2>2, <2>3, <2>4 DEF Apart
      <3> HIDE DEF InHand, Keeping, Late, Held
      <3>3. /\ InHand' \cap Handed(rt') = {} /\ InHand' \cap Keeping' = {} /\ Keeping' \cap Handed(rt') = {}
        BY <1>1, <2>2, <2>3 DEF Apart
      <3>4. QED BY <3>1, <3>2, <3>3 DEF Apart
    <2>7. Alive'
      <3>1. live' \cap freed' = {} /\ live' \ {Orphan} \subseteq Held' /\ Held' \subseteq Spent' /\ Orphan \notin freed'
        BY <1>1, <2>1, <2>2, <2>4, <2>5 DEF Alive
      <3>2. CASE Held \subseteq live
        <4>1. Held' \subseteq live'
          BY <1>1, <2>4, <3>2
        <4>2. QED BY <3>1, <4>1 DEF Alive
      <3>3. CASE Stuck /\ Held \subseteq live \cup WriteBuffers(rt)
        <4>1. Stuck'
          BY <1>1, <3>3 DEF Stuck
        <4>2. Held' \subseteq live' \cup WriteBuffers(rt')
          BY <1>1, <2>4, <3>3
        <4>3. QED BY <3>1, <4>1, <4>2 DEF Alive
      <3>4. QED BY <2>2, <3>2, <3>3 DEF Alive
    <2>8. Fresh'
      BY <1>1, <2>2, <2>5, SameFresh
    <2>9. QED BY <1>1, <1>3, <2>6, <2>7, <2>8 DEF Ledger, Gone
  <1>4. QED BY <1>2, <1>3

\* Nothing is left but what a failed ModuleTask holds, and the buffer of a
\* failed read().
LEMMA DestroyKeeps ==
    ASSUME ChainInv, Ledger, Destroy
    PROVE  Ledger' /\ Gone'
  <1>1. /\ caller = "noWork" /\ caller' = "ended" /\ late' = late
        /\ freed' = freed \cup (Handed(rt) \cup Keeping) /\ live' = live \ (Handed(rt) \cup Keeping)
    BY DEF Destroy, Releases, Handed, Keeping, Elems
  <1>2. InHand = {}
    BY <1>1, NoScript, NothingAsked DEF InHand, BuffersOf
  <1>3. live \cap freed = {} /\ live \ {Orphan} \subseteq Handed(rt) \cup Keeping \cup Late
    BY <1>1, <1>2 DEF Ledger, Alive, Held
  <1>4. live' \cap freed' = {} /\ live' \subseteq {late', Orphan}
    BY <1>1, <1>3 DEF Late
  <1>5. QED BY <1>1, <1>4 DEF Ledger, Gone

-----------------------------------------------------------------------------
(* A handler keeps the books.                                                *)

\* The buffer of the task that starts, and those its module holds or makes.
Taken == {task'.buffer} \ {NoBuffer}
Made == BuffersOf(script') \ freed

LEMMA TakenBuffer ==
    ASSUME ChainInv, Start, Apart, Alive
    PROVE  /\ Handed(rt) = Handed(rt') \cup Taken /\ Handed(rt') \cap Taken = {} /\ Taken \subseteq Buffers \ {Orphan}
           /\ InHand = {} /\ late' = NoBuffer /\ Late = {} /\ Late' = {} /\ Held = Handed(rt) \cup Keeping
           /\ Held \subseteq live /\ Held \cap freed = {} /\ Taken \cap Keeping = {} /\ Handed(rt') \cap Keeping = {}
           /\ live \cup Made \subseteq live' /\ live' \subseteq live \cup Made \cup {Orphan} /\ freed' = freed
  <1>1. /\ script = <<>> /\ caller = "dispatching" /\ task' = Head(rt.tasks) /\ task' \in ChainTasks
        /\ task'.buffer \notin Handed(rt')
    BY StartFrame
  <1>2. rt'.tasks = Tail(rt.tasks) /\ rt'.write_buffers = rt.write_buffers
    BY StartTakes
  <1>3. rt.tasks \in Seq(ChainTasks) /\ rt.tasks # <<>>
    BY <1>1 DEF ChainInv, Bookkeeping, QueueInv, QueueType, Ready
  <1>4. Elems(rt.tasks) = Elems(rt'.tasks) \cup {task'}
    BY <1>1, <1>2, <1>3, TailElems
  <1>5. TaskBuffers(rt) = TaskBuffers(rt') \cup Taken
    BY <1>4, MoreTaskBuffers DEF Taken
  <1>6. WriteBuffers(rt') = WriteBuffers(rt)
    BY <1>2 DEF WriteBuffers
  <1>7. Handed(rt) = Handed(rt') \cup Taken /\ Handed(rt') \cap Taken = {}
    BY <1>1, <1>5, <1>6 DEF Handed, Taken
  <1>8. InHand = {}
    BY <1>1, NothingAsked DEF InHand, BuffersOf
  <1>9. late = NoBuffer /\ late' = NoBuffer
    BY <1>1 DEF Apart, Start
  <1>10. Taken \subseteq Buffers \ {Orphan}
    <2>1. Orphan \notin Handed(rt)
      BY DEF Apart, Held
    <2>2. task' \in FrontTasks => task'.buffer \in Buffers
      BY TaskSets
    <2>3. task' \notin FrontTasks => task'.buffer = NoBuffer
      BY <1>1, TaskSets
    <2>4. QED BY <1>7, <2>1, <2>2, <2>3 DEF Taken
  <1>11. Held = Handed(rt) \cup Keeping
    BY <1>8, <1>9 DEF Held, Late
  <1>12. Held \subseteq live /\ live \cap freed = {}
    BY <1>3 DEF Alive, Stuck
  <1>13. live \cup Made \subseteq live' /\ live' \subseteq live \cup Made \cup {Orphan} /\ freed' = freed
    <2>1. /\ \E left \in SUBSET {Orphan} :
                live' = live \cup ({script'[i][2] : i \in DOMAIN script'} \ (freed \cup {NoBuffer})) \cup left
          /\ freed' = freed
      BY DEF Start, Remainder
    <2>2. {script'[i][2] : i \in DOMAIN script'} = {c[2] : c \in Elems(script')}
      BY DEF Elems
    <2>3. QED BY <2>1, <2>2 DEF BuffersOf, Made
  <1> HIDE DEF Taken, Handed, Keeping
  <1>14. Keeping \cap Handed(rt) = {}
    BY DEF Apart
  <1>15. QED BY <1>7, <1>8, <1>9, <1>10, <1>11, <1>12, <1>13, <1>14 DEF Late

\* What the module names or keeps now is what it was given or kept, and what it
\* makes.
LEMMA StartHolds ==
    ASSUME ChainInv, Start, Apart, Alive, OnceEach(script'), Tidy(script'), ~parser'.completed => Injective(parser'.buffers),
           NEW N, N \cap Spent = {}, Orphan \notin N,
           InHand' \cup Keeping' = Taken \cup Keeping \cup N, Keeping' \subseteq Taken \cup Keeping, InHand' \cap Keeping' = {}
    PROVE  Apart' /\ Alive' /\ Spent' \subseteq Spent \cup N \cup {Orphan}
  <1>1. /\ Handed(rt) = Handed(rt') \cup Taken /\ Handed(rt') \cap Taken = {} /\ Taken \subseteq Buffers \ {Orphan}
        /\ late' = NoBuffer /\ Late' = {} /\ Held = Handed(rt) \cup Keeping
        /\ Held \subseteq live /\ Held \cap freed = {} /\ Taken \cap Keeping = {} /\ Handed(rt') \cap Keeping = {}
        /\ live \cup Made \subseteq live' /\ live' \subseteq live \cup Made \cup {Orphan} /\ freed' = freed
    BY TakenBuffer
  <1>2. /\ Orphan \notin Held /\ Orphan \notin freed /\ live \cap freed = {} /\ live \ {Orphan} \subseteq Held
    BY DEF Apart, Alive
  <1>3. InHand' = BuffersOf(script') \ {Orphan} /\ Handed(rt)' = Handed(rt')
    BY DEF InHand, BuffersOf, Handed, TaskBuffers, WriteBuffers
  <1>4. Held' = Handed(rt') \cup InHand' \cup Keeping' \cup Late'
    BY DEF Held, Handed, TaskBuffers, WriteBuffers
  <1> DEFINE S == BuffersOf(script')
             I == InHand'
             K == Keeping'
             H == Handed(rt')
  <1>5. Spent = live \cup freed /\ Spent' = live' \cup freed'
    BY DEF Spent
  <1>6. Apart'
    <2>1. I \cap H = {} /\ I \cap K = {} /\ K \cap H = {}
      BY <1>1, <1>2, <1>5
    <2>2. Orphan \notin Held'
      BY <1>1, <1>2, <1>4
    <2>3. QED BY <1>1, <1>3, <2>1, <2>2 DEF Apart
  <1> HIDE DEF S, I, K, H
  <1>7. Alive'
    <2>1. live' \cap freed' = {} /\ Orphan \notin freed'
      BY <1>1, <1>2 DEF Made
    <2>2. live' \ {Orphan} \subseteq Held'
      BY <1>1, <1>2, <1>3, <1>4 DEF I, K, H, S, Made
    <2>3. Held' \subseteq live'
      BY <1>1, <1>3, <1>4, <1>5 DEF I, K, H, S, Made
    <2>4. QED BY <1>5, <2>1, <2>2, <2>3 DEF Alive
  <1>8. Spent' \subseteq Spent \cup N \cup {Orphan}
    <2>1. S \subseteq I \cup {Orphan}
      BY <1>3 DEF I, S
    <2>2. I \subseteq Spent \cup N
      BY <1>1, <1>5 DEF I, K
    <2>3. QED BY <1>1, <1>5, <2>1, <2>2 DEF S, Made
  <1>9. QED BY <1>6, <1>7, <1>8

\* Only Parser asks for more to read, only ModError makes pages, FileReader
\* reads on.
LEMMA StartAsksNoMore ==
    ASSUME ChainInv, Start, task' \notin PieceTasks
    PROVE  /\ Asks' => Asks
           /\ task' = CanRead => Asks /\ ~Asks'
           /\ \A b \in Pages : current' = "error" /\ Given(b)' => task' \in EndTasks
           /\ \A b \in Pages : Coming(b)' => Coming(b)
           /\ reader'.left <= reader.left /\ reader.left \in 0..FileSize /\ reader'.left \in 0..FileSize
           /\ told \subseteq told' /\ (pob'.headers \/ pob'.headers = pob.headers)
  <1>1. /\ Planned(rt') \subseteq Planned(rt) /\ task' \in ChainTasks /\ task' \in Planned(rt)
        /\ task' \in ReadTasks => Reads(rt) /\ ~Reads(rt')
        /\ QueueInv(rt') /\ current' = task'.module /\ rt' = T!getNextTask(rt) /\ rt \in T!State
        /\ ProcessRequest(task')
    BY StartFrame
  <1>2. ChainInv'
    BY StartStep
  <1>3. rt'.wait_read = rt.wait_read
    BY <1>1, TakeEffect DEF SameWaits
  <1>4. Elems(script') \cap Named({"needRead"}) = {}
    <2>1. CASE script' = <<>>
      BY <2>1, ShortScripts
    <2>2. CASE script' # <<>> /\ current' # "parser"
      <3>1. ScriptInv(script', current') /\ current' \in Modules
        BY <1>2, <2>2 DEF ChainInv, Running
      <3>2. Elems(script') \subseteq CallsOf(current')
        BY <3>1, ElemsSeq DEF ScriptInv
      <3>3. CallsOf(current') \cap Named({"needRead"}) = {}
        BY <2>2, <3>1 DEF CallsOf, Modules, Processing, Named, Gives, Releasing
      <3>4. QED BY <3>2, <3>3
    <2>3. CASE current' = "parser"
      <3>1. task' \in EndTasks
        BY <1>1, <2>3, KindsAre
      <3>2. Elems(script') = {RaiseEnd, Return}
        BY <1>1, <2>3, <3>1, EndAnswer
      <3>3. QED BY <3>2 DEF RaiseEnd, Return, Named
    <2>4. QED BY <2>1, <2>2, <2>3
  <1>5. Asks' => Asks
    BY <1>1, <1>3, <1>4 DEF Asks
  <1>6. task' = CanRead => Asks /\ ~Asks'
    <2> SUFFICES ASSUME task' = CanRead PROVE Asks /\ ~Asks'
      OBVIOUS
    <2>1. Asks
      BY <1>1 DEF Asks
    <2>2. ~Reads(rt')
      BY <1>1, TaskSets
    <2>3. ~rt'.wait_read /\ CanRead \notin Elems(rt'.tasks)
      BY <2>2, TaskSets DEF Reads
    <2>4. CanRead # rt'.end_task /\ CanRead # rt'.call_later_task
      BY <1>1, TaskSets DEF QueueInv, QueueType
    <2>5. CanRead \notin Planned(rt')
      BY <2>3, <2>4 DEF Planned
    <2>6. QED BY <1>4, <2>1, <2>3, <2>5 DEF Asks
  <1>7. ASSUME NEW b \in Pages, current' = "error", Given(b)' PROVE task' \in EndTasks
    <2>1. GiveData(b) \in Elems(script')
      BY <1>7 DEF Given
    <2>2. CASE task' \in BodyTasks \cup HeadersTasks
      <3>1. Elems(script') = {Release(task'.buffer), Return}
        BY <1>1, <1>7, <2>2, BodyAnswer, HeadersAnswer
      <3>2. QED BY <2>1, <3>1 DEF GiveData, Release, Return
    <2>3. QED BY <1>1, <1>7, <2>2, KindsAre
  <1>8. \A b \in Pages : Coming(b)' => Coming(b)
    BY <1>1 DEF Coming
  <1>9. reader'.left <= reader.left /\ reader.left \in 0..FileSize /\ reader'.left \in 0..FileSize
    <2>1. reader.left \in 0..FileSize /\ reader'.left \in 0..FileSize /\ FileSize \in Nat
      BY <1>2, RequestChainAssumption DEF ChainInv, TypeOK
    <2>2. reader'.left = reader.left \/ reader'.left = reader.left - 1
      <3>1. reader' = reader \/ ReaderIdle(task') \/ ReaderEnd(task')
        BY <1>1 DEF ProcessRequest, NetworkRead, NetworkWrite, NetworkEnd, ParserIncomplete, ParserComplete, ParserEnd,
           BuilderFirst, BuilderAgain, ReaderData, ErrorEnd, ErrorData, PreOutputRequestData, PreOutputData,
           PreOutputEnd, SameModules
      <3>2. ASSUME ReaderIdle(task') PROVE reader'.left = reader.left \/ reader'.left = reader.left - 1
        <4>1. task' \in IdleTasks
          <5>1. task'.event = "ON_IDLE"
            BY <3>2 DEF ReaderIdle
          <5>2. QED BY <1>1, <5>1, KindsAre
        <4>2. QED BY <4>1, IdleAnswer DEF ReadsOne
      <3>3. ASSUME ReaderEnd(task') PROVE reader'.left = reader.left \/ reader'.left = reader.left - 1
        <4>1. task'.event = "ON_END" /\ task'.module = "reader"
          BY <3>3 DEF ReaderEnd
        <4>2. task' \in EndTasks
          BY <1>1, <4>1, KindsAre
        <4>3. ReaderAtEnd
          BY <4>1, <4>2, EndAnswer
        <4>4. reader \in [open : BOOLEAN, left : 0..FileSize, failed : BOOLEAN, delayed : BOOLEAN]
          BY DEF ChainInv, TypeOK
        <4>5. QED BY <4>3, <4>4 DEF ReaderAtEnd, ReadsOne
      <3>4. QED BY <3>1, <3>2, <3>3
    <2>3. QED BY <2>1, <2>2
  <1>10. told \subseteq told' /\ (pob'.headers \/ pob'.headers = pob.headers)
    BY StartTakes, HeadersStay
  <1>11. QED BY <1>5, <1>6, <1>7, <1>8, <1>9, <1>10

\* What a handler makes there was not before.
Adds(N) ==
    /\ N \cap Spent = {} /\ Orphan \notin N /\ RequestBody \notin N
    /\ \A n \in 1..Pieces : Piece(n) \in N => n <= Len(parser.buffers) + 1 /\ ~Asks'
    /\ Headers \in N => pob'.headers
    /\ Final \in N => "pob" \in told'
    /\ N \cap Pages # {} => "error" \in told'
    /\ \A b \in Pages : ChunkInfo(b) \in N => ~Coming(b)' /\ current' = "pob" /\ "error" \in told'
    /\ \A n \in 1..FileSize : Data(n) \in N => n <= FileSize - reader'.left

LEMMA StartSpends ==
    ASSUME ChainInv, EndPasses, Start, Ledger, task' \notin PieceTasks, parser' = parser,
           NEW bs, Booked(script', bs), Taken \subseteq bs, Adds(bs \ (Taken \cup {Orphan}))
    PROVE  Ledger'
  <1> DEFINE N == bs \ (Taken \cup {Orphan})
  <1>1. caller = "dispatching" /\ task' \in Planned(rt) /\ current' = task'.module
    BY StartFrame
  <1>2. Apart /\ Alive /\ Fresh
    BY <1>1 DEF Ledger
  <1>3. Tidy(script') /\ OnceEach(script') /\ BuffersOf(script') = bs
    BY BookedTidy
  <1>4. InHand' = bs \ {Orphan}
    BY <1>3 DEF InHand, BuffersOf
  <1>5. Keeping' = Keeping /\ (~parser'.completed => Injective(parser'.buffers))
    BY <1>2 DEF Keeping, Apart
  <1>6. Taken \cap Keeping = {} /\ Held \subseteq live /\ Keeping \subseteq Held /\ Orphan \notin Taken
    BY <1>2, TakenBuffer
  <1>7. Adds(N)
    OBVIOUS
  <1>8. N \cap Spent = {} /\ Orphan \notin N
    BY <1>7 DEF Adds
  <1>9. InHand' \cup Keeping' = Taken \cup Keeping \cup N /\ InHand' \cap Keeping' = {}
    BY <1>4, <1>5, <1>6, <1>8 DEF Spent
  <1>10. Apart' /\ Alive' /\ Spent' \subseteq Spent \cup N \cup {Orphan}
    <2> HIDE DEF N, InHand, Keeping, Taken
    <2>1. Keeping' \subseteq Taken \cup Keeping
      BY <1>5
    <2>2. QED BY <1>2, <1>3, <1>5, <1>8, <1>9, <2>1, StartHolds
  <1> HIDE DEF N
  <1>11. /\ Asks' => Asks
         /\ \A b \in Pages : current' = "error" /\ Given(b)' => task' \in EndTasks
         /\ \A b \in Pages : Coming(b)' => Coming(b)
         /\ reader'.left <= reader.left /\ reader.left \in 0..FileSize /\ reader'.left \in 0..FileSize
         /\ told \subseteq told' /\ (pob'.headers \/ pob'.headers = pob.headers)
    BY StartAsksNoMore
  <1>12. task' \in EndTasks /\ current' = "error" => "error" \notin told
    <2> SUFFICES ASSUME task' \in EndTasks, current' = "error", "error" \in told PROVE FALSE
      OBVIOUS
    <2>1. task' \notin IdleTasks
      BY TaskSets
    <2>2. Untold("error")
      BY <1>1, <2>1 DEF EndPasses
    <2>3. "error" \in Below("error")
      BY <2>2 DEF Untold
    <2>4. QED BY <2>3 DEF Below
  <1>13. Fresh'
    <2>1. /\ Orphan \notin {Headers, Final, RequestBody} \cup Pages
          /\ \A n : Piece(n) # Orphan /\ Data(n) # Orphan
          /\ \A b : ChunkInfo(b) # Orphan
      BY DEF Orphan, Headers, Final, RequestBody, Pages, Padding, Page, Piece, Data, ChunkInfo
    <2>2. \A n \in 1..Pieces : Piece(n) \in Spent' =>
              n <= Len(parser'.buffers) + 1 /\ (Asks' => n <= Len(parser'.buffers))
      BY <1>2, <1>7, <1>10, <1>11, <2>1 DEF Fresh, Adds
    <2>3. ~pob'.headers => Headers \notin Spent'
      BY <1>2, <1>7, <1>10, <1>11, <2>1 DEF Fresh, Adds
    <2>4. Final \in Spent' => "pob" \in told'
      BY <1>2, <1>7, <1>10, <1>11, <2>1 DEF Fresh, Adds
    <2>5. Spent' \cap Pages # {} => "error" \in told'
      BY <1>2, <1>7, <1>10, <1>11, <2>1 DEF Fresh, Adds
    <2>6. ASSUME NEW b \in Pages, ChunkInfo(b) \in Spent'
          PROVE  ~Coming(b)' /\ ~(current' = "error" /\ Given(b)') /\ "error" \in told'
      <3>1. CASE ChunkInfo(b) \in Spent
        <4>1. ~Coming(b) /\ "error" \in told
          BY <1>2, <3>1 DEF Fresh
        <4>2. ~(current' = "error" /\ Given(b)')
          BY <1>11, <1>12, <4>1
        <4>3. QED BY <1>11, <4>1, <4>2
      <3>2. CASE ChunkInfo(b) \in N
        BY <1>7, <3>2 DEF Adds
      <3>3. QED BY <1>10, <2>1, <2>6, <3>1, <3>2
    <2>7. ASSUME NEW n \in 1..FileSize, Data(n) \in Spent' PROVE n <= FileSize - reader'.left
      <3>1. CASE Data(n) \in Spent
        <4>1. n <= FileSize - reader.left /\ n \in Nat /\ FileSize \in Nat
          BY <1>2, <3>1, RequestChainAssumption DEF Fresh
        <4>2. QED BY <1>11, <4>1
      <3>2. CASE Data(n) \in N
        BY <1>7, <3>2 DEF Adds
      <3>3. QED BY <1>10, <2>1, <2>7, <3>1, <3>2
    <2>8. Len(parser'.buffers) < Pieces => RequestBody \notin Spent'
      BY <1>2, <1>7, <1>10, <2>1 DEF Fresh, Adds
    <2>9. Len(parser'.buffers) < Pieces <=> ~parser'.completed
      BY <1>2 DEF Fresh
    <2>10. \A b \in Pages : ChunkInfo(b)' = ChunkInfo(b)
      BY DEF ChunkInfo
    <2> HIDE DEF Spent, Asks
    <2>11. QED BY <2>2, <2>3, <2>4, <2>5, <2>6, <2>7, <2>8, <2>9, <2>10 DEF Fresh
  <1>14. QED BY <1>10, <1>13 DEF Ledger

\* The scripts that hand over or release just what the task brought.
LEMMA PlainScripts ==
    /\ Booked(<<RaiseEnd, Return>>, {}) /\ Booked(Done, {}) /\ Booked(RaiseError \o Done, {})
    /\ Booked(<<Throw(Orphan), NotifyEndTask(NoBuffer)>>, {Orphan})
    /\ \A b \in Buffers \ {Orphan} :
          /\ Booked(<<GiveData(b), Return>>, {b}) /\ Booked(<<Release(b), Return>>, {b})
          /\ Booked(<<NeedWrite(b), Return>>, {b}) /\ Booked(<<Throw(NoBuffer), NotifyEndTask(b)>>, {b})
          /\ Booked(<<Release(b), EndInput, Return>>, {b}) /\ Booked(<<GiveData(b), CallLater, Return>>, {b})
  <1>1. /\ Return \in Fair /\ RaiseEnd \in Fair /\ EndInput \in Fair /\ CallLater \in Fair /\ Throw(Orphan) \in Fair
        /\ Throw(NoBuffer) \in Fair /\ NotifyEndTask(NoBuffer) \in Fair
        /\ Of(Return) = {} /\ Of(RaiseEnd) = {} /\ Of(EndInput) = {} /\ Of(CallLater) = {} /\ Of(Throw(Orphan)) = {Orphan}
        /\ Of(Throw(NoBuffer)) = {} /\ Of(NotifyEndTask(NoBuffer)) = {}
    BY FairCalls
  <1> DEFINE u == Throw(Orphan)
             v == Throw(NoBuffer)
             w == NotifyEndTask(NoBuffer)
  <1> HIDE DEF u, v, w, Return, RaiseEnd, EndInput, CallLater, Fair, Of
  <1>2. Booked(<<RaiseEnd, Return>>, {})
    <2>1. Booked(<<RaiseEnd, Return>>, Of(RaiseEnd) \cup Of(Return))
      BY <1>1, BookedTwo
    <2>2. QED BY <1>1, <2>1
  <1>3. Booked(Done, {})
    <2>1. Booked(<<Return>>, Of(Return))
      BY <1>1, BookedOne
    <2>2. QED BY <1>1, <2>1 DEF Done
  <1>4. Booked(<<u, w>>, {Orphan})
    <2>1. u \in Fair /\ w \in Fair /\ Of(u) = {Orphan} /\ Of(w) = {}
      BY <1>1 DEF u, w
    <2>2. Booked(<<u, w>>, Of(u) \cup Of(w))
      BY <2>1, BookedTwo
    <2>3. QED BY <2>1, <2>2
  <1>5. ASSUME NEW b \in Buffers \ {Orphan}
        PROVE  /\ Booked(<<GiveData(b), Return>>, {b}) /\ Booked(<<Release(b), Return>>, {b})
               /\ Booked(<<NeedWrite(b), Return>>, {b}) /\ Booked(<<v, NotifyEndTask(b)>>, {b})
               /\ Booked(<<Release(b), EndInput, Return>>, {b}) /\ Booked(<<GiveData(b), CallLater, Return>>, {b})
    <2> DEFINE g == GiveData(b)
               r == Release(b)
               n == NeedWrite(b)
               e == NotifyEndTask(b)
    <2>1. /\ g \in Fair /\ r \in Fair /\ n \in Fair /\ e \in Fair
          /\ Of(g) = {b} /\ Of(r) = {b} /\ Of(n) = {b} /\ Of(e) = {b}
      BY FairCalls
    <2>2. v \in Fair /\ Of(v) = {}
      BY <1>1 DEF v
    <2> HIDE DEF g, r, n, e
    <2>3. /\ Booked(<<g, Return>>, Of(g) \cup Of(Return)) /\ Booked(<<r, Return>>, Of(r) \cup Of(Return))
          /\ Booked(<<n, Return>>, Of(n) \cup Of(Return)) /\ Booked(<<v, e>>, Of(v) \cup Of(e))
      BY <1>1, <2>1, <2>2, BookedTwo
    <2>4. Booked(<<r, EndInput, Return>>, Of(r) \cup (Of(EndInput) \cup Of(Return)))
      BY <1>1, <2>1, BookedThree
    <2>5. Booked(<<g, CallLater, Return>>, Of(g) \cup (Of(CallLater) \cup Of(Return)))
      BY <1>1, <2>1, BookedThree
    <2>6. /\ Of(g) \cup Of(Return) = {b} /\ Of(r) \cup Of(Return) = {b} /\ Of(n) \cup Of(Return) = {b}
          /\ Of(v) \cup Of(e) = {b} /\ Of(r) \cup (Of(EndInput) \cup Of(Return)) = {b}
          /\ Of(g) \cup (Of(CallLater) \cup Of(Return)) = {b}
      BY <1>1, <2>1, <2>2
    <2>7. QED BY <2>3, <2>4, <2>5, <2>6 DEF g, r, n, e
  <1>6. Booked(RaiseError \o Done, {})
    BY <1>3, BookedRaised
  <1>7. QED BY <1>2, <1>3, <1>4, <1>5, <1>6 DEF u, v, w

LEMMA TakenIs ==
    ASSUME ChainInv, Start, Apart
    PROVE  /\ task' \in FrontTasks => Taken = {task'.buffer} /\ task'.buffer \in Buffers \ {Orphan}
           /\ task' \notin FrontTasks => Taken = {}
           /\ Taken \subseteq Handed(rt)
  <1>1. task' \in ChainTasks /\ InUse = Handed(rt) /\ (task'.buffer \in Buffers => task'.buffer \in InUse)
    BY StartFrame
  <1>2. Orphan \notin Handed(rt)
    BY DEF Apart, Held
  <1>3. task' \in FrontTasks => task'.buffer \in Buffers
    BY TaskSets
  <1>4. task' \notin FrontTasks => task'.buffer = NoBuffer
    BY <1>1, TaskSets
  <1>5. QED BY <1>1, <1>2, <1>3, <1>4, BufferSets DEF Taken

\* The module makes nothing.
LEMMA QuietStart ==
    ASSUME ChainInv, EndPasses, Start, Ledger, task' \notin PieceTasks, parser' = parser,
           NEW bs, Booked(script', bs), Taken \subseteq bs, bs \subseteq Taken \cup {Orphan}
    PROVE  Ledger'
  <1>1. Adds({})
    BY DEF Adds
  <1>2. bs \ (Taken \cup {Orphan}) = {}
    OBVIOUS
  <1>3. QED BY <1>1, <1>2, StartSpends

LEMMA StartReads ==
    ASSUME ChainInv, EndPasses, Start, Ledger, task' = CanRead
    PROVE  Ledger'
  <1> DEFINE n == Len(parser.buffers) + 1
             p == Piece(n)
  <1>1. /\ caller = "dispatching" /\ task' \in Planned(rt) /\ ProcessRequest(task') /\ task' \in ChainTasks
        /\ Reads(rt)
    BY TaskSets, StartFrame
  <1>2. Apart /\ Alive /\ Fresh
    BY <1>1 DEF Ledger
  <1>3. task' \notin PieceTasks /\ task' \notin FrontTasks
    BY TaskSets, KindsAre, <1>1 DEF FrontTasks, DataTasks
  <1>4. Taken = {}
    BY <1>2, <1>3, TakenIs
  <1>5. NetworkRead(task')
    BY <1>1, Handlers
  <1>6. parser' = parser
    BY <1>5 DEF NetworkRead, SameModules
  <1>7. \/ script' = <<GiveData(p), Return>>
        \/ script' = <<Throw(Orphan), NotifyEndTask(NoBuffer)>>
    BY <1>5 DEF NetworkRead, Runs
  <1>8. n \in 1..Pieces /\ Len(parser.buffers) \in Nat
    <2>1. Len(parser.buffers) < Pieces
      BY <1>1 DEF ChainInv, Parsing, Reading
    <2>2. Len(parser.buffers) \in Nat /\ Pieces \in Nat
      BY RequestChainAssumption, LenProperties DEF ChainInv, TypeOK
    <2>3. QED BY <2>1, <2>2
  <1>9. p \in HeaderPieces /\ p \in Buffers \ {Orphan}
    <2>1. p \in HeaderPieces
      BY <1>8 DEF HeaderPieces
    <2>2. p # Orphan
      BY DEF Piece, Orphan
    <2>3. QED BY <2>1, <2>2, BufferSets
  <1>10. CASE script' = <<Throw(Orphan), NotifyEndTask(NoBuffer)>>
    <2>1. Booked(script', {Orphan})
      BY <1>10, PlainScripts
    <2>2. QED BY <1>3, <1>4, <1>6, <2>1, QuietStart
  <1>11. CASE script' = <<GiveData(p), Return>>
    <2>1. Booked(script', {p})
      BY <1>9, <1>11, PlainScripts
    <2>2. Asks /\ ~Asks'
      BY <1>3, StartAsksNoMore
    <2>3. p \notin Spent
      <3>1. p \in Spent => n <= Len(parser.buffers)
        BY <1>2, <1>8, <2>2 DEF Fresh
      <3>2. QED BY <1>8, <3>1
    <2>4. /\ p # Headers /\ p # Final /\ p \notin Pages /\ p # RequestBody /\ p # Orphan
          /\ \A b \in Pages : ChunkInfo(b) # p
          /\ \A k \in 1..FileSize : Data(k) # p
          /\ \A k \in 1..Pieces : Piece(k) = p => k = n
      BY DEF Piece, Headers, Final, Pages, Padding, Page, RequestBody, Orphan, ChunkInfo, Data
    <2> HIDE DEF p
    <2>5. Adds({p})
      <3>1. \A k \in 1..Pieces : Piece(k) \in {p} => k <= Len(parser.buffers) + 1 /\ ~Asks'
        BY <1>8, <2>2, <2>4
      <3> HIDE DEF Asks
      <3>2. QED BY <2>3, <2>4, <3>1 DEF Adds
    <2>6. {p} \ (Taken \cup {Orphan}) = {p} /\ Taken \subseteq {p}
      BY <1>4, <2>4
    <2>7. QED BY <1>3, <1>6, <2>1, <2>5, <2>6, StartSpends
  <1>12. QED BY <1>7, <1>10, <1>11

LEMMA StartWrites ==
    ASSUME ChainInv, EndPasses, Start, Ledger, task' \in WriteTasks
    PROVE  Ledger'
  <1>1. caller = "dispatching" /\ ProcessRequest(task') /\ task' \in ChainTasks
    BY StartFrame
  <1>2. Apart
    BY <1>1 DEF Ledger
  <1>3. task' \in FrontTasks /\ task' \notin PieceTasks
    BY TaskSets DEF DataTasks
  <1>4. Taken = {task'.buffer} /\ task'.buffer \in Buffers \ {Orphan}
    BY <1>2, <1>3, TakenIs
  <1>5. NetworkWrite(task')
    BY <1>1, Handlers
  <1>6. parser' = parser
    BY <1>5 DEF NetworkWrite, SameModules
  <1>7. \/ script' = <<Release(task'.buffer), Return>>
        \/ script' = <<NeedWrite(task'.buffer), Return>>
        \/ script' = <<Throw(NoBuffer), NotifyEndTask(task'.buffer)>>
    BY <1>5 DEF NetworkWrite, Runs
  <1>8. Booked(script', {task'.buffer})
    BY <1>4, <1>7, PlainScripts
  <1>9. QED BY <1>3, <1>4, <1>6, <1>8, QuietStart

LEMMA BuilderBooks ==
    ASSUME ChainInv, Start, Apart, task'.module = "builder", task' \in BodyTasks \cup EndTasks
    PROVE  Booked(script', Taken) /\ parser' = parser
  <1> DEFINE b == task'.buffer
  <1>1. ProcessRequest(task') /\ task' \in ChainTasks
    BY StartFrame
  <1>2. \/ BuilderFirst(task')
        \/ BuilderAgain(task')
    <2>1. CASE task' \in BodyTasks
      BY <1>1, <2>1, Handlers
    <2>2. CASE task' \in EndTasks
      BY <1>1, <2>2, Handlers DEF NetworkEnd, ParserEnd, ReaderEnd, ErrorEnd, PreOutputEnd, Runs
    <2>3. QED BY <2>1, <2>2
  <1>3. parser' = parser
    BY <1>2 DEF BuilderFirst, BuilderAgain, SameModules
  <1>4. ASSUME NEW e \in BOOLEAN PROVE Booked(BuilderAnswer(task', e), Taken)
    <2>1. CASE task' \in BodyTasks
      <3>1. task' \in FrontTasks
        BY <2>1 DEF FrontTasks, DataTasks
      <3>2. Taken = {b} /\ b \in Buffers \ {Orphan}
        BY <3>1, TakenIs
      <3>3. task'.event = "ON_REQUEST_DATA"
        BY <1>1, <2>1, KindsAre
      <3>4. BuilderAnswer(task', e) = <<IF e THEN Release(b) ELSE GiveData(b)>> \o Done
        BY <3>3 DEF BuilderAnswer
      <3>5. CASE e
        <4>1. BuilderAnswer(task', e) = <<Release(b), Return>>
          BY <3>4, <3>5, TwoIsConcat DEF Done
        <4>2. QED BY <3>2, <4>1, PlainScripts
      <3>6. CASE ~e
        <4>1. BuilderAnswer(task', e) = <<GiveData(b), Return>>
          BY <3>4, <3>6, TwoIsConcat DEF Done
        <4>2. QED BY <3>2, <4>1, PlainScripts
      <3>7. QED BY <3>5, <3>6
    <2>2. CASE task' \in EndTasks
      <3>1. task'.event = "ON_END" /\ task' \notin FrontTasks
        BY <1>1, <2>2, KindsAre, TaskSets
      <3>2. Taken = {}
        BY <3>1, TakenIs
      <3>3. BuilderAnswer(task', e) = <<RaiseEnd, Return>>
        BY <1>1, <3>1, RefusedElems DEF BuilderAnswer
      <3>4. QED BY <3>2, <3>3, PlainScripts
    <2>3. QED BY <2>1, <2>2
  <1>5. CASE script' = RaiseError \o BuilderAnswer(task', TRUE) \/ script' = RaiseError \o BuilderAnswer(task', FALSE)
    <2>1. Booked(BuilderAnswer(task', TRUE), Taken) /\ Booked(BuilderAnswer(task', FALSE), Taken)
      BY <1>4
    <2>2. /\ Booked(RaiseError \o BuilderAnswer(task', TRUE), Taken)
          /\ Booked(RaiseError \o BuilderAnswer(task', FALSE), Taken)
      BY <2>1, BookedRaised
    <2>3. QED BY <1>3, <1>5, <2>2
  <1>6. CASE script' = <<Insert>> \o BuilderAnswer(task', FALSE)
    <2> DEFINE q == BuilderAnswer(task', FALSE)
    <2>1. Booked(q, Taken) /\ script' = <<Insert>> \o q /\ Insert \in Fair /\ Of(Insert) = {}
      BY <1>4, <1>6, FairCalls
    <2> HIDE DEF q, Insert, Of
    <2>2. Booked(<<Insert>> \o q, Of(Insert) \cup Taken)
      BY <2>1, BookedPush
    <2>3. QED BY <1>3, <2>1, <2>2
  <1>7. CASE script' = BuilderAnswer(task', FALSE)
    BY <1>3, <1>4, <1>7
  <1>8. QED BY <1>2, <1>3, <1>5, <1>6, <1>7 DEF BuilderFirst, BuilderAgain, Runs

LEMMA StartBody ==
    ASSUME ChainInv, EndPasses, Start, Ledger, task' \in BodyTasks \cup HeadersTasks
    PROVE  Ledger'
  <1>1. caller = "dispatching" /\ ProcessRequest(task') /\ task' \in ChainTasks
    BY StartFrame
  <1>2. Apart
    BY <1>1 DEF Ledger
  <1>3. task' \in FrontTasks
    BY DEF FrontTasks, DataTasks
  <1>4. Taken = {task'.buffer} /\ task'.buffer \in Buffers \ {Orphan}
    BY <1>2, <1>3, TakenIs
  <1>5. task' \notin PieceTasks
    BY DEF PieceTasks, BodyTasks, HeadersTasks, Tasks
  <1>6. CASE task'.module = "builder"
    <2>1. task' \in BodyTasks
      BY <1>6 DEF BodyTasks, HeadersTasks, Tasks
    <2>2. Booked(script', Taken) /\ parser' = parser
      BY <1>2, <1>6, <2>1, BuilderBooks
    <2>3. QED BY <1>5, <2>2, QuietStart
  <1>7. CASE task'.module # "builder"
    <2>1. ReaderData(task') \/ PreOutputRequestData(task') \/ ErrorData(task')
      BY <1>1, <1>7, Handlers
    <2>2. parser' = parser
      BY <2>1 DEF ReaderData, PreOutputRequestData, ErrorData, SameModules
    <2>3. task'.event \in T!DataEvents
      BY <1>1, KindsAre DEF T!DataEvents
    <2>4. \/ script' = <<Release(task'.buffer), EndInput, Return>>
          \/ script' = <<Release(task'.buffer), Return>>
      BY <1>1, <2>1, <2>3, RefusedElems DEF ReaderData, PreOutputRequestData, ErrorData, Runs
    <2>5. Booked(script', Taken)
      BY <1>4, <2>4, PlainScripts
    <2>6. QED BY <1>5, <2>2, <2>5, QuietStart
  <1>8. QED BY <1>6, <1>7

\* FileReader reads one more buffer.
LEMMA StartReadsOne ==
    ASSUME ChainInv, EndPasses, Start, Ledger, task' \in IdleTasks \cup EndTasks, parser' = parser,
           reader.left > 0, reader'.left = reader.left - 1,
           script' = <<GiveData(Data(FileSize - reader.left + 1)), CallLater, Return>>
    PROVE  Ledger'
  <1> DEFINE n == FileSize - reader.left + 1
             d == Data(n)
  <1>1. caller = "dispatching"
    BY StartFrame
  <1>2. Apart /\ Fresh
    BY <1>1 DEF Ledger
  <1>3. task' \notin PieceTasks /\ task' \notin FrontTasks
    BY TaskSets DEF FrontTasks, DataTasks
  <1>4. Taken = {}
    BY <1>2, <1>3, TakenIs
  <1>5. reader.left \in 0..FileSize /\ FileSize \in Nat
    BY RequestChainAssumption DEF ChainInv, TypeOK
  <1>6. n \in 1..FileSize /\ n = FileSize - reader'.left /\ ~(n <= FileSize - reader.left)
    BY <1>5
  <1>7. d \in Buffers \ {Orphan}
    <2>1. d \in DataBuffers
      BY <1>6 DEF DataBuffers
    <2>2. QED BY <2>1, BufferSets
  <1>8. Booked(script', {d})
    BY <1>7, PlainScripts
  <1>9. d \notin Spent
    BY <1>2, <1>6 DEF Fresh
  <1>10. /\ d # Headers /\ d # Final /\ d \notin Pages /\ d # RequestBody /\ d # Orphan
         /\ \A b \in Pages : ChunkInfo(b) # d
         /\ \A k \in 1..FileSize : Data(k) = d => k = n
         /\ \A k \in 1..Pieces : Piece(k) # d
    BY DEF Piece, Headers, Final, Pages, Padding, Page, RequestBody, Orphan, ChunkInfo, Data
  <1>11. \A k \in 1..FileSize : Data(k) \in {d} => k <= FileSize - reader'.left
    BY <1>6, <1>10
  <1> HIDE DEF d, n
  <1>12. Adds({d})
    BY <1>9, <1>10, <1>11 DEF Adds
  <1>13. {d} \ (Taken \cup {Orphan}) = {d} /\ Taken \subseteq {d}
    BY <1>4, <1>10
  <1>14. QED BY <1>3, <1>8, <1>12, <1>13, StartSpends

LEMMA StartIdle ==
    ASSUME ChainInv, EndPasses, Start, Ledger, task' \in IdleTasks
    PROVE  Ledger'
  <1>1. caller = "dispatching" /\ ProcessRequest(task') /\ task' \in ChainTasks
    BY StartFrame
  <1>2. Apart
    BY <1>1 DEF Ledger
  <1>3. task' \notin PieceTasks /\ task' \notin FrontTasks
    BY TaskSets DEF FrontTasks, DataTasks
  <1>4. Taken = {}
    BY <1>2, <1>3, TakenIs
  <1>5. ReaderIdle(task')
    BY <1>1, Handlers
  <1>6. parser' = parser
    BY <1>5 DEF ReaderIdle
  <1>7. reader \in [open : BOOLEAN, left : 0..FileSize, failed : BOOLEAN, delayed : BOOLEAN]
    BY DEF ChainInv, TypeOK
  <1>8. \/ script' \in {<<RaiseEnd, Return>>, RaiseError \o Done}
        \/ ReadOne(reader)
    BY <1>5 DEF ReaderIdle
  <1>9. CASE script' \in {<<RaiseEnd, Return>>, RaiseError \o Done}
    <2>1. Booked(script', {})
      BY <1>9, PlainScripts
    <2>2. QED BY <1>3, <1>4, <1>6, <2>1, QuietStart
  <1>10. CASE ReadOne(reader)
    <2>1. /\ reader.left > 0 /\ reader'.left = reader.left - 1
          /\ script' = <<GiveData(Data(FileSize - reader.left + 1)), CallLater, Return>>
      BY <1>7, <1>10 DEF ReadOne
    <2>2. QED BY <1>6, <2>1, StartReadsOne
  <1>11. QED BY <1>8, <1>9, <1>10

LEMMA BookedMaybe ==
    ASSUME NEW q, NEW bs, Booked(q, bs), NEW c \in Fair, NEW b, Of(c) = {b}, NEW test \in BOOLEAN, test => b \notin bs
    PROVE  Booked((IF test THEN <<c>> ELSE <<>>) \o q, (IF test THEN {b} ELSE {}) \cup bs)
  <1>1. CASE test
    <2>1. Of(c) \cap bs = {}
      BY <1>1
    <2>2. Booked(<<c>> \o q, Of(c) \cup bs)
      BY <2>1, BookedPush
    <2>3. QED BY <1>1, <2>2
  <1>2. CASE ~test
    <2>1. q \in Seq(Fair)
      BY DEF Booked
    <2>2. <<>> \o q = q
      BY <2>1, ConcatEmptySeq
    <2>3. (IF test THEN {b} ELSE {}) \cup bs = bs
      BY <1>2
    <2>4. QED BY <1>2, <2>2, <2>3
  <1>3. QED BY <1>1, <1>2

\* The end: the answers to it, and what ModError and PreOutputBuilder write then.
LEMMA StartEnd ==
    ASSUME ChainInv, EndPasses, Start, Ledger, task' \in EndTasks
    PROVE  Ledger'
  <1>1. /\ caller = "dispatching" /\ ProcessRequest(task') /\ task' \in ChainTasks /\ task' \in Planned(rt)
        /\ current' = task'.module
    BY StartFrame
  <1>2. Apart /\ Fresh
    BY <1>1 DEF Ledger
  <1>3. task' \notin PieceTasks /\ task' \notin FrontTasks /\ task' \notin IdleTasks
    BY TaskSets DEF FrontTasks, DataTasks
  <1>4. Taken = {}
    BY <1>2, <1>3, TakenIs
  <1>5. told' = told \cup {current'} /\ Untold(task'.module)
    BY <1>1, <1>3, StartTakes DEF EndPasses
  <1>6. task'.event = "ON_END"
    BY <1>1, KindsAre
  <1>7. CASE NetworkEnd(task') \/ ParserEnd(task')
    <2>1. parser' = parser /\ script' = <<RaiseEnd, Return>>
      BY <1>1, <1>6, <1>7, RefusedElems DEF NetworkEnd, ParserEnd, SameModules, Runs
    <2>2. Booked(script', {})
      BY <2>1, PlainScripts
    <2>3. QED BY <1>3, <1>4, <2>1, <2>2, QuietStart
  <1>8. CASE BuilderFirst(task') \/ BuilderAgain(task')
    <2>1. task'.module = "builder"
      BY <1>8 DEF BuilderFirst, BuilderAgain, Runs
    <2>2. Booked(script', Taken) /\ parser' = parser
      BY <1>2, <2>1, BuilderBooks
    <2>3. QED BY <1>3, <2>2, QuietStart
  <1>9. CASE ReaderEnd(task')
    <2>1. parser' = parser
      BY <1>9 DEF ReaderEnd
    <2>2. \/ script' \in {<<RaiseEnd, Return>>, RaiseError \o Done, Done}
          \/ ReadOne([reader EXCEPT !.open = TRUE])
      BY <1>9 DEF ReaderEnd
    <2>3. CASE script' \in {<<RaiseEnd, Return>>, RaiseError \o Done, Done}
      <3>1. Booked(script', {})
        BY <2>3, PlainScripts
      <3>2. QED BY <1>3, <1>4, <2>1, <3>1, QuietStart
    <2>4. CASE ReadOne([reader EXCEPT !.open = TRUE])
      <3> DEFINE r == [reader EXCEPT !.open = TRUE]
      <3>1. /\ r \in [open : BOOLEAN, left : 0..FileSize, failed : BOOLEAN, delayed : BOOLEAN]
            /\ r.left = reader.left
        BY DEF ChainInv, TypeOK
      <3> HIDE DEF r
      <3>2. /\ r.left > 0 /\ reader'.left = r.left - 1
            /\ script' = <<GiveData(Data(FileSize - r.left + 1)), CallLater, Return>>
        BY <2>4, <3>1 DEF ReadOne, r
      <3>3. QED BY <2>1, <3>1, <3>2, StartReadsOne
    <2>5. QED BY <2>2, <2>3, <2>4
  <1>10. CASE ErrorEnd(task')
    <2> DEFINE c == GiveData(Padding)
               d == GiveData(Page)
    <2>1. parser' = parser /\ script' = <<c, d, RaiseEnd, Return>> /\ task'.module = "error"
      BY <1>10 DEF ErrorEnd, SameModules, Runs
    <2>2. Padding \in Buffers \ {Orphan} /\ Page \in Buffers \ {Orphan} /\ Padding # Page
      BY BufferSets DEF Pages, Padding, Page
    <2>3. /\ c \in Fair /\ d \in Fair /\ RaiseEnd \in Fair /\ Return \in Fair
          /\ Of(c) = {Padding} /\ Of(d) = {Page} /\ Of(RaiseEnd) = {} /\ Of(Return) = {}
      BY <2>2, FairCalls
    <2> HIDE DEF c, d, RaiseEnd, Return, Of, Fair
    <2>4. Booked(script', Pages)
      <3>1. Booked(<<c, d, RaiseEnd, Return>>, Of(c) \cup (Of(d) \cup (Of(RaiseEnd) \cup Of(Return))))
        BY <2>2, <2>3, BookedFour
      <3>2. Of(c) \cup (Of(d) \cup (Of(RaiseEnd) \cup Of(Return))) = Pages
        BY <2>3 DEF Pages
      <3>3. QED BY <2>1, <3>1, <3>2
    <2>5. "error" \notin told
      <3>1. "error" \notin Below("error")
        BY DEF Below
      <3>2. QED BY <1>5, <2>1, <3>1 DEF Untold
    <2>6. Pages \cap Spent = {}
      BY <1>2, <2>5 DEF Fresh
    <2>7. "error" \in told'
      BY <1>1, <1>5, <2>1
    <2>8. /\ Headers \notin Pages /\ Final \notin Pages /\ RequestBody \notin Pages /\ Orphan \notin Pages
          /\ \A b \in Pages : ChunkInfo(b) \notin Pages
          /\ \A k : Data(k) \notin Pages /\ Piece(k) \notin Pages
      BY DEF Piece, Headers, Final, Pages, Padding, Page, RequestBody, Orphan, ChunkInfo, Data
    <2>9. Adds(Pages)
      BY <2>6, <2>7, <2>8 DEF Adds
    <2>10. Pages \ (Taken \cup {Orphan}) = Pages /\ Taken \subseteq Pages
      BY <1>4, <2>8
    <2>11. QED BY <1>3, <2>1, <2>4, <2>9, <2>10, StartSpends
  <1>11. CASE PreOutputEnd(task')
    <2> DEFINE q == <<RaiseEnd, Return>>
    <2>1. /\ parser' = parser /\ task'.module = "pob" /\ pob' = [pob EXCEPT !.headers = TRUE]
          /\ script' = (IF ~pob.headers THEN <<GiveData(Headers)>>
                        ELSE IF pob.chunked THEN <<GiveData(Final)>> ELSE <<>>) \o q
      BY <1>11 DEF PreOutputEnd, Runs
    <2>2. pob'.headers = TRUE
      BY <2>1 DEF ChainInv, TypeOK
    <2>3. Booked(q, {})
      BY PlainScripts
    <2>4. Headers \in Buffers \ {Orphan} /\ Final \in Buffers \ {Orphan}
      BY BufferSets
    <2>5. "pob" \notin told /\ "pob" \in told'
      <3>1. "pob" \notin Below("pob")
        BY DEF Below
      <3>2. QED BY <1>1, <1>5, <2>1, <3>1 DEF Untold
    <2>6. ASSUME NEW b \in {Headers, Final}, b \notin Spent, script' = <<GiveData(b)>> \o q
          PROVE  Ledger'
      <3> DEFINE c == GiveData(b)
      <3>1. c \in Fair /\ Of(c) = {b}
        BY <2>4, FairCalls
      <3> HIDE DEF c, q, Of, Fair
      <3>2. Booked(<<c>> \o q, Of(c) \cup {})
        BY <2>3, <3>1, BookedPush
      <3>3. Booked(script', {b})
        BY <2>6, <3>1, <3>2 DEF c
      <3>4. /\ b \notin Pages /\ b # RequestBody /\ b # Orphan
            /\ \A d \in Pages : ChunkInfo(d) # b
            /\ \A k : Data(k) # b /\ Piece(k) # b
        BY DEF Piece, Headers, Final, Pages, Padding, Page, RequestBody, Orphan, ChunkInfo, Data
      <3>5. Adds({b})
        BY <2>2, <2>5, <2>6, <3>4 DEF Adds
      <3>6. {b} \ (Taken \cup {Orphan}) = {b} /\ Taken \subseteq {b}
        BY <1>4, <3>4
      <3>7. QED BY <1>3, <2>1, <3>3, <3>5, <3>6, StartSpends
    <2>7. CASE ~pob.headers
      <3>1. Headers \notin Spent
        BY <1>2, <2>7 DEF Fresh
      <3>2. script' = <<GiveData(Headers)>> \o q
        BY <2>1, <2>7
      <3>3. QED BY <2>6, <3>1, <3>2
    <2>8. CASE pob.headers /\ pob.chunked
      <3>1. Final \notin Spent
        BY <1>2, <2>5 DEF Fresh
      <3>2. script' = <<GiveData(Final)>> \o q
        BY <2>1, <2>8
      <3>3. QED BY <2>6, <3>1, <3>2
    <2>9. CASE pob.headers /\ ~pob.chunked
      <3>1. script' = <<>> \o q
        BY <2>1, <2>9
      <3>2. q \in Seq(Fair)
        BY <2>3 DEF Booked
      <3> HIDE DEF q
      <3>3. script' = q
        BY <3>1, <3>2, ConcatEmptySeq
      <3>4. Booked(script', {})
        BY <2>3, <3>3
      <3>5. QED BY <1>3, <1>4, <2>1, <3>4, QuietStart
    <2>10. QED BY <2>7, <2>8, <2>9
  <1>12. QED BY <1>1, <1>7, <1>8, <1>9, <1>10, <1>11, Handlers

\* PreOutputBuilder passes a buffer on, behind the headers and its chunk size.
LEMMA StartAnswers ==
    ASSUME ChainInv, EndPasses, Start, Ledger, task' \in ResponseTasks
    PROVE  Ledger'
  <1>0. SUFFICES ASSUME NEW CONSTANT b, b = task'.buffer PROVE Ledger'
    OBVIOUS
  <1> DEFINE i == ChunkInfo(b)
             gh == GiveData(Headers)
             gi == GiveData(i)
             z == <<GiveData(b), Return>>
             h == ~pob.headers
             k == pob'.chunked
             bs == (IF h THEN {Headers} ELSE {}) \cup ((IF k THEN {i} ELSE {}) \cup {b})
  <1>1. /\ caller = "dispatching" /\ ProcessRequest(task') /\ task' \in ChainTasks /\ task' \in Planned(rt)
        /\ current' = task'.module /\ b \notin Handed(rt') /\ Planned(rt') \subseteq Planned(rt)
        /\ QueueInv(rt') /\ Handed(rt) = InUse
    BY <1>0, StartFrame
  <1>2. Apart /\ Fresh /\ Alive
    BY <1>1 DEF Ledger
  <1>3. task' \in FrontTasks /\ task' \notin PieceTasks
    BY TaskSets DEF FrontTasks, DataTasks, PieceTasks, ResponseTasks, Tasks
  <1>4. Taken = {b} /\ b \in Buffers \ {Orphan} /\ Taken \subseteq Handed(rt)
    BY <1>0, <1>2, <1>3, TakenIs
  <1>5. PreOutputData(task')
    BY <1>1, Handlers
  <1>6. /\ parser' = parser /\ current' = "pob" /\ pob' = [headers |-> TRUE, chunked |-> pob.chunked \/ (~pob.headers /\ ~measured)]
        /\ script' = ((IF pob.headers THEN <<>> ELSE <<gh>>) \o (IF k THEN <<gi>> ELSE <<>>)) \o z
    BY <1>0, <1>1, <1>5 DEF PreOutputData, Runs
  <1>7. b \in Pages \cup DataBuffers /\ Coming(b)
    BY <1>0, <1>1, KindsAre DEF Coming
  <1>8. pob.headers \in BOOLEAN /\ pob.chunked \in BOOLEAN /\ measured \in BOOLEAN
    BY DEF ChainInv, TypeOK
  <1>9. k \in BOOLEAN /\ pob'.headers = TRUE /\ (k => pob.chunked \/ ~measured)
    BY <1>6, <1>8
  <1>10. k => b \in Pages
    <2> SUFFICES ASSUME k, b \in DataBuffers PROVE FALSE
      BY <1>7
    <2>1. chain = CR /\ measured
      BY <1>7 DEF ChainInv, Answering
    <2>2. ~pob.chunked
      BY <2>1, ShapesAre DEF ChainInv, Answering
    <2>3. QED BY <1>9, <2>1, <2>2
  <1>11. /\ b # Headers /\ Headers # Orphan /\ Headers \in Buffers
         /\ b # RequestBody /\ b # Final
    BY <1>7, BufferSets
  <1>12. k => i \in Buffers \ {Orphan} /\ i # b /\ i # Headers /\ i # RequestBody /\ i # Final /\ i \notin Pages
    <2>1. ASSUME b \in Pages
          PROVE  i \in Infos /\ i # Orphan /\ i # b /\ i # Headers /\ i # RequestBody /\ i # Final /\ i \notin Pages
      BY <2>1 DEF Pages, Padding, Page, ChunkInfo, Infos, Orphan, Headers, RequestBody, Final
    <2>2. Infos \subseteq Buffers
      BY BufferSets
    <2>3. QED BY <1>10, <2>1, <2>2
  <1>13. h => Headers \notin Spent
    BY <1>2 DEF Fresh
  <1>14. k => i \notin Spent /\ "error" \in told'
    <2> SUFFICES ASSUME k PROVE i \notin Spent /\ "error" \in told'
      OBVIOUS
    <2>1. b \in Pages
      BY <1>10
    <2>2. i \notin Spent
      BY <1>2, <1>7, <2>1 DEF Fresh
    <2>3. b \in Spent
      BY <1>2, <1>4, TakenBuffer DEF Spent
    <2>4. "error" \in told
      BY <1>2, <2>1, <2>3 DEF Fresh
    <2>5. QED BY <2>2, <2>4, StartTakes
  <1>15. ~Coming(b)'
    <2> SUFFICES ASSUME Coming(b)' PROVE FALSE
      OBVIOUS
    <2>1. PICK t \in Planned(rt') : t \in ResponseTasks /\ t.buffer = b
      BY DEF Coming
    <2>2. t \in Elems(rt'.tasks)
      BY <1>1, <2>1, TaskSets DEF Planned, QueueInv, QueueType
    <2>3. b \in TaskBuffers(rt')
      BY <1>4, <2>1, <2>2, BufferElems, BufferSets
    <2>4. QED BY <1>1, <2>3 DEF Handed
  <1>16. Booked(script', bs)
    <2>1. Booked(z, {b})
      BY <1>4, PlainScripts
    <2>2. k => gi \in Fair /\ Of(gi) = {i}
      BY <1>12, FairCalls
    <2>3. gh \in Fair /\ Of(gh) = {Headers}
      BY <1>11, FairCalls
    <2> DEFINE x == IF h THEN <<gh>> ELSE <<>>
               y == IF k THEN <<gi>> ELSE <<>>
    <2>4. script' = (x \o y) \o z
      BY <1>6
    <2> HIDE DEF gi, gh, z, i, k, h
    <2>5. Booked(y \o z, (IF k THEN {i} ELSE {}) \cup {b})
      <3>1. CASE k
        <4>1. Booked((IF k THEN <<gi>> ELSE <<>>) \o z, (IF k THEN {i} ELSE {}) \cup {b})
          BY <1>9, <1>12, <2>1, <2>2, <3>1, BookedMaybe
        <4>2. QED BY <4>1
      <3>2. CASE ~k
        <4>1. z \in Seq(Fair)
          BY <2>1 DEF Booked
        <4>2. y \o z = z
          BY <3>2, <4>1, ConcatEmptySeq
        <4>3. QED BY <2>1, <3>2, <4>2
      <3>3. QED BY <3>1, <3>2
    <2> DEFINE w == y \o z
               ws == (IF k THEN {i} ELSE {}) \cup {b}
    <2>6. Headers \notin ws
      BY <1>11, <1>12
    <2>7. h \in BOOLEAN
      BY <1>8 DEF h
    <2>8. Booked(w, ws)
      BY <2>5
    <2>9. x \in Seq(Fair) /\ y \in Seq(Fair) /\ z \in Seq(Fair)
      <3>1. z \in Seq(Fair)
        BY <2>1 DEF Booked
      <3>2. y \in Seq(Fair)
        <4>1. CASE k
          BY <2>2, <4>1
        <4>2. CASE ~k
          BY <4>2
        <4>3. QED BY <4>1, <4>2
      <3>3. x \in Seq(Fair)
        <4>1. CASE h
          BY <2>3, <4>1
        <4>2. CASE ~h
          BY <4>2
        <4>3. QED BY <4>1, <4>2
      <3>4. QED BY <3>1, <3>2, <3>3
    <2>10. script' = x \o w
      <3> HIDE DEF x, y
      <3>1. (x \o y) \o z = x \o (y \o z)
        BY <2>9, ConcatAssociative
      <3>2. QED BY <2>4, <3>1
    <2> HIDE DEF w, ws
    <2>11. Booked((IF h THEN <<gh>> ELSE <<>>) \o w, (IF h THEN {Headers} ELSE {}) \cup ws)
      BY <2>3, <2>6, <2>7, <2>8, BookedMaybe
    <2>12. QED BY <2>10, <2>11 DEF ws
  <1>17. Adds(bs \ (Taken \cup {Orphan}))
    <2> DEFINE N == bs \ (Taken \cup {Orphan})
    <2>1. N \subseteq (IF h THEN {Headers} ELSE {}) \cup (IF k THEN {i} ELSE {})
      BY <1>4
    <2>2. N \cap Spent = {} /\ Orphan \notin N /\ RequestBody \notin N
      BY <1>11, <1>12, <1>13, <1>14, <2>1, BufferSets
    <2>3. Final \notin N /\ N \cap Pages = {}
      BY <1>12, <2>1, BufferSets
    <2>4. \A n : Piece(n) \notin N /\ Data(n) \notin N
      BY <2>1 DEF Piece, Data, Headers, ChunkInfo
    <2>5. \A d \in Pages : ChunkInfo(d) \in N => d = b /\ k
      <3>1. \A d \in Pages : ChunkInfo(d) # Headers
        BY DEF ChunkInfo, Headers
      <3>2. ASSUME b \in Pages PROVE \A d \in Pages : ChunkInfo(d) = i => d = b
        BY <3>2 DEF Pages, Padding, Page, ChunkInfo
      <3>3. QED BY <1>10, <2>1, <3>1, <3>2
    <2> HIDE DEF N
    <2>6. \A d \in Pages : ChunkInfo(d) \in N => ~Coming(d)' /\ current' = "pob" /\ "error" \in told'
      <3> SUFFICES ASSUME NEW d \in Pages, ChunkInfo(d) \in N PROVE ~Coming(d)' /\ current' = "pob" /\ "error" \in told'
        OBVIOUS
      <3>1. d = b /\ k
        BY <2>5
      <3>2. QED BY <1>6, <1>14, <1>15, <3>1
    <2>7. QED BY <1>9, <2>2, <2>3, <2>4, <2>6 DEF Adds, N
  <1>18. Taken \subseteq bs
    BY <1>4
  <1> HIDE DEF bs
  <1>19. QED BY <1>3, <1>6, <1>16, <1>17, <1>18, StartSpends

LEMMA BookedJoin ==
    ASSUME NEW p, NEW as, Booked(p, as), NEW q, NEW bs, Booked(q, bs), as \cap bs = {}
    PROVE  Booked(p \o q, as \cup bs)
  <1> DEFINE r == p \o q
  <1>1. p \in Seq(Fair) /\ q \in Seq(Fair) /\ OnceEach(p) /\ OnceEach(q) /\ BuffersOf(p) = as /\ BuffersOf(q) = bs
    BY DEF Booked
  <1>2. /\ r \in Seq(Fair) /\ Elems(r) = Elems(p) \cup Elems(q) /\ Len(p) \in Nat /\ Len(q) \in Nat
        /\ DOMAIN r = 1..(Len(p) + Len(q)) /\ DOMAIN p = 1..Len(p) /\ DOMAIN q = 1..Len(q)
        /\ \A i \in 1..Len(p) : r[i] = p[i]
        /\ \A i \in 1..(Len(p) + Len(q)) : i > Len(p) => i - Len(p) \in DOMAIN q /\ r[i] = q[i - Len(p)]
    BY <1>1, ConcatElems
  <1> HIDE DEF r
  <1>3. BuffersOf(r) = as \cup bs
    BY <1>1, <1>2 DEF BuffersOf
  <1>4. OnceEach(r)
    <2> SUFFICES ASSUME NEW i \in DOMAIN r, NEW j \in DOMAIN r, r[i][2] = r[j][2], r[i][2] # NoBuffer PROVE i = j
      BY DEF OnceEach
    <2>1. i \in Nat /\ j \in Nat
      BY <1>2
    <2>2. ASSUME NEW k \in DOMAIN r, k <= Len(p) PROVE k \in DOMAIN p /\ r[k] = p[k] /\ (r[k][2] # NoBuffer => r[k][2] \in as)
      <3>1. k \in DOMAIN p /\ r[k] = p[k]
        BY <1>2, <2>2
      <3>2. p[k] \in Elems(p)
        BY <3>1 DEF Elems
      <3>3. QED BY <1>1, <3>1, <3>2 DEF BuffersOf
    <2>3. ASSUME NEW k \in DOMAIN r, k > Len(p)
          PROVE  k - Len(p) \in DOMAIN q /\ r[k] = q[k - Len(p)] /\ (r[k][2] # NoBuffer => r[k][2] \in bs)
      <3>1. k - Len(p) \in DOMAIN q /\ r[k] = q[k - Len(p)]
        BY <1>2, <2>3
      <3>2. q[k - Len(p)] \in Elems(q)
        BY <3>1 DEF Elems
      <3>3. QED BY <1>1, <3>1, <3>2 DEF BuffersOf
    <2>4. CASE i <= Len(p) /\ j <= Len(p)
      BY <1>1, <2>2, <2>4 DEF OnceEach
    <2>5. CASE i > Len(p) /\ j > Len(p)
      <3>1. i - Len(p) = j - Len(p)
        BY <1>1, <2>3, <2>5 DEF OnceEach
      <3>2. QED BY <1>2, <2>1, <3>1
    <2>6. CASE i <= Len(p) /\ j > Len(p)
      BY <2>2, <2>3, <2>6
    <2>7. CASE i > Len(p) /\ j <= Len(p)
      BY <2>2, <2>3, <2>7
    <2>8. QED BY <1>2, <2>1, <2>4, <2>5, <2>6, <2>7
  <1>5. QED BY <1>2, <1>3, <1>4 DEF Booked, r

LEMMA BookedReleases ==
    ASSUME NEW q \in Seq(Buffers \ {Orphan}), Injective(q)
    PROVE  Booked(ReleaseAll(q), Elems(q))
  <1>1. q \in [1..Len(q) -> Buffers \ {Orphan}] /\ Len(q) \in Nat /\ DOMAIN q = 1..Len(q)
    BY LenProperties
  <1>2. DOMAIN ReleaseAll(q) = DOMAIN q /\ \A i \in DOMAIN q : ReleaseAll(q)[i] = Release(q[i]) /\ q[i] \in Buffers \ {Orphan}
    BY <1>1 DEF ReleaseAll
  <1>3. \A b : Release(b)[2] = b
    BY DEF Release
  <1>4. ReleaseAll(q) \in Seq(Fair)
    <2>1. ReleaseAll(q) \in [1..Len(q) -> Fair]
      <3>1. \A b \in Buffers \ {Orphan} : Release(b) \in Fair
        BY FairCalls
      <3> HIDE DEF Fair, Release
      <3>2. QED BY <1>1, <3>1 DEF ReleaseAll
    <2>2. QED BY <1>1, <2>1, SeqDef
  <1> DEFINE r == ReleaseAll(q)
  <1>5. DOMAIN r = DOMAIN q /\ \A i \in DOMAIN q : r[i][2] = q[i] /\ q[i] # NoBuffer
    BY <1>2, <1>3, BufferSets
  <1> HIDE DEF r
  <1>6. OnceEach(r)
    BY <1>5 DEF OnceEach, Injective
  <1>7. BuffersOf(r) = Elems(q)
    BY <1>5 DEF BuffersOf, Elems
  <1>8. QED BY <1>4, <1>6, <1>7 DEF Booked, r

LEMMA InjectiveAppend ==
    ASSUME NEW S, NEW q \in Seq(S), NEW b \in S, Injective(q), b \notin Elems(q)
    PROVE  Injective(Append(q, b)) /\ Elems(Append(q, b)) = Elems(q) \cup {b} /\ Append(q, b) \in Seq(S)
  <1> DEFINE r == Append(q, b)
  <1>1. /\ r \in Seq(S) /\ Elems(r) = Elems(q) \cup {b} /\ DOMAIN r = 1..(Len(q) + 1)
        /\ \A i \in 1..Len(q) : r[i] = q[i]
        /\ r[Len(q) + 1] = b
    BY AppendElems
  <1>2. Len(q) \in Nat /\ DOMAIN q = 1..Len(q)
    BY LenProperties
  <1> HIDE DEF r
  <1>3. Injective(r)
    BY <1>1, <1>2 DEF Injective, Elems
  <1>4. QED BY <1>1, <1>3 DEF r

\* Parser: keeps the buffer, or releases it with the others.
LEMMA StartPieces ==
    ASSUME HeaderFits, ChainInv, EndPasses, Start, Ledger, task' \in PieceTasks
    PROVE  Ledger'
  <1> DEFINE b == task'.buffer
             q == Kept(task')
  <1>1. /\ caller = "dispatching" /\ ProcessRequest(task') /\ task' \in ChainTasks /\ task' \in Planned(rt)
        /\ current' = task'.module /\ Planned(rt') \subseteq Planned(rt)
        /\ task' \in ReadTasks => Reads(rt)
    BY StartFrame
  <1>2. Apart /\ Fresh /\ Alive
    BY <1>1 DEF Ledger
  <1>3. task' \in FrontTasks /\ task' \in ReadTasks /\ task' \notin EndTasks
    BY TaskSets DEF FrontTasks, DataTasks, ReadTasks
  <1>4. Taken = {b} /\ b \in Buffers \ {Orphan} /\ current' = "parser"
    BY <1>1, <1>2, <1>3, TakenIs, KindsAre
  <1>5. ParserIncomplete(task') \/ ParserComplete(task')
    BY <1>1, Handlers
  <1>6. /\ UNCHANGED <<reader, pob>> /\ parser'.buffers = q /\ q \in Seq(Buffers) /\ Len(q) = Len(parser.buffers) + 1
    BY PieceAnswer
  <1>7. /\ parser.buffers \in Seq(Buffers) /\ Len(parser.buffers) \in Nat /\ Len(parser.buffers) < Pieces
        /\ Pieces \in Nat /\ HeaderLimit \in Nat /\ parser.completed \in BOOLEAN
    <2>1. Reading
      BY <1>1, <1>3, StartFrame DEF Reading
    <2>2. parser.buffers \in Seq(Buffers) /\ Len(parser.buffers) \in Nat
      BY LenProperties DEF ChainInv, TypeOK
    <2>3. QED BY <2>1, <2>2, RequestChainAssumption DEF ChainInv, Parsing, TypeOK
  <1>8. ~parser.completed /\ RequestBody \notin Spent /\ Keeping = Elems(parser.buffers) /\ Injective(parser.buffers)
    BY <1>2, <1>7 DEF Fresh, Keeping, Apart
  <1>9. /\ Taken \cap Keeping = {} /\ Held \subseteq live /\ Taken \cup Keeping \subseteq Held /\ Orphan \notin Held
    BY <1>2, TakenBuffer, TakenIs DEF Apart
  <1>10. Injective(q) /\ Elems(q) = Taken \cup Keeping /\ q \in Seq(Buffers \ {Orphan})
    <2>1. b \notin Elems(parser.buffers) /\ b \in Buffers
      BY <1>4, <1>8, <1>9
    <2>2. Injective(q) /\ Elems(q) = Elems(parser.buffers) \cup {b}
      BY <1>7, <1>8, <2>1, InjectiveAppend DEF Kept
    <2>3. Elems(q) \subseteq Buffers \ {Orphan}
      <3>1. Elems(q) = Taken \cup Keeping
        BY <1>4, <1>8, <2>2
      <3>2. Elems(q) \subseteq Buffers
        BY <1>6, ElemsSeq
      <3>3. QED BY <1>9, <3>1, <3>2
    <2>4. q \in Seq(Buffers \ {Orphan})
      BY <1>6, <2>3, SeqOfElems
    <2>5. QED BY <1>4, <1>8, <2>2, <2>4
  <1> DEFINE N == InHand' \ (Taken \cup Keeping)
  <1>11. /\ OnceEach(script') /\ Tidy(script')
         /\ ~parser'.completed => Injective(parser'.buffers)
         /\ N \subseteq {RequestBody}
         /\ InHand' \cup Keeping' = Taken \cup Keeping \cup N /\ Keeping' \subseteq Taken \cup Keeping /\ InHand' \cap Keeping' = {}
         /\ Len(parser'.buffers) < Pieces => N = {}
         /\ Len(parser'.buffers) < Pieces <=> ~parser'.completed
    <2>1. CASE ParserIncomplete(task')
      <3>1. Len(q) < Pieces /\ ~(Len(q) > HeaderLimit)
        BY <1>6, <1>7, <2>1 DEF ParserIncomplete, HeaderFits
      <3>2. script' = <<NeedRead>> \o <<>> \o Done
        BY <2>1, <3>1 DEF ParserIncomplete, Runs
      <3>3. script' = <<NeedRead, Return>>
        <4>1. <<NeedRead>> \o <<>> = <<NeedRead>>
          BY ConcatEmptySeq
        <4>2. QED BY <3>2, <4>1, TwoIsConcat DEF Done
      <3>4. Booked(script', {})
        <4>1. NeedRead \in Fair /\ Return \in Fair /\ Of(NeedRead) = {} /\ Of(Return) = {}
          BY FairCalls
        <4> HIDE DEF NeedRead, Return, Of, Fair
        <4>2. Booked(<<NeedRead, Return>>, Of(NeedRead) \cup Of(Return))
          BY <4>1, BookedTwo
        <4>3. QED BY <3>3, <4>1, <4>2
      <3>5. OnceEach(script') /\ Tidy(script') /\ BuffersOf(script') = {}
        BY <3>4, BookedTidy
      <3>6. InHand' = {}
        BY <3>5 DEF InHand, BuffersOf
      <3>7. parser'.completed = FALSE
        BY <1>8, <2>1 DEF ParserIncomplete, ChainInv, TypeOK
      <3>8. Keeping' = Elems(q)
        BY <1>6, <3>7 DEF Keeping, Elems
      <3>9. QED BY <1>6, <1>10, <3>1, <3>5, <3>6, <3>7, <3>8
    <2>2. CASE ParserComplete(task')
      <3>1. Len(q) = Pieces /\ parser'.completed = TRUE
        BY <2>2 DEF ParserComplete
      <3> DEFINE g == GiveData(RequestBody)
      <3>2. PICK rest \in {<<RaiseEnd>>, <<g>>, <<g, RaiseEnd>>} : script' = ReleaseAll(q) \o rest \o Done
        BY <2>2 DEF ParserComplete, Runs
      <3>3. PICK R \in SUBSET {RequestBody} : Booked(rest, R)
        <4>1. RequestBody \in Buffers \ {Orphan}
          BY BufferSets DEF RequestBody, Orphan
        <4>2. g \in Fair /\ RaiseEnd \in Fair /\ Of(g) = {RequestBody} /\ Of(RaiseEnd) = {}
          BY <4>1, FairCalls
        <4> HIDE DEF g, RaiseEnd, Of, Fair
        <4>3. Booked(<<RaiseEnd>>, Of(RaiseEnd)) /\ Booked(<<g>>, Of(g))
          BY <4>2, BookedOne
        <4>4. Booked(<<g, RaiseEnd>>, Of(g) \cup Of(RaiseEnd))
          BY <4>2, BookedTwo
        <4>5. Booked(<<RaiseEnd>>, {}) /\ Booked(<<g>>, {RequestBody}) /\ Booked(<<g, RaiseEnd>>, {RequestBody})
          BY <4>2, <4>3, <4>4
        <4>6. QED BY <3>2, <4>5
      <3>4. Booked(ReleaseAll(q), Elems(q))
        BY <1>10, BookedReleases
      <3>5. Elems(q) \cap R = {}
        BY <1>8, <1>9, <1>10 DEF Spent
      <3>6. Booked(ReleaseAll(q) \o rest, Elems(q) \cup R)
        BY <3>3, <3>4, <3>5, BookedJoin
      <3>7. Booked(Done, {})
        BY PlainScripts
      <3> DEFINE p == ReleaseAll(q) \o rest
                 d == Done
                 as == Elems(q) \cup R
      <3>8. Booked(p, as) /\ Booked(d, {}) /\ script' = p \o d /\ as \cap {} = {}
        BY <3>2, <3>6, <3>7
      <3> HIDE DEF p, d, as
      <3>9. Booked(p \o d, as \cup {})
        BY <3>8, BookedJoin
      <3>10. Booked(script', as)
        BY <3>8, <3>9
      <3>11. OnceEach(script') /\ Tidy(script') /\ BuffersOf(script') = Elems(q) \cup R
        BY <3>10, BookedTidy DEF as
      <3>12. RequestBody # Orphan
        BY DEF RequestBody, Orphan
      <3>13. InHand' = Elems(q) \cup R
        <4>1. InHand' = BuffersOf(script') \ {Orphan}
          BY DEF InHand, BuffersOf
        <4>2. QED BY <1>9, <1>10, <3>11, <3>12, <4>1
      <3>14. Keeping' = {}
        BY <3>1 DEF Keeping
      <3>15. QED BY <1>6, <1>7, <1>10, <3>1, <3>11, <3>13, <3>14
    <2>3. QED BY <1>5, <2>1, <2>2
  <1>12. N \cap Spent = {} /\ Orphan \notin N
    <2>1. RequestBody # Orphan
      BY DEF RequestBody, Orphan
    <2>2. QED BY <1>8, <1>11, <2>1
  <1> HIDE DEF N, q
  <1>13. Apart' /\ Alive' /\ Spent' \subseteq Spent \cup N \cup {Orphan}
    <2> HIDE DEF InHand, Keeping, Taken, Apart, Alive
    <2>1. QED BY <1>2, <1>11, <1>12, StartHolds
  <1>14. told \subseteq told' /\ \A d \in Pages : Coming(d)' => Coming(d)
    BY <1>1, StartTakes DEF Coming
  <1>15. Fresh'
    <2>1. /\ \A s \in {Headers, Final} \cup Pages : s \notin {Orphan, RequestBody}
          /\ \A n : Piece(n) \notin {Orphan, RequestBody} /\ Data(n) \notin {Orphan, RequestBody}
          /\ \A d : ChunkInfo(d) \notin {Orphan, RequestBody}
      BY DEF Orphan, Headers, Final, RequestBody, Pages, Padding, Page, Piece, Data, ChunkInfo
    <2>2. Spent' \subseteq Spent \cup {RequestBody, Orphan}
      BY <1>11, <1>13
    <2>3. ASSUME NEW n \in 1..Pieces, Piece(n) \in Spent'
          PROVE  n <= Len(parser'.buffers) + 1 /\ (Asks' => n <= Len(parser'.buffers))
      <3>1. n <= Len(parser.buffers) + 1 /\ n \in Nat
        BY <1>2, <2>1, <2>2, <2>3 DEF Fresh
      <3>2. QED BY <1>6, <1>7, <3>1
    <2>4. /\ ~pob'.headers => Headers \notin Spent'
          /\ Final \in Spent' => "pob" \in told'
          /\ Spent' \cap Pages # {} => "error" \in told'
      BY <1>2, <1>6, <1>14, <2>1, <2>2 DEF Fresh
    <2>5. ASSUME NEW d \in Pages, ChunkInfo(d) \in Spent'
          PROVE  ~Coming(d)' /\ ~(current' = "error" /\ Given(d)') /\ "error" \in told'
      BY <1>2, <1>4, <1>14, <2>1, <2>2, <2>5 DEF Fresh
    <2>6. \A n \in 1..FileSize : Data(n) \in Spent' => n <= FileSize - reader'.left
      BY <1>2, <1>6, <2>1, <2>2 DEF Fresh
    <2>7. Len(parser'.buffers) < Pieces => RequestBody \notin Spent'
      <3>1. RequestBody # Orphan
        BY <2>1 DEF RequestBody, Orphan
      <3>2. QED BY <1>8, <1>11, <1>13, <3>1
    <2>8. \A d \in Pages : ChunkInfo(d)' = ChunkInfo(d)
      BY DEF ChunkInfo
    <2> HIDE DEF Spent, Asks
    <2>9. QED BY <1>11, <2>3, <2>4, <2>5, <2>6, <2>7, <2>8 DEF Fresh
  <1>16. QED BY <1>13, <1>15 DEF Ledger

LEMMA StartKeepsLedger ==
    ASSUME HeaderFits, ChainInv, EndPasses, Start, Ledger
    PROVE  Ledger'
  <1>1. task' \in ChainTasks
    BY StartFrame
  <1>2. QED BY <1>1, KindsAre, StartReads, StartWrites, StartPieces, StartBody, StartAnswers, StartIdle, StartEnd

LEMMA InitLedger == Init => Ledger /\ Gone
  <1> SUFFICES ASSUME Init PROVE Ledger /\ Gone
    OBVIOUS
  <1>1. rt.tasks = <<>> /\ rt.write_buffers = <<>> /\ rt.call_later_task = NoTask /\ rt.end_task = NoTask
    BY DEF Init, T!needRead, T!NewTasks, T!Register
  <1>2. Handed(rt) = {} /\ Planned(rt) = {}
    BY <1>1, NoTasks
  <1>3. /\ script = <<>> /\ parser.buffers = <<>> /\ parser.completed = FALSE /\ late = NoBuffer /\ live = {} /\ freed = {}
        /\ caller = "polling"
    BY DEF Init
  <1>4. InHand = {} /\ Keeping = {} /\ Late = {} /\ Held = {} /\ Spent = {}
    BY <1>2, <1>3, ShortScripts DEF InHand, BuffersOf, Keeping, Late, Held, Spent
  <1>5. Apart
    <2>1. OnceEach(<<>>) /\ Injective(<<>>)
      BY DEF OnceEach, Injective
    <2>2. Tidy(<<>>)
      BY ShortScripts DEF Tidy
    <2>3. QED BY <1>3, <1>4, <2>1, <2>2 DEF Apart
  <1>6. Alive
    BY <1>3, <1>4 DEF Alive
  <1>7. Fresh
    <2>1. Len(parser.buffers) < Pieces
      BY <1>3, RequestChainAssumption
    <2>2. QED BY <1>3, <1>4, <2>1 DEF Fresh
  <1>8. QED BY <1>3, <1>5, <1>6, <1>7 DEF Ledger, Gone

LEMMA NextLedger ==
    HeaderFits /\ ChainInv /\ EndPasses /\ ResetIsClean /\ Ledger /\ Gone /\ [Next]_vars => (Ledger /\ Gone)'
  <1> SUFFICES ASSUME HeaderFits, ChainInv, EndPasses, ResetIsClean, Ledger, Gone, [Next]_vars PROVE Ledger' /\ Gone'
    OBVIOUS
  <1>1. CASE \E expired, due \in BOOLEAN : Poll(expired, due)
    <2>1. caller' # "ended"
      BY <1>1 DEF Poll
    <2>2. QED BY <1>1, <2>1, PollKeepsLedger DEF Gone
  <1>2. CASE Start
    <2>1. caller' # "ended"
      BY <1>2 DEF Start
    <2>2. QED BY <1>2, <2>1, StartKeepsLedger DEF Gone
  <1>3. CASE ApiCall
    <2>1. caller = "running" /\ (caller' = caller \/ caller' = "polling")
      BY <1>3, CallFrameFacts DEF ApiCall, giveData, needWrite, needRead, callLater, raiseEnd, raiseErrorReset, raiseErrorEnd,
         release, insertAfter, endInput, returns, throws, notifyEndTask
    <2>2. QED BY <1>3, <2>1, ApiCallKeepsLedger DEF Gone
  <1>4. CASE ReleaseLate
    BY <1>4, ReleaseLateKeepsLedger
  <1>5. CASE Destroy
    BY <1>5, DestroyKeeps
  <1>6. CASE (KeepWaiting \/ ClientSends \/ Report \/ Deliver) /\ caller # "ended"
    <2>1. caller' # "ended"
      BY <1>6 DEF KeepWaiting, ClientSends, Report, Deliver, Request
    <2>2. QED BY <1>6, <2>1, AroundKeepsLedger DEF Gone
  <1>7. CASE caller = "ended" /\ caller' = caller /\ UNCHANGED <<live, freed, late>>
    BY <1>7 DEF Ledger, Gone
  <1>8. CASE (KeepWaiting \/ ClientSends \/ Report \/ Deliver) /\ caller = "ended"
    BY <1>7, <1>8 DEF KeepWaiting, ClientSends, Report, Deliver, Request
  <1>9. CASE Ended
    BY <1>7, <1>9 DEF Ended, vars
  <1>10. CASE UNCHANGED vars
    <2>1. Ledger' <=> Ledger
      BY <1>10 DEF vars, Ledger, Apart, Alive, Fresh, InHand, BuffersOf, Keeping, Late, Held, Spent, Stuck, Asks, Coming, Given,
         Handed, TaskBuffers, WriteBuffers, Planned
    <2>2. Gone' <=> Gone
      BY <1>10 DEF vars, Gone
    <2>3. QED BY <2>1, <2>2
  <1>11. QED BY <1>1, <1>2, <1>3, <1>4, <1>5, <1>6, <1>8, <1>9, <1>10 DEF Next

\* IRequest.hpp:37-41 and RequestTasks.cpp:141: while a request lives each of its
\* buffers has one owner, a released one none, and no more of them wait for the
\* socket than the limit and what one handler adds.
THEOREM BuffersHaveOneOwner == HeaderFits => (Spec => []BuffersAreHeld)
  <1> DEFINE Inv == ChainInv /\ EndPasses /\ WritersRoom /\ Unbuilt /\ ResetIsClean /\ Ledger /\ Gone
  <1>1. Init => Inv
    BY InitChainInv, InitEndPasses, InitWritersRoom, InitUnbuilt, InitLedger
  <1>2. ASSUME HeaderFits PROVE Inv /\ [Next]_vars => Inv'
    BY <1>2, NextChainInv, NextEndPasses, NextWritersRoom, NextUnbuilt, NextResetIsClean, NextLedger
  <1>3. Inv => BuffersAreHeld
    BY LedgerOwners DEF BuffersAreHeld, WritersRoom, BackPressure, Waiting
  <1> HIDE DEF Inv
  <1>4. ASSUME HeaderFits PROVE Spec => []BuffersAreHeld
    BY <1>1, <1>2, <1>3, <1>4, PTL DEF Spec
  <1>5. QED BY <1>4

-----------------------------------------------------------------------------
(* A clean end has answered.                                                 *)

\* No error so far, and none that the running module is about to report.
Clean == ~rt.has_error /\ ~reader.failed /\ Elems(script) \cap Named({"throw"}) = {}

\* What the end of the request still waits for.
EndIsDue == "out" \in told \/ Reading \/ Idling \/ Ending \/ RequestBody \in InUse

BodyBuffers == {b \in Buffers : b[1] \in BodyKinds}

\* Who raises an error ends the request anew; who ends the output is told.
Raising ==
    /\ ~reader.open => reader.left = FileSize /\ ~reader.failed
    /\ Elems(script) \cap Named({"raiseEnd"}) # {} /\ current = "out" => "out" \in told
    /\ Resetting => Elems(script) \cap Named({"endError"}) # {} /\ (current = "reader" => "reader" \in told)
    /\ chain = CE => "reader" \in told
    /\ \A t \in Planned(rt) \cap BodyTasks : t.module = "error" => chain = CE
    /\ late # NoBuffer => rt.has_error

\* As long as there is no error the end is due or was told, each buffer of the
\* body is on its way or was sent, and nothing that waits is forgotten.
NothingIsLost ==
    Clean =>
    /\ EndIsDue
    /\ BodyBuffers \cap Spent \subseteq Elems(sent) \cup (IF caller = "ended" THEN {} ELSE InUse)
    /\ caller = "ended" => "out" \in told
    /\ Resetting => BodyBuffers \cap Spent = {}
    /\ caller # "ended" /\ rt.write_buffers # <<>> => rt.wait_write
    /\ caller = "noWork" => rt.tasks = <<>> /\ (rt.end_task = NoTask \/ rt.write_buffers # <<>>)

\* The body of an answer is the data of the file, the pages of an error, the sizes
\* of chunks and the final chunk.
LEMMA BodyBuffersAre ==
    /\ BodyBuffers \subseteq {Final} \cup Pages \cup Infos \cup DataBuffers
    /\ Headers \notin BodyBuffers /\ RequestBody \notin BodyBuffers /\ Orphan \notin BodyBuffers
    /\ NoBuffer \notin BodyBuffers /\ HeaderPieces \cap BodyBuffers = {} /\ BodyBuffers \subseteq Buffers
  <1>1. BodyBuffers \subseteq Buffers /\ NoBuffer \notin BodyBuffers
    BY BufferSets DEF BodyBuffers
  <1>2. /\ Headers \notin BodyBuffers /\ RequestBody \notin BodyBuffers /\ Orphan \notin BodyBuffers
        /\ HeaderPieces \cap BodyBuffers = {}
    BY DEF BodyBuffers, BodyKinds, Headers, RequestBody, Orphan, HeaderPieces, Piece
  <1>3. ASSUME NEW b \in BodyBuffers PROVE b \in {Final} \cup Pages \cup Infos \cup DataBuffers
    <2>1. b \in Buffers /\ b \notin {Headers, RequestBody, Orphan} /\ b \notin HeaderPieces
      BY <1>1, <1>2, <1>3
    <2> HIDE DEF BodyBuffers
    <2>2. QED BY <2>1 DEF Buffers, HeaderPieces, Pages, Infos, DataBuffers
  <1>4. QED BY <1>1, <1>2, <1>3

\* An error stays, and a module that throws reports one.
LEMMA CallKeepsError ==
    ASSUME ChainInv, ApiCall
    PROVE  /\ rt.has_error => rt'.has_error
           /\ Head(script) \in Named({"throw"}) => rt'.has_error
           /\ Clean' => Clean
  <1>1. /\ rt.has_error => rt'.has_error
        /\ Head(script) \in Named({"throw"}) => rt'.has_error
    <2>1. CASE CallMade
      BY <2>1 DEF CallMade, Advances
    <2>2. CASE returns \/ notifyEndTask
      <3>1. rt' = rt /\ Call \in {"return", "notifyEndTask"}
        BY <2>2, CallCases DEF returns, notifyEndTask
      <3>2. Head(script) \notin Named({"throw"})
        BY <3>1, CallFrameFacts DEF Named
      <3>3. QED BY <3>1, <3>2
    <2>3. QED BY <2>1, <2>2, GiveDataPlans, EndPlans, QuietPlans, ResetPlans DEF ApiCall
  <1>2. /\ reader' = reader /\ Elems(script) = Elems(script') \cup {Head(script)}
    BY CallFrameFacts
  <1>3. QED BY <1>1, <1>2 DEF Clean

\* Only reset takes something back.
LEMMA CallCarries ==
    ASSUME ChainInv, ApiCall, ~raiseErrorReset
    PROVE  /\ Elems(rt.tasks) \subseteq Elems(rt'.tasks)
           /\ rt.wait_read => rt'.wait_read
           /\ rt.call_later_task # NoTask => rt'.call_later_task # NoTask
           /\ rt.end_task \in EndTasks => rt'.end_task \in EndTasks
           /\ rt'.write_buffers # <<>> => rt.write_buffers # <<>> \/ rt'.wait_write
           /\ rt.wait_write => rt'.wait_write
           /\ Call = "needRead" => rt'.wait_read
           /\ Call = "callLater" => Idles(rt')
           /\ Call \in {"endInput", "endError"} => rt'.end_task \in EndTasks
           /\ Call = "raiseEnd" => current = "out" \/ rt'.end_task \in EndTasks
           /\ Call = "giveData" /\ Arg \in HeaderPieces => Elems(rt'.tasks) \cap ReadTasks # {}
  <1>1. /\ rt \in T!State /\ TP!Consistent(rt) /\ QueueInv(rt) /\ script # <<>> /\ current \in Modules /\ chain \in Shapes
        /\ Head(script) = <<Call, Arg>> /\ rt.tasks \in Seq(ChainTasks) /\ rt.write_buffers \in Seq(Written)
    BY CallFrameFacts DEF QueueInv, QueueType
  <1>2. \A m \in Modules : EndFor(m) \in EndTasks /\ EndFor(m) # NoTask
    <2>1. \A m \in Modules : EndFor(m) \in EndTasks
      BY DEF EndFor, T!ModuleTask, EndTasks, Tasks
    <2>2. QED BY <2>1, TaskSets
  <1>3. CASE giveData
    <2>1. Call = "giveData" /\ SameWaits(rt, rt')
      BY <1>3, CallCases, GiftGoes
    <2>2. CASE /\ Arg \in Written /\ rt'.tasks = rt.tasks /\ rt'.write_buffers = Append(rt.write_buffers, Arg)
               /\ rt'.call_later_task = rt.call_later_task /\ rt'.end_task = rt.end_task
               /\ Head(script) \notin AddCalls(current, chain)
      <3>1. Arg \notin HeaderPieces
        BY <2>2, BufferSets
      <3>2. BufferWaits \/ rt'.write_buffers = rt.write_buffers
        BY RoomTaken
      <3>3. rt'.write_buffers # rt.write_buffers
        <4> DEFINE w == rt.write_buffers
        <4>1. w \in Seq(Written) /\ Arg \in Written
          BY <1>1, <2>2
        <4> HIDE DEF w
        <4>2. Append(w, Arg) # w
          BY <4>1
        <4>3. QED BY <2>2, <4>2 DEF w
      <3>4. rt'.wait_write = TRUE
        BY <3>2, <3>3 DEF BufferWaits
      <3>5. QED BY <2>1, <2>2, <3>1, <3>4 DEF SameWaits
    <2>3. CASE /\ Gift \in DataTasks /\ Gift.buffer = Arg
               /\ rt'.tasks = <<Gift>> \o rt.tasks /\ SamePlans(rt, rt')
      <3>1. Elems(rt'.tasks) = Elems(rt.tasks) \cup {Gift}
        <4> DEFINE q == rt.tasks
                   g == Gift
        <4>1. q \in Seq(ChainTasks) /\ g \in ChainTasks
          BY <1>1, <2>3, TaskSets
        <4> HIDE DEF q, g
        <4>2. Elems(<<g>> \o q) = Elems(q) \cup {g}
          BY <4>1, PushElems
        <4>3. QED BY <2>3, <4>2 DEF q, g
      <3>2. Arg \in HeaderPieces => Gift \in ReadTasks
        <4> DEFINE g == Gift
        <4>1. g \in DataTasks /\ g \in ChainTasks
          BY <2>3, TaskSets
        <4> HIDE DEF g
        <4>2. g \in PieceTasks \cup BodyTasks \cup HeadersTasks \cup ResponseTasks
          BY <4>1 DEF DataTasks
        <4>3. g.buffer \in HeaderPieces => g \in PieceTasks
          BY <4>1, <4>2, KindsAre, BufferSets
        <4>4. QED BY <2>3, <4>3 DEF ReadTasks, g
      <3>3. rt.wait_write => rt'.wait_write
        <4>1. rt' = T!addTask(rt, Gift) \/ rt' = T!needWrite(rt, Arg)
          BY <1>3 DEF giveData, Gift
        <4>2. T!addTask(rt, Gift).wait_write = rt.wait_write /\ T!needWrite(rt, Arg).wait_write = TRUE
          BY <1>1, WaitEffects
        <4>3. QED BY <4>1, <4>2
      <3>4. QED BY <2>1, <2>3, <3>1, <3>2, <3>3 DEF SameWaits, SamePlans
    <2>4. QED BY <1>3, <2>2, <2>3, GiftGoes
  <1>4. CASE needWrite
    <2>1. Call = "needWrite" /\ Arg \in Buffers /\ rt' = T!needWrite(rt, Arg)
      BY <1>1, <1>4, CallCases, CallNamed, BufferSets DEF needWrite
    <2>2. /\ rt'.tasks = rt.tasks /\ rt'.call_later_task = rt.call_later_task /\ rt'.end_task = rt.end_task
          /\ SameWaits(rt, rt') /\ rt'.wait_write = TRUE
      BY <1>1, <2>1, NeedWriteEffect, WaitEffects
    <2>3. QED BY <2>1, <2>2 DEF SameWaits
  <1>5. CASE needRead
    <2>1. Call = "needRead" /\ rt' = T!needRead(rt)
      BY <1>5, CallCases DEF needRead
    <2>2. SameQueue(rt, rt') /\ rt'.wait_read = TRUE /\ rt'.wait_write = rt.wait_write
      BY <1>1, <2>1, NeedReadEffect, WaitEffects
    <2>3. QED BY <2>1, <2>2 DEF SameQueue
  <1>6. CASE callLater
    <2>1. Call = "callLater" /\ Head(script) \in Named({"callLater"}) /\ current = "reader"
      BY <1>1, <1>6, CallCases, CallNamed
    <2>2. rt' = T!addCallLaterTask(rt, "reader", reader.delayed) /\ reader.delayed \in BOOLEAN
      BY <1>6, <2>1 DEF callLater, ChainInv, TypeOK
    <2>3. rt.call_later_task = NoTask
      <3>1. Head(script) \in IdleCalls
        BY <2>1 DEF IdleCalls
      <3>2. ~Idles(rt)
        BY <1>1, <3>1, FirstCall
      <3>3. QED BY <3>2 DEF Idles
    <2> DEFINE t == T!ModuleTask("ON_IDLE", "reader", NoBuffer)
    <2>4. /\ rt'.write_buffers = rt.write_buffers /\ rt'.end_task = rt.end_task /\ SameWaits(rt, rt')
          /\ \/ rt'.tasks = rt.tasks /\ rt'.call_later_task = t
             \/ rt'.tasks = Append(rt.tasks, t) /\ rt'.call_later_task = NoTask
      BY <1>1, <2>2, <2>3, CallLaterEffect
    <2>5. rt'.wait_write = rt.wait_write
      <3>1. T!addCallLaterTask(rt, "reader", reader.delayed).wait_write = rt.wait_write
        BY <1>1 DEF T!addCallLaterTask, T!State
      <3>2. QED BY <2>2, <3>1
    <2>6. t \in IdleTasks
      BY DEF T!ModuleTask, IdleTasks, Tasks
    <2>7. t \in ChainTasks /\ t # NoTask
      BY <2>6, TaskSets
    <2> HIDE DEF t
    <2>8. Elems(rt.tasks) \subseteq Elems(rt'.tasks) /\ Idles(rt')
      <3>1. CASE rt'.tasks = rt.tasks /\ rt'.call_later_task = t
        BY <2>7, <3>1 DEF Idles
      <3>2. CASE rt'.tasks = Append(rt.tasks, t)
        <4> DEFINE q == rt.tasks
        <4>1. q \in Seq(ChainTasks)
          BY <1>1
        <4> HIDE DEF q
        <4>2. Elems(Append(q, t)) = Elems(q) \cup {t}
          BY <2>7, <4>1, AppendElems
        <4>3. QED BY <2>6, <3>2, <4>2 DEF q, Idles
      <3>3. QED BY <2>4, <3>1, <3>2
    <2>9. QED BY <2>1, <2>3, <2>4, <2>5, <2>8 DEF SameWaits
  <1>7. CASE raiseEnd \/ endInput \/ raiseErrorEnd
    <2>1. Call \in {"raiseEnd", "endInput", "endError"} /\ (raiseEnd <=> Call = "raiseEnd")
      BY <1>7, CallCases
    <2>2. \/ rt' = rt /\ Call = "raiseEnd" /\ current = "out"
          \/ \E m \in Modules : rt' = T!addEndTask(rt, m)
      <3>1. CASE raiseEnd
        <4>1. rt' = IF Following(current) = NoModule THEN rt ELSE T!addEndTask(rt, Following(current))
          BY <3>1 DEF raiseEnd
        <4>2. current \in Modules /\ chain \in Shapes /\ InChain(current)
          <5>1. Head(script) \notin Named({"endError", "return"})
            BY <1>1, <3>1, CallCases DEF Named
          <5>2. QED BY <1>1, <5>1, FirstCall
        <4>3. /\ Following(current) = NoModule => current = "out"
              /\ Following(current) # NoModule => Following(current) \in Modules
          BY <4>2, ChainNext, Members DEF Modules, Processing
        <4>4. QED BY <3>1, <4>1, <4>3, CallCases
      <3>2. CASE endInput
        BY <3>2, TaskHypotheses DEF endInput
      <3>3. CASE raiseErrorEnd
        BY <3>3 DEF raiseErrorEnd, Modules, Processing
      <3>4. QED BY <1>7, <3>1, <3>2, <3>3
    <2>3. CASE rt' = rt /\ Call = "raiseEnd" /\ current = "out"
      BY <2>3
    <2>4. CASE \E m \in Modules : rt' = T!addEndTask(rt, m)
      <3>1. PICK m \in Modules : rt' = T!addEndTask(rt, m)
        BY <2>4
      <3>2. /\ rt'.end_task = EndFor(m) /\ rt'.tasks = rt.tasks /\ rt'.write_buffers = rt.write_buffers
            /\ rt'.call_later_task = rt.call_later_task /\ SameWaits(rt, rt') /\ rt'.wait_write = rt.wait_write
        BY <1>1, <3>1, EndTaskEffect, WaitEffects DEF EndFor
      <3>3. rt'.end_task \in EndTasks
        BY <1>2, <3>2
      <3>4. QED BY <2>1, <3>2, <3>3 DEF SameWaits
    <2>5. QED BY <2>2, <2>3, <2>4
  <1>8. CASE release \/ insertAfter \/ returns \/ notifyEndTask
    <2>1. rt' = rt
      BY <1>8 DEF release, insertAfter, returns, notifyEndTask
    <2>2. Call \in {"release", "insertAfter", "return", "notifyEndTask"}
      BY <1>8, CallCases
    <2>3. QED BY <2>1, <2>2
  <1>9. CASE throws
    <2>1. rt' = T!notifyHasError(rt) /\ Call = "throw"
      BY <1>9, CallCases DEF throws
    <2>2. SameQueue(rt, rt') /\ rt'.wait_read = rt.wait_read
      BY <1>1, <2>1, ErrorEffect
    <2>3. rt'.wait_write = rt.wait_write
      BY <1>1, <2>1 DEF T!notifyHasError, T!Unregister, T!State
    <2>4. QED BY <2>1, <2>2, <2>3 DEF SameQueue
  <1>10. QED BY <1>3, <1>4, <1>5, <1>6, <1>7, <1>8, <1>9 DEF ApiCall

\* A call of a module leaves the end due.
LEMMA CallKeepsDue ==
    ASSUME ChainInv, ApiCall, ~raiseErrorReset, Raising, EndIsDue
    PROVE  EndIsDue'
  <1>1. /\ script # <<>> /\ Elems(script) = Elems(script') \cup {Head(script)} /\ Head(script) = <<Call, Arg>>
        /\ told' = told /\ QueueInv(rt) /\ Still(rt)
    BY CallFrameFacts
  <1>2. CASE "out" \in told
    BY <1>1, <1>2 DEF EndIsDue
  <1>3. CASE Reading
    <2>1. CASE Reads(rt)
      BY <2>1, CallCarries DEF Reads, Reading, EndIsDue
    <2>2. CASE Elems(script') \cap ReadCalls # {}
      BY <2>2 DEF Reading, EndIsDue
    <2>3. CASE Head(script) \in ReadCalls
      <3>1. Call = "needRead" \/ (Call = "giveData" /\ Arg \in HeaderPieces)
        BY <1>1, <2>3 DEF ReadCalls, Gives, Named
      <3>2. Reads(rt')
        BY <3>1, CallCarries DEF Reads
      <3>3. QED BY <3>2 DEF Reading, EndIsDue
    <2>4. QED BY <1>1, <1>3, <2>1, <2>2, <2>3 DEF Reading
  <1>4. CASE Idling
    <2>1. CASE Idles(rt)
      BY <2>1, CallCarries DEF Idles, Idling, EndIsDue
    <2>2. CASE Elems(script') \cap IdleCalls # {}
      BY <2>2 DEF Idling, EndIsDue
    <2>3. CASE Head(script) \in IdleCalls
      <3>1. Call = "callLater"
        BY <1>1, <2>3 DEF IdleCalls, Named
      <3>2. QED BY <3>1, CallCarries DEF Idling, EndIsDue
    <2>4. QED BY <1>1, <1>4, <2>1, <2>2, <2>3 DEF Idling
  <1>5. CASE Ending
    <2>1. rt'.end_task \in EndTasks => EndIsDue'
      BY TaskSets DEF Ending, Planned, EndIsDue
    <2>2. CASE Planned(rt) \cap EndTasks # {}
      <3>1. /\ Elems(rt.tasks) \cap EndTasks = {} /\ rt.call_later_task \in IdleTasks \cup {NoTask}
        BY <1>1 DEF QueueInv, QueueType, Still
      <3>2. rt.call_later_task \notin EndTasks
        BY <3>1, TaskSets
      <3>3. rt.end_task \in EndTasks
        BY <2>2, <3>1, <3>2 DEF Planned
      <3>4. QED BY <2>1, <3>3, CallCarries
    <2>3. CASE Elems(script') \cap EndCalls # {}
      BY <2>3 DEF Ending, EndIsDue
    <2>4. CASE Head(script) \in EndCalls
      <3>1. Call \in {"raiseEnd", "endInput", "endError"}
        BY <1>1, <2>4 DEF EndCalls, Named
      <3>2. CASE rt'.end_task \in EndTasks
        BY <2>1, <3>2
      <3>3. CASE Call = "raiseEnd" /\ current = "out"
        <4>1. Head(script) \in Named({"raiseEnd"})
          BY <1>1, <3>3, CallNamed
        <4>2. "out" \in told
          BY <1>1, <3>3, <4>1 DEF Raising
        <4>3. QED BY <1>1, <4>2 DEF EndIsDue
      <3>4. QED BY <3>1, <3>2, <3>3, CallCarries
    <2>5. QED BY <1>1, <1>5, <2>2, <2>3, <2>4 DEF Ending
  <1>6. CASE RequestBody \in InUse
    <2>1. CASE RequestBody \in Handed(rt)
      BY <2>1, CallHands DEF InUse, EndIsDue
    <2>2. CASE RequestBody \in Asked(script)
      <3>1. RequestBody \in Buffers
        BY BufferSets
      <3>2. CASE Elems(script') \cap Handing(RequestBody) # {}
        BY <3>1, <3>2 DEF Asked, InUse, EndIsDue
      <3>3. CASE Head(script) \in Handing(RequestBody)
        <4>1. Call \in {"giveData", "needWrite"} /\ Arg = RequestBody
          BY <1>1, <3>3 DEF Handing, GiveData, NeedWrite
        <4>2. giveData \/ needWrite
          BY <4>1, CallCases DEF ApiCall
        <4>3. QED BY <4>1, <4>2, CallHands DEF InUse, EndIsDue
      <3>4. QED BY <1>1, <2>2, <3>2, <3>3 DEF Asked
    <2>3. QED BY <1>6, <2>1, <2>2 DEF InUse
  <1>7. QED BY <1>2, <1>3, <1>4, <1>5, <1>6 DEF EndIsDue

\* No buffer of the body is taken back either.
LEMMA CallKeepsUse ==
    ASSUME ChainInv, ApiCall, ~raiseErrorReset
    PROVE  InUse \cap Buffers \subseteq InUse'
  <1>1. /\ Elems(script) = Elems(script') \cup {Head(script)} /\ Head(script) = <<Call, Arg>>
    BY CallFrameFacts
  <1>2. ASSUME NEW b \in Buffers, b \in Asked(script) PROVE b \in InUse'
    <2>1. CASE Elems(script') \cap Handing(b) # {}
      BY <2>1 DEF Asked, InUse
    <2>2. CASE Head(script) \in Handing(b)
      <3>1. Call \in {"giveData", "needWrite"} /\ Arg = b
        BY <1>1, <2>2 DEF Handing, GiveData, NeedWrite
      <3>2. giveData \/ needWrite
        BY <3>1, CallCases DEF ApiCall
      <3>3. QED BY <3>1, <3>2, CallHands DEF InUse
    <2>3. QED BY <1>1, <1>2, <2>1, <2>2 DEF Asked
  <1>3. ASSUME NEW b \in Buffers, b \in Handed(rt) PROVE b \in InUse'
    BY <1>3, CallHands DEF InUse
  <1>4. QED BY <1>2, <1>3 DEF InUse

\* Only behind a failed FileReader does ModError get the body of the request.
LEMMA CallBody ==
    ASSUME ChainInv, ApiCall, Raising
    PROVE  \A t \in Planned(rt') \cap BodyTasks : t.module = "error" => chain' = CE
  <1>1. /\ current \in Modules /\ chain \in Shapes /\ Head(script) = <<Call, Arg>>
        /\ Head(script) \in CallsOf(current)
    BY CallFrameFacts
  <1> SUFFICES ASSUME NEW t \in Planned(rt') \cap BodyTasks, t.module = "error"
               PROVE  chain' = CE
    OBVIOUS
  <1>2. t \in ChainTasks /\ t.buffer = RequestBody /\ t.event = "ON_REQUEST_DATA"
    BY KindsAre, TaskSets DEF ChainTasks, FrontTasks, DataTasks
  <1>3. t \notin IdleTasks /\ t \notin EndTasks
    BY <1>2, KindsAre
  <1>4. CASE giveData
    <2>1. chain' = chain
      BY <1>4 DEF giveData
    <2>2. CASE t \in Planned(rt)
      BY <2>1, <2>2 DEF Raising
    <2>3. CASE GivesTask(t)
      <3>1. t.module = Following(current) /\ Arg = RequestBody /\ Head(script)[1] = "giveData" /\ Head(script)[2] = Arg
        BY <1>1, <1>2, <2>3 DEF GivesTask, GiveData
      <3>2. current \in {"in", "parser", "builder", "reader", "error", "pob"}
        BY <1>1, <3>1, WhoGives
      <3>3. current \in {"parser", "builder"}
        BY <1>1, <3>1, <3>2, WhoGives, BufferSets
      <3>4. chain = CE
        BY <1>1, <3>1, <3>3, ChainNext
      <3>5. QED BY <2>1, <3>4
    <2>4. QED BY <1>4, <2>2, <2>3, GiveDataPlans
  <1>5. CASE raiseEnd \/ endInput \/ raiseErrorEnd
    <2>1. chain' = chain
      BY <1>5 DEF raiseEnd, endInput, raiseErrorEnd
    <2>2. \A m : EndFor(m).event = "ON_END"
      BY DEF EndFor, T!ModuleTask
    <2>3. t \in Planned(rt)
      BY <1>2, <1>5, <2>2, EndPlans DEF PlansEnd
    <2>4. QED BY <2>1, <2>3 DEF Raising
  <1>6. CASE needWrite \/ needRead \/ callLater \/ release \/ insertAfter \/ throws
    <2>1. t \in Planned(rt)
      BY <1>3, <1>6, QuietPlans
    <2>2. chain = CE
      BY <2>1 DEF Raising
    <2>3. ~insertAfter
      <3> SUFFICES ASSUME insertAfter PROVE FALSE
        OBVIOUS
      <3>1. Head(script) \in Named({"insertAfter"}) /\ Head(script) \in Elems(script) /\ script # <<>>
        BY CallCases, CallNamed
      <3>2. chain = C0
        BY <3>1 DEF ChainInv, Running
      <3>3. QED BY <2>2, <3>2, ShapesAre
    <2>4. QED BY <1>6, <2>2, <2>3 DEF needWrite, needRead, callLater, release, throws
  <1>7. CASE raiseErrorReset
    BY <1>7, ResetPlans
  <1>8. CASE returns \/ notifyEndTask
    BY <1>8 DEF returns, notifyEndTask, Raising
  <1>9. QED BY <1>4, <1>5, <1>6, <1>7, <1>8 DEF ApiCall

\* The calls after reset are those that end the request anew.
LEMMA CallKeepsRaising ==
    ASSUME ChainInv, ApiCall, Raising
    PROVE  Raising' /\ ~Resetting'
  <1>1. /\ caller = "running" /\ script # <<>> /\ script' = Tail(script) /\ Elems(script') \subseteq Elems(script)
        /\ UNCHANGED <<reader, told>> /\ Head(script) = <<Call, Arg>> /\ Head(script) \in Elems(script)
        /\ chain \in Shapes
    BY CallFrameFacts
  <1>2. /\ Elems(script') \cap Named({"reset", "insertAfter"}) = {}
        /\ Head(script) \in LastCalls => script' = <<>>
    BY <1>1, RunningNow, TailOfScript
  <1>3. ~Resetting'
    <2>1. Named({"reset"}) \subseteq Named({"reset", "insertAfter"})
      BY NamedMore
    <2>2. QED BY <1>2, <2>1 DEF Resetting
  <1>4. current' = current \/ Elems(script') = {}
    <2>1. CASE CallMade
      BY <2>1 DEF CallMade, Frame
    <2>2. CASE returns
      <3>1. Call = "return"
        BY <2>2, CallCases
      <3>2. Head(script) \in Named({"return"})
        BY <1>1, <3>1, CallNamed
      <3>3. Head(script) \in LastCalls
        BY <3>2 DEF LastCalls, Named
      <3>4. QED BY <1>2, <3>3, NothingAsked
    <2>3. CASE notifyEndTask
      BY <2>3 DEF notifyEndTask
    <2>4. QED BY <2>1, <2>2, <2>3, GiveDataPlans, EndPlans, QuietPlans, ResetPlans DEF ApiCall
  <1>5. Elems(script') \cap Named({"raiseEnd"}) # {} /\ current' = "out" => "out" \in told'
    BY <1>1, <1>4 DEF Raising
  <1>6. chain' = CE => "reader" \in told'
    <2>1. CASE raiseErrorReset
      <3>1. /\ (current = "builder" /\ chain' = CP) \/ current = "reader"
            /\ Head(script) \in Named({"reset"})
        BY <2>1, ResetPlans
      <3>2. Resetting
        BY <1>1, <3>1 DEF Resetting
      <3>3. QED BY <1>1, <3>1, <3>2, ShapesAre DEF Raising
    <2>2. CASE insertAfter
      <3>1. Head(script) \in Named({"insertAfter"})
        BY <2>2, <1>1, CallCases, CallNamed
      <3>2. chain = C0 /\ current = "builder"
        BY <1>1, <3>1 DEF ChainInv, Running
      <3>3. chain' = CR
        BY <2>2, <3>2, ChainChanges DEF insertAfter
      <3>4. QED BY <3>3, ShapesAre
    <2>3. CASE ~raiseErrorReset /\ ~insertAfter
      <3>1. chain' = chain
        BY <2>3 DEF ApiCall, giveData, needWrite, needRead, callLater, raiseEnd, raiseErrorEnd,
           release, endInput, returns, throws, notifyEndTask
      <3>2. QED BY <1>1, <3>1 DEF Raising
    <2>4. QED BY <2>1, <2>2, <2>3
  <1>7. late' # NoBuffer => rt'.has_error
    <2>1. CASE notifyEndTask
      <3>1. rt' = rt /\ Call = "notifyEndTask"
        BY <2>1, CallCases DEF notifyEndTask
      <3>2. Head(script) \in Named({"notifyEndTask"}) /\ Head(script) = script[1] /\ Head(script) \notin Named({"throw"})
        BY <1>1, <3>1, CallNamed DEF Named
      <3>3. Fits(script, current, chain, rt)
        BY <1>1, RunningNow
      <3>4. rt.has_error
        BY <1>1, <3>2, <3>3 DEF Fits
      <3>5. QED BY <3>1, <3>4
    <2>2. CASE ~notifyEndTask
      <3>1. late' = late
        BY <2>2 DEF ApiCall, giveData, needWrite, needRead, callLater, raiseEnd, raiseErrorReset, raiseErrorEnd,
           release, insertAfter, endInput, returns, throws, Unrelated
      <3>2. QED BY <3>1, CallKeepsError DEF Raising
    <2>3. QED BY <2>1, <2>2
  <1>8. \A t \in Planned(rt') \cap BodyTasks : t.module = "error" => chain' = CE
    BY CallBody
  <1>9. QED BY <1>1, <1>3, <1>5, <1>6, <1>7, <1>8 DEF Raising

\* No call makes a buffer.
LEMMA CallSpendsNothing ==
    ASSUME ChainInv, ApiCall, Ledger, ResetIsClean
    PROVE  Spent' \subseteq Spent
  <1>1. Apart /\ Alive
    BY CallCases DEF Ledger
  <1>2. QED BY <1>1, HandOverKeeps, ReleaseKeeps, ResetKeeps, FailedTaskKeeps, PlainCallKeeps DEF ApiCall

\* A call loses nothing of the answer.
LEMMA CallLosesNothing ==
    ASSUME ChainInv, ApiCall, Ledger, ResetIsClean, Raising, NothingIsLost
    PROVE  NothingIsLost'
  <1> SUFFICES ASSUME Clean' PROVE NothingIsLost'
    BY DEF NothingIsLost
  <1>1. Clean
    BY CallKeepsError
  <1>2. /\ caller = "running" /\ caller' \in {"running", "polling"} /\ UNCHANGED <<sent, told>>
        /\ Head(script) \in Elems(script) /\ Elems(script) = Elems(script') \cup {Head(script)}
    BY CallFrameFacts DEF ApiCall, giveData, needWrite, needRead, callLater, raiseEnd, raiseErrorReset, raiseErrorEnd,
         release, insertAfter, endInput, returns, throws, notifyEndTask
  <1>3. ~Resetting' /\ Spent' \subseteq Spent
    BY CallKeepsRaising, CallSpendsNothing
  <1>4. /\ EndIsDue /\ BodyBuffers \cap Spent \subseteq Elems(sent) \cup InUse
        /\ Resetting => BodyBuffers \cap Spent = {}
        /\ rt.write_buffers # <<>> => rt.wait_write
    BY <1>1, <1>2 DEF NothingIsLost
  <1>5. CASE raiseErrorReset
    <2>1. /\ Head(script) \in Named({"reset"}) /\ rt'.write_buffers = rt.write_buffers
      BY <1>5, ResetPlans
    <2>2. Resetting
      BY <1>2, <2>1 DEF Resetting
    <2>3. EndIsDue'
      <3>1. Elems(script) \cap Named({"endError"}) # {}
        BY <2>2 DEF Raising
      <3>2. Head(script) \notin Named({"endError"})
        BY <2>1 DEF Named
      <3>3. Elems(script') \cap Named({"endError"}) # {}
        BY <1>2, <3>1, <3>2
      <3>4. Named({"endError"}) \subseteq EndCalls
        BY NamedMore DEF EndCalls
      <3>5. QED BY <3>3, <3>4 DEF Ending, EndIsDue
    <2>4. rt'.write_buffers = <<>>
      BY <1>1, <2>1, <2>2 DEF ResetIsClean, Clean
    <2>5. QED BY <1>2, <1>3, <1>4, <2>2, <2>3, <2>4 DEF NothingIsLost
  <1>6. CASE ~raiseErrorReset
    <2>1. EndIsDue'
      BY <1>4, <1>6, CallKeepsDue
    <2>2. BodyBuffers \cap Spent' \subseteq Elems(sent') \cup InUse'
      BY <1>2, <1>3, <1>4, <1>6, CallKeepsUse, BodyBuffersAre
    <2>3. rt'.write_buffers # <<>> => rt'.wait_write
      BY <1>4, <1>6, CallCarries
    <2>4. BodyBuffers' = BodyBuffers
      BY DEF BodyBuffers
    <2>5. QED BY <1>2, <1>3, <2>1, <2>2, <2>3, <2>4 DEF NothingIsLost
  <1>7. QED BY <1>5, <1>6

\* hasWork leaves nothing undone but what must wait for the socket.
LEMMA WorkLeftOver ==
    ASSUME NEW s, TP!Consistent(s), QueueInv(s), Still(s), NEW e \in BOOLEAN, NEW d \in BOOLEAN
    PROVE  LET r == T!hasWork(s, e, d)
           IN  ~r.has_error /\ r.tasks = <<>> => r.end_task = NoTask \/ r.write_buffers # <<>>
  <1> DEFINE r == T!hasWork(s, e, d)
             x == T!DispatchCallLater(T!DispatchWrite(T!DispatchRead(s)), d)
  <1> SUFFICES ASSUME ~r.has_error, r.tasks = <<>> PROVE r.end_task = NoTask \/ r.write_buffers # <<>>
    OBVIOUS
  <1>1. s \in T!State
    BY ConsistentType
  <1>2. /\ s.has_error => r = s
        /\ ~s.has_error /\ T!Silent(s) /\ e => r = T!TimeOut(s)
        /\ ~s.has_error /\ ~(T!Silent(s) /\ e) => r = T!DispatchEnd(x)
    BY <1>1 DEF T!hasWork
  <1>3. T!TimeOut(s).has_error
    BY <1>1 DEF T!TimeOut, T!Unregister, T!State
  <1> HIDE DEF r, x
  <1>4. r = T!DispatchEnd(x)
    BY <1>2, <1>3
  <1>5. x \in T!State
    <2>1. TP!Consistent(T!DispatchRead(s))
      BY PartsConsistent
    <2>2. TP!Consistent(T!DispatchWrite(T!DispatchRead(s)))
      BY <2>1, PartsConsistent
    <2>3. TP!Consistent(x)
      BY <2>2, PartsConsistent DEF x
    <2>4. QED BY <2>3, ConsistentType
  <1>6. CASE x.end_task # NoTask /\ x.tasks = <<>> /\ x.write_buffers = <<>>
    <2>1. r.tasks = <<x.end_task>>
      BY <1>4, <1>5, <1>6 DEF T!DispatchEnd, T!State
    <2>2. QED BY <2>1
  <1>7. CASE ~(x.end_task # NoTask /\ x.tasks = <<>> /\ x.write_buffers = <<>>)
    BY <1>4, <1>7 DEF T!DispatchEnd
  <1>8. QED BY <1>6, <1>7

\* hasWork hands the end, the reads and the buffers on.
LEMMA PollLosesNothing ==
    ASSUME ChainInv, Raising, NothingIsLost, NEW expired \in BOOLEAN, NEW due \in BOOLEAN, Poll(expired, due)
    PROVE  Raising' /\ NothingIsLost'
  <1>1. /\ rt' = T!hasWork(rt, expired, due) /\ caller = "polling"
        /\ caller' = IF T!HasWorkResult(rt') THEN "dispatching" ELSE "noWork"
        /\ UNCHANGED Parts /\ UNCHANGED <<script, current, sent, told, late, live, freed>>
        /\ script = <<>> /\ script' = <<>> /\ Elems(script) = {} /\ Asked(script) = {}
        /\ TP!Consistent(rt) /\ QueueInv(rt) /\ Still(rt) /\ rt \in T!State
    BY PollFacts, ConsistentType DEF Request
  <1>2. /\ Forwards(rt, rt') \/ (rt'.has_error /\ ~rt.has_error)
        /\ Handed(rt') = Handed(rt)
        /\ \/ rt'.has_error /\ SameQueue(rt, rt')
           \/ ~rt.has_error /\ ~rt'.has_error /\ Writes(rt, rt')
        /\ Planned(rt') \subseteq Planned(rt)
              \cup (IF rt.wait_read THEN {CanRead} ELSE {})
              \cup (IF rt.write_buffers # <<>> THEN {WriteTask(Head(rt.write_buffers))} ELSE {})
    BY <1>1, HasWorkEffect
  <1>3. rt.has_error => rt'.has_error
    BY <1>1, WorkWaits
  <1>4. Resetting' <=> Resetting
    BY <1>1 DEF Resetting
  <1>5. Raising'
    <2>1. \A b : WriteTask(b) \notin BodyTasks /\ CanRead \notin BodyTasks
      BY DEF WriteTask, CanRead, BodyTasks, Tasks, T!ModuleTask
    <2>2. Planned(rt') \cap BodyTasks \subseteq Planned(rt) \cap BodyTasks
      BY <1>2, <2>1
    <2>3. QED BY <1>1, <1>3, <1>4, <2>2 DEF Raising, Parts
  <1> SUFFICES ASSUME Clean' PROVE NothingIsLost'
    BY <1>5 DEF NothingIsLost
  <1>6. ~rt'.has_error /\ Clean
    BY <1>1, <1>3 DEF Clean, Parts
  <1>7. Forwards(rt, rt') /\ Writes(rt, rt')
    BY <1>2, <1>3, <1>6
  <1>8. EndIsDue'
    <2>1. EndIsDue
      BY <1>6 DEF NothingIsLost
    <2>2. Elems(script') = Elems(script) /\ Asked(script') = Asked(script)
      BY <1>1
    <2>3. (Reads(rt) => Reads(rt')) /\ (Idles(rt) => Idles(rt')) /\ Planned(rt) \subseteq Planned(rt')
      BY <1>7 DEF Forwards
    <2>4. Reading => Reading'
      BY <1>1, <2>3 DEF Reading
    <2>5. Idling => Idling'
      BY <1>1, <2>3 DEF Idling
    <2>6. Ending => Ending'
      BY <1>1, <2>3 DEF Ending
    <2>7. InUse \subseteq InUse'
      <3>1. InUse = Handed(rt) \cup Asked(script) /\ InUse' = Handed(rt') \cup Asked(script')
        BY DEF InUse
      <3>2. QED BY <1>2, <2>2, <3>1
    <2>8. QED BY <1>1, <2>1, <2>4, <2>5, <2>6, <2>7 DEF EndIsDue
  <1>9. BodyBuffers \cap Spent' \subseteq Elems(sent') \cup InUse'
    BY <1>1, <1>2, <1>6 DEF NothingIsLost, InUse, Spent
  <1>10. rt'.write_buffers # <<>> => rt'.wait_write
    <2>1. rt.write_buffers # <<>> => rt.wait_write
      BY <1>1, <1>6 DEF NothingIsLost
    <2>2. CASE rt'.write_buffers = rt.write_buffers /\ rt'.wait_write = rt.wait_write
      BY <2>1, <2>2
    <2>3. CASE /\ rt.write_buffers # <<>> /\ rt'.write_buffers = Tail(rt.write_buffers)
               /\ rt'.wait_write = (Len(rt.write_buffers) > 1)
      <3> DEFINE w == rt.write_buffers
      <3>1. w \in Seq(Written) /\ w # <<>>
        BY <1>1, <2>3 DEF QueueInv, QueueType
      <3> HIDE DEF w
      <3>2. Tail(w) # <<>> => Len(w) > 1
        BY <3>1, TailElems
      <3>3. QED BY <2>3, <3>2 DEF w
    <2>4. QED BY <1>7, <2>2, <2>3 DEF Writes
  <1>11. caller' = "noWork" => rt'.tasks = <<>> /\ (rt'.end_task = NoTask \/ rt'.write_buffers # <<>>)
    <2>1. caller' = "noWork" => rt'.tasks = <<>>
      BY <1>1, <1>6 DEF T!HasWorkResult
    <2>2. QED BY <1>1, <1>6, <2>1, WorkLeftOver
  <1>12. ~Resetting' /\ caller' # "ended"
    BY <1>1 DEF Resetting
  <1>13. BodyBuffers' = BodyBuffers
    BY DEF BodyBuffers
  <1>14. QED BY <1>8, <1>9, <1>10, <1>11, <1>12, <1>13 DEF NothingIsLost

\* What changes neither the tasks nor the modules loses nothing.
LEMMA SameLosesNothing ==
    ASSUME Raising, NothingIsLost, SameQueue(rt, rt'), rt'.wait_read = rt.wait_read, rt'.wait_write = rt.wait_write,
           rt.has_error => rt'.has_error, UNCHANGED <<script, chain, current, parser, reader, told, sent>>,
           Spent' = Spent, late' = late \/ late' = NoBuffer,
           caller' = caller \/ (caller # "ended" /\ caller' = "polling")
    PROVE  Raising' /\ NothingIsLost'
  <1>1. /\ Handed(rt') = Handed(rt) /\ Planned(rt') = Planned(rt) /\ (Reads(rt') <=> Reads(rt))
        /\ (Idles(rt') <=> Idles(rt))
    BY SameTasks
  <1>2. /\ Resetting' <=> Resetting
        /\ Clean' => Clean
        /\ EndIsDue' <=> EndIsDue
        /\ InUse' = InUse /\ BodyBuffers' = BodyBuffers
    BY <1>1 DEF Resetting, Clean, EndIsDue, InUse, BodyBuffers, Reading, Idling, Ending
  <1>3. Raising'
    BY <1>1, <1>2 DEF Raising
  <1>4. NothingIsLost'
    BY <1>2 DEF NothingIsLost, SameQueue
  <1>5. QED BY <1>3, <1>4

\* The client and the socket pool lose nothing.
LEMMA AroundLosesNothing ==
    ASSUME ChainInv, Raising, NothingIsLost, KeepWaiting \/ ClientSends \/ Report \/ Deliver
    PROVE  Raising' /\ NothingIsLost'
  <1>1. /\ UNCHANGED <<script, chain, current, parser, reader, told, sent, late, live, freed>>
        /\ caller' = caller \/ (caller # "ended" /\ caller' = "polling")
    BY DEF KeepWaiting, ClientSends, Report, Deliver, Request
  <1>2. /\ SameQueue(rt, rt') /\ rt'.wait_read = rt.wait_read /\ rt'.wait_write = rt.wait_write
        /\ rt.has_error => rt'.has_error
    <2>1. CASE KeepWaiting \/ ClientSends \/ Report
      BY <2>1 DEF KeepWaiting, ClientSends, Report, SameQueue
    <2>2. CASE Deliver
      <3>1. reported \in T!SocketEvents /\ rt' = T!handleSocketEvent(rt, reported) /\ rt \in T!State
        BY <2>2 DEF ChainInv, TypeOK, Deliver
      <3>2. QED BY <3>1, SocketEffect, WaitEffects
    <2>3. QED BY <2>1, <2>2
  <1>3. Spent' = Spent
    BY <1>1 DEF Spent
  <1>4. QED BY <1>1, <1>2, <1>3, SameLosesNothing

\* A ModuleTask that failed releases its buffer: the request has an error already.
LEMMA ReleaseLateLosesNothing ==
    ASSUME ChainInv, Raising, NothingIsLost, ReleaseLate
    PROVE  Raising' /\ NothingIsLost'
  <1>1. /\ late # NoBuffer /\ late' = NoBuffer
        /\ UNCHANGED <<rt, script, chain, current, reader, told>>
    BY DEF ReleaseLate
  <1>2. rt'.has_error
    BY <1>1 DEF Raising
  <1>3. NothingIsLost'
    BY <1>2 DEF NothingIsLost, Clean
  <1>4. Raising'
    BY <1>1, <1>2 DEF Raising, Resetting
  <1>5. QED BY <1>3, <1>4

\* A request that may go without waiting for anything has answered.
LEMMA DestroyLosesNothing ==
    ASSUME ChainInv, Ledger, Raising, NothingIsLost, Destroy
    PROVE  Raising' /\ NothingIsLost'
  <1>1. /\ caller = "noWork" /\ ~T!hasPendingEvent(rt) /\ caller' = "ended"
        /\ UNCHANGED <<rt, script, chain, current, parser, reader, told, sent, late>>
        /\ freed' = freed \cup (Handed(rt) \cup Keeping) /\ live' = live \ (Handed(rt) \cup Keeping)
    BY DEF Destroy, Releases, Handed, Keeping, Elems
  <1>2. script = <<>> /\ Elems(script) = {} /\ Asked(script) = {} /\ Still(rt)
    BY <1>1, NoScript, NothingAsked DEF Asked, ChainInv, Bookkeeping
  <1>3. Raising'
    BY <1>1 DEF Raising, Resetting
  <1> SUFFICES ASSUME Clean' PROVE NothingIsLost'
    BY <1>3 DEF NothingIsLost
  <1>4. Clean /\ ~rt.has_error
    BY <1>1 DEF Clean
  <1>5. /\ EndIsDue /\ BodyBuffers \cap Spent \subseteq Elems(sent) \cup InUse
        /\ rt.write_buffers # <<>> => rt.wait_write
        /\ rt.tasks = <<>> /\ (rt.end_task = NoTask \/ rt.write_buffers # <<>>)
    BY <1>1, <1>4 DEF NothingIsLost
  <1>6. /\ rt.call_later_task = NoTask /\ ~rt.wait_read /\ ~rt.wait_write
    BY <1>1, <1>4 DEF T!hasPendingEvent
  <1>7. rt.write_buffers = <<>> /\ rt.end_task = NoTask
    BY <1>5, <1>6
  <1>8. Planned(rt) = {} /\ Handed(rt) = {} /\ ~Idles(rt) /\ ~Reads(rt)
    BY <1>5, <1>6, <1>7, NoTasks
  <1>9. "out" \in told
    BY <1>2, <1>5, <1>8 DEF EndIsDue, Reading, Idling, Ending, InUse
  <1>10. BodyBuffers \cap Spent' \subseteq Elems(sent)
    <2>1. BodyBuffers \cap Spent \subseteq Elems(sent)
      BY <1>2, <1>5, <1>8 DEF InUse
    <2>2. Spent' \subseteq Spent
      <3>1. Keeping \subseteq Spent
        BY <1>1 DEF Ledger, Alive, Held
      <3>2. QED BY <1>1, <1>8, <3>1 DEF Spent
    <2>3. QED BY <2>1, <2>2
  <1>11. ~Resetting' /\ BodyBuffers' = BodyBuffers
    BY <1>1, <1>2 DEF Resetting, BodyBuffers
  <1>12. EndIsDue'
    BY <1>1, <1>9 DEF EndIsDue
  <1>13. QED BY <1>1, <1>9, <1>10, <1>11, <1>12 DEF NothingIsLost

\* A new request has nothing to lose.
LEMMA InitLosesNothing == Init => Raising /\ NothingIsLost
  <1> SUFFICES ASSUME Init PROVE Raising /\ NothingIsLost
    OBVIOUS
  <1>1. /\ rt.tasks = <<>> /\ rt.write_buffers = <<>> /\ rt.call_later_task = NoTask /\ rt.end_task = NoTask
        /\ rt.wait_read
    BY DEF Init, T!needRead, T!NewTasks, T!Register
  <1>2. Planned(rt) = {} /\ Reads(rt)
    BY <1>1, NoTasks
  <1>3. /\ script = <<>> /\ Elems(script) = {} /\ chain = C0 /\ caller = "polling" /\ late = NoBuffer /\ Spent = {}
        /\ reader.left = FileSize /\ reader.failed = FALSE
    BY NothingAsked DEF Init, Spent, C0
  <1>4. chain # CE
    BY <1>3, ShapesAre
  <1>5. Raising
    BY <1>2, <1>3, <1>4 DEF Raising, Resetting
  <1>6. NothingIsLost
    BY <1>1, <1>2, <1>3 DEF NothingIsLost, EndIsDue, Reading, Resetting
  <1>7. QED BY <1>5, <1>6

\* Which calls speak of the end, of an error or of a buffer.
LEMMA ErrorTags ==
    ASSUME NEW d
    PROVE  /\ {GiveData(d), Release(d), NeedWrite(d), Throw(d), NotifyEndTask(d), NeedRead, CallLater, Insert, Return,
               EndInput} \cap Named({"raiseEnd"}) = {}
           /\ {GiveData(d), Release(d), NeedWrite(d), Throw(d), NotifyEndTask(d), NeedRead, CallLater, Insert, Return,
               RaiseEnd, EndInput} \cap Named({"reset"}) = {}
           /\ ErrorCalls \cap Named({"raiseEnd"}) = {}
           /\ ErrorCalls \cap Named({"endError"}) # {} /\ ErrorCalls \cap EndCalls # {}
           /\ RaiseEnd \in EndCalls /\ EndInput \in EndCalls /\ CallLater \in IdleCalls /\ NeedRead \in ReadCalls
           /\ Throw(Orphan) \in Named({"throw"}) /\ Throw(NoBuffer) \in Named({"throw"})
           /\ GiveData(d) \in Handing(d) /\ NeedWrite(d) \in Handing(d)
  <1>1. Orphan \in Buffers
    BY BufferSets
  <1>2. <<"endError", NoBuffer>> \in ErrorCalls /\ <<"endError", NoBuffer>> \in Named({"endError"})
        /\ <<"endError", NoBuffer>> \in EndCalls
    BY DEF ErrorCalls, Named, EndCalls
  <1>3. ErrorCalls \cap Named({"endError"}) # {} /\ ErrorCalls \cap EndCalls # {}
    BY <1>2
  <1>4. /\ {GiveData(d), Release(d), NeedWrite(d), Throw(d), NotifyEndTask(d), NeedRead, CallLater, Insert, Return,
            EndInput} \cap Named({"raiseEnd"}) = {}
        /\ {GiveData(d), Release(d), NeedWrite(d), Throw(d), NotifyEndTask(d), NeedRead, CallLater, Insert, Return,
            RaiseEnd, EndInput} \cap Named({"reset"}) = {}
        /\ ErrorCalls \cap Named({"raiseEnd"}) = {}
    BY DEF Named, GiveData, Release, NeedWrite, Throw, NotifyEndTask, NeedRead, CallLater, Insert, Return, RaiseEnd,
       EndInput, ErrorCalls
  <1>5. /\ RaiseEnd \in EndCalls /\ EndInput \in EndCalls /\ CallLater \in IdleCalls /\ NeedRead \in ReadCalls
        /\ Throw(Orphan) \in Named({"throw"}) /\ Throw(NoBuffer) \in Named({"throw"})
        /\ GiveData(d) \in Handing(d) /\ NeedWrite(d) \in Handing(d)
    BY <1>1 DEF Named, EndCalls, IdleCalls, ReadCalls, Throw, CallLater, RaiseEnd, EndInput, NeedRead, Handing
  <1>6. QED BY <1>3, <1>4, <1>5

\* To release the header says nothing of the end.
LEMMA ReleasesAreCalm ==
    ASSUME NEW q
    PROVE  Released(q) \cap Named({"raiseEnd"}) = {} /\ Released(q) \cap Named({"reset"}) = {}
           /\ Released(q) \cap ReadCalls = {}
           /\ \A c \in Released(q) : c[2] \in Elems(q)
  BY DEF Released, Release, Named, ReadCalls, Gives

\* What a module that starts says of the end and of errors.
SaysOfTheEnd ==
    /\ Elems(script') \cap Named({"raiseEnd"}) # {} /\ current' = "out" => "out" \in told'
    /\ Resetting' => /\ Elems(script') \cap Named({"endError"}) # {}
                     /\ current' = "reader" => "reader" \in told'

\* FileReader is called again only after it was told of the end.
LEMMA IdleIsOpen ==
    ASSUME ChainInv, EndPasses, Start, task' \in IdleTasks
    PROVE  Idling /\ reader.open /\ "reader" \in told
  <1>1. task' \in Elems(rt.tasks)
    BY StartTakes
  <1>2. Idling
    BY <1>1 DEF Idling, Idles
  <1>3. QED BY <1>2 DEF ChainInv, Answering, EndPasses

\* A module raises an error with its end, FileReader only when it was told of the
\* end of the request.
LEMMA StartSays ==
    ASSUME ChainInv, EndPasses, Start
    PROVE  SaysOfTheEnd
  <1>1. /\ current' = task'.module /\ task' \in ChainTasks
        /\ told' = IF task' \in EndTasks THEN told \cup {current'} ELSE told
    BY StartFrame, StartTakes
  <1>2. ASSUME NEW S, Elems(script') = S, S \cap Named({"raiseEnd"}) = {} \/ current' # "out", S \cap Named({"reset"}) = {}
        PROVE  SaysOfTheEnd
    BY <1>2 DEF SaysOfTheEnd, Resetting
  <1>3. CASE task' = CanRead
    <2>1. ASSUME NEW d PROVE /\ {GiveData(d), Return} \cap Named({"raiseEnd"}) = {} /\ {GiveData(d), Return} \cap Named({"reset"}) = {}
                             /\ {Throw(d), NotifyEndTask(NoBuffer)} \cap Named({"raiseEnd"}) = {}
                             /\ {Throw(d), NotifyEndTask(NoBuffer)} \cap Named({"reset"}) = {}
      BY ErrorTags
    <2>2. QED BY <1>2, <1>3, <2>1, ReadAnswer
  <1>4. CASE task' \in WriteTasks
    <2>1. ASSUME NEW d PROVE /\ {Release(d), Return} \cap Named({"raiseEnd"}) = {} /\ {Release(d), Return} \cap Named({"reset"}) = {}
                             /\ {NeedWrite(d), Return} \cap Named({"raiseEnd"}) = {} /\ {NeedWrite(d), Return} \cap Named({"reset"}) = {}
                             /\ {Throw(NoBuffer), NotifyEndTask(d)} \cap Named({"raiseEnd"}) = {}
                             /\ {Throw(NoBuffer), NotifyEndTask(d)} \cap Named({"reset"}) = {}
      BY ErrorTags
    <2>2. QED BY <1>2, <1>4, <2>1, WriteAnswer
  <1>5. CASE task' \in PieceTasks
    <2>1. current' # "out"
      BY <1>1, <1>5, KindsAre
    <2>2. Elems(script') \cap Named({"reset"}) = {}
      <3> DEFINE R == Released(Kept(task'))
      <3>1. Elems(script') \subseteq R \cup {GiveData(RequestBody), NeedRead, RaiseEnd, Return}
        <4>1. \/ Elems(script') = {NeedRead, Return} \cup (IF Len(Kept(task')) > HeaderLimit THEN R \cup {RaiseEnd} ELSE {})
              \/ \E Q \in {{RaiseEnd}, {GiveData(RequestBody)}, {GiveData(RequestBody), RaiseEnd}} :
                    Elems(script') = R \cup Q \cup {Return}
          BY <1>5, PieceAnswer
        <4> HIDE DEF R
        <4>2. QED BY <4>1
      <3>2. R \cap Named({"reset"}) = {}
        BY ReleasesAreCalm
      <3>3. {GiveData(RequestBody), NeedRead, RaiseEnd, Return} \cap Named({"reset"}) = {}
        BY ErrorTags
      <3> HIDE DEF R
      <3>4. QED BY <3>1, <3>2, <3>3
    <2>3. QED BY <2>1, <2>2 DEF SaysOfTheEnd, Resetting
  <1>6. CASE task' \in BodyTasks \cup EndTasks /\ task'.module = "builder"
    <2>1. current' # "out" /\ current' # "reader"
      BY <1>1, <1>6
    <2>2. PICK X \in {{}, ErrorCalls, {Insert}} :
             \/ Elems(script') = X \cup {RaiseEnd, Return}
             \/ Elems(script') = X \cup {Release(task'.buffer), Return}
             \/ Elems(script') = X \cup {GiveData(task'.buffer), Return}
      BY <1>6, BuilderScript
    <2>3. {Insert, RaiseEnd, Release(task'.buffer), GiveData(task'.buffer), Return} \cap Named({"reset"}) = {}
      BY ErrorTags
    <2>4. X \subseteq Elems(script')
          /\ Elems(script') \subseteq X \cup {Insert, RaiseEnd, Release(task'.buffer), GiveData(task'.buffer), Return}
      BY <2>2
    <2>5. CASE X = ErrorCalls
      <3>1. ErrorCalls \cap Named({"endError"}) # {}
        BY ErrorTags
      <3>2. QED BY <2>1, <2>4, <2>5, <3>1 DEF SaysOfTheEnd
    <2>6. CASE X \subseteq {Insert}
      BY <2>1, <2>3, <2>4, <2>6 DEF SaysOfTheEnd, Resetting
    <2>7. QED BY <2>2, <2>5, <2>6
  <1>7. CASE task' \in BodyTasks \cup HeadersTasks /\ task'.module # "builder"
    <2>1. Elems(script') \subseteq {Release(task'.buffer), EndInput, Return}
      BY <1>7, BodyAnswer, HeadersAnswer
    <2>2. /\ {Release(task'.buffer), EndInput, Return} \cap Named({"raiseEnd"}) = {}
          /\ {Release(task'.buffer), EndInput, Return} \cap Named({"reset"}) = {}
      BY ErrorTags
    <2>3. QED BY <2>1, <2>2 DEF SaysOfTheEnd, Resetting
  <1>8. CASE task' \in ResponseTasks
    <2>1. Elems(script') \subseteq {GiveData(Headers), GiveData(ChunkInfo(task'.buffer)), GiveData(task'.buffer), Return}
      BY <1>8, ResponseAnswer
    <2>2. \A d : GiveData(d) \notin Named({"raiseEnd"}) /\ GiveData(d) \notin Named({"reset"})
      BY ErrorTags
    <2>3. Return \notin Named({"raiseEnd"}) /\ Return \notin Named({"reset"})
      BY ErrorTags
    <2>4. QED BY <2>1, <2>2, <2>3 DEF SaysOfTheEnd, Resetting
  <1>9. CASE task' \in IdleTasks
    <2>1. current' # "out" /\ "reader" \in told'
      BY <1>1, <1>9, IdleIsOpen, IdleAnswer
    <2>2. \/ Elems(script') \in {{RaiseEnd, Return}, ErrorCalls \cup {Return}}
          \/ \E d : Elems(script') = {GiveData(d), CallLater, Return}
      BY <1>9, IdleAnswer DEF ReadsOne
    <2>3. ASSUME NEW d PROVE {RaiseEnd, Return} \cap Named({"reset"}) = {} /\ {GiveData(d), CallLater, Return} \cap Named({"reset"}) = {}
      BY ErrorTags
    <2>4. ErrorCalls \cap Named({"endError"}) # {}
      BY ErrorTags
    <2>5. QED BY <2>1, <2>2, <2>3, <2>4 DEF SaysOfTheEnd, Resetting
  <1>10. CASE task' \in EndTasks /\ task'.module # "builder"
    <2>1. current' \in told'
      BY <1>1, <1>10
    <2>2. Resetting' => Elems(script') \cap Named({"endError"}) # {}
      <3>1. \/ Elems(script') = ErrorCalls \cup {Return}
            \/ \E b, d : Elems(script') \subseteq {GiveData(b), GiveData(d), RaiseEnd, Return, CallLater}
        <4>1. CASE task'.module = "reader"
          BY <1>10, <4>1, EndAnswer DEF ReaderAtEnd, ReadsOne
        <4>2. CASE task'.module = "pob"
          <5>1. Elems(script') \subseteq {GiveData(Headers), GiveData(Final), RaiseEnd, Return}
            BY <1>10, <4>2, EndAnswer
          <5>2. QED BY <5>1
        <4>3. CASE task'.module # "reader" /\ task'.module # "pob"
          BY <1>10, <4>3, EndAnswer
        <4>4. QED BY <4>1, <4>2, <4>3
      <3>2. ASSUME NEW b, NEW d PROVE {GiveData(b), GiveData(d), RaiseEnd, Return, CallLater} \cap Named({"reset"}) = {}
        <4>1. GiveData(b) \notin Named({"reset"}) /\ GiveData(d) \notin Named({"reset"})
          BY ErrorTags
        <4>2. {RaiseEnd, Return, CallLater} \cap Named({"reset"}) = {}
          BY ErrorTags
        <4>3. QED BY <4>1, <4>2
      <3>3. ErrorCalls \cap Named({"endError"}) # {}
        BY ErrorTags
      <3>4. QED BY <3>1, <3>2, <3>3 DEF Resetting
    <2>3. QED BY <2>1, <2>2 DEF SaysOfTheEnd
  <1>11. QED BY <1>1, <1>3, <1>4, <1>5, <1>6, <1>7, <1>8, <1>9, <1>10, KindsAre

\* A failure of the file stays, and a file that is not open has not been read.
LEMMA StartReader ==
    ASSUME ChainInv, EndPasses, Start, Raising
    PROVE  /\ ~reader'.open => reader'.left = FileSize /\ ~reader'.failed
           /\ reader.failed => reader'.failed
           /\ reader' = reader \/ (task' \in IdleTasks \cup EndTasks /\ task'.module = "reader")
  <1>1. task' \in ChainTasks
    BY StartFrame
  <1>2. ~reader.open => reader.left = FileSize /\ ~reader.failed
    BY DEF Raising
  <1>3. CASE reader' = reader
    BY <1>2, <1>3
  <1>4. CASE task' \in IdleTasks
    <2>1. reader.open /\ reader'.open = reader.open /\ task'.module = "reader"
      BY <1>1, <1>4, IdleIsOpen, IdleStarts, KindsAre
    <2>2. reader.failed => reader' = reader
      BY <1>4, IdleAnswer
    <2>3. QED BY <1>4, <2>1, <2>2
  <1>5. CASE task' \in EndTasks /\ task'.module = "reader"
    <2>1. ReaderAtEnd
      BY <1>5, EndAnswer
    <2>2. reader \in [open : BOOLEAN, left : 0..FileSize, failed : BOOLEAN, delayed : BOOLEAN]
      BY DEF ChainInv, TypeOK
    <2>3. reader' = reader \/ (~reader.open /\ reader'.open)
      BY <2>1, <2>2 DEF ReaderAtEnd, ReadsOne
    <2>4. QED BY <1>2, <1>5, <2>3
  <1>6. CASE task' \in EndTasks /\ task'.module # "reader"
    <2>1. reader' = reader
      <3>1. CASE task'.module = "builder"
        BY <1>6, <3>1, BuilderScript
      <3>2. CASE task'.module # "builder"
        BY <1>6, <3>2, EndAnswer DEF SameModules
      <3>3. QED BY <3>1, <3>2
    <2>2. QED BY <1>3, <2>1
  <1>7. CASE task' \in BodyTasks
    BY <1>3, <1>7, BodyStarts
  <1>8. CASE task' \in {CanRead} \cup WriteTasks \cup HeadersTasks \cup ResponseTasks
    BY <1>3, <1>8, QuietStarts
  <1>9. CASE task' \in PieceTasks
    BY <1>3, <1>9, PieceAnswer
  <1>10. QED BY <1>1, <1>4, <1>5, <1>6, <1>7, <1>8, <1>9, KindsAre

\* A module that starts keeps what is known of errors.
LEMMA StartKeepsRaising ==
    ASSUME ChainInv, EndPasses, Start, Raising
    PROVE  Raising'
  <1>1. /\ chain' = chain /\ late' = late /\ rt'.has_error = rt.has_error /\ Planned(rt') \subseteq Planned(rt)
    BY StartFrame DEF Start
  <1>2. told \subseteq told'
    BY StartTakes
  <1>3. SaysOfTheEnd
    BY StartSays
  <1>4. ~reader'.open => reader'.left = FileSize /\ ~reader'.failed
    BY StartReader
  <1>5. QED BY <1>1, <1>2, <1>3, <1>4 DEF Raising, SaysOfTheEnd

\* As long as the end has not passed FileReader nothing of the body is made.
LEMMA NothingOfTheBody ==
    ASSUME ChainInv, EndPasses, Fresh, Raising, Untold("builder") \/ Untold("reader")
    PROVE  BodyBuffers \cap Spent = {}
  <1>1. "reader" \notin told /\ "pob" \notin told /\ "error" \notin told
    <2>1. /\ Below("reader") = {"error", "pob", "out"} /\ Below("pob") \subseteq {"error", "out"}
          /\ Below("error") \subseteq {"pob", "out"}
      BY DEF Below
    <2>2. QED BY <2>1 DEF Untold
  <1>2. ~reader.open /\ reader.left = FileSize
    BY <1>1 DEF EndPasses, Raising
  <1>3. DataBuffers \cap Spent = {}
    <2> SUFFICES ASSUME NEW n \in 1..FileSize, Data(n) \in Spent PROVE FALSE
      BY DEF DataBuffers
    <2>1. n <= FileSize - reader.left
      BY DEF Fresh
    <2>2. QED BY <1>2, <2>1, RequestChainAssumption
  <1>4. Final \notin Spent /\ Spent \cap Pages = {}
    BY <1>1 DEF Fresh
  <1>5. Infos \cap Spent = {}
    <2>1. \A b \in Pages : ChunkInfo(b) \notin Spent
      BY <1>1 DEF Fresh
    <2>2. Infos = {ChunkInfo(Padding), ChunkInfo(Page)}
      BY DEF Infos, ChunkInfo, Padding, Page
    <2>3. QED BY <2>1, <2>2 DEF Pages
  <1>6. QED BY <1>3, <1>4, <1>5, BodyBuffersAre

\* The buffer of each call.
LEMMA CallBuffers ==
    ASSUME NEW b
    PROVE  /\ GiveData(b)[2] = b /\ Release(b)[2] = b /\ NeedWrite(b)[2] = b /\ Throw(b)[2] = b /\ NotifyEndTask(b)[2] = b
           /\ NeedRead[2] = NoBuffer /\ CallLater[2] = NoBuffer /\ RaiseEnd[2] = NoBuffer /\ EndInput[2] = NoBuffer
           /\ Insert[2] = NoBuffer /\ Return[2] = NoBuffer /\ \A c \in ErrorCalls : c[2] = NoBuffer
           /\ \A n : Piece(n) \notin BodyBuffers
  BY DEF GiveData, Release, NeedWrite, Throw, NotifyEndTask, NeedRead, CallLater, RaiseEnd, EndInput, Insert, Return,
     ErrorCalls, Piece, BodyBuffers, BodyKinds

\* A buffer of the body that a module gets or makes is sent or handed on.
LEMMA StartHandsOn ==
    ASSUME ChainInv, EndPasses, Ledger, Start, Raising, Clean', NEW b \in BodyBuffers,
           b = task'.buffer \/ \E c \in Elems(script') : c[2] = b
    PROVE  b \in Asked(script') \/ b \in Elems(sent')
  <1>1. task' \in ChainTasks /\ caller # "ended" /\ task' \in Elems(rt.tasks)
    BY StartFrame, StartTakes
  <1>2. /\ b \in Buffers /\ b # NoBuffer /\ b # RequestBody /\ b # Headers /\ b # Orphan /\ b \notin HeaderPieces
    BY BodyBuffersAre
  <1>3. ASSUME GiveData(b) \in Elems(script') \/ NeedWrite(b) \in Elems(script')
        PROVE  b \in Asked(script')
    BY <1>2, <1>3, ErrorTags DEF Asked
  <1>4. CASE task' = CanRead
    <2>1. task'.buffer = NoBuffer
      BY <1>4 DEF CanRead, T!ModuleTask
    <2>2. \A c \in Elems(script') : c[2] # b
      BY <1>2, <1>4, ReadAnswer, CallBuffers
    <2>3. QED BY <1>2, <2>1, <2>2
  <1>5. CASE task' \in WriteTasks
    <2>1. b = task'.buffer
      BY <1>2, <1>5, WriteAnswer, CallBuffers
    <2>2. sent' = Append(sent, b)
      <3>1. Throw(NoBuffer) \notin Elems(script')
        BY ErrorTags DEF Clean
      <3>2. QED BY <1>5, <2>1, <3>1, WriteAnswer
    <2>3. sent \in Seq(Buffers)
      BY DEF ChainInv, TypeOK
    <2>4. QED BY <1>2, <2>2, <2>3, AppendElems
  <1>6. CASE task' \in PieceTasks
    <2>1. Len(parser.buffers) < Pieces
      <3>1. Reading
        BY <1>1, <1>6 DEF Reading, Reads, ReadTasks
      <3>2. QED BY <3>1 DEF ChainInv, Parsing
    <2>2. told = {}
      BY <2>1 DEF EndPasses
    <2>3. Fresh /\ Alive
      BY <1>1 DEF Ledger
    <2>4. BodyBuffers \cap Spent = {}
      BY <2>2, <2>3, NothingOfTheBody DEF Untold
    <2>5. Elems(parser.buffers) \subseteq Spent
      <3>1. ~parser.completed
        BY <2>1, <2>3 DEF Fresh
      <3>2. QED BY <2>3, <3>1 DEF Keeping, Held, Alive
    <2>6. task'.buffer \in HeaderPieces
      BY <1>1, <1>6, KindsAre
    <2>7. Elems(Kept(task')) = Elems(parser.buffers) \cup {task'.buffer}
      <3>1. parser.buffers \in Seq(Buffers) /\ task'.buffer \in Buffers
        BY <2>6, BufferSets DEF ChainInv, TypeOK
      <3>2. QED BY <3>1, AppendElems DEF Kept
    <2>8. b \notin Elems(Kept(task'))
      BY <1>2, <2>4, <2>5, <2>6, <2>7
    <2> DEFINE R == Released(Kept(task'))
    <2>9. Elems(script') \subseteq R \cup {GiveData(RequestBody), NeedRead, RaiseEnd, Return}
      <4>1. \/ Elems(script') = {NeedRead, Return} \cup (IF Len(Kept(task')) > HeaderLimit THEN R \cup {RaiseEnd} ELSE {})
            \/ \E Q \in {{RaiseEnd}, {GiveData(RequestBody)}, {GiveData(RequestBody), RaiseEnd}} :
                  Elems(script') = R \cup Q \cup {Return}
        BY <1>6, PieceAnswer
      <4> HIDE DEF R
      <4>2. QED BY <4>1
    <2>10. \A c \in R : c[2] # b
      BY <2>8, ReleasesAreCalm
    <2> HIDE DEF R
    <2>11. \A c \in Elems(script') : c[2] # b
      BY <1>2, <2>9, <2>10, CallBuffers
    <2>12. QED BY <1>2, <2>6, <2>11
  <1>7. CASE task' \in BodyTasks \cup EndTasks /\ task'.module = "builder"
    <2>1. task'.buffer \in {NoBuffer, RequestBody}
      BY <1>1, <1>7, KindsAre, TaskSets
    <2>2. PICK X \in {{}, ErrorCalls, {Insert}} :
             \/ Elems(script') = X \cup {RaiseEnd, Return}
             \/ Elems(script') = X \cup {Release(task'.buffer), Return}
             \/ Elems(script') = X \cup {GiveData(task'.buffer), Return}
      BY <1>7, BuilderScript
    <2>3. \A c \in X : c[2] # b
      BY <1>2, CallBuffers
    <2>4. \A c \in {RaiseEnd, Return, Release(task'.buffer), GiveData(task'.buffer)} : c[2] # b
      BY <1>2, <2>1, CallBuffers
    <2>5. QED BY <1>2, <2>1, <2>2, <2>3, <2>4
  <1>8. CASE task' \in BodyTasks \cup HeadersTasks /\ task'.module # "builder"
    <2>1. Elems(script') \subseteq {Release(task'.buffer), EndInput, Return}
      BY <1>8, BodyAnswer, HeadersAnswer
    <2>2. task'.buffer \in {RequestBody, Headers}
      BY <1>1, <1>8, KindsAre
    <2>3. QED BY <1>2, <2>1, <2>2, CallBuffers
  <1>9. CASE task' \in ResponseTasks
    <2>1. /\ Elems(script') \subseteq {GiveData(Headers), GiveData(ChunkInfo(task'.buffer)), GiveData(task'.buffer), Return}
          /\ GiveData(task'.buffer) \in Elems(script')
      BY <1>9, ResponseAnswer
    <2>2. QED BY <1>2, <1>3, <2>1, CallBuffers
  <1>10. CASE task' \in IdleTasks
    <2>1. \/ Elems(script') \in {{RaiseEnd, Return}, ErrorCalls \cup {Return}}
          \/ \E d : Elems(script') = {GiveData(d), CallLater, Return}
      BY <1>10, IdleAnswer DEF ReadsOne
    <2>2. task'.buffer = NoBuffer
      BY <1>10, TaskSets
    <2>3. PICK c \in Elems(script') : c[2] = b
      BY <1>2, <2>2
    <2>4. \E d : c = GiveData(d)
      BY <1>2, <2>1, <2>3, CallBuffers
    <2>5. c = GiveData(b)
      BY <2>3, <2>4, CallBuffers
    <2>6. QED BY <1>3, <2>3, <2>5
  <1>11. CASE task' \in EndTasks /\ task'.module # "builder"
    <2>1. \/ Elems(script') = ErrorCalls \cup {Return}
          \/ \E e, d : Elems(script') \subseteq {GiveData(e), GiveData(d), RaiseEnd, Return, CallLater}
      <4>1. CASE task'.module = "reader"
        BY <1>11, <4>1, EndAnswer DEF ReaderAtEnd, ReadsOne
      <4>2. CASE task'.module = "pob"
        <5>1. Elems(script') \subseteq {GiveData(Headers), GiveData(Final), RaiseEnd, Return}
          BY <1>11, <4>2, EndAnswer
        <5>2. QED BY <5>1
      <4>3. CASE task'.module # "reader" /\ task'.module # "pob"
        BY <1>11, <4>3, EndAnswer
      <4>4. QED BY <4>1, <4>2, <4>3
    <2>2. task'.buffer = NoBuffer
      BY <1>11, TaskSets
    <2>3. PICK c \in Elems(script') : c[2] = b
      BY <1>2, <2>2
    <2>4. \E d : c = GiveData(d)
      BY <1>2, <2>1, <2>3, CallBuffers
    <2>5. c = GiveData(b)
      BY <2>3, <2>4, CallBuffers
    <2>6. QED BY <1>3, <2>3, <2>5
  <1>12. QED BY <1>1, <1>4, <1>5, <1>6, <1>7, <1>8, <1>9, <1>10, <1>11, KindsAre

\* What was sent stays sent.
LEMMA SentStays ==
    ASSUME ChainInv, Start
    PROVE  Elems(sent) \subseteq Elems(sent')
  <1>1. task' \in ChainTasks /\ sent \in Seq(Buffers)
    BY StartFrame DEF ChainInv, TypeOK
  <1>2. CASE task' \in WriteTasks
    <2>1. task'.buffer \in Buffers
      BY <1>2, TaskSets, BufferSets
    <2>2. Elems(Append(sent, task'.buffer)) = Elems(sent) \cup {task'.buffer}
      BY <1>1, <2>1, AppendElems
    <2>3. QED BY <1>2, <2>2, WriteAnswer
  <1>3. CASE task' \notin WriteTasks
    <2>1. sent' = sent
      <3>1. CASE task' \in EndTasks \cup BodyTasks /\ task'.module = "builder"
        BY <3>1, BuilderScript
      <3>2. CASE task' \in EndTasks \cup BodyTasks /\ task'.module # "builder"
        BY <3>2, EndAnswer, BodyAnswer
      <3>3. CASE task' = CanRead \/ task' \in PieceTasks \cup HeadersTasks \cup ResponseTasks \cup IdleTasks
        BY <3>3, ReadAnswer, PieceAnswer, HeadersAnswer, ResponseAnswer, IdleAnswer
      <3>4. QED BY <1>1, <1>3, <3>1, <3>2, <3>3, KindsAre
    <2>2. QED BY <2>1
  <1>4. QED BY <1>2, <1>3

\* A module that starts loses no buffer of the body.
LEMMA StartKeepsBody ==
    ASSUME ChainInv, EndPasses, Ledger, Start, Raising, Clean', BodyBuffers \cap Spent \subseteq Elems(sent) \cup InUse
    PROVE  BodyBuffers \cap Spent' \subseteq Elems(sent') \cup InUse'
  <1>1. Apart /\ Alive /\ caller # "ended" /\ InUse = Handed(rt)
    BY StartFrame DEF Ledger
  <1>2. /\ live \cup Made \subseteq live' /\ live' \subseteq live \cup Made \cup {Orphan} /\ freed' = freed
        /\ Handed(rt) = Handed(rt') \cup Taken
    BY <1>1, TakenBuffer
  <1> SUFFICES ASSUME NEW b \in BodyBuffers, b \in Spent' PROVE b \in Elems(sent') \cup InUse'
    OBVIOUS
  <1>3. CASE b = task'.buffer \/ \E c \in Elems(script') : c[2] = b
    BY <1>3, StartHandsOn DEF InUse
  <1>4. CASE b \in Spent /\ b # task'.buffer
    <2>1. b \in Elems(sent) \/ b \in Handed(rt')
      BY <1>1, <1>2, <1>4 DEF Taken
    <2>2. QED BY <2>1, SentStays DEF InUse
  <1>5. b \in Spent \/ \E c \in Elems(script') : c[2] = b
    BY <1>2, BodyBuffersAre DEF Spent, BuffersOf, Made
  <1>6. QED BY <1>3, <1>4, <1>5

\* What waits stays when a task that is not part of it is taken.
LEMMA StartCarries ==
    ASSUME ChainInv, Start, EndIsDue, task' \in WriteTasks \cup HeadersTasks \cup ResponseTasks
    PROVE  EndIsDue'
  <1>1. /\ script = <<>> /\ Elems(script) = {} /\ Asked(script) = {} /\ task' \in ChainTasks
    BY StartFrame, NothingAsked DEF Asked
  <1>2. /\ rt'.end_task = rt.end_task /\ rt'.call_later_task = rt.call_later_task /\ rt'.tasks = Tail(rt.tasks)
        /\ told \subseteq told'
    BY StartTakes
  <1>3. rt'.wait_read = rt.wait_read /\ rt.tasks \in Seq(ChainTasks) /\ rt.tasks # <<>> /\ task' = Head(rt.tasks)
    <2>1. rt' = T!getNextTask(rt) /\ rt \in T!State /\ caller = "dispatching" /\ task' = Head(rt.tasks)
      BY StartFrame
    <2>2. QueueInv(rt) /\ Ready(rt)
      BY <2>1 DEF ChainInv, Bookkeeping
    <2>3. QED BY <2>1, <2>2, TakeEffect DEF SameWaits, QueueInv, QueueType, Ready
  <1>4. Elems(rt.tasks) = Elems(rt'.tasks) \cup {task'}
    <2> DEFINE q == rt.tasks
    <2>1. q \in Seq(ChainTasks) /\ q # <<>>
      BY <1>3
    <2> HIDE DEF q
    <2>2. Elems(q) = Elems(Tail(q)) \cup {Head(q)}
      BY <2>1, TailElems
    <2>3. QED BY <1>2, <1>3, <2>2 DEF q
  <1>5. /\ task' \notin ReadTasks /\ task' \notin IdleTasks /\ task' \notin EndTasks /\ task'.buffer # RequestBody
    <2>1. task' \notin PieceTasks /\ task' # CanRead /\ task' \notin IdleTasks /\ task' \notin EndTasks
      BY <1>1, KindsAre
    <2>2. task'.buffer \in Written
      BY <1>1, KindsAre, BufferSets
    <2>3. QED BY <2>1, <2>2, BufferSets DEF ReadTasks
  <1>6. CASE "out" \in told
    BY <1>2, <1>6 DEF EndIsDue
  <1>7. CASE Reading
    <2>1. Reads(rt)
      BY <1>1, <1>7 DEF Reading
    <2>2. Reads(rt')
      BY <1>3, <1>4, <1>5, <2>1 DEF Reads
    <2>3. QED BY <2>2 DEF Reading, EndIsDue
  <1>8. CASE Idling
    <2>1. Idles(rt)
      BY <1>1, <1>8 DEF Idling
    <2>2. Idles(rt')
      BY <1>2, <1>4, <1>5, <2>1 DEF Idles
    <2>3. QED BY <2>2 DEF Idling, EndIsDue
  <1>9. CASE Ending
    <2>1. PICK t \in Planned(rt) : t \in EndTasks
      BY <1>1, <1>9 DEF Ending
    <2>2. t # task'
      BY <1>5, <2>1
    <2>3. t \in Planned(rt')
      BY <1>2, <1>4, <2>1, <2>2 DEF Planned
    <2>4. QED BY <2>1, <2>3 DEF Ending, EndIsDue
  <1>10. CASE RequestBody \in InUse
    <2>1. RequestBody \in Handed(rt)
      BY <1>1, <1>10 DEF InUse
    <2>2. RequestBody \in WriteBuffers(rt) \/ \E t \in Elems(rt.tasks) : t.buffer = RequestBody
      BY <2>1 DEF Handed, TaskBuffers, Elems
    <2>3. RequestBody \in WriteBuffers(rt) => RequestBody \in WriteBuffers(rt')
      BY StartTakes DEF WriteBuffers
    <2>4. RequestBody # NoBuffer
      BY BufferSets
    <2>5. (\E t \in Elems(rt'.tasks) : t.buffer = RequestBody) => RequestBody \in TaskBuffers(rt')
      BY <2>4 DEF TaskBuffers, Elems
    <2>6. RequestBody \in Handed(rt')
      BY <1>4, <1>5, <2>2, <2>3, <2>5 DEF Handed
    <2>7. QED BY <2>6 DEF InUse, EndIsDue
  <1>11. QED BY <1>6, <1>7, <1>8, <1>9, <1>10 DEF EndIsDue

\* Builder hands the body of the request on or raises an error.
LEMMA BuilderGoesOn ==
    ASSUME ChainInv, Start, task'.module = "builder", task' \in BodyTasks
    PROVE  Elems(script') \cap EndCalls # {} \/ GiveData(task'.buffer) \in Elems(script')
  <1> DEFINE b == task'.buffer
             S == {Release(b), GiveData(b), Return, Insert} \cup ErrorCalls
  <1>1. task' \in ChainTasks /\ ProcessRequest(task') /\ task'.event = "ON_REQUEST_DATA"
    BY StartFrame, KindsAre
  <1>2. BuilderFirst(task') \/ BuilderAgain(task')
    BY <1>1, Handlers
  <1>3. BuilderAnswer(task', TRUE) = <<Release(b), Return>> /\ BuilderAnswer(task', FALSE) = <<GiveData(b), Return>>
    BY <1>1, TwoIsConcat DEF BuilderAnswer, Done
  <1>4. \/ script' = RaiseError \o <<Release(b), Return>>
        \/ script' = RaiseError \o <<GiveData(b), Return>>
        \/ script' = <<Insert>> \o <<GiveData(b), Return>>
        \/ script' = <<GiveData(b), Return>>
    BY <1>2, <1>3 DEF BuilderFirst, BuilderAgain, Runs
  <1>5. /\ RaiseError \in Seq(S) /\ Elems(RaiseError) = ErrorCalls
        /\ <<Insert>> \in Seq(S) /\ <<Release(b), Return>> \in Seq(S) /\ <<GiveData(b), Return>> \in Seq(S)
    <2>1. RaiseError \in Seq(S)
      BY DEF RaiseError, ErrorCalls
    <2>2. Elems(RaiseError) = ErrorCalls
      BY ShortScripts DEF RaiseError, ErrorCalls
    <2>3. <<Insert>> \in Seq(S) /\ <<Release(b), Return>> \in Seq(S) /\ <<GiveData(b), Return>> \in Seq(S)
      <3> HIDE DEF RaiseEnd, Return, Release, GiveData, Insert, ErrorCalls, b
      <3>1. QED OBVIOUS
    <2>4. QED BY <2>1, <2>2, <2>3
  <1> HIDE DEF S, b
  <1>6. /\ Elems(<<GiveData(b), Return>>) = {GiveData(b), Return}
        /\ Elems(RaiseError \o <<Release(b), Return>>) = ErrorCalls \cup Elems(<<Release(b), Return>>)
        /\ Elems(RaiseError \o <<GiveData(b), Return>>) = ErrorCalls \cup Elems(<<GiveData(b), Return>>)
        /\ Elems(<<Insert>> \o <<GiveData(b), Return>>) = Elems(<<Insert>>) \cup Elems(<<GiveData(b), Return>>)
    <2> DEFINE p == RaiseError
               i == <<Insert>>
               g == <<GiveData(b), Return>>
               r == <<Release(b), Return>>
    <2>1. p \in Seq(S) /\ i \in Seq(S) /\ g \in Seq(S) /\ r \in Seq(S) /\ Elems(p) = ErrorCalls
      BY <1>5
    <2>2. Elems(g) = {GiveData(b), Return}
      BY ShortScripts
    <2> HIDE DEF p, i, g, r
    <2>3. /\ Elems(p \o r) = Elems(p) \cup Elems(r) /\ Elems(p \o g) = Elems(p) \cup Elems(g)
          /\ Elems(i \o g) = Elems(i) \cup Elems(g)
      BY <2>1, JoinedElems, Zenon
    <2>4. QED BY <2>1, <2>2, <2>3 DEF p, i, g, r
  <1>7. ErrorCalls \cap EndCalls # {}
    BY ErrorTags
  <1>8. ErrorCalls \subseteq Elems(script') \/ GiveData(b) \in Elems(script')
    BY <1>4, <1>6
  <1>9. QED BY <1>7, <1>8 DEF b

\* Without an error the end stays due, whatever module starts.
LEMMA StartKeepsDue ==
    ASSUME ChainInv, EndPasses, Start, Raising, EndIsDue, Clean'
    PROVE  EndIsDue'
  <1>1. /\ task' \in ChainTasks /\ task' \in Elems(rt.tasks) /\ task' \in Planned(rt) /\ InUse = Handed(rt)
    BY StartFrame, StartTakes
  <1>2. ASSUME Elems(script') \cap EndCalls # {} PROVE EndIsDue'
    BY <1>2 DEF EndIsDue, Ending
  <1>3. ASSUME Elems(script') \cap ReadCalls # {} PROVE EndIsDue'
    BY <1>3 DEF EndIsDue, Reading
  <1>4. ASSUME Elems(script') \cap IdleCalls # {} PROVE EndIsDue'
    BY <1>4 DEF EndIsDue, Idling
  <1>5. ASSUME GiveData(RequestBody) \in Elems(script') PROVE EndIsDue'
    BY <1>5, ErrorTags, BufferSets DEF EndIsDue, InUse, Asked
  <1>6. /\ RaiseEnd \in EndCalls /\ EndInput \in EndCalls /\ CallLater \in IdleCalls /\ NeedRead \in ReadCalls
        /\ ErrorCalls \cap EndCalls # {}
    BY ErrorTags
  <1>7. CASE task' = CanRead
    <2>1. Len(parser.buffers) < Pieces /\ Len(parser.buffers) \in Nat
      <3>1. Reading
        BY <1>1, <1>7 DEF Reading, Reads, ReadTasks
      <3>2. parser.buffers \in Seq(Buffers)
        BY DEF ChainInv, TypeOK
      <3>3. QED BY <3>1, <3>2, LenProperties DEF ChainInv, Parsing
    <2>2. GiveData(Piece(Len(parser.buffers) + 1)) \in ReadCalls
      <3> DEFINE n == Len(parser.buffers) + 1
      <3>1. n \in 1..Pieces
        BY <2>1, RequestChainAssumption
      <3> HIDE DEF n
      <3>2. Piece(n) \in HeaderPieces
        BY <3>1 DEF HeaderPieces
      <3>3. QED BY <3>2 DEF ReadCalls, Gives, GiveData, n
    <2>3. Throw(Orphan) \notin Elems(script')
      BY ErrorTags DEF Clean
    <2>4. GiveData(Piece(Len(parser.buffers) + 1)) \in Elems(script')
      BY <1>7, <2>3, ReadAnswer
    <2>5. QED BY <1>3, <2>2, <2>4
  <1>8. CASE task' \in WriteTasks \cup HeadersTasks \cup ResponseTasks
    BY <1>8, StartCarries
  <1>9. CASE task' \in PieceTasks
    <2> DEFINE R == Released(Kept(task'))
    <2>1. \/ Elems(script') = {NeedRead, Return} \cup (IF Len(Kept(task')) > HeaderLimit THEN R \cup {RaiseEnd} ELSE {})
          \/ \E Q \in {{RaiseEnd}, {GiveData(RequestBody)}, {GiveData(RequestBody), RaiseEnd}} :
                Elems(script') = R \cup Q \cup {Return}
      BY <1>9, PieceAnswer
    <2> HIDE DEF R
    <2>2. NeedRead \in Elems(script') \/ RaiseEnd \in Elems(script') \/ GiveData(RequestBody) \in Elems(script')
      BY <2>1
    <2>3. QED BY <1>2, <1>3, <1>5, <1>6, <2>2
  <1>10. CASE task' \in BodyTasks
    <2>1. task'.buffer = RequestBody
      BY <1>1, <1>10, KindsAre
    <2>2. CASE task'.module = "builder"
      BY <1>2, <1>5, <1>10, <2>1, <2>2, BuilderGoesOn
    <2>3. CASE task'.module \in {"reader", "pob"}
      BY <1>2, <1>6, <1>10, <2>3, BodyAnswer
    <2>4. CASE task'.module = "error"
      <3>1. "reader" \in told
        BY <1>1, <1>10, <2>4 DEF Raising
      <3>2. RequestBody \in InUse
        BY <1>1, <1>10, <2>1, StartFrame, BufferSets
      <3>3. told = {}
        BY <3>2 DEF EndPasses
      <3>4. QED BY <3>1, <3>3
    <2>5. QED BY <1>1, <1>10, <2>2, <2>3, <2>4, KindsAre
  <1>11. CASE task' \in IdleTasks
    <2>1. \/ RaiseEnd \in Elems(script') \/ CallLater \in Elems(script') \/ ErrorCalls \subseteq Elems(script')
      BY <1>11, IdleAnswer DEF ReadsOne
    <2>2. QED BY <1>2, <1>4, <1>6, <2>1
  <1>12. CASE task' \in EndTasks
    <2>1. CASE task'.module = "builder"
      <3>1. PICK X \in {{}, ErrorCalls, {Insert}} : Elems(script') = X \cup {RaiseEnd, Return}
        <4>1. task' \notin BodyTasks
          BY <1>1, <1>12, KindsAre
        <4>2. QED BY <1>12, <2>1, <4>1, BuilderScript
      <3>2. QED BY <1>2, <1>6, <3>1
    <2>2. CASE task'.module = "reader"
      <3>1. Untold("reader")
        <4>1. task' \notin IdleTasks
          BY <1>12, TaskSets
        <4>2. QED BY <1>1, <2>2, <4>1 DEF EndPasses
      <3>2. ~reader.open
        <4>1. "reader" \notin Below("reader")
          BY DEF Below
        <4>2. QED BY <3>1, <4>1 DEF Untold, EndPasses
      <3>3. \/ RaiseEnd \in Elems(script') \/ CallLater \in Elems(script') \/ ErrorCalls \subseteq Elems(script')
        BY <1>12, <2>2, <3>2, EndAnswer DEF ReaderAtEnd, ReadsOne
      <3>4. QED BY <1>2, <1>4, <1>6, <3>3
    <2>3. CASE task'.module \notin {"builder", "reader"}
      <3>1. RaiseEnd \in Elems(script')
        BY <1>12, <2>3, EndAnswer
      <3>2. QED BY <1>2, <1>6, <3>1
    <2>4. QED BY <2>1, <2>2, <2>3
  <1>13. QED BY <1>1, <1>7, <1>8, <1>9, <1>10, <1>11, <1>12, KindsAre

\* Who raises an error without one of the file has sent nothing yet.
LEMMA StartResets ==
    ASSUME ChainInv, EndPasses, Start, Raising, Clean', Resetting'
    PROVE  /\ Untold("builder") \/ Untold("reader")
           /\ \A c \in Elems(script') : c[2] \in {NoBuffer, RequestBody}
  <1>1. /\ task' \in ChainTasks /\ task' \in Planned(rt) /\ current' = task'.module
    BY StartFrame
  <1>2. current' \in {"builder", "reader"}
    <2>1. ChainInv'
      BY StartStep
    <2>2. script' # <<>>
      BY NothingAsked DEF Resetting
    <2>3. QED BY <2>1, <2>2 DEF ChainInv, Running, Resetting
  <1>3. task' \in BodyTasks \cup IdleTasks \cup EndTasks
    BY <1>1, <1>2, KindsAre
  <1>4. CASE task'.module = "builder"
    <2>1. task' \in BodyTasks \cup EndTasks /\ task' \notin IdleTasks
      BY <1>1, <1>3, <1>4, KindsAre
    <2>2. Untold("builder")
      BY <1>1, <1>4, <2>1 DEF EndPasses
    <2>3. task'.buffer \in {NoBuffer, RequestBody}
      BY <1>1, <2>1, KindsAre, TaskSets
    <2>4. PICK X \in {{}, ErrorCalls, {Insert}} :
             \/ Elems(script') = X \cup {RaiseEnd, Return}
             \/ Elems(script') = X \cup {Release(task'.buffer), Return}
             \/ Elems(script') = X \cup {GiveData(task'.buffer), Return}
      BY <1>4, <2>1, BuilderScript
    <2>5. \A c \in X : c[2] = NoBuffer
      BY CallBuffers
    <2>6. \A c \in {RaiseEnd, Return, Release(task'.buffer), GiveData(task'.buffer)} : c[2] \in {NoBuffer, RequestBody}
      BY <2>3, CallBuffers
    <2>7. QED BY <2>2, <2>4, <2>5, <2>6
  <1>5. CASE task'.module = "reader"
    <2>1. /\ {Release(task'.buffer), EndInput, Return} \cap Named({"reset"}) = {}
          /\ {RaiseEnd, Return} \cap Named({"reset"}) = {}
          /\ \A d : {GiveData(d), CallLater, Return} \cap Named({"reset"}) = {}
      BY ErrorTags
    <2>2. task' \notin BodyTasks
      BY <1>5, <2>1, BodyAnswer DEF Resetting
    <2>3. task' \notin IdleTasks
      <3> SUFFICES ASSUME task' \in IdleTasks PROVE FALSE
        OBVIOUS
      <3>1. ~reader.failed
        BY StartReader DEF Clean
      <3>2. Elems(script') = {RaiseEnd, Return} \/ \E d : Elems(script') = {GiveData(d), CallLater, Return}
        BY <3>1, IdleAnswer DEF ReadsOne
      <3>3. QED BY <2>1, <3>2 DEF Resetting
    <2>4. task' \in EndTasks
      BY <1>3, <2>2, <2>3
    <2>5. Untold("reader")
      BY <1>1, <1>5, <2>3 DEF EndPasses
    <2>6. Elems(script') = ErrorCalls \cup {Return}
      <3>1. \/ Elems(script') \in {{Return}, {RaiseEnd, Return}, ErrorCalls \cup {Return}}
            \/ \E d : Elems(script') = {GiveData(d), CallLater, Return}
        BY <1>5, <2>4, EndAnswer DEF ReaderAtEnd, ReadsOne
      <3>2. {Return} \cap Named({"reset"}) = {}
        BY <2>1
      <3>3. QED BY <2>1, <3>1, <3>2 DEF Resetting
    <2>7. QED BY <2>5, <2>6, CallBuffers
  <1>6. QED BY <1>1, <1>2, <1>4, <1>5

\* A module that starts loses nothing of the answer.
LEMMA StartLosesNothing ==
    ASSUME ChainInv, EndPasses, Ledger, Start, Raising, NothingIsLost
    PROVE  Raising' /\ NothingIsLost'
  <1>1. Raising'
    BY StartKeepsRaising
  <1> SUFFICES ASSUME Clean' PROVE NothingIsLost'
    BY <1>1 DEF NothingIsLost
  <1>2. /\ caller = "dispatching" /\ caller' = "running" /\ script = <<>> /\ Elems(script) = {}
        /\ rt.has_error = rt'.has_error /\ rt \in T!State /\ rt' = T!getNextTask(rt)
    BY StartFrame, NothingAsked
  <1>3. Clean
    BY <1>2, StartReader DEF Clean
  <1>4. /\ EndIsDue /\ BodyBuffers \cap Spent \subseteq Elems(sent) \cup InUse
        /\ rt.write_buffers # <<>> => rt.wait_write
    BY <1>2, <1>3 DEF NothingIsLost
  <1>5. EndIsDue'
    BY <1>4, StartKeepsDue
  <1>6. BodyBuffers \cap Spent' \subseteq Elems(sent') \cup InUse'
    BY <1>4, StartKeepsBody
  <1>7. Resetting' => BodyBuffers \cap Spent' = {}
    <2> SUFFICES ASSUME Resetting' PROVE BodyBuffers \cap Spent' = {}
      OBVIOUS
    <2>1. Apart /\ Alive /\ Fresh
      BY <1>2 DEF Ledger
    <2>2. BodyBuffers \cap Spent = {}
      BY <2>1, StartResets, NothingOfTheBody
    <2>3. BodyBuffers \cap BuffersOf(script') = {}
      BY StartResets, BodyBuffersAre DEF BuffersOf
    <2>4. live \cup Made \subseteq live' /\ live' \subseteq live \cup Made \cup {Orphan} /\ freed' = freed
      BY <2>1, TakenBuffer
    <2>5. QED BY <2>2, <2>3, <2>4, BodyBuffersAre DEF Spent, Made
  <1>8. rt'.write_buffers # <<>> => rt'.wait_write
    <2>1. rt'.wait_write = rt.wait_write
      BY <1>2, WaitEffects
    <2>2. QED BY <1>4, <2>1, StartTakes
  <1>9. BodyBuffers' = BodyBuffers
    BY DEF BodyBuffers
  <1>10. QED BY <1>2, <1>5, <1>6, <1>7, <1>8, <1>9 DEF NothingIsLost

\* No step loses anything of the answer.
LEMMA NextLosesNothing ==
    ChainInv /\ EndPasses /\ ResetIsClean /\ Ledger /\ Raising /\ NothingIsLost /\ [Next]_vars => (Raising /\ NothingIsLost)'
  <1> SUFFICES ASSUME ChainInv, EndPasses, ResetIsClean, Ledger, Raising, NothingIsLost, [Next]_vars
               PROVE  Raising' /\ NothingIsLost'
    OBVIOUS
  <1>1. CASE \E expired, due \in BOOLEAN : Poll(expired, due)
    BY <1>1, PollLosesNothing
  <1>2. CASE Start
    BY <1>2, StartLosesNothing
  <1>3. CASE ApiCall
    BY <1>3, CallKeepsRaising, CallLosesNothing
  <1>4. CASE ReleaseLate
    BY <1>4, ReleaseLateLosesNothing
  <1>5. CASE Destroy
    BY <1>5, DestroyLosesNothing
  <1>6. CASE KeepWaiting \/ ClientSends \/ Report \/ Deliver
    BY <1>6, AroundLosesNothing
  <1>7. CASE UNCHANGED vars
    <2>1. UNCHANGED <<rt, script, chain, current, parser, reader, told, sent, late, live, freed, caller>>
      BY <1>7 DEF vars
    <2>2. /\ SameQueue(rt, rt') /\ rt'.wait_read = rt.wait_read /\ rt'.wait_write = rt.wait_write
          /\ rt.has_error => rt'.has_error
          /\ Spent' = Spent
      BY <2>1 DEF SameQueue, Spent
    <2>3. UNCHANGED <<script, chain, current, parser, reader, told, sent>> /\ late' = late /\ caller' = caller
      BY <2>1
    <2>4. QED BY <2>2, <2>3, SameLosesNothing
  <1>8. CASE Ended
    BY <1>7, <1>8 DEF Ended
  <1>9. QED BY <1>1, <1>2, <1>3, <1>4, <1>5, <1>6, <1>7, <1>8 DEF Next

\* RequestManager.hpp:113: the connection passes to the next request when each
\* buffer of the body went through send, ON_END came to the output module behind
\* them, and no event of the old request is on its way.
THEOREM CleanEndHasAnswered == HeaderFits => (Spec => []KeptConnectionIsClean)
  <1> DEFINE Inv == /\ ChainInv /\ EndPasses /\ WritersRoom /\ Unbuilt /\ ResetIsClean /\ Ledger /\ Gone
                    /\ Raising /\ NothingIsLost
  <1>1. Init => Inv
    BY InitChainInv, InitEndPasses, InitWritersRoom, InitUnbuilt, InitLedger, InitLosesNothing
  <1>2. ASSUME HeaderFits PROVE Inv /\ [Next]_vars => Inv'
    BY <1>2, NextChainInv, NextEndPasses, NextWritersRoom, NextUnbuilt, NextResetIsClean, NextLedger, NextLosesNothing
  <1>3. ASSUME Inv PROVE CleanEndIsComplete
    <2> SUFFICES ASSUME caller = "ended", ~rt.has_error, ~reader.failed
                 PROVE  /\ "out" \in told
                        /\ \A b \in live \cup freed : b[1] \in BodyKinds => \E i \in DOMAIN sent : sent[i] = b
      BY DEF CleanEndIsComplete
    <2>1. Elems(script) = {}
      BY <1>3, NoScript, NothingAsked
    <2>2. Clean
      BY <2>1 DEF Clean
    <2>3. "out" \in told /\ BodyBuffers \cap Spent \subseteq Elems(sent)
      BY <1>3, <2>2 DEF NothingIsLost
    <2>4. Spent \subseteq Buffers
      BY <1>3 DEF ChainInv, TypeOK, Spent
    <2>5. QED BY <2>3, <2>4 DEF BodyBuffers, Spent, Elems
  <1>4. Inv => KeepAliveIsQuiet
    BY DEF ChainInv, Bookkeeping, KeepAliveIsQuiet, T!hasPendingEvent
  <1>5. Inv => KeptConnectionIsClean
    BY <1>3, <1>4 DEF KeptConnectionIsClean
  <1> HIDE DEF Inv
  <1>6. ASSUME HeaderFits PROVE Spec => []KeptConnectionIsClean
    BY <1>1, <1>2, <1>5, <1>6, PTL DEF Spec
  <1>7. QED BY <1>6

-----------------------------------------------------------------------------
(* The order of the answer.                                                  *)

\* The buffers that wait for send(), the one in the hands of the task manager
\* first.
Queue(r) ==
    IF r.tasks # <<>> /\ Head(r.tasks) \in WriteTasks
    THEN <<Head(r.tasks).buffer>> \o r.write_buffers ELSE r.write_buffers
Ahead == Elems(sent) \cup Elems(Queue(rt))

\* The buffers that will follow them: those a module gives away or PreOutputBuilder
\* is going to be given, among them those that go through PreOutputBuilder.
Upstream == {b \in Written : Coming(b) \/ Given(b)}
Passing == {b \in Written : Coming(b) \/ GiveData(b) \in Elems(script) \cap AddCalls(current, chain)}

\* In order, but for the buffers of S.
Sorted(q, S) ==
    \A i, j \in DOMAIN q : i < j /\ q[i] \notin S /\ q[j] \notin S => Rank(q[i]) <= Rank(q[j])

\* No error of the socket keeps what waits from being sent.
Sending == caller = "dispatching" \/ (~rt.has_error /\ Elems(script) \cap Named({"throw"}) = {})

\* Only a buffer that was sent in part waits out of order.
Lined ==
    /\ Elems(sent) \subseteq Written /\ Elems(sent) \subseteq Spent
    /\ Sorted(Queue(rt), Elems(sent))
    /\ \A y \in Elems(sent), b \in Elems(Queue(rt)) \ Elems(sent) : Rank(y) <= Rank(b)
    /\ Injective(sent) => Sorted(sent, {})
    /\ \A b \in Written : NeedWrite(b) \in Elems(script) => b \in Elems(sent)

\* What follows comes behind all that waits, what a module gives behind what it
\* gave before, and what comes to PreOutputBuilder behind what it gives.
Supplied ==
    /\ \A y \in Ahead, b \in Upstream : Rank(y) <= Rank(b)
    /\ \A b, c \in Passing : Rank(b) = Rank(c)
    /\ \A b, c \in Written : Given(b) /\ Coming(c) => Rank(b) <= Rank(c)
    /\ \A i, j \in DOMAIN script, b, c \in Written :
          i < j /\ script[i] = GiveData(b) /\ script[j] = GiveData(c) => Rank(b) <= Rank(c)

\* PreOutputBuilder is about to give the output module c.
GivesNext(c) == script # <<>> /\ script[1] = GiveData(c) /\ GiveData(c) \notin AddCalls(current, chain)

\* Behind the size of a chunk comes the chunk, from the script to the socket.
Chunked ==
    /\ \A i \in DOMAIN script, b \in Infos : script[i] = GiveData(b) =>
          /\ i + 1 \in DOMAIN script
          /\ \E c \in Written : /\ script[i + 1] = GiveData(c) /\ ChunkInfo(c) = b
                                /\ GiveData(c) \notin AddCalls(current, chain)
    /\ \A i \in DOMAIN Queue(rt) : Queue(rt)[i] \in Infos \ Elems(sent) =>
          IF i < Len(Queue(rt)) THEN ChunkInfo(Queue(rt)[i + 1]) = Queue(rt)[i]
          ELSE \E c \in Written : GivesNext(c) /\ ChunkInfo(c) = Queue(rt)[i]
    /\ Injective(sent) => \A i \in DOMAIN sent : sent[i] \in Infos =>
          IF i < Len(sent) THEN ChunkInfo(sent[i + 1]) = sent[i]
          ELSE Sending => Queue(rt) # <<>> /\ ChunkInfo(Queue(rt)[1]) = sent[i]

\* The headers come first, unless Builder has raised the error; until its answer
\* is prepared nothing is sent, and Builder's error has only its page.
Headed ==
    /\ chain # CP /\ sent # <<>> => sent[1] = Headers
    /\ chain # CP /\ sent = <<>> /\ pob.headers /\ Sending =>
          IF Queue(rt) = <<>> THEN GivesNext(Headers) ELSE Queue(rt)[1] = Headers
    /\ chain # CP /\ ~pob.headers => sent = <<>>
    /\ chain = C0 => ~pob.headers
    /\ chain = C0 /\ builded => script # <<>> /\ script[1] \in Named({"reset", "insertAfter"})
    /\ chain = CP => Ahead \subseteq Pages

Orderly == Lined /\ Supplied /\ Chunked /\ Headed

\* How the buffers rank.
LEMMA Ranks ==
    /\ \A b \in Written : Rank(b) \in Nat /\ Rank(b) <= FileSize + 2
    /\ Rank(Headers) = 0 /\ Rank(Final) = FileSize + 2
    /\ \A b \in Pages \cup Infos : Rank(b) = FileSize + 1
    /\ \A n \in 1..FileSize : Rank(Data(n)) = n
    /\ \A b \in Pages : ChunkInfo(b) \in Infos
    /\ \A b \in Written \ {Final} : Rank(b) <= FileSize + 1
  <1>0. FileSize \in Nat
    BY RequestChainAssumption
  <1>1. Rank(Headers) = 0
    BY DEF Rank, Headers
  <1>2. Rank(Final) = FileSize + 2
    BY DEF Rank, Final
  <1>3. ASSUME NEW b \in Pages \cup Infos PROVE Rank(b) = FileSize + 1
    <2>1. b[1] \in {"info", "page"}
      BY <1>3 DEF Pages, Infos, Padding, Page
    <2>2. QED BY <2>1 DEF Rank
  <1>4. ASSUME NEW n \in 1..FileSize PROVE Rank(Data(n)) = n
    BY DEF Rank, Data
  <1>5. \A b \in Pages : ChunkInfo(b) \in Infos
    BY DEF Pages, Infos, Padding, Page, ChunkInfo
  <1>6. ASSUME NEW b \in Written PROVE Rank(b) \in Nat /\ Rank(b) <= FileSize + 2 /\ (b # Final => Rank(b) <= FileSize + 1)
    <2>1. CASE b = Headers
      BY <2>1, <1>0, <1>1
    <2>2. CASE b = Final
      BY <2>2, <1>0, <1>2
    <2>3. CASE b \in Pages \cup Infos
      BY <2>3, <1>0, <1>3
    <2>4. CASE b \in DataBuffers
      <3>1. PICK n \in 1..FileSize : b = Data(n)
        BY <2>4 DEF DataBuffers
      <3>2. QED BY <3>1, <1>0, <1>4
    <2>5. QED BY <1>6, <2>1, <2>2, <2>3, <2>4 DEF Written
  <1>7. QED BY <1>1, <1>2, <1>3, <1>4, <1>5, <1>6

\* A sequence in order stays so without its head, and with a last element that is
\* not below the others.
LEMMA SortedTail ==
    ASSUME NEW q \in Seq(Written), q # <<>>, NEW S, Sorted(q, S)
    PROVE  /\ Sorted(Tail(q), S)
           /\ Head(q) \notin S => \A b \in Elems(Tail(q)) \ S : Rank(Head(q)) <= Rank(b)
  <1> DEFINE r == Tail(q)
  <1>1. /\ Head(q) = q[1] /\ 1 \in DOMAIN q /\ DOMAIN q = 1..Len(q) /\ Len(q) \in Nat \ {0}
        /\ DOMAIN r = 1..(Len(q) - 1)
        /\ \A i \in DOMAIN r : i + 1 \in DOMAIN q /\ r[i] = q[i + 1]
    BY TailElems
  <1> HIDE DEF r
  <1>2. Sorted(r, S)
    BY <1>1 DEF Sorted
  <1>3. ASSUME Head(q) \notin S, NEW b \in Elems(r) \ S PROVE Rank(Head(q)) <= Rank(b)
    <2>1. PICK i \in DOMAIN r : r[i] = b
      BY <1>3 DEF Elems
    <2>2. i + 1 \in DOMAIN q /\ q[i + 1] = b /\ 1 < i + 1 /\ q[1] = Head(q)
      BY <1>1, <2>1
    <2>3. QED BY <1>1, <1>3, <2>2 DEF Sorted
  <1>4. QED BY <1>2, <1>3 DEF r

LEMMA SortedAppend ==
    ASSUME NEW q \in Seq(Written), NEW b \in Written, NEW S, Sorted(q, S),
           b \in S \/ \A y \in Elems(q) \ S : Rank(y) <= Rank(b)
    PROVE  Sorted(Append(q, b), S)
  <1> DEFINE r == Append(q, b)
  <1>1. /\ DOMAIN r = 1..(Len(q) + 1) /\ \A i \in 1..Len(q) : r[i] = q[i]
        /\ r[Len(q) + 1] = b /\ DOMAIN q = 1..Len(q) /\ Len(q) \in Nat
    BY AppendElems, LenProperties
  <1> HIDE DEF r
  <1>2. SUFFICES ASSUME NEW i \in DOMAIN r, NEW j \in DOMAIN r, i < j, r[i] \notin S, r[j] \notin S
                 PROVE  Rank(r[i]) <= Rank(r[j])
    BY DEF Sorted, r
  <1>3. i \in DOMAIN q /\ r[i] = q[i] /\ q[i] \in Elems(q)
    BY <1>1, <1>2 DEF Elems
  <1>4. CASE j = Len(q) + 1
    BY <1>1, <1>2, <1>3, <1>4
  <1>5. CASE j # Len(q) + 1
    <2>1. j \in DOMAIN q /\ r[j] = q[j]
      BY <1>1, <1>5
    <2>2. QED BY <1>2, <1>3, <2>1 DEF Sorted
  <1>6. QED BY <1>4, <1>5

\* Fewer elements are looked at when more are excepted.
LEMMA SortedLess ==
    ASSUME NEW q, NEW S, NEW R, S \subseteq R, Sorted(q, S)
    PROVE  Sorted(q, R)
  BY DEF Sorted

\* The queue outside the hands of the task manager.
LEMMA StillQueue ==
    ASSUME NEW r, QueueInv(r), Still(r)
    PROVE  Queue(r) = r.write_buffers
  <1>1. r.tasks # <<>> => Head(r.tasks) \in Elems(r.tasks)
    BY TailElems DEF QueueInv, QueueType
  <1>2. QED BY <1>1 DEF Queue, Still

LEMMA QueueIs ==
    ASSUME NEW r, QueueInv(r)
    PROVE  /\ Queue(r) \in Seq(Written) /\ Elems(Queue(r)) \subseteq Handed(r) /\ Elems(Queue(r)) \subseteq Written
           /\ r.tasks # <<>> /\ Head(r.tasks) \in WriteTasks =>
                /\ Queue(r) # <<>> /\ Head(Queue(r)) = Head(r.tasks).buffer /\ Tail(Queue(r)) = r.write_buffers
           /\ ~(r.tasks # <<>> /\ Head(r.tasks) \in WriteTasks) => Queue(r) = r.write_buffers
  <1>1. r.write_buffers \in Seq(Written) /\ r.tasks \in Seq(ChainTasks)
    BY DEF QueueInv, QueueType
  <1>2. Elems(r.write_buffers) \subseteq Handed(r)
    BY DEF Handed, WriteBuffers, Elems
  <1>3. CASE r.tasks # <<>> /\ Head(r.tasks) \in WriteTasks
    <2>1. Head(r.tasks).buffer \in Written /\ Head(r.tasks) \in Elems(r.tasks)
      BY <1>1, <1>3, TaskSets, TailElems
    <2>2. Head(r.tasks).buffer \in Handed(r)
      BY <2>1, BufferElems, BufferSets DEF Handed
    <2>3. Queue(r) = <<Head(r.tasks).buffer>> \o r.write_buffers
      BY <1>3 DEF Queue
    <2>4. Queue(r) \in Seq(Written) /\ Elems(Queue(r)) = Elems(r.write_buffers) \cup {Head(r.tasks).buffer} /\ Queue(r) # <<>>
      BY <1>1, <2>1, <2>3, PushElems
    <2>5. Head(Queue(r)) = Head(r.tasks).buffer /\ Tail(Queue(r)) = r.write_buffers
      BY <1>1, <2>1, <2>3, HeadTailProperties
    <2>6. QED BY <1>1, <1>2, <1>3, <2>2, <2>4, <2>5, ElemsSeq
  <1>4. CASE ~(r.tasks # <<>> /\ Head(r.tasks) \in WriteTasks)
    BY <1>1, <1>2, <1>4, ElemsSeq DEF Queue
  <1>5. QED BY <1>3, <1>4

\* What neither takes a buffer nor brings one keeps the order.
LEMMA SameOrder ==
    ASSUME Orderly, Queue(rt') = Queue(rt), \A b \in Written : Coming(b)' => Coming(b),
           UNCHANGED <<script, chain, current, pob, builded, sent>>, Spent \subseteq Spent', Sending' => Sending
    PROVE  Orderly'
  <1> USE DEF Orderly
  <1>1. Lined'
    BY DEF Lined
  <1>2. /\ Ahead' = Ahead /\ Upstream' \subseteq Upstream /\ Passing' \subseteq Passing
        /\ \A b \in Written : Given(b)' <=> Given(b)
    BY DEF Ahead, Upstream, Passing, Given
  <1>3. Supplied'
    <2>1. \A y \in Ahead', b \in Upstream' : Rank(y) <= Rank(b)
      BY <1>2 DEF Supplied
    <2>2. \A b, c \in Passing' : Rank(b) = Rank(c)
      BY <1>2 DEF Supplied
    <2>3. \A b, c \in Written : Given(b)' /\ Coming(c)' => Rank(b) <= Rank(c)
      BY <1>2 DEF Supplied
    <2>4. \A i, j \in DOMAIN script', b, c \in Written :
             i < j /\ script'[i] = GiveData(b) /\ script'[j] = GiveData(c) => Rank(b) <= Rank(c)
      BY DEF Supplied
    <2>5. QED BY <2>1, <2>2, <2>3, <2>4 DEF Supplied
  <1>4. \A c : GivesNext(c)' <=> GivesNext(c)
    BY DEF GivesNext
  <1>5. Chunked'
    BY <1>4 DEF Chunked
  <1>6. Headed'
    BY <1>2, <1>4 DEF Headed
  <1>7. QED BY <1>1, <1>3, <1>5, <1>6

\* Who releases buffers forgets none of them.
LEMMA SpentStays ==
    ASSUME ChainInv, [Next]_vars
    PROVE  Spent \subseteq Spent'
  <1>1. ASSUME NEW bs, Releases(bs) PROVE Spent \subseteq Spent'
    BY <1>1 DEF Releases, Spent
  <1>2. CASE ApiCall
    <2>1. CASE raiseErrorReset \/ release
      BY <1>1, <2>1 DEF raiseErrorReset, release
    <2>2. CASE ~(raiseErrorReset \/ release)
      <3>1. UNCHANGED <<live, freed>>
        BY <1>2, <2>2 DEF ApiCall, giveData, needWrite, needRead, callLater, raiseEnd, raiseErrorEnd, insertAfter,
               endInput, returns, throws, notifyEndTask
      <3>2. QED BY <3>1 DEF Spent
    <2>3. QED BY <2>1, <2>2
  <1>3. CASE Start
    BY <1>3 DEF Start, Spent
  <1>4. CASE ReleaseLate
    BY <1>1, <1>4 DEF ReleaseLate
  <1>5. CASE Destroy
    BY <1>1, <1>5 DEF Destroy
  <1>6. CASE \/ KeepWaiting \/ ClientSends \/ Report \/ Deliver \/ \E expired, due \in BOOLEAN : Poll(expired, due)
    BY <1>6 DEF KeepWaiting, ClientSends, Report, Deliver, Poll, Request, Spent
  <1>7. CASE UNCHANGED vars
    BY <1>7 DEF vars, Spent
  <1>8. CASE Ended
    BY <1>7, <1>8 DEF Ended
  <1>9. QED BY <1>2, <1>3, <1>4, <1>5, <1>6, <1>7, <1>8 DEF Next

\* A step that leaves the tasks alone.
LEMMA AroundKeepsOrder ==
    ASSUME ChainInv, Orderly, [Next]_vars, KeepWaiting \/ Destroy \/ ReleaseLate \/ ClientSends \/ Report \/ Deliver \/ UNCHANGED vars
    PROVE  Orderly'
  <1>1. /\ UNCHANGED <<script, chain, current, pob, builded, sent>>
        /\ rt' = rt \/ (Deliver /\ rt' = T!handleSocketEvent(rt, reported))
        /\ caller' = "dispatching" => caller = "dispatching"
    BY DEF KeepWaiting, Destroy, ReleaseLate, ClientSends, Report, Deliver, Request, vars
  <1>2. Deliver => reported \in T!SocketEvents /\ rt \in T!State
    BY DEF Deliver, ChainInv, TypeOK
  <1>3. /\ rt'.tasks = rt.tasks /\ rt'.write_buffers = rt.write_buffers /\ rt'.end_task = rt.end_task
        /\ rt'.call_later_task = rt.call_later_task
        /\ rt.has_error => rt'.has_error
    <2>1. CASE rt' = rt
      BY <2>1
    <2>2. CASE Deliver /\ rt' = T!handleSocketEvent(rt, reported)
      BY <1>2, <2>2, SocketEffect, WaitEffects DEF SameQueue
    <2>3. QED BY <1>1, <2>1, <2>2
  <1>4. Queue(rt') = Queue(rt)
    BY <1>3 DEF Queue
  <1>5. \A b \in Written : Coming(b)' => Coming(b)
    BY <1>3 DEF Coming, Planned, Elems
  <1>6. Sending' => Sending
    BY <1>1, <1>3 DEF Sending
  <1>7. QED BY <1>1, <1>4, <1>5, <1>6, SameOrder, SpentStays

LEMMA HeadAndTail ==
    ASSUME NEW S, NEW q \in Seq(S), q # <<>>
    PROVE  <<Head(q)>> \o Tail(q) = q
  <1> DEFINE r == <<Head(q)>> \o Tail(q)
  <1>1. /\ Tail(q) \in Seq(S) /\ Head(q) \in S /\ Head(q) = q[1] /\ Len(Tail(q)) = Len(q) - 1
        /\ Len(q) \in Nat \ {0} /\ DOMAIN Tail(q) = 1..(Len(q) - 1)
        /\ \A i \in DOMAIN Tail(q) : Tail(q)[i] = q[i + 1]
    BY TailElems
  <1>2. /\ r \in Seq(S) /\ DOMAIN r = 1..(Len(Tail(q)) + 1) /\ r[1] = Head(q)
        /\ \A i \in 2..(Len(Tail(q)) + 1) : r[i] = Tail(q)[i - 1]
    BY <1>1, PushElems
  <1> HIDE DEF r
  <1>3. Len(r) = Len(q)
    BY <1>1, <1>2, LenProperties
  <1>4. ASSUME NEW i \in 1..Len(q) PROVE r[i] = q[i]
    BY <1>1, <1>2, <1>4
  <1>5. r = q
    BY <1>2, <1>3, <1>4, SeqEqual
  <1>6. QED BY <1>5 DEF r

\* hasWork takes the first buffer that waits.
LEMMA PollKeepsOrder ==
    ASSUME ChainInv, Orderly, [Next]_vars, NEW expired \in BOOLEAN, NEW due \in BOOLEAN, Poll(expired, due)
    PROVE  Orderly'
  <1>1. /\ rt' = T!hasWork(rt, expired, due) /\ caller = "polling" /\ script = <<>> /\ Elems(script) = {}
        /\ caller' = IF T!HasWorkResult(rt') THEN "dispatching" ELSE "noWork"
        /\ UNCHANGED <<script, chain, current, pob, builded, sent>>
        /\ TP!Consistent(rt) /\ QueueInv(rt) /\ Still(rt)
    BY PollFacts DEF Request
  <1>2. /\ \/ rt'.has_error /\ SameQueue(rt, rt')
           \/ ~rt.has_error /\ ~rt'.has_error /\ Writes(rt, rt')
        /\ Planned(rt') \subseteq Planned(rt)
              \cup (IF rt.wait_read THEN {CanRead} ELSE {})
              \cup (IF rt.write_buffers # <<>> THEN {WriteTask(Head(rt.write_buffers))} ELSE {})
    BY <1>1, HasWorkEffect
  <1>3. Sending' => Sending
    <2>1. rt.has_error => rt'.has_error
      BY <1>2
    <2>2. T!HasWorkResult(rt') => ~rt'.has_error
      BY DEF T!HasWorkResult
    <2>3. QED BY <1>1, <2>1, <2>2 DEF Sending
  <1>4. \A b \in Written : Coming(b)' => Coming(b)
    <2>1. ASSUME NEW t \in Planned(rt') \cap ResponseTasks PROVE t \in Planned(rt)
      <3>1. t # CanRead
        BY <2>1, TaskSets
      <3>2. t # WriteTask(Head(rt.write_buffers))
        BY <2>1 DEF ResponseTasks, Tasks, WriteTask, T!ModuleTask
      <3>3. QED BY <1>2, <2>1, <3>1, <3>2
    <2>2. QED BY <2>1 DEF Coming
  <1>5. QueueInv(rt) /\ rt.write_buffers \in Seq(Written) /\ rt.tasks \in Seq(ChainTasks) /\ Queue(rt) = rt.write_buffers
    BY <1>1, StillQueue DEF QueueInv, QueueType
  <1>6. Queue(rt') = Queue(rt)
    <2>0. QueueInv(rt')
      BY NextChainInv DEF ChainInv, Bookkeeping
    <2>1. CASE SameQueue(rt, rt')
      BY <2>1 DEF SameQueue, Queue
    <2>2. CASE rt'.write_buffers = rt.write_buffers
      <3>1. SUFFICES ASSUME rt'.tasks # <<>>, Head(rt'.tasks) \in WriteTasks PROVE FALSE
        BY <1>5, <2>2 DEF Queue
      <3> DEFINE t == Head(rt'.tasks)
      <3>2. t \in Elems(rt'.tasks) /\ t \in Planned(rt') /\ t.buffer \in Written
        BY <2>0, <3>1, TailElems, TaskSets DEF QueueInv, QueueType, Planned
      <3>3. t \notin Planned(rt) /\ t # CanRead
        BY <1>1, <3>1, TaskSets DEF Still, Planned, QueueInv, QueueType, FrontTasks
      <3>4. rt.write_buffers # <<>> /\ t = WriteTask(Head(rt.write_buffers))
        BY <1>2, <3>2, <3>3
      <3>5. t.buffer = Head(rt.write_buffers) /\ Head(rt.write_buffers) \in Elems(rt.write_buffers)
        BY <1>5, <3>4, TailElems DEF WriteTask, T!ModuleTask
      <3>6. t.buffer \in WriteBuffers(rt') /\ t.buffer \in TaskBuffers(rt') /\ t.buffer \in Buffers
        BY <2>2, <3>2, <3>5, BufferElems, BufferSets
      <3>7. QED BY <2>0, <3>6 DEF QueueInv, Unshared
    <2>3. CASE /\ rt.write_buffers # <<>> /\ rt'.write_buffers = Tail(rt.write_buffers)
               /\ rt'.tasks # <<>> /\ Head(rt'.tasks) = WriteTask(Head(rt.write_buffers))
               /\ Head(rt'.tasks) \in WriteTasks
      <3>1. Queue(rt') = <<Head(rt.write_buffers)>> \o Tail(rt.write_buffers)
        BY <2>3 DEF Queue, WriteTask, T!ModuleTask
      <3>2. QED BY <1>5, <2>3, <3>1, HeadAndTail
    <2>4. QED BY <1>2, <2>1, <2>2, <2>3 DEF Writes
  <1>7. QED BY <1>1, <1>3, <1>4, <1>6, SameOrder, SpentStays

\* A new request has sent nothing.
LEMMA InitOrderly == Init => Orderly
  <1> SUFFICES ASSUME Init PROVE Orderly
    OBVIOUS
  <1>1. /\ script = <<>> /\ sent = <<>> /\ chain = C0 /\ ~builded /\ ~pob.headers
        /\ Elems(script) = {} /\ Elems(sent) = {} /\ DOMAIN sent = {} /\ DOMAIN script = {}
    BY NothingAsked DEF Init, C0
  <1>2. Queue(rt) = <<>> /\ Elems(Queue(rt)) = {} /\ Ahead = {} /\ Planned(rt) = {}
    <2>1. rt.tasks = <<>> /\ rt.write_buffers = <<>> /\ rt.call_later_task = NoTask /\ rt.end_task = NoTask
      BY DEF Init, T!needRead, T!NewTasks, T!Register
    <2>2. Queue(rt) = <<>> /\ Planned(rt) = {}
      BY <2>1, NoTasks DEF Queue
    <2>3. QED BY <1>1, <2>2, NothingAsked DEF Ahead
  <1>3. C0 # CP /\ DOMAIN Queue(rt) = {}
    BY <1>2, ShapesAre
  <1>4. Upstream = {} /\ Passing = {} /\ \A b : ~Given(b)
    BY <1>1, <1>2 DEF Upstream, Passing, Coming, Given
  <1>5. Lined
    BY <1>1, <1>2, <1>3 DEF Lined, Sorted
  <1>6. Supplied
    BY <1>1, <1>4 DEF Supplied
  <1>7. Chunked
    BY <1>1, <1>3 DEF Chunked
  <1>8. Headed
    BY <1>1, <1>3 DEF Headed
  <1>9. QED BY <1>5, <1>6, <1>7, <1>8 DEF Orderly

\* The module's next call puts b back to the socket, gives it the output module,
\* or gives it PreOutputBuilder.
PutsBack(b) == current = "out" /\ Head(script) = NeedWrite(b)
GivesOut(b) ==
    /\ Head(script) = GiveData(b) /\ GiveData(b) \notin AddCalls(current, chain)
    /\ (current = "pob" /\ chain # CP) \/ (current = "error" /\ chain = CP)
GivesOn(b) == Head(script) = GiveData(b) /\ Head(script) \in AddCalls(current, chain)

\* The calls that name a buffer are told apart.
LEMMA CallsDiffer ==
    /\ \A b, c : (GiveData(b) = GiveData(c) => b = c) /\ (NeedWrite(b) = NeedWrite(c) => b = c) /\ GiveData(b) # NeedWrite(c)
    /\ \A b, c : GiveData(b) # Throw(c) /\ GiveData(b) # Release(c) /\ GiveData(b) # NotifyEndTask(c) /\ GiveData(b) # Return
    /\ \A b, c : NeedWrite(b) # Throw(c) /\ NeedWrite(b) # Release(c) /\ NeedWrite(b) # NotifyEndTask(c) /\ NeedWrite(b) # Return
    /\ \A b : GiveData(b) \notin {NeedRead, CallLater, RaiseEnd, EndInput, Insert} \cup ErrorCalls
    /\ \A b : NeedWrite(b) \notin {NeedRead, CallLater, RaiseEnd, EndInput, Insert} \cup ErrorCalls
    /\ \A b, ns : GiveData(b) \in Named(ns) => "giveData" \in ns
    /\ \A b, bs : GiveData(b) \in Gives(bs) <=> b \in bs
    /\ \A b, bs : NeedWrite(b) \notin Gives(bs)
  BY DEF GiveData, NeedWrite, Throw, Release, NotifyEndTask, Return, NeedRead, CallLater, RaiseEnd, EndInput, Insert,
         ErrorCalls, Named, Gives

\* Who gives away what.
LEMMA WhoWrites ==
    ASSUME NEW m \in Modules, NEW b \in Written
    PROVE  /\ GiveData(b) \in CallsOf(m) => /\ m \in {"reader", "error", "pob"}
                                            /\ m = "reader" => b \in DataBuffers
                                            /\ m = "error" => b \in Pages
           /\ NeedWrite(b) \in CallsOf(m) => m = "out"
  <1>1. /\ b \notin HeaderPieces /\ b # RequestBody /\ b \in Buffers
    BY BufferSets
  <1>2. \A bs, ns : /\ GiveData(b) \notin Releasing /\ NeedWrite(b) \notin Releasing
                    /\ (GiveData(b) \in Named(ns) => "giveData" \in ns)
                    /\ (NeedWrite(b) \in Named(ns) => "needWrite" \in ns)
                    /\ GiveData(b) \notin {"needWrite"} \X bs
                    /\ (GiveData(b) \in Gives(bs) <=> b \in bs) /\ NeedWrite(b) \notin Gives(bs)
    BY DEF GiveData, NeedWrite, Releasing, Named, Gives
  <1>3. CASE m \in {"in", "out", "parser", "builder"}
    BY <1>1, <1>2, <1>3 DEF CallsOf
  <1>4. CASE m \in {"reader", "error", "pob"}
    BY <1>1, <1>2, <1>4 DEF CallsOf
  <1>5. QED BY <1>3, <1>4 DEF Modules, Processing

\* A call puts a buffer behind those that wait, or leaves them.
LEMMA CallQueue ==
    ASSUME ChainInv, ChainInv', ApiCall
    PROVE  /\ Queue(rt) \in Seq(Written) /\ Queue(rt) = rt.write_buffers
           /\ \/ Queue(rt') = Append(Queue(rt), Arg) /\ Arg \in Written /\ (PutsBack(Arg) \/ GivesOut(Arg))
              \/ Queue(rt') = Queue(rt)
           /\ \A b \in Written : Head(script) = GiveData(b) /\ GiveData(b) \notin AddCalls(current, chain)
                 => Arg = b /\ Queue(rt') = Append(Queue(rt), b)
  <1>1. /\ caller = "running" /\ script # <<>> /\ Head(script) = <<Call, Arg>> /\ Head(script) \in CallsOf(current)
        /\ QueueInv(rt) /\ Still(rt) /\ current \in Modules
    BY CallFrameFacts
  <1>2. caller' # "dispatching"
    BY <1>1 DEF ApiCall, giveData, needWrite, needRead, callLater, raiseEnd, raiseErrorReset, raiseErrorEnd,
           release, insertAfter, endInput, returns, throws, notifyEndTask, Calls
  <1>3. QueueInv(rt') /\ Still(rt')
    BY <1>2 DEF ChainInv, Bookkeeping
  <1>4. Queue(rt) = rt.write_buffers /\ Queue(rt') = rt'.write_buffers /\ rt.write_buffers \in Seq(Written)
    BY <1>1, <1>3, StillQueue DEF QueueInv, QueueType
  <1>5. ASSUME BufferWaits PROVE Arg \in Written /\ (PutsBack(Arg) \/ GivesOut(Arg))
    <2>1. Arg \in Written
      BY <1>5 DEF BufferWaits
    <2>2. CASE current = "out" /\ Head(script) \in Named({"needWrite"})
      <3>1. Head(script) = NeedWrite(Arg)
        BY <1>1, <2>2 DEF Named, NeedWrite
      <3>2. QED BY <2>1, <2>2, <3>1 DEF PutsBack
    <2>3. CASE Head(script) \in Gives(Buffers) /\ ((current = "pob" /\ chain # CP) \/ (current = "error" /\ chain = CP))
      <3>1. Head(script) = GiveData(Arg)
        BY <1>1, <2>3 DEF Gives, GiveData
      <3>2. AddCalls(current, chain) = {}
        BY <2>3 DEF AddCalls
      <3>3. QED BY <2>1, <2>3, <3>1, <3>2 DEF GivesOut
    <2>4. QED BY <1>5, <2>2, <2>3 DEF BufferWaits
  <1>6. \/ Queue(rt') = Append(Queue(rt), Arg) /\ Arg \in Written /\ (PutsBack(Arg) \/ GivesOut(Arg))
        \/ Queue(rt') = Queue(rt)
    BY <1>4, <1>5, RoomTaken DEF BufferWaits
  <1>7. ASSUME NEW b \in Written, Head(script) = GiveData(b), GiveData(b) \notin AddCalls(current, chain)
        PROVE  Arg = b /\ Queue(rt') = Append(Queue(rt), b)
    <2>1. Call = "giveData" /\ Arg = b
      BY <1>1, <1>7 DEF GiveData
    <2>2. giveData
      BY <2>1, CallCases DEF ApiCall
    <2>3. rt'.write_buffers = Append(rt.write_buffers, Arg)
      BY <1>7, <2>2, GiftGoes
    <2>4. QED BY <1>4, <2>1, <2>3
  <1>8. QED BY <1>4, <1>6, <1>7

\* What comes to PreOutputBuilder was coming or is given to it.
LEMMA CallBrings ==
    ASSUME ChainInv, ApiCall, NEW b, Coming(b)'
    PROVE  Coming(b) \/ GivesOn(b)
  <1>1. PICK t \in Planned(rt') \cap ResponseTasks : t.buffer = b
    BY DEF Coming
  <1>2. t.event = "ON_RESPONSE_DATA" /\ t \notin IdleTasks
    BY <1>1, TaskSets DEF ResponseTasks, Tasks
  <1>3. CASE t \in Planned(rt)
    BY <1>1, <1>3 DEF Coming
  <1>4. CASE t \notin Planned(rt)
    <2>1. CASE giveData
      BY <1>1, <1>4, <2>1, GiveDataPlans DEF GivesTask, GivesOn
    <2>2. CASE raiseEnd \/ endInput \/ raiseErrorEnd
      <3>1. PlansEnd(t)
        BY <1>1, <1>4, <2>2, EndPlans
      <3>2. QED BY <1>2, <3>1 DEF PlansEnd, EndFor, T!ModuleTask
    <2>3. CASE needWrite \/ needRead \/ callLater \/ release \/ insertAfter \/ throws
      BY <1>1, <1>2, <1>4, <2>3, QuietPlans
    <2>4. CASE raiseErrorReset
      BY <1>1, <2>4, ResetPlans
    <2>5. CASE returns \/ notifyEndTask
      BY <1>1, <1>4, <2>5 DEF returns, notifyEndTask
    <2>6. QED BY <2>1, <2>2, <2>3, <2>4, <2>5 DEF ApiCall
  <1>5. QED BY <1>3, <1>4

\* The chain changes only before an answer is given away.
LEMMA CallChain ==
    ASSUME ChainInv, ApiCall
    PROVE  /\ chain' = chain \/ (chain = C0 /\ chain' \in {CP, CR}) \/ (chain = CR /\ chain' = CE)
           /\ Head(script) \in Named({"reset", "insertAfter"}) /\ chain = C0 => chain' # C0
           /\ \A b \in Written : GiveData(b) \in Elems(script') =>
                 chain' = chain /\ current' = current /\ GiveData(b) \in Elems(script)
  <1>1. /\ caller = "running" /\ script # <<>> /\ script' = Tail(script) /\ Elems(script') \subseteq Elems(script)
        /\ Head(script) = <<Call, Arg>> /\ Head(script) \in CallsOf(current) /\ Head(script) \in Elems(script)
        /\ current \in Modules /\ chain \in Shapes /\ script \in Seq(CallsOf(current))
        /\ ScriptInv(script, current)
    BY CallFrameFacts, FirstCall
  <1>2. CASE raiseErrorReset
    <2>1. /\ \/ current = "builder" /\ chain = C0 /\ chain' = CP
             \/ current = "reader" /\ chain = CR /\ chain' = CE
          /\ Head(script) \in Named({"reset"})
      BY <1>2, ResetPlans
    <2>2. ASSUME NEW b \in Written, GiveData(b) \in Elems(script') PROVE FALSE
      <3>1. GiveData(b) \in CallsOf(current) /\ GiveData(b) \in Elems(script)
        BY <1>1, <2>2, ElemsSeq
      <3>2. current = "reader"
        BY <1>1, <2>1, <2>2, <3>1, WhoWrites
      <3>3. Head(script) \in Named({"reset", "endError"})
        BY <2>1, NamedMore
      <3>4. script \in Seq(Named({"reset", "endError", "return"}))
        BY <1>1, <3>2, <3>3 DEF ScriptInv
      <3>5. QED BY <3>1, <3>4, ElemsSeq, CallsDiffer
    <2>3. QED BY <2>1, <2>2, ShapesAre
  <1>3. CASE insertAfter
    <2>1. Head(script) \in Named({"insertAfter"}) /\ current = "builder" /\ chain' = InsertAfter(Position(current), "reader")
      BY <1>1, <1>3, CallNamed DEF insertAfter, Calls
    <2>2. chain = C0
      BY <1>1, <2>1 DEF ChainInv, Running
    <2>3. chain' = CR
      BY <2>1, <2>2, ChainChanges
    <2>4. ASSUME NEW b \in Written, GiveData(b) \in Elems(script') PROVE FALSE
      <3>1. GiveData(b) \in CallsOf("builder")
        BY <1>1, <2>1, <2>4, ElemsSeq
      <3>2. "builder" \in Modules
        BY DEF Modules
      <3>3. QED BY <2>4, <3>1, <3>2, WhoWrites
    <2>5. QED BY <2>2, <2>3, <2>4, ShapesAre
  <1>4. CASE ~(raiseErrorReset \/ insertAfter)
    <2>1. chain' = chain /\ Call \notin {"reset", "insertAfter"}
      BY <1>4, CallCases DEF ApiCall, giveData, needWrite, needRead, callLater, raiseEnd, raiseErrorEnd,
             release, endInput, returns, throws, notifyEndTask
    <2>2. Head(script) \notin Named({"reset", "insertAfter"})
      BY <1>1, <2>1 DEF Named
    <2>3. CASE returns
      <3>1. Head(script) \in LastCalls
        BY <1>1, <2>3, CallNamed DEF returns, Calls, LastCalls, Named
      <3>2. script' = <<>>
        BY <1>1, <3>1, TailOfScript
      <3>3. QED BY <2>1, <2>2, <3>2, NothingAsked
    <2>4. CASE ~returns
      <3>1. current' = current
        BY <1>4, <2>4 DEF ApiCall, giveData, needWrite, needRead, callLater, raiseEnd, raiseErrorEnd,
             release, endInput, throws, notifyEndTask
      <3>2. QED BY <1>1, <2>1, <2>2, <3>1
    <2>5. QED BY <2>3, <2>4
  <1>5. QED BY <1>2, <1>3, <1>4

\* A call of a module, part by part.
LEMMA CallKeepsLined ==
    ASSUME ChainInv, ChainInv', ApiCall, Orderly
    PROVE  Lined'
  <1>1. /\ sent' = sent /\ Elems(script') \subseteq Elems(script) /\ script # <<>> /\ Head(script) \in Elems(script)
    BY CallFrameFacts, FirstCall
  <1>2. Lined /\ Supplied
    BY DEF Orderly
  <1>3. Elems(sent) \subseteq Written /\ Elems(sent) \subseteq Spent'
    BY <1>2, SpentStays DEF Lined, Next
  <1>4. \A b \in Written : NeedWrite(b) \in Elems(script') => b \in Elems(sent)
    BY <1>1, <1>2 DEF Lined
  <1> DEFINE Q == Queue(rt)
             R == Queue(rt')
             S == Elems(sent)
  <1>5. Sorted(R, S) /\ \A y \in S, b \in Elems(R) \ S : Rank(y) <= Rank(b)
    <2>1. CASE R = Q
      BY <1>2, <2>1 DEF Lined
    <2>2. CASE R = Append(Q, Arg) /\ Arg \in Written /\ (PutsBack(Arg) \/ GivesOut(Arg))
      <3>1. Q \in Seq(Written) /\ Elems(R) = Elems(Q) \cup {Arg}
        BY <2>2, CallQueue, AppendElems
      <3>2. Arg \in S \/ \A y \in S \cup Elems(Q) : Rank(y) <= Rank(Arg)
        <4>1. CASE PutsBack(Arg)
          BY <1>1, <1>2, <2>2, <4>1 DEF PutsBack, Lined
        <4>2. CASE GivesOut(Arg)
          <5>1. Arg \in Upstream
            BY <1>1, <2>2, <4>2 DEF GivesOut, Upstream, Given
          <5>2. QED BY <1>2, <5>1 DEF Supplied, Ahead
        <4>3. QED BY <2>2, <4>1, <4>2
      <3>3. Sorted(Q, S) /\ \A y \in S, b \in Elems(Q) \ S : Rank(y) <= Rank(b)
        BY <1>2 DEF Lined
      <3> HIDE DEF Q, R, S
      <3>4. Sorted(Append(Q, Arg), S)
        BY <2>2, <3>1, <3>2, <3>3, SortedAppend
      <3>5. QED BY <2>2, <3>1, <3>2, <3>3, <3>4
    <2>3. QED BY <2>1, <2>2, CallQueue
  <1>6. Injective(sent) => Sorted(sent, {})
    BY <1>2 DEF Lined
  <1>7. QED BY <1>1, <1>3, <1>4, <1>5, <1>6 DEF Lined

\* What a call can make of what follows.
LEMMA CallSupply ==
    ASSUME ChainInv, ChainInv', ApiCall, Orderly
    PROVE  /\ \A b \in Written : Given(b)' => /\ Given(b) /\ current' = current /\ chain' = chain
                                              /\ AddCalls(current', chain') = AddCalls(current, chain)
           /\ \A b \in Written : Coming(b)' => Coming(b) \/ GivesOn(b)
           /\ Upstream' \subseteq Upstream /\ Passing' \subseteq Passing
           /\ Ahead' \subseteq Ahead \cup {b \in Written : GivesOut(b)}
  <1>1. /\ sent' = sent /\ Elems(script') \subseteq Elems(script) /\ script # <<>> /\ Head(script) \in Elems(script)
    BY CallFrameFacts, FirstCall
  <1>2. ASSUME NEW b \in Written, Given(b)'
        PROVE  /\ Given(b) /\ current' = current /\ chain' = chain /\ AddCalls(current', chain') = AddCalls(current, chain)
    <2>1. /\ Given(b) /\ current' = current /\ chain' = chain
      BY <1>2, CallChain DEF Given
    <2>2. QED BY <2>1
  <1>3. \A b \in Written : Coming(b)' => Coming(b) \/ GivesOn(b)
    BY CallBrings
  <1>4. Upstream' \subseteq Upstream
    BY <1>1, <1>2, <1>3 DEF Upstream, Given, GivesOn
  <1>5. Passing' \subseteq Passing
    <2> SUFFICES ASSUME NEW b \in Written, Coming(b)' \/ GiveData(b) \in Elems(script') \cap AddCalls(current', chain')
                 PROVE  b \in Passing
      BY DEF Passing
    <2>1. CASE Coming(b)'
      BY <1>1, <1>3, <2>1 DEF Passing, GivesOn
    <2>2. CASE GiveData(b) \in Elems(script') \cap AddCalls(current', chain')
      <3>1. Given(b)'
        BY <2>2 DEF Given
      <3>2. QED BY <1>2, <2>2, <3>1 DEF Passing, Given
    <2>3. QED BY <2>1, <2>2
  <1>6. Ahead' \subseteq Ahead \cup {b \in Written : GivesOut(b)}
    <2>1. CASE Queue(rt') = Queue(rt)
      BY <1>1, <2>1 DEF Ahead
    <2>2. CASE Queue(rt') = Append(Queue(rt), Arg) /\ Arg \in Written /\ (PutsBack(Arg) \/ GivesOut(Arg))
      <3>1. Elems(Queue(rt')) = Elems(Queue(rt)) \cup {Arg}
        BY <2>2, CallQueue, AppendElems
      <3>2. PutsBack(Arg) => Arg \in Elems(sent)
        BY <1>1, <2>2 DEF Orderly, Lined, PutsBack
      <3>3. QED BY <1>1, <2>2, <3>1, <3>2 DEF Ahead
    <2>3. QED BY <2>1, <2>2, CallQueue
  <1>7. QED BY <1>2, <1>3, <1>4, <1>5, <1>6

LEMMA CallKeepsSupplied ==
    ASSUME ChainInv, ChainInv', ApiCall, Orderly
    PROVE  Supplied'
  <1>1. /\ script' = Tail(script) /\ script # <<>> /\ Head(script) = script[1] /\ script \in Seq(CallsOf(current))
        /\ Head(script) \in Elems(script)
    BY CallFrameFacts, FirstCall
  <1>2. /\ 1 \in DOMAIN script /\ \A i \in DOMAIN script' : i \in Nat \ {0} /\ i + 1 \in DOMAIN script /\ script'[i] = script[i + 1]
    BY <1>1, TailElems
  <1>3. Supplied
    BY DEF Orderly
  <1>4. /\ \A b \in Written : Given(b)' => /\ Given(b) /\ current' = current /\ chain' = chain
                                           /\ AddCalls(current', chain') = AddCalls(current, chain)
        /\ \A b \in Written : Coming(b)' => Coming(b) \/ GivesOn(b)
        /\ Upstream' \subseteq Upstream /\ Passing' \subseteq Passing
        /\ Ahead' \subseteq Ahead \cup {b \in Written : GivesOut(b)}
    BY CallSupply
  <1>5. \A i \in DOMAIN script, j \in DOMAIN script, b \in Written, c \in Written :
           i < j /\ script[i] = GiveData(b) /\ script[j] = GiveData(c) => Rank(b) <= Rank(c)
    BY <1>3 DEF Supplied
  <1>6. ASSUME NEW y \in Ahead', NEW b \in Upstream' PROVE Rank(y) <= Rank(b)
    <2>1. b \in Upstream /\ b \in Written
      BY <1>4, <1>6 DEF Upstream
    <2>2. CASE y \in Ahead
      BY <1>3, <2>1, <2>2 DEF Supplied
    <2>3. CASE y \in Written /\ GivesOut(y)
      <3>1. script[1] = GiveData(y) /\ Given(y)
        BY <1>1, <2>3 DEF GivesOut, Given
      <3>2. CASE Given(b)'
        <4>1. PICK i \in DOMAIN script' : script'[i] = GiveData(b)
          BY <3>2 DEF Given, Elems
        <4>2. 1 < i + 1 /\ i + 1 \in DOMAIN script /\ script[i + 1] = GiveData(b)
          BY <1>2, <4>1
        <4>3. QED BY <1>2, <1>5, <2>1, <2>3, <3>1, <4>2
      <3>3. CASE Coming(b)'
        <4>1. Coming(b)
          <5>1. ~GivesOn(b)
            BY <2>3, CallsDiffer DEF GivesOn, GivesOut
          <5>2. QED BY <1>4, <2>1, <3>3, <5>1
        <4>2. QED BY <1>3, <2>1, <2>3, <3>1, <4>1 DEF Supplied
      <3>4. QED BY <1>6, <3>2, <3>3 DEF Upstream
    <2>4. QED BY <1>4, <1>6, <2>2, <2>3
  <1>7. ASSUME NEW b \in Written, NEW c \in Written, Given(b)', Coming(c)' PROVE Rank(b) <= Rank(c)
    <2>1. Given(b) /\ current' = current /\ chain' = chain
      BY <1>4, <1>7
    <2>2. CASE Coming(c)
      BY <1>3, <1>7, <2>1, <2>2 DEF Supplied
    <2>3. CASE GivesOn(c)
      <3>1. AddCalls(current, chain) = Gives(Buffers)
        BY <2>3 DEF AddCalls, GivesOn
      <3>2. GiveData(b) \in Gives(Buffers)
        BY <1>7, CallsDiffer, BufferSets
      <3>3. b \in Passing /\ c \in Passing
        BY <1>1, <1>7, <2>1, <2>3, <3>1, <3>2 DEF Passing, Given, GivesOn
      <3>4. Rank(b) = Rank(c)
        BY <1>3, <3>3 DEF Supplied
      <3>5. QED BY <1>7, <3>4, Ranks
    <2>4. QED BY <1>4, <1>7, <2>2, <2>3
  <1>8. ASSUME NEW i \in DOMAIN script', NEW j \in DOMAIN script', NEW b \in Written, NEW c \in Written,
               i < j, script'[i] = GiveData(b), script'[j] = GiveData(c)
        PROVE  Rank(b) <= Rank(c)
    BY <1>2, <1>5, <1>8
  <1>9. \A b, c \in Passing' : Rank(b) = Rank(c)
    BY <1>3, <1>4 DEF Supplied
  <1>10. QED BY <1>6, <1>7, <1>8, <1>9 DEF Supplied

LEMMA CallSends ==
    ASSUME ChainInv, ApiCall, Sending'
    PROVE  Sending
  <1>1. Elems(script') \subseteq Elems(script) /\ Elems(script) = Elems(script') \cup {Head(script)} /\ caller = "running"
    BY CallFrameFacts
  <1>2. rt.has_error => rt'.has_error
    BY CallKeepsError
  <1>3. Head(script) \in Named({"throw"}) => rt'.has_error
    BY CallKeepsError
  <1>4. caller' # "dispatching"
    BY <1>1 DEF ApiCall, giveData, needWrite, needRead, callLater, raiseEnd, raiseErrorReset, raiseErrorEnd,
           release, insertAfter, endInput, returns, throws, notifyEndTask, Calls
  <1>5. QED BY <1>1, <1>2, <1>3, <1>4 DEF Sending

LEMMA CallKeepsChunked ==
    ASSUME ChainInv, ChainInv', ApiCall, Orderly
    PROVE  Chunked'
  <1>1. /\ script' = Tail(script) /\ script # <<>> /\ Head(script) = script[1] /\ script \in Seq(CallsOf(current))
        /\ sent' = sent
    BY CallFrameFacts, FirstCall
  <1>2. /\ 1 \in DOMAIN script /\ DOMAIN script = 1..Len(script) /\ Len(script) \in Nat
        /\ DOMAIN script' = 1..(Len(script) - 1) /\ \A i \in DOMAIN script' : script'[i] = script[i + 1]
        /\ script' = <<>> <=> Len(script) = 1
    BY <1>1, TailElems
  <1>3. Chunked
    BY DEF Orderly
  <1>4. \A b \in Written : Given(b)' => AddCalls(current', chain') = AddCalls(current, chain)
    BY CallSupply
  <1> DEFINE Next1(i, b) == \E c \in Written : /\ script[i] = GiveData(c) /\ ChunkInfo(c) = b
                                               /\ GiveData(c) \notin AddCalls(current, chain)
  <1>5. ASSUME NEW i \in DOMAIN script', NEW b \in Infos, script'[i] = GiveData(b)
        PROVE  /\ i + 1 \in DOMAIN script'
               /\ \E c \in Written : /\ script'[i + 1] = GiveData(c) /\ ChunkInfo(c) = b
                                     /\ GiveData(c) \notin AddCalls(current', chain')
    <2>1. i + 1 \in DOMAIN script /\ script[i + 1] = GiveData(b)
      BY <1>2, <1>5
    <2>2. (i + 1) + 1 \in DOMAIN script
      BY <1>3, <1>5, <2>1 DEF Chunked
    <2>0. i \in Nat /\ Len(script) \in Nat /\ (i + 1) + 1 <= Len(script)
      BY <1>2, <1>5, <2>2
    <2>9. i + 1 \in 1..(Len(script) - 1)
      BY <2>0
    <2>3. i + 1 \in DOMAIN script' /\ script'[i + 1] = script[i + 2]
      BY <1>2, <2>0, <2>9
    <2>4. PICK c \in Written : script[(i + 1) + 1] = GiveData(c) /\ ChunkInfo(c) = b /\ GiveData(c) \notin AddCalls(current, chain)
      BY <1>3, <1>5, <2>1 DEF Chunked
    <2>5. (i + 1) + 1 = i + 2
      BY <2>0
    <2>6. Given(c)'
      BY <2>3, <2>4, <2>5 DEF Given, Elems
    <2>7. QED BY <1>4, <2>3, <2>4, <2>5, <2>6
  <1> DEFINE Q == Queue(rt)
             R == Queue(rt')
             S == Elems(sent)
  <1>6. /\ Q \in Seq(Written) /\ DOMAIN Q = 1..Len(Q) /\ Len(Q) \in Nat
        /\ \/ R = Append(Q, Arg) /\ Arg \in Written /\ (PutsBack(Arg) \/ GivesOut(Arg))
           \/ R = Q
        /\ \A c \in Written : GivesNext(c) => Arg = c /\ R = Append(Q, c)
    <2>1. \A c \in Written : GivesNext(c) => Head(script) = GiveData(c) /\ GiveData(c) \notin AddCalls(current, chain)
      BY <1>1 DEF GivesNext
    <2>2. QED BY <2>1, CallQueue, LenProperties
  <1>7. R = Append(Q, Arg) /\ Arg \in Written =>
           /\ DOMAIN R = 1..(Len(Q) + 1) /\ R # <<>> /\ Len(R) = Len(Q) + 1
           /\ \A i \in 1..Len(Q) : R[i] = Q[i]
           /\ R[Len(Q) + 1] = Arg /\ R \in Seq(Written)
    <2> HIDE DEF Q, R
    <2>1. SUFFICES ASSUME R = Append(Q, Arg), Arg \in Written
                   PROVE  /\ DOMAIN R = 1..(Len(Q) + 1) /\ R # <<>> /\ Len(R) = Len(Q) + 1
                          /\ \A i \in 1..Len(Q) : R[i] = Q[i]
                          /\ R[Len(Q) + 1] = Arg /\ R \in Seq(Written)
      OBVIOUS
    <2>0. Q \in Seq(Written) /\ Arg \in Written
      BY <1>6, <2>1
    <2>4. /\ Append(Q, Arg) \in Seq(Written) /\ Append(Q, Arg) # <<>>
          /\ DOMAIN Append(Q, Arg) = 1..(Len(Q) + 1)
          /\ \A i \in 1..Len(Q) : Append(Q, Arg)[i] = Q[i]
          /\ Append(Q, Arg)[Len(Q) + 1] = Arg
      BY <2>0, AppendElems
    <2>2. /\ R \in Seq(Written) /\ R # <<>> /\ DOMAIN R = 1..(Len(Q) + 1)
          /\ \A i \in 1..Len(Q) : R[i] = Q[i]
          /\ R[Len(Q) + 1] = Arg
      BY <2>1, <2>4
    <2>3. Len(R) = Len(Q) + 1
      BY <1>6, <2>1, AppendProperties
    <2>5. QED BY <2>2, <2>3
  <1>8. /\ \A i \in DOMAIN Q : Q[i] \in Infos \ S =>
              IF i < Len(Q) THEN ChunkInfo(Q[i + 1]) = Q[i]
              ELSE \E c \in Written : GivesNext(c) /\ ChunkInfo(c) = Q[i]
        /\ Injective(sent) => \A i \in DOMAIN sent : sent[i] \in Infos =>
              IF i < Len(sent) THEN ChunkInfo(sent[i + 1]) = sent[i]
              ELSE Sending => Q # <<>> /\ ChunkInfo(Q[1]) = sent[i]
    BY <1>3 DEF Chunked
  <1>9. Q = <<>> => Len(Q) = 0
    OBVIOUS
  <1>10. Q # <<>> => Len(Q) # 0
    BY <1>6
  <1> HIDE DEF Q, R, S
  <1>11. ASSUME NEW i \in DOMAIN R, R[i] \in Infos \ S
         PROVE  IF i < Len(R) THEN ChunkInfo(R[i + 1]) = R[i]
                ELSE \E c \in Written : GivesNext(c)' /\ ChunkInfo(c) = R[i]
    <2>1. CASE i \in DOMAIN Q /\ i < Len(Q)
      <3>1. ChunkInfo(Q[i + 1]) = Q[i] \/ Q[i] \notin Infos \ S
        BY <1>8, <2>1
      <3>2. CASE R = Q
        BY <1>11, <2>1, <3>1, <3>2
      <3>3. CASE R = Append(Q, Arg) /\ Arg \in Written
        <4>0. i \in 1..Len(Q) /\ i + 1 \in 1..Len(Q) /\ i < Len(Q) + 1
          BY <1>6, <2>1
        <4>1. R[i] = Q[i] /\ R[i + 1] = Q[i + 1] /\ i < Len(R)
          BY <1>7, <3>3, <4>0
        <4>2. QED BY <1>11, <3>1, <4>1
      <3>4. QED BY <1>6, <3>2, <3>3
    <2>2. CASE i = Len(Q) /\ i \in DOMAIN Q
      <3>1. R[i] = Q[i]
        BY <1>6, <1>7, <2>2
      <3>2. PICK c \in Written : GivesNext(c) /\ ChunkInfo(c) = Q[i]
        BY <1>8, <1>11, <2>2, <3>1
      <3>3. R = Append(Q, Arg) /\ Arg = c
        BY <1>6, <3>2
      <3>0. i < Len(Q) + 1
        BY <1>6, <2>2
      <3>4. i < Len(R) /\ R[i + 1] = c
        BY <1>7, <2>2, <3>0, <3>3
      <3>5. QED BY <3>1, <3>2, <3>4
    <2>3. CASE i \notin DOMAIN Q
      <3>1. R = Append(Q, Arg) /\ Arg \in Written /\ (PutsBack(Arg) \/ GivesOut(Arg))
        BY <1>6, <1>11, <2>3
      <3>0. i \in 1..(Len(Q) + 1) /\ i \notin 1..Len(Q)
        BY <1>6, <1>7, <1>11, <2>3, <3>1
      <3>11. i = Len(Q) + 1
        BY <1>6, <3>0
      <3>2. i = Len(Q) + 1 /\ R[i] = Arg /\ i = Len(R)
        BY <1>7, <3>1, <3>11
      <3>3. GivesOut(Arg)
        <4>1. PutsBack(Arg) => Arg \in S
          BY <1>1, <3>1, FirstCall DEF Orderly, Lined, PutsBack, S
        <4>2. QED BY <1>11, <3>1, <3>2, <4>1
      <3>4. script[1] = GiveData(Arg) /\ Arg \in Infos
        BY <1>1, <1>11, <3>2, <3>3 DEF GivesOut
      <3>5. /\ 1 + 1 \in DOMAIN script
            /\ \E c \in Written : /\ script[1 + 1] = GiveData(c) /\ ChunkInfo(c) = Arg
                                  /\ GiveData(c) \notin AddCalls(current, chain)
        BY <1>2, <1>3, <3>4 DEF Chunked
      <3>6. PICK c \in Written : /\ script[2] = GiveData(c) /\ ChunkInfo(c) = Arg
                                 /\ GiveData(c) \notin AddCalls(current, chain)
        BY <3>5
      <3>7. script' # <<>> /\ 1 \in DOMAIN script' /\ script'[1] = GiveData(c)
        BY <1>2, <3>5, <3>6
      <3>8. Given(c)'
        BY <3>7 DEF Given, Elems
      <3>9. GivesNext(c)'
        BY <1>4, <3>6, <3>7, <3>8 DEF GivesNext
      <3>10. QED BY <3>2, <3>6, <3>9
    <2>4. QED BY <1>6, <2>1, <2>2, <2>3
  <1>12. ASSUME Injective(sent), NEW i \in DOMAIN sent, sent[i] \in Infos
         PROVE  IF i < Len(sent) THEN ChunkInfo(sent[i + 1]) = sent[i]
                ELSE Sending' => R # <<>> /\ ChunkInfo(R[1]) = sent[i]
    <2>1. Q # <<>> => R # <<>> /\ R[1] = Q[1]
      BY <1>6, <1>7, <1>10
    <2>2. Sending' => Sending
      BY CallSends
    <2>3. QED BY <1>8, <1>12, <2>1, <2>2
  <1>13. QED BY <1>1, <1>5, <1>11, <1>12 DEF Chunked, R, S

LEMMA CallKeepsHeaded ==
    ASSUME ChainInv, ChainInv', ApiCall, Orderly, WritersRoom
    PROVE  Headed'
  <1>1. /\ script # <<>> /\ Head(script) = script[1] /\ Head(script) \in CallsOf(current) /\ current \in Modules
        /\ sent' = sent /\ pob' = pob /\ builded' = builded /\ chain \in Shapes
    BY CallFrameFacts, FirstCall
  <1>2. Headed
    BY DEF Orderly
  <1>3. /\ chain' = chain \/ (chain = C0 /\ chain' \in {CP, CR}) \/ (chain = CR /\ chain' = CE)
        /\ Head(script) \in Named({"reset", "insertAfter"}) /\ chain = C0 => chain' # C0
    BY CallChain
  <1>4. /\ chain' # CP => chain # CP
        /\ chain' = C0 => chain = C0
    BY <1>3, ShapesAre
  <1>5. ASSUME chain' # CP, sent = <<>>, pob.headers, Sending'
        PROVE  Queue(rt') # <<>> /\ Queue(rt')[1] = Headers
    <2>1. IF Queue(rt) = <<>> THEN GivesNext(Headers) ELSE Queue(rt)[1] = Headers
      BY <1>2, <1>4, <1>5, CallSends DEF Headed
    <2>2. CASE Queue(rt) = <<>>
      <3>1. Head(script) = GiveData(Headers) /\ GiveData(Headers) \notin AddCalls(current, chain)
        BY <1>1, <2>1, <2>2 DEF GivesNext
      <3>2. Queue(rt') = Append(Queue(rt), Headers) /\ Headers \in Written /\ Queue(rt) \in Seq(Written)
        BY <3>1, CallQueue, BufferSets
      <3>3. Queue(rt') # <<>> /\ Queue(rt')[Len(Queue(rt)) + 1] = Headers
        BY <3>2, AppendElems
      <3>4. Len(Queue(rt)) + 1 = 1
        BY <2>2
      <3>5. QED BY <3>3, <3>4
    <2>3. CASE Queue(rt) # <<>>
      <3>1. Queue(rt)[1] = Headers /\ Queue(rt) \in Seq(Written)
        BY <2>1, <2>3, CallQueue
      <3>2. 1 \in 1..Len(Queue(rt))
        BY <2>3, <3>1, TailElems
      <3>3. CASE Queue(rt') = Append(Queue(rt), Arg) /\ Arg \in Written
        <4>1. Queue(rt') # <<>> /\ Queue(rt')[1] = Queue(rt)[1]
          BY <3>1, <3>2, <3>3, AppendElems
        <4>2. QED BY <3>1, <4>1
      <3>4. QED BY <2>3, <3>1, <3>3, CallQueue
    <2>4. QED BY <2>2, <2>3
  <1>6. ASSUME chain' = C0, builded PROVE FALSE
    BY <1>1, <1>2, <1>3, <1>4, <1>6 DEF Headed
  <1>7. ASSUME chain' = CP PROVE Ahead' \subseteq Pages
    <2>1. CASE chain = CP
      <3>1. Ahead \subseteq Pages /\ Ahead' \subseteq Ahead \cup {b \in Written : GivesOut(b)}
        BY <1>2, <2>1, CallSupply DEF Headed
      <3>2. ASSUME NEW b \in Written, GivesOut(b) PROVE b \in Pages
        BY <1>1, <2>1, <3>2, WhoWrites DEF GivesOut
      <3>3. QED BY <3>1, <3>2
    <2>2. CASE chain # CP
      <3>1. chain = C0
        BY <1>3, <1>7, <2>2, ShapesAre
      <3>2. ~pob.headers /\ sent = <<>>
        BY <1>2, <2>2, <3>1 DEF Headed
      <3>3. Queue(rt) = <<>>
        BY <2>2, <3>2, CallQueue DEF WritersRoom
      <3>4. Ahead = {}
        BY <3>2, <3>3, NothingAsked DEF Ahead
      <3>5. Ahead' \subseteq {b \in Written : GivesOut(b)}
        BY <3>4, CallSupply
      <3>6. ASSUME NEW b \in Written, GivesOut(b) PROVE FALSE
        <4>1. current = "pob"
          BY <2>2, <3>6 DEF GivesOut
        <4>2. Head(script) \in Elems(script)
          BY <1>1, FirstCall
        <4>3. GiveData(b) \in Elems(script) \cap Gives(Buffers)
          BY <3>6, <4>2, CallsDiffer, BufferSets DEF GivesOut
        <4>4. QED BY <2>2, <3>2, <4>1, <4>3 DEF WritersRoom
      <3>7. QED BY <3>5, <3>6
    <2>3. QED BY <2>1, <2>2
  <1>8. QED BY <1>1, <1>2, <1>4, <1>5, <1>6, <1>7 DEF Headed

LEMMA ApiCallKeepsOrder ==
    ASSUME ChainInv, ChainInv', ApiCall, Orderly, WritersRoom
    PROVE  Orderly'
  BY CallKeepsLined, CallKeepsSupplied, CallKeepsChunked, CallKeepsHeaded DEF Orderly

\* A worker takes the first of what waits when it is to write.
LEMMA StartQueue ==
    ASSUME ChainInv, ChainInv', Start, Lined
    PROVE  /\ Queue(rt) \in Seq(Written) /\ Queue(rt') \in Seq(Written) /\ sent \in Seq(Written)
           /\ Elems(Queue(rt)) \subseteq Handed(rt)
           /\ \/ /\ task' \in WriteTasks /\ Queue(rt) # <<>> /\ Queue(rt)[1] = task'.buffer /\ task'.buffer \in Written
                 /\ Head(Queue(rt)) = task'.buffer /\ Queue(rt') = Tail(Queue(rt))
                 /\ \/ sent' = Append(sent, task'.buffer)
                    \/ sent' = sent /\ ~Sending'
              \/ task' \notin WriteTasks /\ Queue(rt') = Queue(rt) /\ sent' = sent
  <1>1. /\ caller = "dispatching" /\ caller' = "running" /\ task' = Head(rt.tasks) /\ ProcessRequest(task')
        /\ task' \in ChainTasks /\ Still(rt') /\ QueueInv(rt')
    BY StartFrame
  <1>2. rt'.write_buffers = rt.write_buffers /\ task' \in Elems(rt.tasks)
    BY StartTakes
  <1>3. rt.tasks # <<>> /\ QueueInv(rt)
    BY <1>1 DEF ChainInv, Bookkeeping, Ready
  <1>4. /\ Queue(rt) \in Seq(Written) /\ Elems(Queue(rt)) \subseteq Handed(rt)
        /\ task' \in WriteTasks =>
             Queue(rt) # <<>> /\ Head(Queue(rt)) = task'.buffer /\ Tail(Queue(rt)) = rt.write_buffers
        /\ task' \notin WriteTasks => Queue(rt) = rt.write_buffers
    BY <1>1, <1>3, QueueIs
  <1>5. Queue(rt') = rt.write_buffers /\ Queue(rt') \in Seq(Written)
    BY <1>1, <1>2, StillQueue, QueueIs
  <1>6. sent \in Seq(Written)
    <2>1. sent \in Seq(Buffers) /\ Elems(sent) \subseteq Written
      BY DEF Lined, ChainInv, TypeOK
    <2>2. QED BY <2>1, SeqOfElems
  <1>7. CASE task' \in WriteTasks
    <2>1. \/ sent' = Append(sent, task'.buffer)
          \/ sent' = sent /\ Throw(NoBuffer) \in Elems(script')
      BY <1>7, WriteAnswer
    <2>2. Throw(NoBuffer) \in Named({"throw"})
      BY DEF Throw, Named
    <2>3. Throw(NoBuffer) \in Elems(script') => ~Sending'
      BY <1>1, <2>2 DEF Sending
    <2>4. task'.buffer \in Written
      BY <1>1, <1>7, KindsAre
    <2>5. Queue(rt)[1] = task'.buffer
      BY <1>4, <1>7, TailElems
    <2>6. QED BY <1>4, <1>5, <1>6, <1>7, <2>1, <2>3, <2>4, <2>5
  <1>8. CASE task' \notin WriteTasks
    <2>1. sent' = sent
      <3>1. ~NetworkWrite(task')
        BY <1>1, <1>8, KindsAre DEF NetworkWrite
      <3>2. QED
        BY <1>1, <3>1 DEF ProcessRequest, NetworkRead, NetworkEnd, ParserIncomplete, ParserComplete, ParserEnd,
           BuilderFirst, BuilderAgain, ReaderIdle, ReaderEnd, ReaderData, ErrorEnd, ErrorData,
           PreOutputData, PreOutputEnd, PreOutputRequestData
    <2>2. QED BY <1>4, <1>5, <1>6, <1>8, <2>1
  <1>9. QED BY <1>7, <1>8

\* Short sequences, joined.
LEMMA ShortJoined ==
    ASSUME NEW a, NEW b, NEW c, NEW d
    PROVE  /\ (<<a>> \o <<b>>) \o <<c, d>> = <<a, b, c, d>>
           /\ (<<a>> \o <<>>) \o <<c, d>> = <<a, c, d>>
           /\ (<<>> \o <<b>>) \o <<c, d>> = <<b, c, d>>
           /\ (<<>> \o <<>>) \o <<c, d>> = <<c, d>>
  <1> DEFINE S == {a, b, c, d}
  <1>1. <<a>> \in Seq(S) /\ <<b>> \in Seq(S) /\ <<c, d>> \in Seq(S) /\ <<>> \in Seq(S)
    OBVIOUS
  <1>2. <<a>> \o <<>> = <<a>> /\ <<>> \o <<b>> = <<b>> /\ <<>> \o <<>> = <<>> /\ <<>> \o <<c, d>> = <<c, d>>
    <2> HIDE DEF S
    <2>1. QED BY <1>1, ConcatEmptySeq
  <1>3. <<b, c, d>> = <<b>> \o <<c, d>> /\ <<a, c, d>> = <<a>> \o <<c, d>> /\ <<a, b, c, d>> = <<a>> \o <<b, c, d>>
    <2> HIDE DEF S
    <2>1. <<b, c, d>> = <<b>> \o <<c, d>>
      BY ThreeIsConcat, Zenon
    <2>2. <<a, c, d>> = <<a>> \o <<c, d>>
      BY ThreeIsConcat, Zenon
    <2>3. <<a, b, c, d>> = <<a>> \o <<b, c, d>>
      BY FourIsConcat, Zenon
    <2>4. QED BY <2>1, <2>2, <2>3
  <1>4. (<<a>> \o <<b>>) \o <<c, d>> = <<a>> \o (<<b>> \o <<c, d>>)
    <2> HIDE DEF S
    <2>1. QED BY <1>1, ConcatAssociative
  <1>5. (<<a>> \o <<b>>) \o <<c, d>> = <<a, b, c, d>>
    BY <1>3, <1>4, Zenon
  <1>6. /\ (<<a>> \o <<>>) \o <<c, d>> = <<a, c, d>>
        /\ (<<>> \o <<b>>) \o <<c, d>> = <<b, c, d>>
        /\ (<<>> \o <<>>) \o <<c, d>> = <<c, d>>
    BY <1>2, <1>3, Zenon
  <1>7. QED BY <1>5, <1>6

\* What PreOutputBuilder answers data with, call by call.
LEMMA PassScript ==
    ASSUME ChainInv, ChainInv', Start, task' \in ResponseTasks
    PROVE  LET b == task'.buffer
           IN  /\ current' = "pob" /\ b \in Pages \cup DataBuffers /\ b \in Written /\ Coming(b) /\ chain # CP
               /\ ~pob.headers => script' # <<>> /\ script'[1] = GiveData(Headers)
               /\ \A i \in DOMAIN script', c \in Written : script'[i] = GiveData(c) =>
                     \/ c = Headers /\ ~pob.headers /\ i = 1
                     \/ b \in Pages /\ c = ChunkInfo(b) /\ i + 1 \in DOMAIN script' /\ script'[i + 1] = GiveData(b)
                     \/ c = b
  <1>0. SUFFICES ASSUME NEW CONSTANT b, b = task'.buffer
                 PROVE /\ current' = "pob" /\ b \in Pages \cup DataBuffers /\ b \in Written /\ Coming(b) /\ chain # CP
                       /\ ~pob.headers => script' # <<>> /\ script'[1] = GiveData(Headers)
                       /\ \A i \in DOMAIN script', c \in Written : script'[i] = GiveData(c) =>
                             \/ c = Headers /\ ~pob.headers /\ i = 1
                             \/ b \in Pages /\ c = ChunkInfo(b) /\ i + 1 \in DOMAIN script' /\ script'[i + 1] = GiveData(b)
                             \/ c = b
    OBVIOUS
  <1> DEFINE i == ChunkInfo(b)
             gh == GiveData(Headers)
             gi == GiveData(i)
             gb == GiveData(b)
             k == pob'.chunked
  <1>1. /\ ProcessRequest(task') /\ task' \in ChainTasks /\ task' \in Planned(rt) /\ current' = task'.module
    BY StartFrame
  <1>2. PreOutputData(task')
    BY <1>1, Handlers
  <1>3. /\ current' = "pob" /\ pob' = [headers |-> TRUE, chunked |-> pob.chunked \/ (~pob.headers /\ ~measured)]
        /\ script' = ((IF pob.headers THEN <<>> ELSE <<gh>>) \o (IF k THEN <<gi>> ELSE <<>>)) \o <<gb, Return>>
    BY <1>0, <1>1, <1>2 DEF PreOutputData, Runs
  <1>4. b \in Pages \cup DataBuffers /\ Coming(b)
    BY <1>0, <1>1, KindsAre DEF Coming
  <1>5. b \in Written /\ chain # CP
    BY <1>4, BufferSets, ShapesAre DEF ChainInv, Answering
  <1>6. k => b \in Pages
    <2> SUFFICES ASSUME k, b \in DataBuffers PROVE FALSE
      BY <1>4
    <2>1. chain = CR /\ measured
      BY <1>4 DEF ChainInv, Answering
    <2>2. ~pob.chunked
      BY <2>1, ShapesAre DEF ChainInv, Answering
    <2>3. k <=> pob.chunked \/ (~pob.headers /\ ~measured)
      BY <1>3
    <2>4. QED BY <2>1, <2>2, <2>3
  <1>7. \A c : /\ GiveData(c) = gh => c = Headers
               /\ GiveData(c) = gi => c = i
               /\ GiveData(c) = gb => c = b
               /\ GiveData(c) # Return
    BY CallsDiffer
  <1> HIDE DEF gh, gi, gb, i, k, Return
  <1>8. \/ ~pob.headers /\ k /\ script' = <<gh, gi, gb, Return>>
        \/ ~pob.headers /\ ~k /\ script' = <<gh, gb, Return>>
        \/ pob.headers /\ k /\ script' = <<gi, gb, Return>>
        \/ pob.headers /\ ~k /\ script' = <<gb, Return>>
    <2>1. CASE ~pob.headers /\ k
      <3>1. script' = (<<gh>> \o <<gi>>) \o <<gb, Return>>
        BY <1>3, <2>1
      <3>2. (<<gh>> \o <<gi>>) \o <<gb, Return>> = <<gh, gi, gb, Return>>
        BY ShortJoined
      <3>3. QED BY <2>1, <3>1, <3>2
    <2>2. CASE ~pob.headers /\ ~k
      <3>1. script' = (<<gh>> \o <<>>) \o <<gb, Return>>
        BY <1>3, <2>2
      <3>2. (<<gh>> \o <<>>) \o <<gb, Return>> = <<gh, gb, Return>>
        BY ShortJoined
      <3>3. QED BY <2>2, <3>1, <3>2
    <2>3. CASE pob.headers /\ k
      <3>1. script' = (<<>> \o <<gi>>) \o <<gb, Return>>
        BY <1>3, <2>3
      <3>2. (<<>> \o <<gi>>) \o <<gb, Return>> = <<gi, gb, Return>>
        BY ShortJoined
      <3>3. QED BY <2>3, <3>1, <3>2
    <2>4. CASE pob.headers /\ ~k
      <3>1. script' = (<<>> \o <<>>) \o <<gb, Return>>
        BY <1>3, <2>4
      <3>2. (<<>> \o <<>>) \o <<gb, Return>> = <<gb, Return>>
        BY ShortJoined
      <3>3. QED BY <2>4, <3>1, <3>2
    <2>5. QED BY <2>1, <2>2, <2>3, <2>4
  <1>9. ~pob.headers => script' # <<>> /\ script'[1] = gh
    BY <1>8
  <1>10. ASSUME NEW n \in DOMAIN script', NEW c \in Written, script'[n] = GiveData(c)
         PROVE  \/ c = Headers /\ ~pob.headers /\ n = 1
                \/ b \in Pages /\ c = i /\ n + 1 \in DOMAIN script' /\ script'[n + 1] = gb
                \/ c = b
    <2>1. CASE ~pob.headers /\ k /\ script' = <<gh, gi, gb, Return>>
      <3>1. n \in 1..4 /\ DOMAIN script' = 1..4 /\ script'[1] = gh /\ script'[2] = gi /\ script'[3] = gb /\ script'[4] = Return
        BY <2>1
      <3>2. QED BY <1>6, <1>7, <1>10, <2>1, <3>1
    <2>2. CASE ~pob.headers /\ ~k /\ script' = <<gh, gb, Return>>
      <3>1. n \in 1..3 /\ script'[1] = gh /\ script'[2] = gb /\ script'[3] = Return
        BY <2>2
      <3>2. QED BY <1>7, <1>10, <2>2, <3>1
    <2>3. CASE pob.headers /\ k /\ script' = <<gi, gb, Return>>
      <3>1. n \in 1..3 /\ DOMAIN script' = 1..3 /\ script'[1] = gi /\ script'[2] = gb /\ script'[3] = Return
        BY <2>3
      <3>2. QED BY <1>6, <1>7, <1>10, <2>3, <3>1
    <2>4. CASE pob.headers /\ ~k /\ script' = <<gb, Return>>
      <3>1. n \in 1..2 /\ script'[1] = gb /\ script'[2] = Return
        BY <2>4
      <3>2. QED BY <1>7, <1>10, <2>4, <3>1
    <2>5. QED BY <1>8, <2>1, <2>2, <2>3, <2>4
  <1>11. QED BY <1>3, <1>4, <1>5, <1>9, <1>10 DEF gh, gb, i

\* What a module that starts gives: nothing, what FileReader read, the pages, the
\* headers or the end of the answer, or what it passes on.
Only(S) == \A b \in Written : Given(b)' => b \in S
StartsGiving ==
    \/ Only({})
    \/ /\ current' = "reader" /\ task' \in IdleTasks \cup EndTasks /\ reader.left > 0
       /\ Data(FileSize - reader.left + 1) \in DataBuffers
       /\ Only({Data(FileSize - reader.left + 1)})
    \/ current' = "error" /\ task' \in EndTasks /\ Only(Pages)
    \/ current' = "pob" /\ task' \in EndTasks /\ ~pob.headers /\ Only({Headers})
    \/ current' = "pob" /\ task' \in EndTasks /\ pob.headers /\ Only({Final})
    \/ task' \in ResponseTasks

LEMMA StartGives ==
    ASSUME ChainInv, ChainInv', Start
    PROVE  StartsGiving
  <1>1. /\ current' = task'.module /\ task' \in ChainTasks /\ ProcessRequest(task') /\ current' \in Modules
    BY StartFrame
  <1>2. script' # <<>> => Elems(script') \subseteq CallsOf(current')
    BY ElemsSeq DEF ChainInv, Running, ScriptInv
  <1>3. \A b \in Written : Given(b)' => GiveData(b) \in CallsOf(current')
    BY <1>2, NothingAsked DEF Given
  <1>4. CASE current' \notin {"reader", "error", "pob"}
    <2>1. Only({})
      BY <1>1, <1>3, <1>4, WhoWrites DEF Only
    <2>2. QED BY <2>1 DEF StartsGiving
  <1>5. ASSUME Elems(script') \subseteq {Release(task'.buffer), EndInput, RaiseEnd, Return} \cup ErrorCalls
        PROVE  StartsGiving
    <2>1. Only({})
      BY <1>5, CallsDiffer DEF Only, Given
    <2>2. QED BY <2>1 DEF StartsGiving
  <1>6. CASE task' \in BodyTasks /\ current' \in {"reader", "error", "pob"}
    <2>1. Elems(script') \subseteq {Release(task'.buffer), EndInput, Return}
      BY <1>1, <1>6, BodyAnswer
    <2>2. QED BY <1>5, <2>1
  <1>7. CASE task' \in HeadersTasks
    <2>1. script' = <<Release(task'.buffer), Return>>
      BY <1>1, <1>7, Handlers DEF ErrorData, Runs
    <2>2. Elems(script') = {Release(task'.buffer), Return}
      BY <2>1, ShortScripts
    <2>3. QED BY <1>5, <2>2
  <1>8. CASE task' \in ResponseTasks
    BY <1>8 DEF StartsGiving
  <1>9. ASSUME NEW r, r.left = reader.left, ReadsOne(r), current' = "reader", task' \in IdleTasks \cup EndTasks
        PROVE  StartsGiving
    <2> DEFINE d == Data(FileSize - reader.left + 1)
    <2>1. r.left > 0 /\ Elems(script') = {GiveData(d), CallLater, Return}
      BY <1>9 DEF ReadsOne
    <2>2. reader.left \in 0..FileSize
      BY DEF ChainInv, TypeOK
    <2>3. FileSize - reader.left + 1 \in 1..FileSize
      BY <1>9, <2>1, <2>2, RequestChainAssumption
    <2>4. d \in DataBuffers
      BY <2>3 DEF DataBuffers
    <2> HIDE DEF d
    <2>5. Only({d})
      BY <2>1, CallsDiffer DEF Only, Given
    <2>6. QED BY <1>9, <2>1, <2>4, <2>5 DEF StartsGiving, d
  <1>10. CASE task' \in IdleTasks
    <2>1. /\ current' = "reader"
          /\ \/ Elems(script') = {RaiseEnd, Return}
             \/ ReadsOne(reader)
             \/ Elems(script') = ErrorCalls \cup {Return}
      BY <1>10, IdleAnswer
    <2>2. QED BY <1>5, <1>9, <1>10, <2>1
  <1>11. CASE task' \in EndTasks /\ current' = "reader"
    <2> DEFINE r == [reader EXCEPT !.open = TRUE]
    <2>1. ReaderAtEnd
      BY <1>1, <1>11, EndAnswer
    <2>2. r.left = reader.left
      BY DEF ChainInv, TypeOK
    <2>3. \/ Elems(script') \subseteq {RaiseEnd, Return} \cup ErrorCalls
          \/ ReadsOne(r)
      BY <2>1 DEF ReaderAtEnd
    <2> HIDE DEF r
    <2>4. QED BY <1>5, <1>9, <1>11, <2>2, <2>3
  <1>12. CASE task' \in EndTasks /\ current' = "error"
    <2>1. Elems(script') = {GiveData(Padding), GiveData(Page), RaiseEnd, Return}
      BY <1>1, <1>12, EndAnswer
    <2>2. Only(Pages)
      BY <2>1, CallsDiffer DEF Only, Given, Pages
    <2>3. QED BY <1>12, <2>2 DEF StartsGiving
  <1>13. CASE task' \in EndTasks /\ current' = "pob"
    <2>1. Elems(script') = (IF ~pob.headers THEN {GiveData(Headers)}
                            ELSE IF pob.chunked THEN {GiveData(Final)} ELSE {}) \cup {RaiseEnd, Return}
      BY <1>1, <1>13, EndAnswer
    <2>2. CASE ~pob.headers
      <3>1. Only({Headers})
        BY <2>1, <2>2, CallsDiffer DEF Only, Given
      <3>2. QED BY <1>13, <2>2, <3>1 DEF StartsGiving
    <2>3. CASE pob.headers
      <3>1. Only({Final})
        BY <2>1, <2>3, CallsDiffer DEF Only, Given
      <3>2. QED BY <1>13, <2>3, <3>1 DEF StartsGiving
    <2>4. QED BY <2>2, <2>3
  <1>14. QED BY <1>1, <1>4, <1>6, <1>7, <1>8, <1>10, <1>11, <1>12, <1>13, KindsAre

\* Whoever gives something of its own finds nothing on its way to PreOutputBuilder.
LEMMA StartComing ==
    ASSUME ChainInv, Start
    PROVE  /\ \A b : Coming(b)' => Coming(b)
           /\ task' \in IdleTasks \cup EndTasks => \A b : ~Coming(b)'
  <1>1. /\ Planned(rt') \subseteq Planned(rt) /\ task' = Head(rt.tasks) /\ QueueInv(rt') /\ caller = "dispatching"
    BY StartFrame
  <1>2. \A b : Coming(b)' => Coming(b)
    BY <1>1 DEF Coming
  <1>3. ASSUME task' \in IdleTasks \cup EndTasks, NEW b, Coming(b)' PROVE FALSE
    <2>1. PICK t \in Planned(rt') : t \in ResponseTasks
      BY <1>3 DEF Coming
    <2>2. t \in Elems(rt'.tasks) /\ t \in FrontTasks
      BY <1>1, <2>1, TaskSets DEF Planned, QueueInv, QueueType, FrontTasks, DataTasks
    <2>3. task' \notin FrontTasks
      BY <1>3, TaskSets
    <2>4. /\ rt'.tasks = Tail(rt.tasks) /\ SamePlans(rt, rt') /\ rt'.wait_read = rt.wait_read
      BY <1>1, TakeEffect, StartFrame DEF SameWaits
    <2>5. FewFronts(rt'.tasks, 0)
      BY <1>1, <2>3, <2>4, TakeTask DEF ChainInv, Bookkeeping
    <2>6. PICK i \in DOMAIN rt'.tasks : rt'.tasks[i] = t
      BY <2>2 DEF Elems
    <2>7. i \in 1..Len(rt'.tasks)
      BY <1>1, LenProperties DEF QueueInv, QueueType
    <2>8. QED BY <2>2, <2>5, <2>6, <2>7 DEF FewFronts
  <1>4. QED BY <1>2, <1>3

\* The headers are the first thing PreOutputBuilder gives.
LEMMA HeadersAtOnce ==
    ASSUME ChainInv, ChainInv', Start, ~pob.headers, pob'.headers
    PROVE  current' = "pob" /\ script' # <<>> /\ script'[1] = GiveData(Headers)
  <1>1. task' \in ChainTasks /\ ProcessRequest(task') /\ current' = task'.module
    BY StartFrame
  <1>2. PreOutputData(task') \/ PreOutputEnd(task')
    <2>1. pob' # pob
      OBVIOUS
    <2>2. QED
      BY <1>1, <2>1 DEF ProcessRequest, NetworkRead, NetworkWrite, NetworkEnd, ParserIncomplete, ParserComplete, ParserEnd,
         BuilderFirst, BuilderAgain, ReaderIdle, ReaderEnd, ReaderData, ErrorEnd, ErrorData, PreOutputRequestData, SameModules
  <1>3. CASE PreOutputData(task')
    <2>1. task'.event = "ON_RESPONSE_DATA"
      BY <1>3 DEF PreOutputData
    <2>2. task' \in ResponseTasks
      BY <1>1, <2>1, TaskKinds
    <2>3. QED BY <2>2, PassScript
  <1>4. CASE PreOutputEnd(task')
    <2> DEFINE g == GiveData(Headers)
    <2>1. current' = "pob" /\ script' = <<g>> \o <<RaiseEnd, Return>>
      BY <1>1, <1>4 DEF PreOutputEnd, Runs
    <2> HIDE DEF g, RaiseEnd, Return
    <2>2. <<g>> \o <<RaiseEnd, Return>> = <<g, RaiseEnd, Return>>
      BY ThreeIsConcat, Zenon
    <2>3. script' # <<>> /\ script'[1] = g
      BY <2>1, <2>2
    <2>4. QED BY <2>1, <2>3 DEF g
  <1>5. QED BY <1>2, <1>3, <1>4

\* The first thing Builder does is to raise an error or to put FileReader behind it.
LEMMA BuildsFirst ==
    ASSUME ChainInv, Start, ~builded, builded'
    PROVE  script' # <<>> /\ script'[1] \in Named({"reset", "insertAfter"})
  <1>1. task' \in ChainTasks /\ ProcessRequest(task')
    BY StartFrame
  <1>2. BuilderFirst(task')
    <2>1. builded' # builded
      OBVIOUS
    <2>2. QED
      BY <1>1, <2>1 DEF ProcessRequest, NetworkRead, NetworkWrite, NetworkEnd, ParserIncomplete, ParserComplete, ParserEnd,
         BuilderAgain, ReaderIdle, ReaderEnd, ReaderData, ErrorEnd, ErrorData, PreOutputData, PreOutputEnd,
         PreOutputRequestData, SameModules
  <1>3. /\ task'.module = "builder"
        /\ \/ script' = RaiseError \o BuilderAnswer(task', TRUE)
           \/ script' = RaiseError \o BuilderAnswer(task', FALSE)
           \/ script' = <<Insert>> \o BuilderAnswer(task', FALSE)
    BY <1>2 DEF BuilderFirst, Runs
  <1>4. Named({"reset"}) \subseteq Named({"reset", "insertAfter"}) /\ Insert \in Named({"reset", "insertAfter"})
    BY DEF Named, Insert
  <1>5. ASSUME NEW error \in BOOLEAN
        PROVE  /\ script' = RaiseError \o BuilderAnswer(task', error) => script' # <<>> /\ script'[1] \in Named({"reset"})
               /\ script' = <<Insert>> \o BuilderAnswer(task', error) => script' # <<>> /\ script'[1] = Insert
    <2> DEFINE s == BuilderAnswer(task', error)
               S == CallsOf("builder")
    <2>1. ScriptInv(s, "builder") /\ Tame(s)
      BY <1>3, BuilderTail
    <2> HIDE DEF s
    <2>2. s \in Seq(S)
      BY <2>1 DEF ScriptInv
    <2>3. (RaiseError \o s)[1] \in Named({"reset"}) /\ ScriptInv(RaiseError \o s, "builder")
      BY <2>1, RaiseErrorScript
    <2>4. RaiseError \o s # <<>>
      <3>1. RaiseError \in Seq(S) /\ Len(RaiseError) = 2
        BY DEF RaiseError, CallsOf, Named
      <3> HIDE DEF S, RaiseError
      <3>2. Len(RaiseError \o s) = Len(RaiseError) + Len(s) /\ Len(s) \in Nat
        BY <2>2, <3>1, ConcatElems
      <3>3. Len(RaiseError \o s) # 0
        BY <3>1, <3>2
      <3>4. QED BY <3>3
    <2>5. <<Insert>> \o s # <<>> /\ (<<Insert>> \o s)[1] = Insert
      <3>1. Insert \in S
        BY DEF Insert, CallsOf, Named
      <3> HIDE DEF S, Insert
      <3>2. QED BY <2>2, <3>1, PushElems
    <2>6. QED BY <2>3, <2>4, <2>5 DEF s
  <1> HIDE DEF RaiseError, Insert, BuilderAnswer, Named
  <1>6. QED BY <1>3, <1>4, <1>5

\* What waits when a task is taken, and what may come then.
LEMMA StartFacts ==
    ASSUME ChainInv, ChainInv', EndPasses, WritersRoom, Ledger, Start, Orderly
    PROVE  /\ script = <<>> /\ Elems(script) = {} /\ DOMAIN script = {} /\ Sending /\ chain' = chain /\ Spent \subseteq Spent'
           /\ Ahead \subseteq Spent /\ Ahead \subseteq Written /\ Ahead' \subseteq Ahead
           /\ \A b \in Ahead : b \in Pages \cup Infos => "error" \in told
           /\ Final \in Ahead => "pob" \in told
           /\ \A n \in 1..FileSize : Data(n) \in Ahead => n <= FileSize - reader.left
           /\ ~pob.headers /\ chain # CP => Ahead = {} /\ task' \notin WriteTasks /\ Queue(rt) = <<>>
           /\ chain = CP => Ahead \subseteq Pages
           /\ task' \in IdleTasks => told \subseteq UpToReader
           /\ task' \in EndTasks => Untold(current')
  <1>1. /\ script = <<>> /\ caller = "dispatching" /\ chain' = chain /\ task' \in ChainTasks /\ task' \in Planned(rt)
        /\ current' = task'.module
    BY StartFrame
  <1>2. Elems(script) = {} /\ DOMAIN script = {} /\ Sending
    BY <1>1, NothingAsked DEF Sending
  <1>3. Spent \subseteq Spent'
    BY SpentStays DEF Next
  <1>4. Lined /\ Headed
    BY DEF Orderly
  <1>5. /\ Queue(rt) \in Seq(Written) /\ Queue(rt') \in Seq(Written) /\ sent \in Seq(Written)
        /\ Elems(Queue(rt)) \subseteq Handed(rt)
        /\ \/ /\ task' \in WriteTasks /\ Queue(rt) # <<>> /\ Queue(rt)[1] = task'.buffer /\ task'.buffer \in Written
              /\ Head(Queue(rt)) = task'.buffer /\ Queue(rt') = Tail(Queue(rt))
              /\ \/ sent' = Append(sent, task'.buffer)
                 \/ sent' = sent /\ ~Sending'
           \/ task' \notin WriteTasks /\ Queue(rt') = Queue(rt) /\ sent' = sent
    BY <1>4, StartQueue
  <1>6. Alive /\ Fresh
    BY <1>1 DEF Ledger
  <1>7. Ahead \subseteq Spent /\ Ahead \subseteq Written
    <2>1. Elems(Queue(rt)) \subseteq Spent
      BY <1>5, <1>6 DEF Alive, Held
    <2>2. QED BY <1>4, <1>5, <2>1, ElemsSeq DEF Ahead, Lined
  <1>8. Ahead' \subseteq Ahead
    <2>1. CASE task' \in WriteTasks
      <3>1. Elems(Queue(rt')) \subseteq Elems(Queue(rt)) /\ task'.buffer \in Elems(Queue(rt))
        BY <1>1, <1>5, <2>1, TailElems
      <3>2. Elems(sent') \subseteq Elems(sent) \cup {task'.buffer}
        <4>1. CASE sent' = sent
          BY <4>1
        <4>2. CASE sent' = Append(sent, task'.buffer)
          BY <1>5, <2>1, <4>2, AppendElems
        <4>3. QED BY <1>5, <2>1, <4>1, <4>2
      <3>3. QED BY <3>1, <3>2 DEF Ahead
    <2>2. CASE task' \notin WriteTasks
      BY <1>5, <2>2 DEF Ahead
    <2>3. QED BY <2>1, <2>2
  <1>9. ASSUME NEW b \in Ahead, b \in Pages \cup Infos PROVE "error" \in told
    <2>1. CASE b \in Pages
      BY <1>6, <1>7, <1>9, <2>1 DEF Fresh
    <2>2. CASE b \in Infos
      <3>1. PICK p \in Pages : b = ChunkInfo(p)
        BY <2>2 DEF Pages, Padding, Page, ChunkInfo, Infos
      <3>2. QED BY <1>6, <1>7, <1>9, <3>1 DEF Fresh
    <2>3. QED BY <1>9, <2>1, <2>2
  <1>10. Final \in Ahead => "pob" \in told
    BY <1>6, <1>7 DEF Fresh
  <1>11. \A n \in 1..FileSize : Data(n) \in Ahead => n <= FileSize - reader.left
    BY <1>6, <1>7 DEF Fresh
  <1>12. ASSUME ~pob.headers, chain # CP PROVE Ahead = {} /\ task' \notin WriteTasks /\ Queue(rt) = <<>>
    <2>1. rt.write_buffers = <<>> /\ Planned(rt) \cap WriteTasks = {} /\ sent = <<>>
      BY <1>4, <1>12 DEF WritersRoom, Headed
    <2>2. task' \notin WriteTasks
      BY <1>1, <2>1
    <2>3. Still(rt') /\ QueueInv(rt') /\ rt'.write_buffers = rt.write_buffers
      BY StartFrame, StartTakes
    <2>4. Queue(rt') = <<>>
      BY <2>1, <2>3, StillQueue
    <2>5. QED BY <1>5, <2>1, <2>2, <2>4, NothingAsked DEF Ahead
  <1>13. chain = CP => Ahead \subseteq Pages
    BY <1>4 DEF Headed
  <1>14. task' \in IdleTasks => told \subseteq UpToReader
    BY IdleIsOpen DEF EndPasses
  <1>15. task' \in EndTasks => Untold(current')
    BY <1>1, TaskSets DEF EndPasses
  <1>16. QED BY <1>1, <1>2, <1>3, <1>7, <1>8, <1>9, <1>10, <1>11, <1>12, <1>13, <1>14, <1>15

LEMMA InjectiveLess ==
    ASSUME NEW S, NEW q \in Seq(S), NEW b \in S, Injective(Append(q, b))
    PROVE  Injective(q) /\ b \notin Elems(q)
  <1> DEFINE r == Append(q, b)
  <1>1. /\ DOMAIN r = 1..(Len(q) + 1) /\ \A i \in 1..Len(q) : r[i] = q[i]
        /\ r[Len(q) + 1] = b /\ DOMAIN q = 1..Len(q) /\ Len(q) \in Nat
    BY AppendElems, LenProperties
  <1>2. Injective(r)
    OBVIOUS
  <1> HIDE DEF r
  <1>3. \A i \in DOMAIN q : i \in DOMAIN r /\ r[i] = q[i] /\ i # Len(q) + 1
    BY <1>1
  <1>4. Len(q) + 1 \in DOMAIN r
    BY <1>1
  <1>5. Injective(q)
    BY <1>2, <1>3 DEF Injective
  <1>6. b \notin Elems(q)
    BY <1>1, <1>2, <1>3, <1>4 DEF Injective, Elems
  <1>7. QED BY <1>5, <1>6

\* A task is started, part by part.
LEMMA StartKeepsLined ==
    ASSUME ChainInv, ChainInv', EndPasses, WritersRoom, Ledger, Start, Orderly
    PROVE  Lined'
  <1> DEFINE Q == Queue(rt)
             R == Queue(rt')
             b == task'.buffer
  <1>1. /\ Ahead \subseteq Spent /\ Ahead \subseteq Written /\ Ahead' \subseteq Ahead /\ Spent \subseteq Spent'
    BY StartFacts
  <1>2. Lined
    BY DEF Orderly
  <1>3. /\ Q \in Seq(Written) /\ R \in Seq(Written) /\ sent \in Seq(Written)
        /\ \/ /\ task' \in WriteTasks /\ Q # <<>> /\ Q[1] = b /\ b \in Written
              /\ Head(Q) = b /\ R = Tail(Q)
              /\ \/ sent' = Append(sent, b)
                 \/ sent' = sent
           \/ task' \notin WriteTasks /\ R = Q /\ sent' = sent
    BY <1>2, StartQueue
  <1>4. Elems(sent') \subseteq Written /\ Elems(sent') \subseteq Spent'
    BY <1>1 DEF Ahead
  <1>5. /\ Sorted(Q, Elems(sent))
        /\ \A y \in Elems(sent), c \in Elems(Q) \ Elems(sent) : Rank(y) <= Rank(c)
        /\ Injective(sent) => Sorted(sent, {})
    BY <1>2 DEF Lined
  <1> HIDE DEF Q, R, b
  <1>6. ASSUME Q # <<>>, b = Head(Q), R = Tail(Q)
        PROVE  /\ Sorted(R, Elems(sent)) /\ Elems(R) \subseteq Elems(Q) /\ b \in Elems(Q)
               /\ b \notin Elems(sent) => \A c \in Elems(R) \ Elems(sent) : Rank(b) <= Rank(c)
    <2>1. Elems(R) \subseteq Elems(Q) /\ b \in Elems(Q)
      BY <1>3, <1>6, TailElems
    <2>2. /\ Sorted(Tail(Q), Elems(sent))
          /\ Head(Q) \notin Elems(sent) => \A c \in Elems(Tail(Q)) \ Elems(sent) : Rank(Head(Q)) <= Rank(c)
      BY <1>3, <1>5, <1>6, SortedTail
    <2>3. QED BY <1>6, <2>1, <2>2
  <1>7. /\ Sorted(R, Elems(sent'))
        /\ \A y \in Elems(sent'), c \in Elems(R) \ Elems(sent') : Rank(y) <= Rank(c)
        /\ Injective(sent') => Sorted(sent', {})
    <2>1. CASE R = Q /\ sent' = sent
      BY <1>5, <2>1
    <2>2. CASE Q # <<>> /\ Head(Q) = b /\ R = Tail(Q) /\ sent' = sent
      BY <1>5, <1>6, <2>2
    <2>3. CASE Q # <<>> /\ Head(Q) = b /\ R = Tail(Q) /\ sent' = Append(sent, b) /\ b \in Written
      <3>1. Elems(sent') = Elems(sent) \cup {b}
        BY <1>3, <2>3, AppendElems
      <3>2. Sorted(R, Elems(sent'))
        BY <1>6, <2>3, <3>1, SortedLess
      <3>3. ASSUME NEW y \in Elems(sent'), NEW c \in Elems(R) \ Elems(sent') PROVE Rank(y) <= Rank(c)
        BY <1>5, <1>6, <2>3, <3>1, <3>3
      <3>4. ASSUME Injective(sent') PROVE Sorted(sent', {})
        <4>1. Injective(sent) /\ b \notin Elems(sent)
          BY <1>3, <2>3, <3>4, InjectiveLess
        <4>2. \A y \in Elems(sent) \ {} : Rank(y) <= Rank(b)
          BY <1>5, <1>6, <2>3, <4>1
        <4>3. Sorted(sent, {})
          BY <1>5, <4>1
        <4>4. Sorted(Append(sent, b), {})
          BY <1>3, <2>3, <4>2, <4>3, SortedAppend
        <4>5. QED BY <2>3, <4>4
      <3>5. QED BY <3>2, <3>3, <3>4
    <2>4. QED BY <1>3, <2>1, <2>2, <2>3
  <1>8. ASSUME NEW c \in Written, NeedWrite(c) \in Elems(script') PROVE c \in Elems(sent')
    <2>1. /\ current' = task'.module /\ task' \in ChainTasks /\ current' \in Modules
      BY StartFrame
    <2>2. script' # <<>> => Elems(script') \subseteq CallsOf(current')
      BY ElemsSeq DEF ChainInv, Running, ScriptInv
    <2>3. current' = "out"
      BY <1>8, <2>1, <2>2, NothingAsked, WhoWrites
    <2>4. CASE task' \in WriteTasks
      <3>1. \/ Elems(script') = {Release(task'.buffer), Return}
            \/ Elems(script') = {NeedWrite(task'.buffer), Return} /\ sent' = Append(sent, task'.buffer)
            \/ Elems(script') = {Throw(NoBuffer), NotifyEndTask(task'.buffer)}
        BY <2>4, WriteAnswer
      <3>2. c = b /\ sent' = Append(sent, b) /\ b \in Written
        BY <1>8, <3>1, CallsDiffer DEF b
      <3>3. QED BY <1>3, <3>2, AppendElems
    <2>5. CASE task' \in EndTasks
      <3>1. Elems(script') = {RaiseEnd, Return}
        BY <2>1, <2>3, <2>5, EndAnswer
      <3>2. QED BY <1>8, <3>1, CallsDiffer
    <2>6. QED BY <2>1, <2>3, <2>4, <2>5, KindsAre
  <1>9. QED BY <1>4, <1>7, <1>8 DEF Lined, R

\* Nothing that waits comes behind what a module gives of its own.
LEMMA StartOutranks ==
    ASSUME ChainInv, ChainInv', EndPasses, WritersRoom, Ledger, Start, Orderly, NEW y \in Ahead
    PROVE  /\ current' = "reader" /\ task' \in IdleTasks \cup EndTasks /\ reader.left > 0
                => Rank(y) <= FileSize - reader.left + 1
           /\ current' = "error" /\ task' \in EndTasks => Rank(y) <= FileSize + 1
           /\ current' = "pob" /\ ~pob.headers /\ (task' \in EndTasks \/ chain # CP) => FALSE
  <1>1. /\ y \in Written
        /\ y \in Pages \cup Infos => "error" \in told
        /\ y = Final => "pob" \in told
        /\ \A n \in 1..FileSize : y = Data(n) => n <= FileSize - reader.left
        /\ ~pob.headers /\ chain # CP => FALSE
        /\ chain = CP => y \in Pages
        /\ task' \in IdleTasks => told \subseteq UpToReader
        /\ task' \in EndTasks => Untold(current')
    BY StartFacts
  <1>2. /\ "reader" \notin Below("error") /\ "reader" \notin Below("pob")
        /\ "error" \notin UpToReader /\ "pob" \notin UpToReader
        /\ "error" \in Below("pob") => chain = CP
        /\ "pob" \in Below("error") => chain # CP
    BY DEF Below, UpToReader
  <1>3. FileSize \in Nat /\ reader.left \in 0..FileSize
    BY RequestChainAssumption DEF ChainInv, TypeOK
  <1>4. ASSUME current' = "reader", task' \in IdleTasks \cup EndTasks PROVE Rank(y) <= FileSize - reader.left + 1
    <2>1. "error" \notin told /\ "pob" \notin told
      BY <1>1, <1>2, <1>4 DEF Untold
    <2>2. CASE y = Headers
      BY <1>3, <2>2, Ranks
    <2>3. CASE y \in DataBuffers
      <3>1. PICK n \in 1..FileSize : y = Data(n)
        BY <2>3 DEF DataBuffers
      <3>2. n <= FileSize - reader.left /\ Rank(y) = n
        BY <1>1, <3>1, Ranks
      <3>3. QED BY <1>3, <3>2
    <2>4. QED BY <1>1, <2>1, <2>2, <2>3 DEF Written
  <1>5. ASSUME current' = "error", task' \in EndTasks PROVE Rank(y) <= FileSize + 1
    <2>1. y # Final
      <3>1. y = Final => chain = CP
        BY <1>1, <1>2, <1>5 DEF Untold
      <3>2. QED BY <1>1, <3>1, BufferSets
    <2>2. QED BY <1>1, <2>1, Ranks
  <1>6. ASSUME current' = "pob", ~pob.headers, task' \in EndTasks \/ chain # CP PROVE FALSE
    <2>1. chain = CP /\ task' \in EndTasks
      BY <1>1, <1>6
    <2>2. "error" \in told /\ Untold("pob")
      BY <1>1, <1>6, <2>1
    <2>3. QED BY <1>2, <2>1, <2>2 DEF Untold
  <1>7. QED BY <1>4, <1>5, <1>6

LEMMA StartKeepsSupplied ==
    ASSUME ChainInv, ChainInv', EndPasses, WritersRoom, Ledger, Start, Orderly
    PROVE  Supplied'
  <1>1. /\ script = <<>> /\ Elems(script) = {} /\ chain' = chain /\ Ahead' \subseteq Ahead /\ Ahead \subseteq Written
    BY StartFacts
  <1>2. Supplied
    BY DEF Orderly
  <1>3. /\ \A y \in Ahead, b \in Written : Coming(b) => Rank(y) <= Rank(b)
        /\ \A b, c \in Written : Coming(b) /\ Coming(c) => Rank(b) = Rank(c)
    BY <1>2 DEF Supplied, Upstream, Passing
  <1>4. /\ \A b : Coming(b)' => Coming(b)
        /\ task' \in IdleTasks \cup EndTasks => \A b : ~Coming(b)'
    BY StartComing
  <1>5. \A b \in Written : Rank(b) \in Nat
    BY Ranks
  <1>6. \A b : \A i \in DOMAIN script' : script'[i] = GiveData(b) => Given(b)'
    BY DEF Given, Elems
  \* Buffers of one rank, and nothing else on its way.
  <1>7. ASSUME NEW S, Only(S), NEW n, \A b \in S : Rank(b) = n, \A y \in Ahead : S # {} => Rank(y) <= n,
               S = {} \/ task' \in IdleTasks \cup EndTasks
        PROVE  Supplied'
    <2>1. \A b \in Written : Given(b)' => b \in S /\ Rank(b) = n
      BY <1>7 DEF Only
    <2>2. ASSUME NEW y \in Ahead', NEW b \in Upstream' PROVE Rank(y) <= Rank(b)
      <3>1. y \in Ahead /\ b \in Written
        BY <1>1 DEF Upstream
      <3>2. CASE Coming(b)'
        BY <1>3, <1>4, <3>1, <3>2
      <3>3. CASE Given(b)'
        BY <1>7, <2>1, <3>1, <3>3
      <3>4. QED BY <3>2, <3>3 DEF Upstream
    <2>3. ASSUME NEW b \in Passing', NEW c \in Passing' PROVE Rank(b) = Rank(c)
      <3>1. b \in Written /\ c \in Written /\ (Coming(b)' \/ Given(b)') /\ (Coming(c)' \/ Given(c)')
        BY DEF Passing, Given
      <3>2. CASE S = {}
        BY <1>3, <1>4, <2>1, <3>1, <3>2
      <3>3. CASE S # {}
        BY <1>4, <1>7, <2>1, <3>1, <3>3
      <3>4. QED BY <3>2, <3>3
    <2>4. ASSUME NEW b \in Written, NEW c \in Written, Given(b)', Coming(c)' PROVE FALSE
      BY <1>4, <1>7, <2>1, <2>4
    <2>5. ASSUME NEW i \in DOMAIN script', NEW j \in DOMAIN script', NEW b \in Written, NEW c \in Written,
                 script'[i] = GiveData(b), script'[j] = GiveData(c)
          PROVE  Rank(b) <= Rank(c)
      BY <1>5, <1>6, <2>1, <2>5
    <2>6. QED BY <2>2, <2>3, <2>4, <2>5 DEF Supplied
  <1>8. FileSize \in Nat /\ reader.left \in 0..FileSize
    BY RequestChainAssumption DEF ChainInv, TypeOK
  <1>9. CASE Only({})
    BY <1>7, <1>9
  <1>10. CASE /\ current' = "reader" /\ task' \in IdleTasks \cup EndTasks /\ reader.left > 0
              /\ Only({Data(FileSize - reader.left + 1)})
    <2> DEFINE n == FileSize - reader.left + 1
    <2>1. n \in 1..FileSize
      BY <1>8, <1>10
    <2>2. Rank(Data(n)) = n /\ \A y \in Ahead : Rank(y) <= n
      BY <1>10, <2>1, Ranks, StartOutranks
    <2>3. Only({Data(n)}) /\ task' \in IdleTasks \cup EndTasks
      BY <1>10
    <2> HIDE DEF n
    <2>4. QED BY <1>7, <2>2, <2>3
  <1>11. CASE current' = "error" /\ task' \in EndTasks /\ Only(Pages)
    <2>1. \A b \in Pages : Rank(b) = FileSize + 1
      BY Ranks
    <2>2. \A y \in Ahead : Rank(y) <= FileSize + 1
      BY <1>11, StartOutranks
    <2>3. QED BY <1>7, <1>11, <2>1, <2>2
  <1>12. CASE current' = "pob" /\ task' \in EndTasks /\ ~pob.headers /\ Only({Headers})
    <2>1. \A y \in Ahead : FALSE
      BY <1>12, StartOutranks
    <2>2. QED BY <1>7, <1>12, <2>1
  <1>13. CASE current' = "pob" /\ task' \in EndTasks /\ pob.headers /\ Only({Final})
    <2>1. Rank(Final) = FileSize + 2 /\ \A y \in Ahead : Rank(y) <= FileSize + 2
      BY <1>1, Ranks
    <2>2. QED BY <1>7, <1>13, <2>1
  <1>14. CASE task' \in ResponseTasks
    <2> DEFINE d == task'.buffer
    <2>1. /\ current' = "pob" /\ d \in Pages \cup DataBuffers /\ d \in Written /\ Coming(d) /\ chain # CP
          /\ \A i \in DOMAIN script', c \in Written : script'[i] = GiveData(c) =>
                \/ c = Headers /\ ~pob.headers /\ i = 1
                \/ d \in Pages /\ c = ChunkInfo(d)
                \/ c = d
      BY <1>14, PassScript
    <2> HIDE DEF d
    <2>2. /\ Rank(Headers) = 0
          /\ d \in Pages => Rank(ChunkInfo(d)) = Rank(d)
      BY Ranks
    <2>3. ASSUME NEW i \in DOMAIN script', NEW c \in Written, script'[i] = GiveData(c)
          PROVE  (c = Headers /\ ~pob.headers /\ i = 1) \/ Rank(c) = Rank(d)
      BY <2>1, <2>2, <2>3
    <2>4. ASSUME NEW c \in Written, Given(c)' PROVE (c = Headers /\ ~pob.headers) \/ Rank(c) = Rank(d)
      <3>1. PICK i \in DOMAIN script' : script'[i] = GiveData(c)
        BY <2>4 DEF Given, Elems
      <3>2. QED BY <2>3, <3>1
    <2>5. ~pob.headers => Ahead = {}
      BY <2>1, StartFacts
    <2>6. AddCalls(current', chain') = {}
      BY <1>1, <2>1 DEF AddCalls
    <2>7. ASSUME NEW y \in Ahead', NEW b \in Upstream' PROVE Rank(y) <= Rank(b)
      <3>1. y \in Ahead /\ b \in Written
        BY <1>1 DEF Upstream
      <3>2. CASE Coming(b)'
        BY <1>3, <1>4, <3>1, <3>2
      <3>3. CASE Given(b)'
        <4>1. Rank(b) = Rank(d)
          BY <2>4, <2>5, <3>1, <3>3
        <4>2. Rank(y) <= Rank(d)
          BY <1>3, <2>1, <3>1
        <4>3. QED BY <4>1, <4>2
      <3>4. QED BY <3>2, <3>3 DEF Upstream
    <2>8. ASSUME NEW b \in Passing', NEW c \in Passing' PROVE Rank(b) = Rank(c)
      <3>1. b \in Written /\ c \in Written /\ Coming(b) /\ Coming(c)
        BY <1>4, <2>6 DEF Passing
      <3>2. QED BY <1>3, <3>1
    <2>9. ASSUME NEW b \in Written, NEW c \in Written, Given(b)', Coming(c)' PROVE Rank(b) <= Rank(c)
      <3>1. Rank(c) = Rank(d)
        BY <1>3, <1>4, <2>1, <2>9
      <3>2. Rank(b) = 0 \/ Rank(b) = Rank(d)
        BY <2>2, <2>4, <2>9
      <3>3. QED BY <1>5, <2>1, <2>9, <3>1, <3>2
    <2>10. ASSUME NEW i \in DOMAIN script', NEW j \in DOMAIN script', NEW b \in Written, NEW c \in Written, i < j,
                  script'[i] = GiveData(b), script'[j] = GiveData(c)
           PROVE  Rank(b) <= Rank(c)
      <3>1. i # j /\ i \in Nat \ {0}
        <4>1. script' # <<>>
          BY NothingAsked, <2>10 DEF Elems
        <4>2. script' \in Seq(CallsOf(current'))
          BY <4>1 DEF ChainInv, Running, ScriptInv
        <4>3. DOMAIN script' = 1..Len(script') /\ Len(script') \in Nat
          BY <4>2, LenProperties
        <4>4. QED BY <2>10, <4>3
      <3>2. j # 1
        BY <2>10, <3>1
      <3>3. Rank(c) = Rank(d)
        BY <2>3, <2>10, <3>2
      <3>4. Rank(b) = 0 \/ Rank(b) = Rank(d)
        BY <2>2, <2>3, <2>10
      <3>5. QED BY <1>5, <2>1, <2>10, <3>3, <3>4
    <2>11. QED BY <2>7, <2>8, <2>9, <2>10 DEF Supplied
  <1>15. QED BY <1>9, <1>10, <1>11, <1>12, <1>13, <1>14, StartGives DEF StartsGiving

LEMMA StartKeepsChunked ==
    ASSUME ChainInv, ChainInv', EndPasses, WritersRoom, Ledger, Start, Orderly
    PROVE  Chunked'
  <1> DEFINE Q == Queue(rt)
             R == Queue(rt')
             b == task'.buffer
  <1>1. script = <<>> /\ chain' = chain /\ Sending /\ DOMAIN script = {}
    BY StartFacts
  <1>2. Chunked /\ Lined
    BY DEF Orderly
  <1>3. /\ Q \in Seq(Written) /\ R \in Seq(Written) /\ sent \in Seq(Written)
        /\ \/ /\ task' \in WriteTasks /\ Q # <<>> /\ Q[1] = b /\ b \in Written
              /\ Head(Q) = b /\ R = Tail(Q)
              /\ \/ sent' = Append(sent, b)
                 \/ sent' = sent /\ ~Sending'
           \/ task' \notin WriteTasks /\ R = Q /\ sent' = sent
    BY <1>2, StartQueue
  <1>4. ASSUME NEW i \in DOMAIN script', NEW d \in Infos, script'[i] = GiveData(d)
        PROVE  /\ i + 1 \in DOMAIN script'
               /\ \E c \in Written : /\ script'[i + 1] = GiveData(c) /\ ChunkInfo(c) = d
                                     /\ GiveData(c) \notin AddCalls(current', chain')
    <2>1. d \in Written /\ Given(d)'
      BY <1>4, BufferSets DEF Given, Elems
    <2>2. task' \in ResponseTasks
      <3>1. d \notin Pages \cup DataBuffers /\ d # Headers /\ d # Final
        BY BufferSets
      <3> HIDE DEF b
      <3>2. QED BY <2>1, <3>1, StartGives DEF StartsGiving, Only
    <2>3. /\ current' = "pob" /\ chain # CP /\ b \in Written
          /\ \/ d = Headers
             \/ d = ChunkInfo(b) /\ i + 1 \in DOMAIN script' /\ script'[i + 1] = GiveData(b)
             \/ d = b /\ b \in Pages \cup DataBuffers
      BY <1>4, <2>1, <2>2, PassScript
    <2>4. AddCalls(current', chain') = {}
      BY <1>1, <2>3 DEF AddCalls
    <2>5. QED BY <2>3, <2>4, BufferSets
  <1>5. \A c : ~GivesNext(c)
    BY <1>1 DEF GivesNext
  <1>6. /\ \A i \in DOMAIN Q : Q[i] \in Infos \ Elems(sent) => i < Len(Q) /\ ChunkInfo(Q[i + 1]) = Q[i]
        /\ Injective(sent) => \A i \in DOMAIN sent : sent[i] \in Infos =>
              IF i < Len(sent) THEN ChunkInfo(sent[i + 1]) = sent[i]
              ELSE Q # <<>> /\ ChunkInfo(Q[1]) = sent[i]
    BY <1>1, <1>2, <1>5 DEF Chunked
  <1> HIDE DEF Q, R, b
  <1>7. Q # <<>> /\ R = Tail(Q) =>
           /\ DOMAIN R = 1..Len(R) /\ Len(R) = Len(Q) - 1 /\ Len(Q) \in Nat \ {0} /\ 1 \in DOMAIN Q
           /\ \A i \in DOMAIN R : i + 1 \in DOMAIN Q /\ R[i] = Q[i + 1]
           /\ R = <<>> <=> Len(Q) = 1
    <2> SUFFICES ASSUME Q # <<>>, R = Tail(Q)
                 PROVE  /\ DOMAIN R = 1..Len(R) /\ Len(R) = Len(Q) - 1 /\ Len(Q) \in Nat \ {0} /\ 1 \in DOMAIN Q
                        /\ \A i \in DOMAIN R : i + 1 \in DOMAIN Q /\ R[i] = Q[i + 1]
                        /\ R = <<>> <=> Len(Q) = 1
      OBVIOUS
    <2>1. QED BY <1>3, TailElems
  <1>8. Elems(sent) \subseteq Elems(sent')
    <2>1. sent' = Append(sent, b) /\ b \in Written => Elems(sent') = Elems(sent) \cup {b}
      BY <1>3, AppendElems
    <2>2. QED BY <1>3, <2>1
  <1>9. ASSUME NEW i \in DOMAIN R, R[i] \in Infos \ Elems(sent')
        PROVE  i < Len(R) /\ ChunkInfo(R[i + 1]) = R[i]
    <2>1. CASE R = Q
      BY <1>6, <1>8, <1>9, <2>1
    <2>2. CASE Q # <<>> /\ R = Tail(Q)
      <3>1. i + 1 \in DOMAIN Q /\ R[i] = Q[i + 1]
        BY <1>7, <2>2
      <3>2. i + 1 < Len(Q) /\ ChunkInfo(Q[(i + 1) + 1]) = Q[i + 1]
        BY <1>6, <1>8, <1>9, <3>1
      <3>3. i \in Nat /\ i < Len(R) /\ i + 1 \in DOMAIN R
        BY <1>7, <2>2, <3>2
      <3>4. R[i + 1] = Q[(i + 1) + 1]
        BY <1>7, <2>2, <3>3
      <3>5. QED BY <3>1, <3>2, <3>3, <3>4
    <2>3. QED BY <1>3, <2>1, <2>2
  <1>10. ASSUME Injective(sent'), NEW i \in DOMAIN sent', sent'[i] \in Infos
         PROVE  IF i < Len(sent') THEN ChunkInfo(sent'[i + 1]) = sent'[i]
                ELSE Sending' => R # <<>> /\ ChunkInfo(R[1]) = sent'[i]
    <2>1. CASE sent' = sent
      BY <1>3, <1>6, <1>10, <2>1
    <2>2. CASE sent' = Append(sent, b) /\ Q # <<>> /\ Q[1] = b /\ b \in Written /\ R = Tail(Q)
      <3>1. /\ DOMAIN sent' = 1..(Len(sent) + 1) /\ \A n \in 1..Len(sent) : sent'[n] = sent[n]
            /\ sent'[Len(sent) + 1] = b /\ DOMAIN sent = 1..Len(sent) /\ Len(sent) \in Nat
        BY <1>3, <2>2, AppendElems, LenProperties
      <3>2. Len(sent') = Len(sent) + 1
        BY <1>3, <2>2, AppendProperties
      <3>3. Injective(sent) /\ b \notin Elems(sent)
        BY <1>3, <1>10, <2>2, InjectiveLess
      <3>4. CASE i < Len(sent)
        <4>1. i \in DOMAIN sent /\ sent'[i] = sent[i] /\ i + 1 \in 1..Len(sent)
          BY <3>1, <3>4
        <4>2. sent'[i + 1] = sent[i + 1] /\ i < Len(sent')
          BY <3>1, <3>2, <3>4, <4>1
        <4>3. ChunkInfo(sent[i + 1]) = sent[i]
          BY <1>6, <1>10, <3>3, <3>4, <4>1
        <4>4. QED BY <4>1, <4>2, <4>3
      <3>5. CASE i = Len(sent)
        <4>1. i \in DOMAIN sent /\ sent'[i] = sent[i] /\ ~(i < Len(sent)) /\ i < Len(sent')
          BY <3>1, <3>2, <3>5
        <4>2. ChunkInfo(Q[1]) = sent[i]
          BY <1>6, <1>10, <3>3, <4>1
        <4>3. QED BY <2>2, <3>1, <3>5, <4>1, <4>2
      <3>6. CASE i = Len(sent) + 1
        <4>1. sent'[i] = b /\ ~(i < Len(sent'))
          BY <3>1, <3>2, <3>6
        <4>2. 1 < Len(Q) /\ ChunkInfo(Q[1 + 1]) = Q[1]
          BY <1>6, <1>7, <1>10, <2>2, <3>3, <4>1
        <4>3. R # <<>> /\ 1 \in DOMAIN R
          BY <1>7, <2>2, <4>2
        <4>4. R[1] = Q[1 + 1]
          BY <1>7, <2>2, <4>3
        <4>5. QED BY <2>2, <4>1, <4>2, <4>3, <4>4
      <3>7. QED BY <3>1, <3>4, <3>5, <3>6
    <2>3. QED BY <1>3, <2>1, <2>2
  <1>11. QED BY <1>4, <1>9, <1>10 DEF Chunked, R

LEMMA StartKeepsHeaded ==
    ASSUME ChainInv, ChainInv', EndPasses, WritersRoom, Unbuilt, Ledger, Start, Orderly
    PROVE  Headed'
  <1> DEFINE Q == Queue(rt)
             R == Queue(rt')
             b == task'.buffer
  <1>1. /\ script = <<>> /\ chain' = chain /\ Sending /\ Ahead' \subseteq Ahead
        /\ ~pob.headers /\ chain # CP => Ahead = {} /\ task' \notin WriteTasks /\ Q = <<>>
    BY StartFacts
  <1>2. Headed /\ Lined
    BY DEF Orderly
  <1>3. /\ Q \in Seq(Written) /\ R \in Seq(Written) /\ sent \in Seq(Written)
        /\ \/ /\ task' \in WriteTasks /\ Q # <<>> /\ Q[1] = b /\ b \in Written
              /\ Head(Q) = b /\ R = Tail(Q)
              /\ \/ sent' = Append(sent, b)
                 \/ sent' = sent /\ ~Sending'
           \/ task' \notin WriteTasks /\ R = Q /\ sent' = sent
    BY <1>2, StartQueue
  <1> HIDE DEF Q, R, b
  <1>4. /\ chain # CP /\ sent # <<>> => sent[1] = Headers
        /\ chain # CP /\ sent = <<>> /\ pob.headers => Q # <<>> /\ Q[1] = Headers
        /\ chain # CP /\ ~pob.headers => sent = <<>>
        /\ chain = C0 => ~pob.headers /\ ~builded
        /\ chain = CP => Ahead \subseteq Pages
    BY <1>1, <1>2 DEF Headed, GivesNext, Q
  <1>5. pob'.headers = pob.headers \/ (~pob.headers /\ pob'.headers)
    <2>1. pob.headers \in BOOLEAN /\ pob'.headers \in BOOLEAN
      BY DEF ChainInv, TypeOK
    <2>2. QED BY <2>1, HeadersStay
  <1>6. ASSUME chain # CP, sent' # <<>> PROVE sent'[1] = Headers
    <2>1. CASE sent' = sent
      BY <1>4, <1>6, <2>1
    <2>2. CASE task' \in WriteTasks /\ sent' = Append(sent, b) /\ Q # <<>> /\ Q[1] = b /\ b \in Written
      <3>1. CASE sent = <<>>
        <4>1. sent'[Len(sent) + 1] = b
          BY <1>3, <2>2, AppendElems
        <4>2. Len(sent) + 1 = 1
          BY <3>1
        <4>3. pob.headers
          BY <1>1, <1>6, <2>2
        <4>4. QED BY <1>4, <1>6, <2>2, <3>1, <4>1, <4>2, <4>3
      <3>2. CASE sent # <<>>
        <4>1. 1 \in 1..Len(sent)
          BY <1>3, <3>2, TailElems
        <4>2. sent'[1] = sent[1]
          BY <1>3, <2>2, <4>1, AppendElems
        <4>3. QED BY <1>4, <1>6, <3>2, <4>2
      <3>3. QED BY <3>1, <3>2
    <2>3. QED BY <1>3, <2>1, <2>2
  <1>7. sent' = <<>> => sent = <<>> /\ (task' \in WriteTasks => ~Sending')
    <2>1. sent' = Append(sent, b) /\ b \in Written => sent' # <<>>
      BY <1>3, AppendElems
    <2>2. QED BY <1>3, <2>1
  <1>8. ASSUME chain # CP, sent' = <<>>, pob'.headers, Sending'
        PROVE  IF R = <<>> THEN GivesNext(Headers)' ELSE R[1] = Headers
    <2>1. task' \notin WriteTasks /\ R = Q /\ sent = <<>>
      BY <1>3, <1>7, <1>8
    <2>2. CASE pob.headers
      BY <1>4, <1>8, <2>1, <2>2
    <2>3. CASE ~pob.headers
      <3>1. R = <<>>
        BY <1>1, <1>8, <2>1, <2>3
      <3>2. current' = "pob" /\ script' # <<>> /\ script'[1] = GiveData(Headers)
        BY <1>8, <2>3, HeadersAtOnce
      <3>3. AddCalls(current', chain') = {}
        BY <1>1, <1>8, <3>2 DEF AddCalls
      <3>4. QED BY <3>1, <3>2, <3>3 DEF GivesNext
    <2>4. QED BY <2>2, <2>3
  <1>9. ASSUME chain # CP, ~pob'.headers PROVE sent' = <<>>
    BY <1>1, <1>3, <1>4, <1>5, <1>9
  <1>10. ASSUME chain = C0 PROVE ~pob'.headers
    <2>1. ~pob.headers /\ ~builded
      BY <1>4, <1>10
    <2>2. current' \in {"in", "parser", "builder"}
      BY <2>1, StartFrame DEF Unbuilt
    <2>3. QED BY <2>1, <2>2, HeadersAtOnce
  <1>11. ASSUME chain = C0, builded' PROVE script' # <<>> /\ script'[1] \in Named({"reset", "insertAfter"})
    BY <1>4, <1>11, BuildsFirst
  <1>12. chain = CP => Ahead' \subseteq Pages
    BY <1>1, <1>4
  <1>13. QED BY <1>1, <1>6, <1>8, <1>9, <1>10, <1>11, <1>12 DEF Headed, R

LEMMA NextOrderly == ChainInv /\ EndPasses /\ WritersRoom /\ Unbuilt /\ Ledger /\ Orderly /\ [Next]_vars => Orderly'
  <1> SUFFICES ASSUME ChainInv, EndPasses, WritersRoom, Unbuilt, Ledger, Orderly, [Next]_vars PROVE Orderly'
    OBVIOUS
  <1>1. ChainInv'
    BY NextChainInv
  <1>2. CASE \E expired, due \in BOOLEAN : Poll(expired, due)
    BY <1>2, PollKeepsOrder
  <1>3. CASE KeepWaiting \/ Destroy \/ ReleaseLate \/ ClientSends \/ Report \/ Deliver
    BY <1>3, AroundKeepsOrder
  <1>4. CASE Start
    BY <1>1, <1>4, StartKeepsLined, StartKeepsSupplied, StartKeepsChunked, StartKeepsHeaded DEF Orderly
  <1>5. CASE ApiCall
    BY <1>1, <1>5, ApiCallKeepsOrder
  <1>6. CASE Ended \/ UNCHANGED vars
    <2>1. UNCHANGED vars
      BY <1>6 DEF Ended
    <2>2. QED BY <2>1, AroundKeepsOrder
  <1>7. QED BY <1>2, <1>3, <1>4, <1>5, <1>6 DEF Next

\* An orderly answer is the one the client expects.
LEMMA OrderlyAnswer ==
    ASSUME ChainInv, Orderly
    PROVE  ResponseInOrder
  <1>1. Lined /\ Supplied /\ Chunked /\ Headed
    BY DEF Orderly
  <1>2. sent \in Seq(Written)
    <2>1. sent \in Seq(Buffers) /\ Elems(sent) \subseteq Written
      BY <1>1 DEF Lined, ChainInv, TypeOK
    <2>2. QED BY <2>1, SeqOfElems
  <1>3. DOMAIN sent = 1..Len(sent) /\ Len(sent) \in Nat /\ \A i \in DOMAIN sent : sent[i] \in Written /\ sent[i] \in Elems(sent)
    BY <1>2, LenProperties, ElementOfSeq DEF Elems
  <1>4. chain # CP /\ sent # <<>> => sent[1] = Headers
    BY <1>1 DEF Headed
  <1>5. chain = CP => Elems(sent) \subseteq Pages
    BY <1>1 DEF Headed, Ahead
  <1>6. ASSUME NEW b \in Written
        PROVE  /\ b[1] = "info" <=> b \in Infos
               /\ b[1] \in {"data", "info", "final"} => b \notin Pages
    BY <1>6 DEF Written, Headers, Final, Pages, Padding, Page, Infos, DataBuffers, Data
  <1>7. SentInOrder
    <2> SUFFICES ASSUME \A i \in DOMAIN sent : ~Twice(sent[i])
                 PROVE  /\ \A i, j \in DOMAIN sent : i < j => Rank(sent[i]) <= Rank(sent[j])
                        /\ \A i \in 1..(Len(sent) - 1) : sent[i][1] = "info" => ChunkInfo(sent[i + 1]) = sent[i]
                        /\ \A i \in DOMAIN sent : sent[i][1] \in {"data", "info", "final"} => sent[1] = Headers
      BY DEF SentInOrder
    <2>1. Injective(sent)
      BY DEF Injective, Twice
    <2>2. \A i, j \in DOMAIN sent : i < j => Rank(sent[i]) <= Rank(sent[j])
      BY <1>1, <2>1 DEF Lined, Sorted
    <2>3. ASSUME NEW i \in 1..(Len(sent) - 1), sent[i][1] = "info" PROVE ChunkInfo(sent[i + 1]) = sent[i]
      <3>1. i \in DOMAIN sent /\ i < Len(sent)
        BY <1>3
      <3>2. sent[i] \in Infos
        BY <1>3, <1>6, <2>3, <3>1
      <3>3. QED BY <1>1, <2>1, <3>1, <3>2 DEF Chunked
    <2>4. ASSUME NEW i \in DOMAIN sent, sent[i][1] \in {"data", "info", "final"} PROVE sent[1] = Headers
      <3>1. sent[i] \notin Pages /\ sent[i] \in Elems(sent)
        BY <1>3, <1>6, <2>4
      <3>2. sent # <<>>
        BY <1>3
      <3>3. QED BY <1>4, <1>5, <3>1, <3>2
    <2>5. QED BY <2>2, <2>3, <2>4
  <1>8. OnlyBuilderErrorsLackHeaders
    <2> SUFFICES ASSUME sent # <<>>, sent[1] # Headers
                 PROVE  \E i \in DOMAIN chain : chain[i] = "error" /\ chain[i - 1] = "pob"
      BY DEF OnlyBuilderErrorsLackHeaders
    <2>1. chain = CP
      BY <1>4
    <2>2. 5 \in DOMAIN CP /\ CP[5] = "error" /\ CP[5 - 1] = "pob"
      BY ShapesAre
    <2>3. QED BY <2>1, <2>2
  <1>9. QED BY <1>7, <1>8 DEF ResponseInOrder

\* While send() takes each buffer whole, the response reaches the socket in order,
\* its size lines before their chunks; and it begins with its headers, unless
\* Builder raised the error: for every header that fits, every file and every
\* write limit, whatever the socket and the client do (ResponseInOrder;
\* Request.cpp:55-107, RequestTasks.cpp:110-170 and 201-212).
THEOREM ResponseStaysInOrder == HeaderFits => (Spec => []ResponseInOrder)
  <1> DEFINE Inv == ChainInv /\ EndPasses /\ WritersRoom /\ Unbuilt /\ ResetIsClean /\ Ledger /\ Gone /\ Orderly
  <1>1. Init => Inv
    BY InitChainInv, InitEndPasses, InitWritersRoom, InitUnbuilt, InitLedger, InitOrderly
  <1>2. ASSUME HeaderFits PROVE Inv /\ [Next]_vars => Inv'
    BY <1>2, NextChainInv, NextEndPasses, NextWritersRoom, NextUnbuilt, NextResetIsClean, NextLedger, NextOrderly
  <1>3. Inv => ResponseInOrder
    BY OrderlyAnswer
  <1> HIDE DEF Inv
  <1>4. ASSUME HeaderFits PROVE Spec => []ResponseInOrder
    BY <1>1, <1>2, <1>3, <1>4, PTL DEF Spec
  <1>5. QED BY <1>4
=============================================================================
