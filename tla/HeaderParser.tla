----------------------------- MODULE HeaderParser -----------------------------
(***************************************************************************)
(* server/modules/Parser: Parser.cpp, from the bytes of a connection to    *)
(* the header of a request.                                                *)
(*                                                                         *)
(* A byte is a name: "CR", "LF", ":", " ", digits, "a" for the others, and *)
(* "L" for the name Content-Length.  The bytes of a message come in as     *)
(* many pieces as the network likes, each read only after the parser asked *)
(* for it (RequestTasks::needRead), so that none comes after the header:   *)
(* lines 152 to 156 are not reached.  What is read after a header that is  *)
(* too long is in RequestChain.                                            *)
(***************************************************************************)
EXTENDS Integers, Sequences, FiniteSets, SequencesExt

CONSTANTS
    MaxHeader,    \* MAX_HEADER_SIZE
    MaxBuffers    \* bound of this model: the pieces a message comes in

VARIABLES
    message,   \* what the client sends, as it is meant
    stream,    \* the bytes of it that were not read
    parser,    \* where it is, _separator, _buffers, and how often each was released
    request    \* what the request was told: method, query, headers, body, end
vars == <<message, stream, parser, request>>

CRLF == <<"CR", "LF">>
HeaderLines ==
    {[key |-> <<"L">>, colon |-> <<":", " ">>, value |-> <<"2">>],
     [key |-> <<"L">>, colon |-> <<":">>, value |-> <<"1">>],
     [key |-> <<"a">>, colon |-> <<":", " ">>, value |-> <<"a", ":">>],
     [key |-> <<"a">>, colon |-> <<":", " ">>, value |-> <<"a", "CR">>]}
Messages ==
    [method : {<<"a">>}, query : {<<>>, <<"a">>}, headers : SeqOf(HeaderLines, 2),
     body : SeqOf({"a"}, 3)]
LineBytes(line) == line.key \o line.colon \o line.value \o CRLF
HeaderBytes(m) ==
    m.method \o <<" ">> \o m.query \o CRLF
        \o FlattenSeq([n \in DOMAIN m.headers |-> LineBytes(m.headers[n])]) \o CRLF

Init ==
    /\ message \in Messages /\ stream = HeaderBytes(message) \o message.body
    /\ parser = [at |-> "header", separator |-> 0, held |-> <<>>, released |-> 0]
    /\ request = [method |-> <<>>, query |-> <<>>, headers |-> [k \in {} |-> <<>>],
                  given |-> <<>>, ended |-> FALSE]

-----------------------------------------------------------------------------
(* What the bytes say.                                                      *)
First(line, byte) == Min({i \in DOMAIN line : line[i] = byte} \cup {Len(line) + 1})

\* Mutant: the byte after the ":" is part of the value.
ParseLineBlank(headers, line) ==
    LET colon == First(line, ":")
    IN  IF line = <<>> THEN headers
        ELSE (SubSeq(line, 1, colon - 1) :> SubSeq(line, colon + 1, Len(line))) @@ headers

\* _parseLine: one byte after the ":" is skipped, whatever it is.
ParseLine(headers, line) ==
    LET colon == First(line, ":")
    IN  IF line = <<>> THEN headers
        ELSE (SubSeq(line, 1, colon - 1) :> SubSeq(line, colon + 2, Len(line))) @@ headers

\* _parseMethod, before the name of the method is looked up.
ParseMethod(line) ==
    LET blank == First(line, " ")
        rest == SubSeq(line, blank + 1, Len(line))
    IN  <<SubSeq(line, 1, blank - 1), SubSeq(rest, 1, First(rest, " ") - 1)>>

\* The lines of the buffers; a CR is dropped wherever it stands, and what the
\* last LF is followed by is no line.
Lines(bytes) ==
    FoldLeft(LAMBDA s, b :
                IF b = "CR" THEN [s EXCEPT !.carriageReturn = TRUE]
                ELSE IF b = "LF" /\ s.carriageReturn
                     THEN [lines |-> Append(s.lines, s.line), line |-> <<>>, carriageReturn |-> FALSE]
                     ELSE [s EXCEPT !.line = Append(@, b), !.carriageReturn = FALSE],
             [lines |-> <<>>, line |-> <<>>, carriageReturn |-> FALSE], bytes).lines

\* The number that >> reads: blanks, then digits.
Value == ("1" :> 1) @@ ("2" :> 2)
Number(params) ==
    LET begin == Min({i \in DOMAIN params : params[i] # " "} \cup {Len(params) + 1})
        end == Min({i \in begin .. Len(params) : params[i] \notin DOMAIN Value} \cup {Len(params) + 1})
    IN  FoldLeft(LAMBDA n, digit : 10 * n + Value[digit], 0, SubSeq(params, begin, end - 1))

\* _parseRequest: asking for Content-Length makes an empty header of it.
ParseRequest(bytes) ==
    LET lines == Lines(bytes)
        first == IF lines = <<>> THEN <<request.method, request.query>> ELSE ParseMethod(Head(lines))
        headers == IF lines = <<>> THEN request.headers ELSE FoldLeft(ParseLine, request.headers, Tail(lines))
    IN  [request EXCEPT !.method = first[1], !.query = first[2],
                        !.headers = headers @@ (<<"L">> :> <<>>)]
Length(told) == Number(told.headers[<<"L">>])

\* Mutant: a byte of a line does not set it back.
SeparatorSticky(s, byte) ==
    IF (s \in {0, 2} /\ byte = "CR") \/ (s \in {1, 3} /\ byte = "LF") THEN s + 1 ELSE s

\* _separator after one more byte.
Separator(s, byte) ==
    IF (s \in {0, 2} /\ byte = "CR") \/ (s \in {1, 3} /\ byte = "LF") THEN s + 1 ELSE 0

\* _separator after these bytes, and how many of them it took until it was 4.
Scan(data) ==
    FoldLeft(LAMBDA s, byte :
                IF s.separator = 4 THEN s
                ELSE [separator |-> Separator(s.separator, byte), length |-> s.length + 1],
             [separator |-> parser.separator, length |-> 0], data)
\* The blank line is not in these bytes.
Misses(data) == Scan(data).separator # 4

-----------------------------------------------------------------------------
\* One read, of n bytes.
Reads(n) ==
    /\ parser.at = "header" /\ n \in 1 .. Len(stream)
    /\ Len(parser.held) + 1 < MaxBuffers \/ n = Len(stream)   \* the bound
    /\ stream' = SubSeq(stream, n + 1, Len(stream)) /\ UNCHANGED message
Data(n) == SubSeq(stream, 1, n)
Held(data) == Append(parser.held, data)

\* Mutant: each buffer starts anew.
IncompleteForgets(n) ==
    /\ Reads(n) /\ Misses(Data(n))
    /\ Len(FlattenSeq(Held(Data(n)))) <= MaxHeader
    /\ parser' = [parser EXCEPT !.held = Held(Data(n)), !.separator = 0]
    /\ UNCHANGED request

\* ON_REQUEST_DATA: the header is not complete, the parser asks for more.
Incomplete(n) ==
    /\ Reads(n) /\ Misses(Data(n))
    /\ Len(FlattenSeq(Held(Data(n)))) <= MaxHeader
    /\ parser' = [parser EXCEPT !.held = Held(Data(n)), !.separator = Scan(Data(n)).separator]
    /\ UNCHANGED request

\* The same, but it is too long already: what there is is parsed.
TooLong(n) ==
    /\ Reads(n) /\ Misses(Data(n))
    /\ Len(FlattenSeq(Held(Data(n)))) > MaxHeader
    /\ parser' = [at |-> "long", separator |-> Scan(Data(n)).separator, held |-> Held(Data(n)),
                  released |-> parser.released + 1]
    /\ request' = [ParseRequest(FlattenSeq(Held(Data(n)))) EXCEPT !.ended = TRUE]

\* Mutant: the end is raised with the first bytes of the body.
CompleteEnds(n) ==
    LET data == Data(n)
        i == Scan(data).length
        header == Held(SubSeq(data, 1, i))
        next == SubSeq(data, i + 1, n)
        told == ParseRequest(FlattenSeq(header))
    IN  /\ Reads(n) /\ ~Misses(data)
        /\ parser' = [at |-> "completed", separator |-> 4, held |-> header, released |-> parser.released + 1]
        /\ request' = [told EXCEPT !.given = IF Length(told) > 0 THEN next ELSE <<>>, !.ended = TRUE]

\* The header is complete: its buffers are parsed and released.  What follows it in
\* this buffer, next, is given if the request has a body, and dropped if not.
Complete(n) ==
    LET data == Data(n)
        i == Scan(data).length
        header == Held(SubSeq(data, 1, i))
        next == SubSeq(data, i + 1, n)
        told == ParseRequest(FlattenSeq(header))
        body == Length(told) > 0 /\ next # <<>>
    IN  /\ Reads(n) /\ ~Misses(data)
        /\ parser' = [at |-> "completed", separator |-> 4, held |-> header, released |-> parser.released + 1]
        /\ request' = [told EXCEPT !.given = IF body THEN next ELSE <<>>,
                                   !.ended = body => Len(next) >= Length(told)]

\* Mutant: the buffers are released whether or not the header was complete.
DestroyAll ==
    /\ parser.at \in {"header", "long", "completed"}
    /\ parser' = [parser EXCEPT !.at = "gone", !.released = @ + 1]
    /\ UNCHANGED <<message, stream, request>>

\* ~Parser, at any time: a request may time out.
Destroy ==
    /\ parser.at \in {"header", "long", "completed"}
    /\ parser' = [parser EXCEPT !.at = "gone", !.released = IF parser.at = "completed" THEN @ ELSE @ + 1]
    /\ UNCHANGED <<message, stream, request>>

Over == parser.at = "gone" /\ UNCHANGED vars

Next ==
    \/ Destroy \/ Over
    \/ \E n \in 1 .. Len(stream) : Incomplete(n) \/ TooLong(n) \/ Complete(n)

Spec == Init /\ [][Next]_vars

-----------------------------------------------------------------------------
(* Properties.                                                              *)

\* A message as a client should write it.
Clean == \A n \in DOMAIN message.headers :
    message.headers[n].colon = <<":", " ">> /\ ~Contains(message.headers[n].value, "CR")
ValuesOf(key) == SelectSeq(message.headers, LAMBDA line : line.key = key)
LastValue(key) == IF ValuesOf(key) = <<>> THEN <<>> ELSE Last(ValuesOf(key)).value

\* However the bytes are cut, the header ends where the client ended it and says
\* what the client said, the last of two lines of one name; it is not waited for
\* when all of it has come.
HeaderIsRead ==
    /\ Clean /\ parser.at = "completed" =>
           /\ FlattenSeq(parser.held) = HeaderBytes(message)
           /\ request.method = message.method /\ request.query = message.query
           /\ DOMAIN request.headers = {message.headers[n].key : n \in DOMAIN message.headers} \cup {<<"L">>}
           /\ \A key \in DOMAIN request.headers : request.headers[key] = LastValue(key)
    /\ Clean /\ parser.at = "header" => ~IsPrefix(HeaderBytes(message), FlattenSeq(parser.held))

\* What is given is the beginning of the body; the end is raised when all of the body
\* was given, or none of it had come with the header; a body of which a part had
\* come has no end, and nobody asks for the rest.
EndIsTrue ==
    Clean /\ parser.at = "completed" =>
        LET length == Number(LastValue(<<"L">>)) IN
        /\ IsPrefix(request.given, message.body)
        /\ request.ended <=> Len(request.given) >= length \/ request.given = <<>>

\* A buffer is released once, but a header that was too long twice.
ReleasedOnce ==
    parser.at = "gone" =>
        parser.released = IF Len(FlattenSeq(parser.held)) > MaxHeader /\ parser.separator # 4 THEN 2 ELSE 1

\* The header is what the client wrote, however it was cut, its body ends when it does,
\* and its buffers are released once.
HeaderIsSeen == HeaderIsRead /\ EndIsTrue /\ ReleasedOnce
===============================================================================
