------------------------------- MODULE FileRange -------------------------------
(***************************************************************************)
(* server/modules/FileReader: FileReader.cpp, which bytes of the file are  *)
(* announced and which are given.                                          *)
(*                                                                         *)
(* A byte is its position.  The size and the ranges are unsigned int, of   *)
(* which Limit values exist; the position in the stream is wider.  The     *)
(* file may be cut by somebody else while it is read.                      *)
(***************************************************************************)
EXTENDS Integers, Sequences, FiniteSets, SequencesExt

CONSTANTS
    Chunk,      \* 4096
    Limit,      \* 2^32: the values of an unsigned int
    MaxSize     \* bound of this model: the largest file, and the largest number in a Range

VARIABLES
    file,      \* the bytes the file has, those it had, and the end of the stream
    reader,    \* where the module is, _file_size, _range_begin, _range_end, tellg()
    answer,    \* the response code and Content-Length
    given      \* the bytes given to the next module (-1: not of the file)
vars == <<file, reader, answer, given>>

NoNumber == -1
Numbers == 0..MaxSize
Init ==
    /\ file = [size |-> 0, first |-> 0, eof |-> FALSE, range |-> <<NoNumber, NoNumber>>]
    /\ reader = [at |-> "new", size |-> 0, begin |-> 0, end |-> 0, position |-> 0]
    /\ answer = [code |-> 0, length |-> 0] /\ given = <<>>

\* A number that does not fit is read as the largest that does.
Read(n) == IF n < Limit THEN n ELSE Limit - 1

LastByte(last, size) ==
    IF last = NoNumber THEN size - 1 ELSE IF Read(last) >= size THEN size - 1 ELSE Read(last)

\* Mutant: a range of two bytes counts as none.
RangesTight(first, last, size) ==
    LET e == IF first = NoNumber THEN 0 ELSE LastByte(last, size)
        b == IF first = NoNumber \/ Read(first) + 1 >= e THEN 0 ELSE Read(first)
    IN  IF b = 0 /\ e = 0 THEN [code |-> 200, begin |-> 0, end |-> size - 1]
                          ELSE [code |-> 206, begin |-> b, end |-> e]

\* _setRanges and _writeRanges: first and last are what Range says; without a
\* first byte it says nothing, and 0-0 is the same as no range.
Ranges(first, last, size) ==
    LET e == IF first = NoNumber THEN 0 ELSE LastByte(last, size)
        b == IF first = NoNumber \/ Read(first) >= e THEN 0 ELSE Read(first)
    IN  IF b = 0 /\ e = 0 THEN [code |-> 200, begin |-> 0, end |-> size - 1]
                          ELSE [code |-> 206, begin |-> b, end |-> e]

\* _onEnd finds the file and its size; _onIdle is its last call.
Found(size, first, last) ==
    LET s == size % Limit
        r == Ranges(first, last, s)
    IN  /\ reader.at = "new"
        /\ file' = [size |-> size, first |-> size, eof |-> FALSE, range |-> <<first, last>>]
        /\ IF s = 0
           THEN reader' = [reader EXCEPT !.at = "ended"] /\ UNCHANGED answer
           ELSE /\ reader' = [at |-> "idle", size |-> s, begin |-> r.begin, end |-> r.end, position |-> r.begin]
                /\ answer' = [code |-> r.code, length |-> r.end - r.begin + 1]
        /\ UNCHANGED given

\* Mutant: the last byte of the range is not counted.
ReadSizeShort == IF reader.end - reader.position > Chunk THEN Chunk ELSE reader.end - reader.position

ReadSize == IF reader.end - reader.position > Chunk THEN Chunk ELSE reader.end - reader.position + 1

\* Mutant: the end of the file is not looked at.
IdleBlind ==
    /\ reader.at = "idle" /\ UNCHANGED <<file, answer>>
    /\ \/ /\ reader.position < reader.end
          /\ given' = given \o [n \in 1 .. ReadSize |-> IF reader.position + n - 1 < file.size
                                                       THEN reader.position + n - 1 ELSE -1]
          /\ reader' = [reader EXCEPT !.position = @ + ReadSize]
       \/ /\ reader.position >= reader.end /\ reader' = [reader EXCEPT !.at = "ended"]
          /\ UNCHANGED given

\* _onIdle: a buffer of the size asked for is given whether or not the file had
\* that much; tellg() is -1 then.
Idle ==
    /\ reader.at = "idle"
    /\ \/ /\ ~file.eof /\ reader.position < reader.end
          /\ LET size == ReadSize
                 there == {p \in reader.position .. (reader.position + size - 1) : p < file.size}
             IN  /\ given' = given \o [n \in 1..size |-> IF reader.position + n - 1 \in there
                                                         THEN reader.position + n - 1 ELSE -1]
                 /\ reader' = [reader EXCEPT !.position = @ + size]
                 /\ file' = [file EXCEPT !.eof = Cardinality(there) < size]
       \/ /\ file.eof \/ reader.position >= reader.end
          /\ reader' = [reader EXCEPT !.at = "ended"]
          /\ UNCHANGED <<file, given>>
    /\ UNCHANGED answer

\* Somebody cuts the file.
Cut(size) ==
    /\ reader.at = "idle" /\ size < file.size /\ file.size = file.first
    /\ file' = [file EXCEPT !.size = size]
    /\ UNCHANGED <<reader, answer, given>>

Over == reader.at = "ended" /\ UNCHANGED vars

Next ==
    \/ Idle \/ Over
    \/ \E size \in Numbers : Cut(size) \/ \E first, last \in Numbers \cup {NoNumber} : Found(size, first, last)

Spec == Init /\ [][Next]_vars

-----------------------------------------------------------------------------
(* Properties.                                                              *)
Whole == file.size = file.first

\* What is announced is what is given: the bytes of the range, each once and in
\* order; but a file of one byte is announced and not given.
AnnouncedIsGiven ==
    reader.at = "ended" /\ Whole =>
        \/ given = [n \in 1 .. answer.length |-> reader.begin + n - 1]
        \/ reader.size = 1 /\ given = <<>>

\* A range of at least two bytes that the file has is answered as it was asked.
RangeIsKept ==
    LET first == file.range[1]  last == file.range[2] IN
    reader.at = "ended" /\ 0 <= first /\ first < last /\ last < reader.size =>
        answer = [code |-> 206, length |-> last - first + 1]
        /\ (Whole => Len(given) = last - first + 1 /\ given[1] = first)

\* However the file is cut, never is more given than announced, what is of the
\* file is of the range, and what is not is the filling of one buffer.
CutFileIsFilled ==
    /\ Len(given) <= answer.length
    /\ \A n \in DOMAIN given : given[n] \in {-1, reader.begin + n - 1}
    /\ Cardinality({n \in DOMAIN given : given[n] = -1}) <= Chunk + 1

\* The answer to a range is that range, and what is announced is what is given.
RangeIsAnswered == AnnouncedIsGiven /\ RangeIsKept /\ CutFileIsFilled
=============================================================================
