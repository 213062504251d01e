------------------------------- MODULE PostData -------------------------------
(***************************************************************************)
(* server/modules/common: PostData.hpp and AbstractProcessingModule.hpp,   *)
(* the fields of a form that was posted.                                   *)
(*                                                                         *)
(* The buffers of the body are kept until ON_END and read one after the    *)
(* other.  A byte is "=", "&" or "a", any other; the escapes of _readChar  *)
(* are left out.  A field is a pair of strings, and fields, which the code *)
(* keeps in a map of lists, is the sequence of the pairs.                  *)
(***************************************************************************)
EXTENDS Naturals, Sequences, FiniteSets, SequencesExt

CONSTANTS MaxBuffers, MaxBytes   \* bounds of this model: buffers, and bytes in all of them

VARIABLES
    form,     \* where the module is in prepare, and its locals
    body,     \* _post_data
    fields,
    cleared   \* the buffers released, in order
vars == <<form, body, fields, cleared>>

Byte == {"a", "=", "&"}
Init ==
    /\ form = [at |-> "append", buffer |-> 1, i |-> 1, key |-> <<>>, value |-> <<>>, readKey |-> TRUE]
    /\ body = <<>> /\ fields = <<>> /\ cleared = <<>>

\* ON_REQUEST_DATA
Received(data) ==
    /\ form.at = "append" /\ Len(body) < MaxBuffers /\ Len(FlattenSeq(body)) + Len(data) <= MaxBytes
    /\ body' = Append(body, data) /\ UNCHANGED <<form, fields, cleared>>

\* ON_END
Prepare ==
    /\ form.at = "append" /\ form' = [form EXCEPT !.at = "loop"]
    /\ UNCHANGED <<body, fields, cleared>>

\* The first place from i on that has one of these bytes, or the end.
Until(data, i, stops) ==
    Min({j \in i .. Len(data) : data[j] \in stops} \cup {Len(data) + 1})
Bytes(data, i, j) == SubSeq(data, i, j - 1)
Field == <<form.key, form.value>>

\* Mutant: the "&" after a value is not passed.
TurnStays(f, data) ==
    LET j == IF f.readKey THEN Until(data, f.i, {"=", "&"}) ELSE f.i
        key == IF f.readKey THEN f.key \o Bytes(data, f.i, j) ELSE f.key
        bare == f.readKey /\ j <= Len(data) /\ data[j] = "&"
        k == Until(data, j + 1, {"&"})
    IN  IF j <= Len(data) /\ data[j] = "="
        THEN [f EXCEPT !.key = key, !.value = @ \o Bytes(data, j + 1, k), !.i = k,
                       !.readKey = @ \/ k <= Len(data)]
        ELSE [f EXCEPT !.key = key, !.i = j, !.readKey = @ /\ ~bare]

\* What one turn of the inner loop does before it stores the field.  A value that
\* ends with its buffer leaves i behind the end.
Turn(f, data) ==
    LET j == IF f.readKey THEN Until(data, f.i, {"=", "&"}) ELSE f.i
        key == IF f.readKey THEN f.key \o Bytes(data, f.i, j) ELSE f.key
        bare == f.readKey /\ j <= Len(data) /\ data[j] = "&"
        k == Until(data, j + 1, {"&"})
    IN  IF j <= Len(data) /\ data[j] = "="
        THEN [f EXCEPT !.key = key, !.value = @ \o Bytes(data, j + 1, k), !.i = k + 1,
                       !.readKey = @ \/ k <= Len(data)]
        ELSE [f EXCEPT !.key = key, !.i = j, !.readKey = @ /\ ~bare]

Loop ==
    LET data == body[form.buffer]
        f == Turn(form, data)
    IN  /\ form.at = "loop" /\ form.buffer <= Len(body) /\ form.i <= Len(data)
        /\ IF f.readKey /\ f.i <= Len(data)
           THEN /\ fields' = Append(fields, <<f.key, f.value>>)
                /\ form' = [f EXCEPT !.key = <<>>, !.value = <<>>]
           ELSE form' = f /\ UNCHANGED fields
        /\ UNCHANGED <<body, cleared>>

\* Mutant: the last field of a buffer is lost.
NextBufferOnly ==
    /\ form.at = "loop" /\ form.buffer <= Len(body) /\ form.i > Len(body[form.buffer])
    /\ form' = [form EXCEPT !.key = <<>>, !.value = <<>>, !.buffer = @ + 1, !.i = 1]
    /\ UNCHANGED <<fields, body, cleared>>

\* The end of a buffer: a value without a key is kept for the next one.
NextBuffer ==
    /\ form.at = "loop" /\ form.buffer <= Len(body) /\ form.i > Len(body[form.buffer])
    /\ IF form.readKey /\ form.key # <<>>
       THEN /\ fields' = Append(fields, Field)
            /\ form' = [form EXCEPT !.key = <<>>, !.value = <<>>, !.buffer = @ + 1, !.i = 1]
       ELSE form' = [form EXCEPT !.buffer = @ + 1, !.i = 1] /\ UNCHANGED fields
    /\ UNCHANGED <<body, cleared>>

Clear ==
    /\ form.at = "loop" /\ form.buffer > Len(body)
    /\ form' = [form EXCEPT !.at = "ready"]
    /\ cleared' = cleared \o body
    /\ UNCHANGED <<body, fields>>

\* The request may be over before its end has come: ~PostData.
Over ==
    \/ /\ form.at = "append" /\ form' = [form EXCEPT !.at = "gone"]
       /\ cleared' = cleared \o body /\ UNCHANGED <<body, fields>>
    \/ form.at \in {"ready", "gone"} /\ UNCHANGED vars

Data == UNION {[1..n -> Byte] : n \in 1..MaxBytes}
Next == Prepare \/ Loop \/ NextBuffer \/ Clear \/ Over \/ \E data \in Data : Received(data)

Spec == Init /\ [][Next]_vars
\* prepare does not wait for anything.
Reading == Loop \/ NextBuffer \/ Clear
FairSpec == Spec /\ WF_vars(Reading)

-----------------------------------------------------------------------------
(* Properties.                                                              *)

\* The parts between the "&" of a sequence of bytes.
Ands(data) == SetToSortSeq({i \in DOMAIN data : data[i] = "&"}, <)
Part(data, n) ==
    LET ands == <<0>> \o Ands(data) \o <<Len(data) + 1>> IN SubSeq(data, ands[n] + 1, ands[n + 1] - 1)
Parts(data) == [n \in 1 .. (Len(Ands(data)) + 1) |-> Part(data, n)]

\* What the form says: the key of a field goes to its first "=".
FieldOf(part) ==
    LET eq == Until(part, 1, {"="}) IN <<SubSeq(part, 1, eq - 1), SubSeq(part, eq + 1, Len(part))>>
Fields(data) == [n \in DOMAIN SelectSeq(Parts(data), LAMBDA p : p # <<>>) |->
                    FieldOf(SelectSeq(Parts(data), LAMBDA p : p # <<>>)[n])]

\* A key that an "&" ends; a field without a key; a buffer that ends within a field.
HasBareKey(data) == \E n \in 1 .. (Len(Parts(data)) - 1) : ~Contains(Parts(data)[n], "=")
HasKeys(data) == \A n \in DOMAIN Fields(data) : Fields(data)[n][1] # <<>>
Whole(b) == \A n \in 1 .. (Len(b) - 1) : Last(b[n]) = "&"

\* The fields are those of the form, if each has a key and is in one buffer.
FormIsRead ==
    form.at = "ready" /\ Whole(body) /\ (\A n \in DOMAIN body : HasKeys(body[n])) =>
        fields = FlattenSeq([n \in DOMAIN body |-> Fields(body[n])])

\* The module gets to the end of a form, unless a key has no "=": prepare stays at
\* its "&" for ever.
PrepareEnds ==
    form.at = "loop" ~> (form.at = "ready" \/ \E n \in DOMAIN body : HasBareKey(body[n]))

\* A form is read to its end, and as it is.
FormIsSeen == []FormIsRead /\ PrepareEnds
=============================================================================
