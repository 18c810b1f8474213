------------------------------ MODULE BlobPage ------------------------------
(***************************************************************************)
(* The text of a log blob, the range of it that a task reads and the page  *)
(* of records made of that: getUnprocessedBlobRange and LoadBlobRange,     *)
(* which the three kinds of log file have alike.                           *)
(*                                                                         *)
(* A token stands for a run of bytes.  "begin" opens a blob's list and its *)
(* first record, "next" lies between two records, "end" closes the last    *)
(* record and the list and becomes "next" when a record is appended.  Of a *)
(* record the two fields are kept whose order decides what a page has.     *)
(***************************************************************************)
EXTENDS Integers, SequencesExt

Kinds == {"nsg", "access", "firewall"}

\* The fields of a record in the order of the samples of its kind.
Fields(kind) ==
    IF kind = "nsg" THEN <<"time", "operation">> ELSE <<"operation", "time">>

Width == 3   \* the tokens of a record, with the one before it

\* ContentLength of a blob of n records.
ContentLength(n) == IF n = 0 THEN 0 ELSE n * Width + 1

Separator(token) == [token |-> token, of |-> 0]

\* The text of a blob of n records.
Text(kind, n) ==
    [p \in 1..ContentLength(n) |->
        LET field == (p - 1) % Width IN
        IF field > 0 THEN [token |-> Fields(kind)[field],
                           of |-> (p - 1) \div Width + 1]
        ELSE Separator(IF p = 1 THEN "begin"
                       ELSE IF p = ContentLength(n) THEN "end" ELSE "next")]

\* From the checkpoint's end to the length in the listing.
UnprocessedRange(before, listed) ==
    [start |-> ContentLength(before), end |-> ContentLength(listed)]

\* The answer to `bytes=start-end`: HTTP counts from 0 and includes the end.
GetRange(text, range) ==
    SubSeq(text, range.start + 1, Min({range.end + 1, Len(text)}))

IsTime(token) == token.token = "time"

\* (Mutant: bytes.LastIndex.)
CutAtLast(bytes) ==
    LET last == SelectLastInSeq(bytes, IsTime)
    IN  IF last = 0 THEN <<>>
        ELSE <<Separator("begin")>> \o SubSeq(bytes, last, Len(bytes))

\* The text given to the JSON parser: a new beginning, and all from the first
\* "time" on.  Without one there is nothing to parse.
StructuredJson(bytes) ==
    LET first == SelectInSeq(bytes, IsTime)
    IN  IF first = 0 THEN <<>>
        ELSE <<Separator("begin")>> \o SubSeq(bytes, first, Len(bytes))

\* What was cut out of a blob is JSON if it ends where a blob ends.
IsJson(text) == text # <<>> /\ Last(text).token = "end"

Times(text) == {p \in DOMAIN text : IsTime(text[p])}

Nth(positions, n) ==
    CHOOSE p \in positions : Cardinality({q \in positions : q <= p}) = n

\* The records of the parsed text, and whether they have their operation name.
Unmarshal(text) ==
    [i \in 1..Cardinality(Times(text)) |->
        LET time == text[Nth(Times(text), i)]
        IN  [of        |-> time.of,
             operation |-> [token |-> "operation", of |-> time.of]
                             \in ToSet(text)]]
=============================================================================
