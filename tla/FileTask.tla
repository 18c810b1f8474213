------------------------------ MODULE FileTask ------------------------------
(***************************************************************************)
(* That CefRecord is a task of BlobIngest in full.  All that CefRecord     *)
(* does with the tokens, records and tuples of one log is, seen from       *)
(* BlobIngest with the file destination, two steps: a page is loaded or    *)
(* the task fails, and a file is written or there is nothing to write.     *)
(*                                                                         *)
(* The definitions below are the state of BlobIngest in terms of that of   *)
(* CefRecord; each has the name of what it stands for.  There is one blob, *)
(* whose task has been made and whose records are those of the log.        *)
(***************************************************************************)
EXTENDS CefRecord

CONSTANTS
    Number(_, _),   \* the seconds a tuple begins with, or of a gateway's record
    Misread(_, _),  \* what ParseInt returns with its error: 0 for a tuple that
                    \* begins with no number, a limit for one beyond int64
    Writable        \* the seconds json.Marshal can write: years 0 to 9999

NBlobs       == 1
Destination  == "file"
PerIteration == TRUE
FaultKinds   == {"get"}
MaxFaults    == 1
LogName      == [b \in {1} |-> "log"]

\* What no task reads: the bounds, and what selects its blob.
MaxRecords   == 0
MaxTime      == 0
MaxTouches   == 0
MaxCrashes   == 0
MaxCount     == 1
BeginHour    == 0
LogHour      == <<1>>
Misnamed     == {}
ListLimit    == 1
OrderedTimes == FALSE
SameSecond   == TRUE
Events       == <<>>

One(x) == [b \in {1} |-> x]

Listed == log.before + Len(log.records)

\* The checkpoint holds time 1; a record is later than that, or it is not.
Time(i) ==
    IF i \in (log.before + 1)..Listed
      THEN IF log.records[i - log.before].late THEN i + 1 ELSE 1
    ELSE IF i <= log.before THEN 1 ELSE i + 1

Yields(i) == i \in (log.before + 1)..Listed /\ EventsAt(log.records[i - log.before]) # {}

\* The time of the event from place p of record i of the log.
EventTime(i, p, dated) == IF dated THEN Number(i, p) ELSE Misread(i, p)

\* The event from place p of record r is of a tuple whose time can be read, or
\* of a gateway's record.
Dated(r, p) ==
    r.operation = "NetworkSecurityGroupFlowEvents" => TupleAt(r, p) = "full"

FirstOf(places) == CHOOSE p \in places : \A q \in places : p = q \/ Before(p, q)
LastOf(places)  == CHOOSE p \in places : \A q \in places : p = q \/ Before(q, p)

\* The times of the events of record i of the log, read from their places.
TimesIn(i) ==
    LET r       == log.records[i - log.before]
        At(p)   == EventTime(i, p, Dated(r, p))
        places  == EventsAt(r)
    IN  [first |-> At(FirstOf(places)), last |-> At(LastOf(places)),
         json  |-> \A p \in places : At(p) \in Writable]

content == One([i \in 1..(Listed + log.later) |->
                  [time   |-> Time(i), flows |-> Yields(i),
                   events |-> IF Yields(i) THEN TimesIn(i)
                              ELSE [first |-> 0, last |-> 0, json |-> TRUE]]])
stamp   == One(1)

\* The process as it runs this task: while the page is converted it sends.
Converting == pc \in {"page", "flows"}
taskPc == IF Converting THEN "send" ELSE "run"
todo   == IF pc = "done" THEN {} ELSE {1}
cur    == IF Converting THEN 1 ELSE 0
pos    == IF Converting THEN 1 ELSE 0

logFiles == One([stamp |-> 1, length |-> Listed, start |-> log.before, lastRecord |-> 1])

\* The record of the log that an event is of, and the time it was given.
RecordOf(event) == log.before + event.record
TimeOf(event)   == EventTime(RecordOf(event), event.at, event.dated)

Written ==
    /\ pc = "done" /\ collected # <<>>
    /\ \A event \in ToSet(collected) : TimeOf(event) \in Writable

status == One(IF Written THEN [stamp |-> 1, end |-> Listed, lastRecord |-> Time(Listed)]
                         ELSE [stamp |-> 0, end |-> log.before, lastRecord |-> 1])
disk   == One([stamp |-> 0, end |-> log.before, lastRecord |-> 1])

\* The file is named for the times of its first and its last event.
files ==
    IF Written
      THEN {[name   |-> [log   |-> "log",
                         start |-> TimeOf(collected[1]),
                         end   |-> TimeOf(Last(collected))],
             events |-> {<<1, RecordOf(event)>> : event \in ToSet(collected)}]}
      ELSE {}

received == One(<<>>)
crashes  == 0
\* An answer that was cut short is a call that failed, unless the range was
\* too short anyway.
faults   == IF pc # "load" /\ log.later = 0 /\ log.lost > 0 THEN 1 ELSE 0

NsgBlob     == INSTANCE BlobIngest WITH TimeFirst <- TRUE, pc <- taskPc
GatewayBlob == INSTANCE BlobIngest WITH TimeFirst <- FALSE, pc <- taskPc

\* Each step of CefRecord is a step of a task of BlobIngest or none that it
\* sees: a page is whole or the task fails, its entries emit as BlobIngest's
\* filter and lost heads say, whatever panics, and the file has those records
\* and is named for the times their first and last events have in the log; or
\* there is no file and no checkpoint, if json refuses one of the times.
IsFileTask ==
    [][IF log.kind = "nsg" THEN NsgBlob!FileTask(1) ELSE GatewayBlob!FileTask(1)]_(NsgBlob!vars)
=============================================================================
