----------------------------- MODULE CefRecord -----------------------------
(***************************************************************************)
(* From a log blob to CEF events: LoadBlobRange makes a page of the range  *)
(* a task reads, the clients loop over its records, and GetCEFList of the  *)
(* three kinds of record converts each (parser/event_record.go,            *)
(* parser/appgw_*_record.go).  BlobIngest knows of a page only how many    *)
(* records it has, and of a record only whether it has events.             *)
(*                                                                         *)
(* Abstractions.  A type assertion on a value of the JSON panics or does   *)
(* not, so of each value only whether it is there with the right type is   *)
(* kept.  An entry of GetRecords is its own record, as from Go 1.22 on.  A *)
(* tuple is of one of four kinds.  An event is where it comes from and     *)
(* whether it has a time; its extensions copy the fields there.            *)
(***************************************************************************)
EXTENDS BlobPage, FiniteSets

CONSTANT Logs   \* the logs that may be read, in the state they are read in

\* A tuple of eight fields, one of eight with no number for a time, one of
\* another number of fields, and a value that is no string.
TupleKinds == {"full", "undated", "short", "alien"}

\* listed: the list of flows, or of tuples, is there.  rule: so are the flow's
\* rule and its list of sub-flows.  late: the record's time is after StartTime.
SubFlows == [listed : BOOLEAN, mac : BOOLEAN, tuples : Seq(TupleKinds)]
Flows    == [rule : BOOLEAN, flows : Seq(SubFlows)]

FlowRecords ==
    [operation : {"NetworkSecurityGroupFlowEvents"}, late : BOOLEAN,
     listed : BOOLEAN, flows : Seq(Flows)]

\* complete: every property the conversion asserts is there.
OtherRecords(operations) ==
    [operation : operations, late : BOOLEAN, complete : BOOLEAN]

\* The records of a log are read as records of the log's kind.
NsgRecords ==
    FlowRecords \cup OtherRecords({"NetworkSecurityGroupEvents", "unknown"})
AccessRecords   == OtherRecords({"ApplicationGatewayAccess", "unknown"})
FirewallRecords == OtherRecords({"ApplicationGatewayFirewall", "unknown"})

RecordsOf(kind) == CASE kind = "nsg"      -> NsgRecords
                     [] kind = "access"   -> AccessRecords
                     [] kind = "firewall" -> FirewallRecords

\* before: the records the checkpoint covers.  records: those the listing has
\* beyond.  later: those appended since.  lost: how much of the end of the
\* answer does not arrive.
ASSUME CefRecordAssumption ==
    \A log \in Logs :
        /\ log.kind \in Kinds
        /\ log.records \in Seq(RecordsOf(log.kind)) \ {<<>>}
        /\ {log.before, log.later, log.lost} \subseteq Nat

VARIABLES
    log,        \* the blob, as the task finds it
    page,       \* the records of the page
    record,     \* the index of the record being converted
    flow, subFlow, tuple,  \* the indices of the three loops
    events, errors,        \* what the conversion of the record has so far
    collected,  \* the client's events
    pc          \* "load", "page": between records, "flows": in the loops, "done"

vars == <<log, page, record, flow, subFlow, tuple, events, errors, collected, pc>>

Init ==
    /\ log \in Logs /\ page = <<>>
    /\ record = 1 /\ flow = 0 /\ subFlow = 0 /\ tuple = 0
    /\ events = <<>> /\ errors = 0 /\ collected = <<>> /\ pc = "load"

-----------------------------------------------------------------------------
(* LoadBlobRange                                                           *)

\* What arrives of the range; ReadAll's error is overwritten.
Arrived ==
    LET listed == log.before + Len(log.records)
        answer == GetRange(Text(log.kind, listed + log.later),
                           UnprocessedRange(log.before, listed))
    IN  SubSeq(answer, 1, Len(answer) - log.lost)

Payload == StructuredJson(Arrived)

\* The record as it is parsed: without its name, its operation is unknown.
Parsed(r) ==
    LET stored == log.records[r.of - log.before]
    IN  IF r.operation THEN stored ELSE [stored EXCEPT !.operation = "unknown"]

LoadPage ==
    /\ pc = "load" /\ IsJson(Payload)
    /\ page' = [i \in DOMAIN Unmarshal(Payload) |-> Parsed(Unmarshal(Payload)[i])]
    /\ pc' = "page"
    /\ UNCHANGED <<log, record, flow, subFlow, tuple, events, errors, collected>>

\* No "time", or no JSON: the client returns the error.
LoadFails ==
    /\ pc = "load" /\ ~IsJson(Payload)
    /\ pc' = "done"
    /\ UNCHANGED <<log, page, record, flow, subFlow, tuple, events, errors, collected>>

-----------------------------------------------------------------------------
(* GetCEFList of the next record                                           *)

Current == page[record]

IsFlow    == Current.operation = "NetworkSecurityGroupFlowEvents"
IsGateway == Current.operation \in {"ApplicationGatewayAccess",
                                    "ApplicationGatewayFirewall"}

NextRecord == record' = record + 1 /\ pc' = "page"

Forget ==
    /\ flow' = 0 /\ subFlow' = 0 /\ tuple' = 0
    /\ events' = <<>> /\ errors' = 0

\* The conversion panics; the deferred recover lets it return, with the zero
\* values of its unnamed results.
\* (Mutant: the results are named, and keep what there was.)
PanicKeeping == NextRecord /\ Forget /\ collected' = collected \o events

Panic == NextRecord /\ Forget /\ UNCHANGED collected

AtRecord == pc = "page" /\ record <= Len(page)

\* No conversion for the operation, or nothing later than StartTime.
SkipRecord ==
    /\ AtRecord
    /\ ~(IsFlow \/ IsGateway) \/ ~Current.late
    /\ NextRecord
    /\ UNCHANGED <<log, page, flow, subFlow, tuple, events, errors, collected>>

ConvertGateway ==
    /\ AtRecord /\ IsGateway /\ Current.late
    /\ IF Current.complete
         THEN /\ collected' = Append(collected, [record |-> record,
                                                 at |-> <<0, 0, 0>>,
                                                 dated |-> TRUE])
              /\ NextRecord
              /\ UNCHANGED <<flow, subFlow, tuple, events, errors>>
         ELSE Panic
    /\ UNCHANGED <<log, page>>

EnterFlows ==
    /\ AtRecord /\ IsFlow /\ Current.late
    /\ IF Current.listed
         THEN pc' = "flows" /\ UNCHANGED <<record, flow, subFlow, tuple, events,
                                           errors, collected>>
         ELSE Panic
    /\ UNCHANGED <<log, page>>

-----------------------------------------------------------------------------
(* convertNetworkSecurityGroupFlowEventsToCEF: flows, sub-flows, tuples    *)

InFlow    == flow > 0
InSubFlow == subFlow > 0
TheFlow    == Current.flows[flow]
TheSubFlow == TheFlow.flows[subFlow]
TheTuple   == TheSubFlow.tuples[tuple + 1]

TuplesLeft   == InSubFlow /\ tuple < Len(TheSubFlow.tuples)
SubFlowsLeft == InFlow /\ subFlow < Len(TheFlow.flows)

NextFlow ==
    /\ pc = "flows" /\ ~TuplesLeft /\ ~SubFlowsLeft
    /\ flow < Len(Current.flows)
    /\ IF Current.flows[flow + 1].rule
         THEN /\ flow' = flow + 1 /\ subFlow' = 0 /\ tuple' = 0
              /\ UNCHANGED <<record, events, errors, collected, pc>>
         ELSE Panic
    /\ UNCHANGED <<log, page>>

NextSubFlow ==
    /\ pc = "flows" /\ ~TuplesLeft /\ SubFlowsLeft
    /\ IF TheFlow.flows[subFlow + 1].listed
         THEN /\ subFlow' = subFlow + 1 /\ tuple' = 0
              /\ UNCHANGED <<record, flow, events, errors, collected, pc>>
         ELSE Panic
    /\ UNCHANGED <<log, page>>

AtTuple(kinds) == pc = "flows" /\ TuplesLeft /\ TheTuple \in kinds

\* (Mutant: no `continue` after the error.)
ShortTupleKept ==
    /\ AtTuple({"short"})
    /\ errors' = errors + 1 /\ tuple' = tuple + 1
    /\ events' = Append(events, [record |-> record,
                                 at |-> <<flow, subFlow, tuple + 1>>,
                                 dated |-> FALSE])
    /\ UNCHANGED <<log, page, record, flow, subFlow, collected, pc>>

ShortTuple ==
    /\ AtTuple({"short"})
    /\ errors' = errors + 1 /\ tuple' = tuple + 1
    /\ UNCHANGED <<log, page, record, flow, subFlow, events, collected, pc>>

\* A tuple without a time is an error and an event of the epoch.  The MAC is
\* asserted for every direction, as an unknown one counts as inbound.
ConvertTuple ==
    /\ AtTuple({"full", "undated"}) /\ TheSubFlow.mac
    /\ events' = Append(events, [record |-> record,
                                 at |-> <<flow, subFlow, tuple + 1>>,
                                 dated |-> TheTuple = "full"])
    /\ errors' = IF TheTuple = "undated" THEN errors + 1 ELSE errors
    /\ tuple' = tuple + 1
    /\ UNCHANGED <<log, page, record, flow, subFlow, collected, pc>>

TuplePanics ==
    /\ \/ AtTuple({"alien"})
       \/ AtTuple({"full", "undated"}) /\ ~TheSubFlow.mac
    /\ Panic
    /\ UNCHANGED <<log, page>>

\* The record's events go to the client, its errors to nobody.
\* (Mutant: the list is not made anew for each record.)
ReturnShared ==
    /\ pc = "flows" /\ ~TuplesLeft /\ ~SubFlowsLeft
    /\ flow = Len(Current.flows)
    /\ collected' = collected \o events
    /\ NextRecord
    /\ flow' = 0 /\ subFlow' = 0 /\ tuple' = 0 /\ errors' = 0
    /\ UNCHANGED <<log, page, events>>

ReturnEvents ==
    /\ pc = "flows" /\ ~TuplesLeft /\ ~SubFlowsLeft
    /\ flow = Len(Current.flows)
    /\ collected' = collected \o events
    /\ NextRecord /\ Forget
    /\ UNCHANGED <<log, page>>

Finish ==
    /\ pc = "page" /\ record > Len(page)
    /\ pc' = "done"
    /\ UNCHANGED <<log, page, record, flow, subFlow, tuple, events, errors, collected>>

Next ==
    \/ LoadPage \/ LoadFails
    \/ SkipRecord \/ ConvertGateway \/ EnterFlows
    \/ NextFlow \/ NextSubFlow
    \/ ShortTuple \/ ConvertTuple \/ TuplePanics
    \/ ReturnEvents \/ Finish

Spec == Init /\ [][Next]_vars

-----------------------------------------------------------------------------
(* Properties *)

EventType == [record : Nat \ {0}, dated : BOOLEAN, at : Nat \X Nat \X Nat]

\* Every variable has its type, and outside the loops nothing is left of the
\* record before.
TypeOK ==
    /\ record \in 1..(Len(page) + 1)
    /\ flow \in Nat /\ subFlow \in Nat /\ tuple \in Nat
    /\ events \in Seq(EventType) /\ collected \in Seq(EventType)
    /\ errors \in Nat
    /\ log \in Logs /\ page \in Seq(RecordsOf(log.kind))
    /\ pc \in {"load", "page", "flows", "done"}
    /\ pc # "flows" =>
         events = <<>> /\ errors = 0 /\ <<flow, subFlow, tuple>> = <<0, 0, 0>>

\* The page is what lies between the checkpoint and the listing, whole and in
\* order, or there is none: a blob that grew and an answer cut short never give
\* a part.  Only the first record of a gateway log comes without its operation.
PageLoaded ==
    pc # "load" =>
        page = IF log.later > 0 \/ log.lost > 0 THEN <<>>
               ELSE IF log.kind = "nsg" THEN log.records
               ELSE [log.records EXCEPT ![1].operation = "unknown"]

\* The positions of the tuples of a flow record.
Positions(r) ==
    UNION {UNION {{<<f, s, t>> : t \in DOMAIN r.flows[f].flows[s].tuples}
                    : s \in DOMAIN r.flows[f].flows}
             : f \in DOMAIN r.flows}

SubFlowAt(r, p) == r.flows[p[1]].flows[p[2]]
TupleAt(r, p)   == SubFlowAt(r, p).tuples[p[3]]

\* Reference: what makes the conversion of a flow record panic ...
Sane(r) ==
    /\ r.listed
    /\ \A f \in DOMAIN r.flows :
          /\ r.flows[f].rule
          /\ \A s \in DOMAIN r.flows[f].flows : r.flows[f].flows[s].listed
    /\ \A p \in Positions(r) :
          /\ TupleAt(r, p) # "alien"
          /\ TupleAt(r, p) # "short" => SubFlowAt(r, p).mac

\* ... where the events of a record come from, if it is late ...
EventsAt(r) ==
    IF r.operation = "NetworkSecurityGroupFlowEvents"
      THEN IF Sane(r) THEN {p \in Positions(r) : TupleAt(r, p) # "short"} ELSE {}
    ELSE IF r.operation \in {"ApplicationGatewayAccess",
                             "ApplicationGatewayFirewall"} /\ r.complete
      THEN {<<0, 0, 0>>}
    ELSE {}

\* ... and where those of record i of the page come from.
Sources(i) == IF page[i].late THEN EventsAt(page[i]) ELSE {}

Before(p, q) ==
    \/ p[1] < q[1]
    \/ p[1] = q[1] /\ p[2] < q[2]
    \/ p[1] = q[1] /\ p[2] = q[2] /\ p[3] < q[3]

\* The client holds, at any moment, an event for each source in the records it
\* has gone through, each once, in the order of the page: a malformed record
\* costs its own events, all of them, and no other's.
Converted ==
    /\ {<<collected[i].record, collected[i].at>> : i \in 1..Len(collected)}
         = UNION {{<<i, p>> : p \in Sources(i)} : i \in 1..(record - 1)}
    /\ \A i \in 1..(Len(collected) - 1) :
          LET e == collected[i] f == collected[i + 1]
          IN  e.record < f.record \/ (e.record = f.record /\ Before(e.at, f.at))

\* No tuple is passed over, whatever the loops skipped and whichever flows came
\* before: of those behind, all but the short ones are events, and all but the
\* full ones errors.
Accounted ==
    pc = "flows" =>
        LET Behind(kinds) ==
                {p \in Positions(Current) :
                    /\ \/ p = <<flow, subFlow, tuple>>
                       \/ Before(p, <<flow, subFlow, tuple>>)
                    /\ TupleAt(Current, p) \in kinds}
        IN  /\ Len(events) = Cardinality(Behind({"full", "undated"}))
            /\ errors = Cardinality(Behind({"undated", "short"}))
=============================================================================
