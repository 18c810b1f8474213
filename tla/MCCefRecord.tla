---------------------------- MODULE MCCefRecord ----------------------------
(* Logs for TLC: one record with up to two flows, two sub-flows and two      *)
(* tuples in each, or two records, one of them small; or logs of few records *)
(* read from any place, before or after they grew, whole or not.             *)
EXTENDS FileTask

\* What is behind a failed assertion does not matter, and is left empty.
SubFlowsUpTo(n) ==
    [listed : {TRUE}, mac : BOOLEAN, tuples : SeqOf(TupleKinds, n)]
      \cup {[listed |-> FALSE, mac |-> TRUE, tuples |-> <<>>]}

\* Flows of up to m sub-flows of up to n tuples.
FlowsUpTo(m, n) == [rule : {TRUE}, flows : SeqOf(SubFlowsUpTo(n), m)]
                     \cup {[rule |-> FALSE, flows |-> <<>>]}

FlowRecord(flows) ==
    [operation |-> "NetworkSecurityGroupFlowEvents", late |-> TRUE,
     listed |-> TRUE, flows |-> flows]

Unconverted ==
    {[FlowRecord(<<>>) EXCEPT !.late = FALSE],
     [FlowRecord(<<>>) EXCEPT !.listed = FALSE]}

Small == Unconverted \cup {FlowRecord(<<>>)}
           \cup OtherRecords({"NetworkSecurityGroupEvents", "unknown"})
           \cup {FlowRecord(<<f>>) : f \in FlowsUpTo(1, 1)}

Medium == Small \cup {FlowRecord(<<f>>) : f \in FlowsUpTo(1, 2)}
            \cup {FlowRecord(<<f>>) : f \in FlowsUpTo(2, 1)}

Large == {FlowRecord(<<f, g>>) : f \in FlowsUpTo(1, 2), g \in FlowsUpTo(1, 2)}
           \cup {FlowRecord(<<f, g>>) : f \in FlowsUpTo(1, 1),
                                        g \in FlowsUpTo(2, 1)}

Whole(kind, records) ==
    [kind |-> kind, before |-> 0, records |-> records, later |-> 0, lost |-> 0]

\* Every record, at the start of a log that nobody writes to.
WholeLogs ==
    {Whole("nsg", <<r>>) : r \in Large}
      \cup {Whole("nsg", <<r, s>>) : r \in Small, s \in Medium}
      \cup {Whole("nsg", <<r, s>>) : r \in Medium, s \in Small}
      \cup {Whole("access", <<r, s>>) : r, s \in AccessRecords}
      \cup {Whole("firewall", <<r, s>>) : r, s \in FirewallRecords}

Sample(kind) ==
    CASE kind = "nsg"      -> Unconverted
      [] kind = "access"   -> [operation : {"ApplicationGatewayAccess"},
                               late : {TRUE}, complete : BOOLEAN]
      [] kind = "firewall" -> [operation : {"ApplicationGatewayFirewall"},
                               late : {TRUE}, complete : BOOLEAN]

\* Up to three records after up to two, with up to two more behind, and an
\* answer that lacks up to all of the last record.
PartLogs ==
    UNION {[kind : {kind}, before : 0..2, records : SeqOf(Sample(kind), 3) \ {<<>>},
            later : 0..2, lost : 0..Width] : kind \in Kinds}

\* Times that repeat within a record and between records; json refuses 3, which
\* is a number like the others, and 9, the limit.
MCNumber(i, p)  == (i + p[2] + p[3]) % 4
MCMisread(i, p) == IF p[3] = 2 THEN 9 ELSE 0
MCWritable      == 0..2

MCLogs == WholeLogs \cup PartLogs
=============================================================================
