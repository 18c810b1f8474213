---------------------------- MODULE SyslogWriter ----------------------------
(***************************************************************************)
(* The connection to the syslog server: SendEvent of the syslog client     *)
(* (parser/cef.go), and Write, writeAndRetry and connect of srslog's       *)
(* Writer, against a network and a server that fail.  This is what is      *)
(* behind SendEvent and SendEventFails of BlobIngest.                      *)
(*                                                                         *)
(* A write on a connection that broke succeeds, into nothing, until the    *)
(* kernel knows; then it fails.  A write that fails may have sent a part   *)
(* of its message over TCP, never all of it.  Dialling UDP always works.   *)
(* The network repeats nothing.                                            *)
(***************************************************************************)
EXTENDS CefText

CONSTANTS
    Batches,    \* the events of a page, in their order
    MaxBreaks   \* bound: times the server stops or the connection breaks

ASSUME SyslogWriterAssumption ==
    Batches \subseteq Seq(EventType) /\ MaxBreaks \in Nat

VARIABLES
    network,  \* the protocol dialled
    events,   \* the events of the page
    calls,    \* how many of them SendEvent was called with
    pc,       \* the call: "ready" for the next, "write", "connect", "rewrite"
    conn,     \* w.conn: "none", "open", "broken" and not noticed, "reset"
    server,   \* "up", "down"
    wire,     \* what is under way on the connection
    arrived,  \* what the server has read
    breaks

vars == <<network, events, calls, pc, conn, server, wire, arrived, breaks>>

\* Initialize has dialled, or the program has ended.
Init ==
    /\ network \in {"tcp", "udp"}
    /\ events \in Batches /\ calls = 0 /\ pc = "ready" /\ conn = "open" /\ server = "up"
    /\ wire = <<>> /\ arrived = <<>> /\ breaks = 0

-----------------------------------------------------------------------------
(* SendEvent and writeAndRetry                                             *)

\* The message of the present call, or a part of it.
Message(whole) == [call |-> calls, whole |-> whole]

\* writeString formats the event when it is written.
Text(message) == MessageText("host", events[message.call])

SendEvent ==
    /\ pc = "ready" /\ calls < Len(events)
    /\ calls' = calls + 1
    /\ pc' = IF conn = "none" THEN "connect" ELSE "write"
    /\ UNCHANGED <<network, events, conn, server, wire, arrived, breaks>>

Writing == pc \in {"write", "rewrite"}

\* (Mutant: no second attempt.)
GivesUp == pc' = "ready"

\* After the first failed write connect and write again; after the second give
\* up: SendEvent does not look at the error.
AfterError == pc' = IF pc = "write" THEN "connect" ELSE "ready"

\* (Mutant: the result of the first write is not returned.)
FallsThrough == pc' = IF pc = "write" THEN "connect" ELSE "ready"

Returns == pc' = "ready"

Write ==
    /\ Writing /\ conn = "open"
    /\ wire' = Append(wire, Message(TRUE))
    /\ Returns
    /\ UNCHANGED <<network, events, calls, conn, server, arrived, breaks>>

WriteVanishes ==
    /\ Writing /\ conn = "broken"
    /\ Returns
    /\ UNCHANGED <<network, events, calls, conn, server, wire, arrived, breaks>>

WriteFails ==
    /\ Writing /\ conn = "reset"
    /\ AfterError
    /\ UNCHANGED <<network, events, calls, conn, server, wire, arrived, breaks>>

\* The connection breaks under the write, when all before it has arrived and a
\* part of it as well.
WritePartly ==
    /\ Writing /\ conn = "open" /\ network = "tcp"
    /\ breaks < MaxBreaks /\ breaks' = breaks + 1
    /\ conn' = "reset"
    /\ wire = <<>> /\ arrived' = Append(arrived, Message(FALSE))
    /\ AfterError
    /\ UNCHANGED <<network, events, calls, server, wire>>

\* connect closes the connection there is, and dials.
Connect ==
    /\ pc = "connect" /\ (network = "udp" \/ server = "up")
    /\ conn' = "open" /\ pc' = "rewrite"
    /\ UNCHANGED <<network, events, calls, server, wire, arrived, breaks>>

ConnectFails ==
    /\ pc = "connect" /\ network = "tcp" /\ server = "down"
    /\ conn' = "none" /\ pc' = "ready"
    /\ UNCHANGED <<network, events, calls, server, wire, arrived, breaks>>

Writer ==
    \/ Write \/ WriteVanishes \/ WriteFails \/ Connect \/ ConnectFails

-----------------------------------------------------------------------------
(* The network and the server                                              *)

\* TCP keeps the order, UDP does not.
Arrive ==
    /\ server = "up"
    /\ \E i \in DOMAIN wire :
          /\ network = "tcp" => i = 1
          /\ arrived' = Append(arrived, wire[i])
          /\ wire' = RemoveAt(wire, i)
    /\ UNCHANGED <<network, events, calls, pc, conn, server, breaks>>

\* A datagram is lost; that nobody listens comes back as an error.
Drop ==
    /\ network = "udp"
    /\ \E i \in DOMAIN wire : wire' = RemoveAt(wire, i)
    /\ conn' \in IF server = "down" THEN {conn, "reset"} ELSE {conn}
    /\ UNCHANGED <<network, events, calls, pc, server, arrived, breaks>>

\* What was under way on a TCP connection goes with it.
Break ==
    /\ breaks < MaxBreaks /\ breaks' = breaks + 1
    /\ IF network = "tcp" /\ conn = "open"
         THEN conn' = "broken" /\ wire' = <<>>
         ELSE UNCHANGED <<conn, wire>>
    /\ UNCHANGED <<network, events, calls, pc, arrived>>

ServerStops == server = "up" /\ server' = "down" /\ Break

ConnectionBreaks == network = "tcp" /\ conn = "open" /\ UNCHANGED server /\ Break

ServerStarts ==
    /\ server = "down" /\ server' = "up"
    /\ UNCHANGED <<network, events, calls, pc, conn, wire, arrived, breaks>>

Notice ==
    /\ conn = "broken" /\ conn' = "reset"
    /\ UNCHANGED <<network, events, calls, pc, server, wire, arrived, breaks>>

Next ==
    \/ SendEvent \/ Writer \/ WritePartly
    \/ Arrive \/ Drop
    \/ ServerStops \/ ConnectionBreaks \/ ServerStarts \/ Notice

\* A call goes on until it returns; TCP carries what it can.
Fairness == WF_vars(Writer) /\ WF_vars(network = "tcp" /\ Arrive)

Spec == Init /\ [][Next]_vars /\ Fairness

-----------------------------------------------------------------------------
(* Properties *)

\* What may be on its way: by UDP no part of a message.
Sent == [call : 1..calls, whole : IF network = "tcp" THEN BOOLEAN ELSE {TRUE}]

\* Every variable has its type, and a call that is retried has found the
\* connection unusable or made a new one.
TypeOK ==
    /\ network \in {"tcp", "udp"} /\ server \in {"up", "down"}
    /\ events \in Batches /\ calls \in 0..Len(events) /\ breaks \in 0..MaxBreaks
    /\ pc \in {"ready", "write", "connect", "rewrite"}
    /\ conn \in {"none", "open", "broken", "reset"}
    /\ pc # "ready" => calls > 0
    /\ pc = "connect" => conn \in {"none", "reset"}
    /\ network = "udp" => conn \in {"open", "reset"}
    /\ conn \in {"none", "broken", "reset"} /\ network = "tcp" => wire = <<>>
    /\ wire \in Seq(Sent) /\ arrived \in Seq(Sent)

\* That of two messages the first is of an earlier call, if both are whole; by
\* UDP they may pass each other.
Before(m, n) ==
    m.whole /\ n.whole => IF network = "tcp" THEN m.call < n.call
                                            ELSE m.call # n.call

\* The retry repeats no event: each arrives whole at most once, and over TCP in
\* the order of the calls, however writes fail and connections are made anew.
ArrivedOnce ==
    LET sent == arrived \o wire
    IN  \A i, j \in DOMAIN sent : i < j => Before(sent[i], sent[j])

\* The event as it goes out: without a time it gets that of its writing.
Stamped(event) ==
    IF event.time = NoTime THEN [event EXCEPT !.time = "now"] ELSE event

\* The server can read from a message the event it was made of, its time and
\* every value, when the values are plain.
Intact ==
    \A m \in ToSet(arrived) :
        LET event == events[m.call] IN
        m.whole /\ (\A key \in ToSet(Keys) : Plain(event.extension[key]))
            => ReadBack(Text(m)) = Stamped(event)

Calls == UNION {DOMAIN batch : batch \in Batches}

ArrivedWhole(n) == \E m \in ToSet(arrived) : m.call = n /\ m.whole

\* Over TCP, once the server is there to stay and the writer knows of every
\* broken connection, the event of the present call arrives: the retry makes
\* a new connection and uses it.
Recovers ==
    \A n \in Calls :
        (/\ network = "tcp" /\ server = "up" /\ breaks = MaxBreaks
         /\ conn # "broken" /\ calls = n /\ pc \in {"write", "connect"})
            ~> ArrivedWhole(n)

-----------------------------------------------------------------------------
(* Claims *)

\* vendor/github.com/RackSec/srslog/writer.go:172 "ensure it ends in a \n":
\* what the server reads from a stream ends every message with a newline.
Framed ==
    network = "tcp" =>
        \A m \in ToSet(arrived) : m.whole => Last(Text(m)) = "newline"
=============================================================================
