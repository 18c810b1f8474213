------------------------- MODULE SyslogWriterProofs -------------------------
(* Theorems about SyslogWriter, for all pages and any number of breaks.     *)
EXTENDS SyslogWriter, SequenceTheorems, NaturalsInduction, WellFoundedInduction, TLAPS

-----------------------------------------------------------------------------
(* What is known of the operators on sequences.                             *)

LEMMA RemoveAtFacts ==
  ASSUME NEW S, NEW s \in Seq(S), NEW i \in 1..Len(s)
  PROVE  /\ RemoveAt(s, i) \in Seq(S) /\ Len(RemoveAt(s, i)) = Len(s) - 1
         /\ \A k \in 1..(Len(s) - 1) : RemoveAt(s, i)[k] = s[IF k < i THEN k ELSE k + 1]
  <1> DEFINE front == SubSeq(s, 1, i - 1)
             back  == SubSeq(s, i + 1, Len(s))
  <1>1. /\ front \in Seq(S) /\ Len(front) = i - 1
        /\ \A k \in 1..(i - 1) : front[k] = s[k]
        OBVIOUS
  <1>2. /\ back \in Seq(S) /\ Len(back) = Len(s) - i
        /\ \A k \in 1..(Len(s) - i) : back[k] = s[i + k]
        OBVIOUS
  <1>3. RemoveAt(s, i) = front \o back
        BY DEF RemoveAt
  <1>4. Len(s) \in Nat
        OBVIOUS
  <1> HIDE DEF front, back
  <1>5. /\ front \o back \in Seq(S)
        /\ Len(front \o back) = Len(front) + Len(back)
        /\ \A k \in 1..(Len(front) + Len(back)) :
              (front \o back)[k] = IF k <= Len(front) THEN front[k] ELSE back[k - Len(front)]
        BY <1>1, <1>2, ConcatProperties
  <1>6. ASSUME NEW k \in 1..(Len(s) - 1)
        PROVE  (front \o back)[k] = s[IF k < i THEN k ELSE k + 1]
        <2>1. CASE k < i
              BY <1>1, <1>2, <1>4, <1>5, <2>1
        <2>2. CASE ~(k < i)
              <3>1. k - (i - 1) \in 1..(Len(s) - i) /\ i + (k - (i - 1)) = k + 1
                    BY <1>4, <2>2
              <3>2. back[k - (i - 1)] = s[k + 1]
                    BY <1>2, <3>1
              <3>3. /\ ~(k <= Len(front)) /\ k - Len(front) = k - (i - 1)
                    /\ k \in 1..(Len(front) + Len(back))
                    BY <1>1, <1>2, <1>4, <2>2
              <3> QED BY <1>5, <2>2, <3>2, <3>3
        <2> QED BY <2>1, <2>2
  <1>7. Len(front) + Len(back) = Len(s) - 1
        BY <1>1, <1>2, <1>4
  <1> QED BY <1>3, <1>5, <1>6, <1>7

\* A message behind the others.
LEMMA AppendFacts ==
  ASSUME NEW S, NEW s \in Seq(S), NEW m \in S
  PROVE  /\ Append(s, m) \in Seq(S)
         /\ Len(s) \in Nat /\ Len(Append(s, m)) = Len(s) + 1
         /\ \A k \in 1..Len(s) : Append(s, m)[k] = s[k]
         /\ Append(s, m)[Len(s) + 1] = m
  OBVIOUS

-----------------------------------------------------------------------------
(* Type correctness.                                                        *)

LEMMA CallFacts ==
  ASSUME TypeOK
  PROVE  calls \in Nat /\ Len(events) \in Nat
  <1>1. events \in Seq(EventType)
        BY SyslogWriterAssumption DEF TypeOK
  <1> HIDE DEF EventType
  <1>2. Len(events) \in Nat
        BY <1>1
  <1> QED BY <1>2 DEF TypeOK

LEMMA InitType == Init => TypeOK
  <1> SUFFICES ASSUME Init PROVE TypeOK
      OBVIOUS
  <1>1. events \in Seq(EventType)
        BY SyslogWriterAssumption DEF Init
  <1>2. Len(events) \in Nat
        BY <1>1
  <1>3. <<>> \in Seq(Sent)
        OBVIOUS
  <1> QED BY <1>2, <1>3, SyslogWriterAssumption DEF Init, TypeOK

\* The message of a call that is being made.
LEMMA MessageType ==
  ASSUME TypeOK, pc # "ready", NEW whole \in BOOLEAN, whole \/ network = "tcp"
  PROVE  Message(whole) \in Sent
  <1>1. calls \in 1..calls
        BY CallFacts DEF TypeOK
  <1> QED BY <1>1 DEF Message, Sent, TypeOK

\* A step that changes neither the network, the page, nor the call's number
\* has only to keep its messages typed, and its connection in the states the
\* network allows.
LEMMA StepType ==
  ASSUME TypeOK, UNCHANGED <<network, events, calls>>,
         breaks' \in 0..MaxBreaks, server' \in {"up", "down"},
         pc' \in {"ready", "write", "connect", "rewrite"}, pc' # "ready" => pc # "ready",
         conn' \in {"none", "open", "broken", "reset"},
         pc' = "connect" => conn' \in {"none", "reset"},
         network = "udp" => conn' \in {"open", "reset"},
         conn' # "open" /\ network = "tcp" => wire' = <<>>,
         wire' \in Seq(Sent), arrived' \in Seq(Sent)
  PROVE  TypeOK'
  <1>1. Sent' = Sent
        BY DEF Sent
  <1> QED BY <1>1 DEF TypeOK

LEMMA NextType == TypeOK /\ [Next]_vars => TypeOK'
  <1> SUFFICES ASSUME TypeOK, [Next]_vars PROVE TypeOK'
      OBVIOUS
  <1> USE CallFacts
  <1>0. /\ network \in {"tcp", "udp"} /\ server \in {"up", "down"} /\ breaks \in 0..MaxBreaks
        /\ pc \in {"ready", "write", "connect", "rewrite"}
        /\ conn \in {"none", "open", "broken", "reset"}
        /\ pc = "connect" => conn \in {"none", "reset"}
        /\ network = "udp" => conn \in {"open", "reset"}
        /\ conn # "open" /\ network = "tcp" => wire = <<>>
        /\ wire \in Seq(Sent) /\ arrived \in Seq(Sent) /\ <<>> \in Seq(Sent)
        /\ MaxBreaks \in Nat
        BY SyslogWriterAssumption DEF TypeOK
  <1>1. CASE SendEvent
        <2>1. /\ pc = "ready" /\ calls' = calls + 1 /\ calls < Len(events)
              /\ pc' = IF conn = "none" THEN "connect" ELSE "write"
              /\ UNCHANGED <<network, events, conn, server, wire, arrived, breaks>>
              BY <1>1 DEF SendEvent
        <2>2. Sent \subseteq Sent'
              <3>1. calls \in Nat
                    BY CallFacts
              <3>2. 1..calls \subseteq 1..(calls + 1)
                    BY <3>1
              <3> QED BY <2>1, <3>2 DEF Sent
        <2>3. wire' \in Seq(Sent') /\ arrived' \in Seq(Sent')
              BY <1>0, <2>1, <2>2, SeqMonotonic
        <2>4. calls' \in 0..Len(events') /\ calls' > 0
              BY <2>1
        <2> QED BY <2>1, <2>3, <2>4 DEF TypeOK
  <1>2. CASE Write
        <2>1. Append(wire, Message(TRUE)) \in Seq(Sent)
              BY <1>0, <1>2, MessageType, AppendFacts DEF Write, Writing
        <2> QED BY <1>0, <1>2, <2>1, StepType DEF Write, Writing, Returns
  <1>3. CASE WriteVanishes \/ WriteFails
        <2>1. CASE WriteVanishes
              BY <1>0, <2>1, StepType DEF WriteVanishes, Writing, Returns
        <2>2. CASE WriteFails
              BY <1>0, <2>2, StepType DEF WriteFails, Writing, AfterError
        <2> QED BY <1>3, <2>1, <2>2
  <1>4. CASE WritePartly
        <2>1. Append(arrived, Message(FALSE)) \in Seq(Sent)
              BY <1>0, <1>4, MessageType, AppendFacts DEF WritePartly, Writing
        <2> QED BY <1>0, <1>4, <2>1, StepType DEF WritePartly, Writing, AfterError
  <1>5. CASE Connect \/ ConnectFails
        <2>1. CASE Connect
              BY <1>0, <2>1, StepType DEF Connect
        <2>2. CASE ConnectFails
              BY <1>0, <2>2, StepType DEF ConnectFails
        <2> QED BY <1>5, <2>1, <2>2
  <1>6. CASE Arrive
        <2>1. PICK i \in DOMAIN wire : /\ arrived' = Append(arrived, wire[i])
                                       /\ wire' = RemoveAt(wire, i)
              BY <1>6 DEF Arrive
        <2>2. i \in 1..Len(wire) /\ wire[i] \in Sent
              BY <1>0, ElementOfSeq, LenProperties
        <2>3. arrived' \in Seq(Sent) /\ wire' \in Seq(Sent)
              BY <1>0, <2>1, <2>2, RemoveAtFacts, AppendFacts
        <2>4. wire # <<>>
              BY <2>2
        <2> QED BY <1>0, <1>6, <2>3, <2>4, StepType DEF Arrive
  <1>7. CASE Drop
        <2>1. PICK i \in DOMAIN wire : wire' = RemoveAt(wire, i)
              BY <1>7 DEF Drop
        <2>2. i \in 1..Len(wire)
              BY <1>0, LenProperties
        <2>3. wire' \in Seq(Sent)
              BY <1>0, <2>1, <2>2, RemoveAtFacts
        <2> QED BY <1>0, <1>7, <2>3, StepType DEF Drop
  <1>8. CASE ServerStops \/ ConnectionBreaks
        <2>1. Break
              BY <1>8 DEF ServerStops, ConnectionBreaks
        <2>2. breaks' \in 0..MaxBreaks
              BY <1>0, <2>1 DEF Break
        <2> QED BY <1>0, <1>8, <2>1, <2>2, StepType DEF ServerStops, ConnectionBreaks, Break
  <1>9. CASE ServerStarts \/ Notice
        BY <1>0, <1>9, StepType DEF ServerStarts, Notice
  <1>10. CASE UNCHANGED vars
        BY <1>0, <1>10, StepType DEF vars
  <1> QED BY <1>1, <1>2, <1>3, <1>4, <1>5, <1>6, <1>7, <1>8, <1>9, <1>10 DEF Next, Writer

\* Type correctness: a connection that is not usable over TCP has nothing under
\* way, a call that dials has found none or a reset one, and no part of a
\* message is ever sent by UDP.
THEOREM TypeCorrect == Spec => []TypeOK
  BY InitType, NextType, PTL DEF Spec

-----------------------------------------------------------------------------
(* Each event arrives once, and over TCP in its turn.                       *)

\* No message of the present call was sent whole, so long as it may be sent again.
Earlier(s) == \A i \in 1..Len(s) : s[i].whole => s[i].call < calls

InOrder(s) == \A i, j \in 1..Len(s) : i < j => Before(s[i], s[j])

Ahead(s, t) == \A i \in 1..Len(s), j \in 1..Len(t) : Before(s[i], t[j])

Once ==
  /\ pc # "ready" => Earlier(arrived) /\ Earlier(wire)
  /\ InOrder(arrived) /\ InOrder(wire) /\ Ahead(arrived, wire)

LEMMA OnceArrived == ASSUME TypeOK, Once PROVE ArrivedOnce
  <1> DEFINE sent == arrived \o wire
             n == Len(arrived)
             l == Len(wire)
  <1>1. arrived \in Seq(Sent) /\ wire \in Seq(Sent)
        BY DEF TypeOK
  <1>2. n \in Nat /\ l \in Nat
        BY <1>1, LenProperties
  <1>3. /\ sent \in Seq(Sent) /\ Len(sent) = n + l
        /\ \A i \in 1..(n + l) : sent[i] = IF i <= n THEN arrived[i] ELSE wire[i - n]
        BY <1>1, ConcatProperties
  <1>4. DOMAIN sent = 1..(n + l)
        BY <1>3, LenProperties
  <1>5. /\ \A i, j \in 1..n : i < j => Before(arrived[i], arrived[j])
        /\ \A i, j \in 1..l : i < j => Before(wire[i], wire[j])
        /\ \A i \in 1..n, j \in 1..l : Before(arrived[i], wire[j])
        BY DEF Once, InOrder, Ahead
  <1> HIDE DEF sent, n, l
  <1>6. ASSUME NEW i \in 1..(n + l), NEW j \in 1..(n + l), i < j
        PROVE  Before(sent[i], sent[j])
        <2>1. CASE i <= n /\ j <= n
              BY <1>2, <1>3, <1>5, <1>6, <2>1
        <2>2. CASE i <= n /\ ~(j <= n)
              <3>1. i \in 1..n /\ j - n \in 1..l
                    BY <1>2, <2>2
              <3>2. sent[i] = arrived[i] /\ sent[j] = wire[j - n]
                    BY <1>3, <2>2
              <3> QED BY <1>5, <3>1, <3>2
        <2>3. CASE ~(i <= n)
              <3>1. i - n \in 1..l /\ j - n \in 1..l /\ i - n < j - n /\ ~(j <= n)
                    BY <1>2, <1>6, <2>3
              <3>2. sent[i] = wire[i - n] /\ sent[j] = wire[j - n]
                    BY <1>3, <2>3, <3>1
              <3> QED BY <1>5, <3>1, <3>2
        <2> QED BY <2>1, <2>2, <2>3
  <1> QED BY <1>4, <1>6 DEF ArrivedOnce, sent

LEMMA InitOnce == ASSUME Init PROVE Once
  BY DEF Init, Once, InOrder, Ahead

LEMMA SentFacts ==
  ASSUME TypeOK
  PROVE  /\ arrived \in Seq(Sent) /\ wire \in Seq(Sent) /\ calls \in Nat
         /\ Len(arrived) \in Nat /\ Len(wire) \in Nat
         /\ \A i \in 1..Len(arrived) : arrived[i] \in Sent /\ arrived[i].call \in 1..calls
         /\ \A i \in 1..Len(wire) : wire[i] \in Sent /\ wire[i].call \in 1..calls
  <1>1. arrived \in Seq(Sent) /\ wire \in Seq(Sent) /\ calls \in Nat
        BY CallFacts DEF TypeOK
  <1>2. \A m \in Sent : m.call \in 1..calls
        BY DEF Sent
  <1> QED BY <1>1, <1>2, ElementOfSeq, LenProperties

\* A step that sends nothing whole, and after which a call is under way only if
\* it is a new one, or was before.
LEMMA QuietOnce ==
  ASSUME TypeOK, Once, UNCHANGED <<network, arrived>>, wire' \in {wire, <<>>},
         \/ pc' = "ready"
         \/ pc # "ready" /\ calls' = calls
         \/ calls' = calls + 1
  PROVE  Once'
  <1>1. Len(<<>>) = 0
        OBVIOUS
  <1>2. InOrder(arrived)' /\ InOrder(wire)' /\ Ahead(arrived, wire)'
        BY <1>1 DEF Once, InOrder, Ahead, Before
  <1>3. ASSUME pc' # "ready" PROVE (Earlier(arrived) /\ Earlier(wire))'
        <2>1. CASE pc # "ready" /\ calls' = calls
              BY <1>1, <2>1 DEF Once, Earlier
        <2>2. CASE calls' = calls + 1
              <3>1. \A i \in 1..Len(arrived) : arrived[i].call < calls'
                    BY <2>2, SentFacts
              <3>2. \A i \in 1..Len(wire) : wire[i].call < calls'
                    BY <2>2, SentFacts
              <3> QED BY <1>1, <3>1, <3>2 DEF Earlier
        <2> QED BY <1>3, <2>1, <2>2
  <1> QED BY <1>2, <1>3 DEF Once

LEMMA WriteOnce ==
  ASSUME TypeOK, Once, Write
  PROVE  Once'
  <1> DEFINE m == Message(TRUE)
  <1>1. /\ pc # "ready" /\ pc' = "ready" /\ wire' = Append(wire, m)
        /\ UNCHANGED <<network, calls, arrived>>
        BY DEF Write, Writing, Returns
  <1>2. m \in Sent /\ m.call = calls
        BY <1>1, MessageType DEF Message
  <1>3. /\ Len(wire') = Len(wire) + 1 /\ wire'[Len(wire) + 1] = m
        /\ \A i \in 1..Len(wire) : wire'[i] = wire[i]
        <2>1. wire \in Seq(Sent)
              BY SentFacts
        <2> HIDE DEF m
        <2> QED BY <1>1, <1>2, <2>1, AppendFacts
  <1>4. /\ \A i \in 1..Len(arrived) : arrived[i].whole => arrived[i].call < m.call
        /\ \A i \in 1..Len(wire) : wire[i].whole => wire[i].call < m.call
        BY <1>1, <1>2 DEF Once, Earlier
  <1> HIDE DEF m
  <1>5. /\ \A i \in 1..Len(arrived) : Before(arrived[i], m)
        /\ \A i \in 1..Len(wire) : Before(wire[i], m)
        BY <1>2, <1>4, SentFacts DEF Before
  <1>6. InOrder(arrived)'
        BY <1>1 DEF Once, InOrder, Before
  <1>7. ASSUME NEW i \in 1..Len(wire'), NEW j \in 1..Len(wire'), i < j
        PROVE  Before(wire'[i], wire'[j])
        <2>1. i \in 1..Len(wire) /\ (j \in 1..Len(wire) \/ j = Len(wire) + 1)
              <3>1. Len(wire) \in Nat
                    BY SentFacts
              <3> QED BY <1>3, <1>7, <3>1
        <2> QED BY <1>3, <1>5, <1>7, <2>1 DEF Once, InOrder
  <1>8. ASSUME NEW i \in 1..Len(arrived), NEW j \in 1..Len(wire')
        PROVE  Before(arrived[i], wire'[j])
        <2>1. j \in 1..Len(wire) \/ j = Len(wire) + 1
              BY <1>3, SentFacts
        <2> QED BY <1>3, <1>5, <2>1 DEF Once, Ahead
  <1>9. InOrder(wire)' /\ Ahead(arrived, wire)'
        BY <1>1, <1>7, <1>8 DEF InOrder, Ahead, Before
  <1> QED BY <1>1, <1>6, <1>9 DEF Once

LEMMA WritePartlyOnce ==
  ASSUME TypeOK, Once, WritePartly
  PROVE  Once'
  <1> DEFINE m == Message(FALSE)
  <1>1. /\ pc # "ready" /\ wire = <<>> /\ wire' = wire /\ arrived' = Append(arrived, m)
        /\ network = "tcp" /\ UNCHANGED <<network, calls>>
        BY DEF WritePartly, Writing
  <1>2. m \in Sent /\ m.whole = FALSE
        BY <1>1, MessageType DEF Message
  <1> HIDE DEF m
  <1>3. /\ Len(arrived') = Len(arrived) + 1 /\ arrived'[Len(arrived) + 1] = m
        /\ \A i \in 1..Len(arrived) : arrived'[i] = arrived[i]
        BY <1>1, <1>2, SentFacts, AppendFacts
  <1>4. Len(wire) = 0
        BY <1>1
  <1>5. \A i \in 1..Len(arrived') : i \in 1..Len(arrived) \/ i = Len(arrived) + 1
        BY <1>3, SentFacts
  <1>6. Earlier(arrived)' /\ Earlier(wire)'
        BY <1>1, <1>2, <1>3, <1>4, <1>5 DEF Once, Earlier
  <1>7. ASSUME NEW i \in 1..Len(arrived'), NEW j \in 1..Len(arrived'), i < j
        PROVE  Before(arrived'[i], arrived'[j])
        <2>1. CASE j = Len(arrived) + 1
              BY <1>2, <1>3, <2>1 DEF Before
        <2>2. CASE j \in 1..Len(arrived)
              <3>1. i \in 1..Len(arrived)
                    BY <1>5, <1>7, <2>2, SentFacts
              <3> QED BY <1>3, <1>7, <2>2, <3>1 DEF Once, InOrder
        <2> QED BY <1>5, <2>1, <2>2
  <1>8. InOrder(arrived)'
        BY <1>1, <1>7 DEF InOrder, Before
  <1>9. InOrder(wire)' /\ Ahead(arrived, wire)'
        BY <1>1, <1>4 DEF InOrder, Ahead
  <1> QED BY <1>6, <1>8, <1>9 DEF Once

\* A message taken off the connection.
LEMMA RemovedOnce ==
  ASSUME TypeOK, Once, NEW i \in 1..Len(wire)
  PROVE  LET rest == RemoveAt(wire, i)
         IN  /\ InOrder(rest) /\ Ahead(arrived, rest)
             /\ pc # "ready" => Earlier(rest)
             /\ network = "udp" \/ i = 1 => \A k \in 1..Len(rest) : Before(wire[i], rest[k])
  <1> DEFINE rest == RemoveAt(wire, i)
             n == Len(wire)
             at(k) == IF k < i THEN k ELSE k + 1
  <1>1. /\ n \in Nat /\ Len(rest) = n - 1 /\ i \in 1..n
        /\ \A k \in 1..(n - 1) : rest[k] = wire[at(k)]
        BY SentFacts, RemoveAtFacts
  <1>2. \A k \in 1..(n - 1) : at(k) \in 1..n /\ at(k) # i
        BY <1>1
  <1>3. \A k, l \in 1..(n - 1) : k < l => at(k) < at(l)
        BY <1>1
  <1>4. i = 1 => \A k \in 1..(n - 1) : i < at(k)
        BY <1>1
  <1>5. \A k, l \in 1..n : k < l => Before(wire[k], wire[l])
        BY DEF Once, InOrder
  <1> HIDE DEF rest, at, n
  <1>6. InOrder(rest)
        BY <1>1, <1>2, <1>3, <1>5 DEF InOrder
  <1>7. Ahead(arrived, rest)
        BY <1>1, <1>2 DEF Once, Ahead, n
  <1>8. pc # "ready" => Earlier(rest)
        BY <1>1, <1>2 DEF Once, Earlier, n
  <1>9. ASSUME network = "udp" \/ i = 1, NEW k \in 1..Len(rest) PROVE Before(wire[i], rest[k])
        <2>1. rest[k] = wire[at(k)] /\ at(k) \in 1..n /\ at(k) # i /\ k \in 1..(n - 1)
              BY <1>1, <1>2
        <2>2. CASE i < at(k)
              BY <1>1, <1>5, <2>1, <2>2
        <2>3. CASE at(k) < i
              <3>1. network = "udp"
                    BY <1>4, <1>9, <2>1, <2>3
              <3>2. Before(wire[at(k)], wire[i])
                    BY <1>1, <1>5, <2>1, <2>3
              <3> QED BY <2>1, <3>1, <3>2 DEF Before
        <2>4. i < at(k) \/ at(k) < i
              BY <1>1, <2>1
        <2> QED BY <2>2, <2>3, <2>4
  <1> QED BY <1>6, <1>7, <1>8, <1>9 DEF rest

LEMMA ArriveOnce ==
  ASSUME TypeOK, Once, Arrive
  PROVE  Once'
  <1>1. PICK i \in DOMAIN wire : /\ network = "tcp" => i = 1
                                 /\ arrived' = Append(arrived, wire[i])
                                 /\ wire' = RemoveAt(wire, i)
        BY DEF Arrive
  <1>2. UNCHANGED <<network, calls, pc>>
        BY DEF Arrive
  <1>3. i \in 1..Len(wire) /\ (network = "udp" \/ i = 1)
        BY <1>1, SentFacts, LenProperties DEF TypeOK
  <1> DEFINE m == wire[i]
             n == Len(arrived)
  <1>4. m \in Sent /\ arrived' = Append(arrived, m)
        BY <1>1, <1>3, SentFacts
  <1>5. \A k \in 1..n : Before(arrived[k], m)
        BY <1>3 DEF Once, Ahead
  <1>6. pc # "ready" => (m.whole => m.call < calls)
        BY <1>3 DEF Once, Earlier
  <1>7. /\ InOrder(wire') /\ Ahead(arrived, wire') /\ (pc # "ready" => Earlier(wire'))
        /\ \A k \in 1..Len(wire') : Before(m, wire'[k])
        BY <1>1, <1>3, RemovedOnce
  <1> HIDE DEF m, n
  <1>8. /\ n \in Nat /\ Len(arrived') = n + 1 /\ arrived'[n + 1] = m
        /\ \A k \in 1..n : arrived'[k] = arrived[k]
        BY <1>4, SentFacts, AppendFacts DEF n
  <1>9. \A k \in 1..(n + 1) : k \in 1..n \/ k = n + 1
        BY <1>8
  <1>10. ASSUME NEW k \in 1..(n + 1), NEW l \in 1..(n + 1), k < l
         PROVE  Before(arrived'[k], arrived'[l])
        <2>1. k \in 1..n
              BY <1>8, <1>10
        <2>2. CASE l = n + 1
              BY <1>5, <1>8, <2>1, <2>2
        <2>3. CASE l \in 1..n
              BY <1>8, <1>10, <2>1, <2>3 DEF Once, InOrder, n
        <2> QED BY <1>9, <2>2, <2>3
  <1>11. ASSUME NEW k \in 1..(n + 1), NEW l \in 1..Len(wire')
         PROVE  Before(arrived'[k], wire'[l])
         BY <1>7, <1>8, <1>9 DEF Ahead, n
  <1>12. InOrder(arrived)' /\ InOrder(wire)' /\ Ahead(arrived, wire)'
         BY <1>2, <1>7, <1>8, <1>10, <1>11 DEF InOrder, Ahead, Before
  <1>13. pc # "ready" => \A k \in 1..(n + 1) : arrived'[k].whole => arrived'[k].call < calls
         BY <1>6, <1>8, <1>9 DEF Once, Earlier, n
  <1>14. (pc # "ready" => Earlier(arrived) /\ Earlier(wire))'
         BY <1>2, <1>7, <1>8, <1>13 DEF Earlier
  <1> QED BY <1>12, <1>14 DEF Once

LEMMA DropOnce ==
  ASSUME TypeOK, Once, Drop
  PROVE  Once'
  <1>1. PICK i \in DOMAIN wire : wire' = RemoveAt(wire, i)
        BY DEF Drop
  <1>2. UNCHANGED <<network, calls, pc, arrived>>
        BY DEF Drop
  <1>3. i \in 1..Len(wire)
        BY <1>1, SentFacts, LenProperties
  <1>4. InOrder(wire') /\ Ahead(arrived, wire') /\ (pc # "ready" => Earlier(wire'))
        BY <1>1, <1>3, RemovedOnce
  <1>5. InOrder(arrived)' /\ InOrder(wire)' /\ Ahead(arrived, wire)'
        BY <1>2, <1>4 DEF Once, InOrder, Ahead, Before
  <1>6. (pc # "ready" => Earlier(arrived) /\ Earlier(wire))'
        BY <1>2, <1>4 DEF Once, Earlier
  <1> QED BY <1>5, <1>6 DEF Once

LEMMA NextOnce == TypeOK /\ Once /\ [Next]_vars => Once'
  <1> SUFFICES ASSUME TypeOK, Once, [Next]_vars PROVE Once'
      OBVIOUS
  <1>1. CASE SendEvent
        BY <1>1, QuietOnce DEF SendEvent
  <1>2. CASE WriteVanishes \/ WriteFails
        BY <1>2, QuietOnce DEF WriteVanishes, WriteFails, Writing, Returns, AfterError
  <1>3. CASE Connect \/ ConnectFails
        BY <1>3, QuietOnce DEF Connect, ConnectFails
  <1>4. CASE ServerStops \/ ConnectionBreaks
        <2>1. /\ UNCHANGED <<network, calls, pc, arrived>> /\ wire' \in {wire, <<>>}
              BY <1>4 DEF ServerStops, ConnectionBreaks, Break
        <2> QED BY <2>1, QuietOnce
  <1>5. CASE ServerStarts \/ Notice \/ UNCHANGED vars
        BY <1>5, QuietOnce DEF ServerStarts, Notice, vars
  <1> QED BY <1>1, <1>2, <1>3, <1>4, <1>5, WriteOnce, WritePartlyOnce, ArriveOnce, DropOnce
          DEF Next, Writer

\* However writes fail, connections break and are dialled anew, and the server
\* comes and goes, the retry of writeAndRetry repeats no event, and over TCP none
\* overtakes another.
THEOREM OnceEach == Spec => []ArrivedOnce
  <1>1. Init => Once
        BY InitOnce
  <1>2. TypeOK /\ Once => ArrivedOnce
        BY OnceArrived
  <1> QED BY <1>1, <1>2, NextOnce, TypeCorrect, PTL DEF Spec

-----------------------------------------------------------------------------
(* What FlattenSeq makes of a list, one element after the other.            *)

LEMMA Least ==
  ASSUME NEW S \in SUBSET Nat, S # {}
  PROVE  \E m \in S : \A n \in S : m <= n
  <1> DEFINE less == OpToRel(<, Nat)
  <1>1. IsWellFoundedOn(less, Nat)
        BY NatLessThanWellFounded, Zenon
  <1>2. \A n, m \in Nat : n < m => <<n, m>> \in less
        BY Zenon DEF OpToRel
  <1> HIDE DEF less
  <1>3. PICK m \in S : \A n \in S : <<n, m>> \notin less
        BY <1>1, WFMin
  <1>4. \A n \in S : ~(n < m)
        BY <1>2, <1>3
  <1> QED BY <1>4

\* f holds what the first elements of a list make, for up to n of them.
IsFlat(f, list, n) ==
    f = [i \in 1..n |-> IF i = 1 THEN list[i] ELSE f[i - 1] \o list[i]]

LEMMA FlatExists ==
  ASSUME NEW list, NEW n \in Nat
  PROVE  \E f : IsFlat(f, list, n)
  <1> DEFINE Bad == {m \in Nat : ~\E f : IsFlat(f, list, m)}
  <1>1. ASSUME Bad # {} PROVE FALSE
        <2>1. PICK m \in Bad : \A k \in Bad : m <= k
              BY <1>1, Least
        <2>2. m \in Nat /\ ~\E f : IsFlat(f, list, m)
              BY <2>1
        <2>3. m # 0
              <3>1. IsFlat([i \in 1..0 |-> list[i]], list, 0)
                    BY DEF IsFlat
              <3> QED BY <2>2, <3>1
        <2>4. m - 1 \in Nat /\ m - 1 \notin Bad
              <3>1. m - 1 \in Nat /\ ~(m <= m - 1)
                    BY <2>2, <2>3
              <3> HIDE DEF Bad
              <3> QED BY <2>1, <3>1
        <2>5. PICK f : IsFlat(f, list, m - 1)
              BY <2>4
        <2> DEFINE g == [i \in 1..m |-> IF i < m THEN f[i]
                                       ELSE IF i = 1 THEN list[i] ELSE f[i - 1] \o list[i]]
        <2>6. ASSUME NEW i \in 1..m
              PROVE  g[i] = IF i = 1 THEN list[i] ELSE g[i - 1] \o list[i]
              <3>1. i > 1 => i - 1 \in 1..m /\ i - 1 < m
                    BY <2>2
              <3>2. i > 1 => g[i - 1] = f[i - 1]
                    BY <3>1
              <3>3. i < m => i \in 1..(m - 1)
                    BY <2>2
              <3>4. i < m => f[i] = IF i = 1 THEN list[i] ELSE f[i - 1] \o list[i]
                    BY <2>5, <3>3 DEF IsFlat
              <3> QED BY <3>2, <3>4
        <2>7. g = [i \in 1..m |-> g[i]]
              OBVIOUS
        <2> HIDE DEF g
        <2>8. IsFlat(g, list, m)
              BY <2>6, <2>7 DEF IsFlat
        <2> QED BY <2>2, <2>8
  <1> QED BY <1>1

\* It depends on those elements alone.
LEMMA FlatSame ==
  ASSUME NEW f, NEW list, NEW n \in Nat, NEW g, NEW other, NEW m \in Nat,
         IsFlat(f, list, n), IsFlat(g, other, m), n <= m,
         \A i \in 1..n : list[i] = other[i]
  PROVE  \A i \in 1..n : f[i] = g[i]
  <1> DEFINE Bad == {i \in 1..n : f[i] # g[i]}
  <1>1. ASSUME Bad # {} PROVE FALSE
        <2> Bad \in SUBSET Nat
            OBVIOUS
        <2> HIDE DEF Bad
        <2>1. PICK i \in Bad : \A k \in Bad : i <= k
              BY <1>1, Least
        <2> USE DEF Bad
        <2>2. i \in 1..n /\ i \in 1..m /\ f[i] # g[i]
              BY <2>1
        <2>3. /\ f[i] = IF i = 1 THEN list[i] ELSE f[i - 1] \o list[i]
              /\ g[i] = IF i = 1 THEN other[i] ELSE g[i - 1] \o other[i]
              BY <2>2 DEF IsFlat
        <2>4. i # 1 => i - 1 \in 1..n /\ ~(i <= i - 1)
              BY <2>2
        <2>5. i # 1 => f[i - 1] = g[i - 1]
              BY <2>1, <2>4
        <2> QED BY <2>2, <2>3, <2>5
  <1> QED BY <1>1

LEMMA FlattenIs ==
  ASSUME NEW list, Len(list) \in Nat
  PROVE  \E f : /\ IsFlat(f, list, Len(list))
                /\ FlattenSeq(list) = IF Len(list) = 0 THEN list ELSE f[Len(list)]
  <1> DEFINE f == CHOOSE f : IsFlat(f, list, Len(list))
  <1>1. IsFlat(f, list, Len(list))
        BY FlatExists
  <1>2. FlattenSeq(list) = IF Len(list) = 0 THEN list ELSE f[Len(list)]
        BY DEF FlattenSeq, IsFlat
  <1> QED BY <1>1, <1>2

LEMMA FlattenNone == FlattenSeq(<<>>) = <<>>
  <1>1. Len(<<>>) = 0
        OBVIOUS
  <1> QED BY <1>1, FlattenIs

LEMMA FlattenType ==
  ASSUME NEW S, NEW list \in Seq(Seq(S))
  PROVE  FlattenSeq(list) \in Seq(S)
  <1>1. Len(list) \in Nat /\ \A i \in 1..Len(list) : list[i] \in Seq(S)
        BY LenProperties
  <1>2. PICK f : /\ IsFlat(f, list, Len(list))
                 /\ FlattenSeq(list) = IF Len(list) = 0 THEN list ELSE f[Len(list)]
        BY <1>1, FlattenIs
  <1> DEFINE Bad == {i \in 1..Len(list) : f[i] \notin Seq(S)}
  <1>3. ASSUME Bad # {} PROVE FALSE
        <2> Bad \in SUBSET Nat
            BY <1>1
        <2> HIDE DEF Bad
        <2>1. PICK i \in Bad : \A k \in Bad : i <= k
              BY <1>3, Least
        <2> USE DEF Bad
        <2>2. i \in 1..Len(list) /\ f[i] \notin Seq(S)
              BY <2>1
        <2>3. f[i] = IF i = 1 THEN list[i] ELSE f[i - 1] \o list[i]
              BY <1>2, <2>2 DEF IsFlat
        <2>4. i # 1 => i - 1 \in 1..Len(list) /\ ~(i <= i - 1)
              BY <1>1, <2>2
        <2>5. i # 1 => f[i - 1] \in Seq(S)
              BY <2>1, <2>4
        <2>6. i # 1 => f[i - 1] \o list[i] \in Seq(S)
              BY <1>1, <2>2, <2>5, ConcatProperties
        <2> QED BY <1>1, <2>2, <2>3, <2>6
  <1>4. Len(list) # 0 => Len(list) \in 1..Len(list)
        BY <1>1
  <1>5. Len(list) = 0 => list = <<>>
        BY EmptySeq
  <1>6. <<>> \in Seq(S)
        BY EmptySeq
  <1> QED BY <1>2, <1>3, <1>4, <1>5, <1>6

\* A list with one element more.
LEMMA FlattenOne ==
  ASSUME NEW S, NEW list \in Seq(Seq(S)), NEW more \in Seq(Seq(S)),
         Len(more) = Len(list) + 1, \A i \in 1..Len(list) : more[i] = list[i]
  PROVE  FlattenSeq(more) = FlattenSeq(list) \o more[Len(more)]
  <1>1. /\ Len(list) \in Nat /\ Len(more) \in Nat
        /\ \A i \in 1..Len(more) : more[i] \in Seq(S)
        BY LenProperties
  <1>2. PICK f : /\ IsFlat(f, list, Len(list))
                 /\ FlattenSeq(list) = IF Len(list) = 0 THEN list ELSE f[Len(list)]
        BY <1>1, FlattenIs
  <1>3. PICK g : /\ IsFlat(g, more, Len(more))
                 /\ FlattenSeq(more) = IF Len(more) = 0 THEN more ELSE g[Len(more)]
        BY <1>1, FlattenIs
  <1>4. \A i \in 1..Len(list) : f[i] = g[i]
        <2>1. Len(list) <= Len(more)
              BY <1>1
        <2>2. \A i \in 1..Len(list) : list[i] = more[i]
              OBVIOUS
        <2>3. Len(list) \in Nat /\ Len(more) \in Nat
              BY <1>1
        <2>4. IsFlat(f, list, Len(list)) /\ IsFlat(g, more, Len(more))
              BY <1>2, <1>3
        <2> DEFINE n == Len(list)
                   m == Len(more)
        <2>5. n \in Nat /\ m \in Nat /\ n <= m /\ IsFlat(f, list, n) /\ IsFlat(g, more, m)
              BY <2>1, <2>3, <2>4
        <2>6. \A i \in 1..n : list[i] = more[i]
              BY <2>2
        <2> HIDE DEF n, m
        <2>7. \A i \in 1..n : f[i] = g[i]
              BY <2>5, <2>6, FlatSame
        <2> QED BY <2>7 DEF n
  <1>5. Len(more) \in 1..Len(more) /\ Len(more) # 0 /\ Len(more) - 1 = Len(list)
        BY <1>1
  <1>6. FlattenSeq(more) = IF Len(more) = 1 THEN more[Len(more)]
                           ELSE g[Len(more) - 1] \o more[Len(more)]
        BY <1>3, <1>5 DEF IsFlat
  <1>7. CASE Len(list) = 0
        <2>1. list = <<>>
              BY <1>7, EmptySeq
        <2>2. more[Len(more)] \in Seq(S)
              BY <1>1, <1>5
        <2>3. <<>> \o more[Len(more)] = more[Len(more)]
              BY <2>2, ConcatEmptySeq
        <2> QED BY <1>2, <1>6, <1>7, <2>1, <2>3
  <1>8. CASE Len(list) # 0
        <2>1. Len(list) \in 1..Len(list)
              BY <1>1, <1>8
        <2>2. f[Len(list)] = g[Len(more) - 1]
              BY <1>4, <1>5, <2>1
        <2>3. Len(more) # 1
              BY <1>1, <1>8
        <2>4. FlattenSeq(more) = g[Len(more) - 1] \o more[Len(more)]
              BY <1>6, <2>3
        <2>5. FlattenSeq(list) = f[Len(list)]
              BY <1>2, <1>8
        <2> QED BY <2>2, <2>4, <2>5
  <1> QED BY <1>7, <1>8

\* A property of the sequences on S, as the set that has it.
LEMMA ByAppend ==
  ASSUME NEW S, NEW P, <<>> \in P, \A s \in Seq(S), c \in S : s \in P => Append(s, c) \in P
  PROVE  Seq(S) \subseteq P
  <1> DEFINE Bad == {n \in Nat : \E s \in Seq(S) : Len(s) = n /\ s \notin P}
  <1>1. ASSUME Bad # {} PROVE FALSE
        <2> Bad \in SUBSET Nat
            OBVIOUS
        <2> HIDE DEF Bad
        <2>1. PICK n \in Bad : \A k \in Bad : n <= k
              BY <1>1, Least
        <2> USE DEF Bad
        <2>2. PICK s \in Seq(S) : Len(s) = n /\ s \notin P
              BY <2>1
        <2>3. PICK t \in Seq(S), c \in S : s = Append(t, c)
              BY <2>2, SequenceEmptyOrAppend
        <2>4. Len(t) \in Nat /\ ~(n <= Len(t))
              BY <2>2, <2>3, LenProperties, AppendProperties
        <2>5. t \in P
              BY <2>1, <2>4
        <2> QED BY <2>2, <2>3, <2>5
  <1> QED BY <1>1, LenProperties

LEMMA ASequence ==
  ASSUME NEW S, NEW n \in Nat, NEW f, f = [i \in 1..n |-> f[i]], \A i \in 1..n : f[i] \in S
  PROVE  f \in Seq(S) /\ Len(f) = n
  <1>1. f \in [1..n -> S]
        BY Zenon
  <1>2. f \in Seq(S)
        BY <1>1, SeqDef
  <1>3. DOMAIN f = 1..n /\ DOMAIN f = 1..Len(f) /\ Len(f) \in Nat
        BY <1>1, <1>2, LenProperties
  <1> QED BY <1>2, <1>3

LEMMA SeqFront ==
  ASSUME NEW S, NEW s \in Seq(S), NEW c \in S
  PROVE  SubSeq(Append(s, c), 1, Len(s)) = s
  <1> DEFINE longer == Append(s, c)
             front  == SubSeq(longer, 1, Len(s))
  <1>1. /\ Len(s) \in Nat /\ Len(longer) = Len(s) + 1
        /\ \A i \in 1..Len(s) : longer[i] = s[i] /\ longer[i] \in S
        OBVIOUS
  <1> HIDE DEF longer
  <1>2. /\ front \in Seq(S) /\ Len(front) = Len(s)
        /\ \A i \in 1..Len(s) : front[i] = s[i]
        BY <1>1
  <1> HIDE DEF front
  <1>3. front = s
        BY <1>1, <1>2, SeqEqual
  <1> QED BY <1>3 DEF front, longer

-----------------------------------------------------------------------------
(* The operators on texts.                                                  *)

\* STRING, and the tokens of the code: the provers do not know that these are in it.
Token == STRING \cup {"time", "zero", "now", "host", "CEF", "msg", "src",
                      "space", "|", "=", "backslash", "newline"}

LEMMA Tokens ==
  {"time", "zero", "now", "host", "CEF", "msg", "src", "space", "|", "=", "backslash", "newline"}
    \subseteq Token
  BY DEF Token

LEMMA FirstLineIs ==
  ASSUME NEW text \in Seq(Token), \A p \in 1..Len(text) : text[p] # "newline"
  PROVE  FirstLine(text) = text /\ FirstLine(Append(text, "newline")) = text
  <1>1. FirstLine(text) = text
        BY DEF FirstLine, SelectInSeq
  <1> DEFINE longer == Append(text, "newline")
  <1>2. /\ Len(text) \in Nat /\ Len(longer) = Len(text) + 1
        /\ longer[Len(text) + 1] = "newline"
        /\ \A i \in 1..Len(text) : longer[i] = text[i]
        <2>1. "newline" \in Token
              BY Tokens
        <2> QED BY <2>1, LenProperties, AppendProperties
  <1> HIDE DEF longer
  <1>3. {i \in 1..Len(longer) : longer[i] = "newline"} = {Len(text) + 1}
        BY <1>2
  <1>4. Min({Len(text) + 1}) = Len(text) + 1
        BY <1>2 DEF Min
  <1>5. SelectInSeq(longer, LAMBDA t : t = "newline") = Len(text) + 1
        BY <1>3, <1>4 DEF SelectInSeq
  <1>6. FirstLine(longer) = SubSeq(longer, 1, Len(text))
        BY <1>2, <1>5 DEF FirstLine
  <1>7. SubSeq(longer, 1, Len(text)) = text
        BY <1>2, SeqFront DEF longer
  <1> QED BY <1>1, <1>6, <1>7 DEF longer

\* In w each sign has a backslash before it, and each backslash a sign behind.
Escaped(v, w) ==
    /\ w \in Seq(Token) /\ Unescape(w) = v
    /\ \A p \in 1..Len(w) :
          /\ w[p] = "=" => p > 1 /\ w[p - 1] = "backslash"
          /\ w[p] = "backslash" => p < Len(w) /\ w[p + 1] = "="
          /\ w[p] = "newline" => \E q \in 1..Len(v) : v[q] = "newline"
    /\ \A p \in 1..(Len(w) - 1) : 
          w[p] = "|" /\ w[p + 1] = "CEF"
            => \E q \in 1..(Len(v) - 1) : v[q] = "|" /\ v[q + 1] = "CEF"
    /\ v = <<>> <=> w = <<>>
    /\ v # <<>> => w[Len(w)] = v[Len(v)]

Written(c) == IF c = "=" THEN <<"backslash", "=">> ELSE <<c>>

LEMMA FormatNone == FormatValue(<<>>) = <<>>
  <1>1. [i \in DOMAIN <<>> |-> IF <<>>[i] = "=" THEN <<"backslash", "=">> ELSE <<<<>>[i]>>] = <<>>
        OBVIOUS
  <1> QED BY <1>1, FlattenNone DEF FormatValue

LEMMA FormatAppend ==
  ASSUME NEW v \in Seq(Token), NEW c \in Token
  PROVE  /\ FormatValue(v) \in Seq(Token)
         /\ FormatValue(Append(v, c)) = FormatValue(v) \o Written(c)
  <1> DEFINE list == [i \in 1..Len(v) |-> Written(v[i])]
             more == [i \in 1..(Len(v) + 1) |-> Written(Append(v, c)[i])]
  <1>1. /\ Len(v) \in Nat /\ DOMAIN v = 1..Len(v) /\ \A i \in 1..Len(v) : v[i] \in Token
        /\ Len(Append(v, c)) = Len(v) + 1 /\ DOMAIN Append(v, c) = 1..(Len(v) + 1)
        /\ Append(v, c)[Len(v) + 1] = c /\ \A i \in 1..Len(v) : Append(v, c)[i] = v[i]
        OBVIOUS
  <1>2. FormatValue(v) = FlattenSeq(list)
        BY <1>1 DEF FormatValue, Written
  <1>3. FormatValue(Append(v, c)) = FlattenSeq(more)
        BY <1>1 DEF FormatValue, Written
  <1>4. \A t \in Token : Written(t) \in Seq(Token)
        BY Tokens DEF Written
  <1>5. /\ \A i \in 1..Len(v) : list[i] = more[i] /\ list[i] \in Seq(Token)
        /\ more[Len(v) + 1] = Written(c)
        /\ \A i \in 1..(Len(v) + 1) : more[i] \in Seq(Token)
        BY <1>1, <1>4
  <1>6. /\ list \in Seq(Seq(Token)) /\ Len(list) = Len(v)
        /\ more \in Seq(Seq(Token)) /\ Len(more) = Len(v) + 1
        <2>1. list = [i \in 1..Len(v) |-> list[i]] /\ more = [i \in 1..(Len(v) + 1) |-> more[i]]
              OBVIOUS
        <2> HIDE DEF list, more
        <2>2. \A i \in 1..Len(v) : list[i] \in Seq(Token)
              BY <1>5
        <2>3. list \in Seq(Seq(Token)) /\ Len(list) = Len(v)
              BY <1>1, <2>1, <2>2, ASequence, Zenon
        <2>4. \A i \in 1..(Len(v) + 1) : more[i] \in Seq(Token)
              BY <1>5
        <2>5. Len(v) + 1 \in Nat
              BY <1>1
        <2>6. more \in Seq(Seq(Token)) /\ Len(more) = Len(v) + 1
              BY <2>1, <2>4, <2>5, ASequence, Zenon
        <2> QED BY <2>3, <2>6
  <1> HIDE DEF list, more
  <1>7. FlattenSeq(more) = FlattenSeq(list) \o more[Len(more)]
        BY <1>5, <1>6, FlattenOne
  <1>8. FlattenSeq(list) \in Seq(Token)
        BY <1>6, FlattenType
  <1> QED BY <1>2, <1>3, <1>5, <1>6, <1>7, <1>8

\* What Unescape keeps of a text, token for token.
Kept(text) == [p \in 1..Len(text) |->
                 IF text[p] = "backslash" /\ p < Len(text) /\ text[p + 1] = "="
                   THEN <<>> ELSE <<text[p]>>]

LEMMA UnescapeIs ==
  ASSUME NEW text \in Seq(Token)
  PROVE  /\ Kept(text) \in Seq(Seq(Token)) /\ Len(Kept(text)) = Len(text)
         /\ Unescape(text) = FlattenSeq(Kept(text)) /\ Unescape(text) \in Seq(Token)
  <1> DEFINE list == Kept(text)
  <1>1. /\ Len(text) \in Nat /\ DOMAIN text = 1..Len(text)
        /\ \A p \in 1..Len(text) : text[p] \in Token
        OBVIOUS
  <1>2. list = [p \in 1..Len(text) |-> list[p]]
        BY DEF Kept
  <1>3. \A t \in Token : <<t>> \in Seq(Token)
        OBVIOUS
  <1>4. \A p \in 1..Len(text) : list[p] \in Seq(Token)
        BY <1>1, <1>3, EmptySeq DEF Kept
  <1>5. Unescape(text) = FlattenSeq(list)
        BY <1>1 DEF Unescape, Kept
  <1> HIDE DEF list
  <1>6. list \in Seq(Seq(Token)) /\ Len(list) = Len(text)
        BY <1>1, <1>2, <1>4, ASequence, Zenon
  <1> QED BY <1>5, <1>6, FlattenType DEF list

LEMMA UnescapeAppend ==
  ASSUME NEW w \in Seq(Token), NEW c \in Token,
         c = "=" /\ Len(w) > 0 => w[Len(w)] # "backslash"
  PROVE  Unescape(Append(w, c)) = Append(Unescape(w), c)
  <1> DEFINE more == Append(w, c)
  <1>1. /\ more \in Seq(Token) /\ Len(w) \in Nat /\ Len(more) = Len(w) + 1
        /\ \A p \in 1..Len(w) : more[p] = w[p]
        /\ more[Len(w) + 1] = c
        BY LenProperties, AppendProperties
  <1> HIDE DEF more
  <1>2. /\ Kept(w) \in Seq(Seq(Token)) /\ Len(Kept(w)) = Len(w)
        /\ Unescape(w) = FlattenSeq(Kept(w)) /\ Unescape(w) \in Seq(Token)
        /\ Kept(more) \in Seq(Seq(Token)) /\ Len(Kept(more)) = Len(more)
        /\ Unescape(more) = FlattenSeq(Kept(more))
        BY <1>1, UnescapeIs
  <1>3. ASSUME NEW p \in 1..Len(w)
        PROVE  Kept(more)[p] = Kept(w)[p]
        <2>1. p \in 1..Len(more) /\ p < Len(more) /\ more[p] = w[p]
              BY <1>1
        <2>2. p < Len(w) => p + 1 \in 1..Len(w) /\ more[p + 1] = w[p + 1]
              BY <1>1
        <2>3. ~(p < Len(w)) => p = Len(w) /\ more[p + 1] = c
              BY <1>1
        <2> QED BY <2>1, <2>2, <2>3 DEF Kept
  <1>4. Kept(more)[Len(more)] = <<c>>
        <2>1. Len(more) \in 1..Len(more) /\ ~(Len(more) < Len(more)) /\ more[Len(more)] = c
              BY <1>1
        <2> QED BY <2>1 DEF Kept
  <1>5. FlattenSeq(Kept(more)) = FlattenSeq(Kept(w)) \o Kept(more)[Len(Kept(more))]
        BY <1>1, <1>2, <1>3, FlattenOne
  <1>6. Unescape(more) = Unescape(w) \o <<c>>
        BY <1>2, <1>4, <1>5
  <1> QED BY <1>2, <1>6, AppendIsConcat DEF more

LEMMA UnescapeSign ==
  ASSUME NEW w \in Seq(Token)
  PROVE  Unescape(w \o Written("=")) = Append(Unescape(w), "=")
  <1> DEFINE more == w \o Written("=")
             list == [p \in 1..(Len(w) + 1) |-> IF p <= Len(w) THEN Kept(w)[p] ELSE <<>>]
  <1>1. "=" \in Token /\ "backslash" \in Token
        BY Tokens
  <1>2. /\ more \in Seq(Token) /\ Len(w) \in Nat /\ Len(more) = Len(w) + 2
        /\ \A p \in 1..Len(w) : more[p] = w[p]
        /\ more[Len(w) + 1] = "backslash" /\ more[Len(w) + 2] = "="
        BY <1>1 DEF Written
  <1> HIDE DEF more
  <1>3. /\ Kept(w) \in Seq(Seq(Token)) /\ Len(Kept(w)) = Len(w)
        /\ Unescape(w) = FlattenSeq(Kept(w)) /\ Unescape(w) \in Seq(Token)
        /\ Kept(more) \in Seq(Seq(Token)) /\ Len(Kept(more)) = Len(more)
        /\ Unescape(more) = FlattenSeq(Kept(more))
        BY <1>2, UnescapeIs
  <1>4. /\ list \in Seq(Seq(Token)) /\ Len(list) = Len(w) + 1
        /\ \A p \in 1..Len(w) : list[p] = Kept(w)[p]
        /\ list[Len(w) + 1] = <<>>
        <2>1. list = [p \in 1..(Len(w) + 1) |-> list[p]]
              OBVIOUS
        <2>2. /\ \A p \in 1..Len(w) : list[p] = Kept(w)[p]
              /\ list[Len(w) + 1] = <<>>
              BY <1>2
        <2>3. \A p \in 1..(Len(w) + 1) : list[p] \in Seq(Token)
              BY <1>2, <1>3, EmptySeq
        <2> HIDE DEF list
        <2>4. Len(w) + 1 \in Nat
              BY <1>2
        <2> QED BY <2>1, <2>2, <2>3, <2>4, ASequence, Zenon
  <1> HIDE DEF list
  <1>5. \A p \in 1..Len(list) : Kept(more)[p] = list[p]
        <2>1. ASSUME NEW p \in 1..Len(w)
              PROVE  Kept(more)[p] = Kept(w)[p]
              <3>1. /\ p \in 1..Len(more) /\ p < Len(more) /\ more[p] = w[p]
                    /\ p < Len(w) => p + 1 \in 1..Len(w) /\ more[p + 1] = w[p + 1]
                    /\ ~(p < Len(w)) => more[p + 1] = "backslash"
                    BY <1>2
              <3> QED BY <3>1 DEF Kept
        <2>2. Kept(more)[Len(w) + 1] = <<>>
              <3>1. /\ Len(w) + 1 \in 1..Len(more) /\ Len(w) + 1 < Len(more)
                    /\ Len(w) + 1 + 1 = Len(w) + 2
                    BY <1>2
              <3> QED BY <1>2, <3>1 DEF Kept
        <2>3. \A p \in 1..Len(list) : p \in 1..Len(w) \/ p = Len(w) + 1
              BY <1>2, <1>4
        <2> QED BY <1>4, <2>1, <2>2, <2>3
  <1>6. Kept(more)[Len(more)] = <<"=">>
        <2>1. Len(more) \in 1..Len(more) /\ ~(Len(more) < Len(more)) /\ more[Len(more)] = "="
              BY <1>2
        <2> QED BY <2>1 DEF Kept
  <1>7. FlattenSeq(list) = Unescape(w) \o <<>>
        <2>1. /\ Len(list) = Len(Kept(w)) + 1 /\ list[Len(list)] = <<>>
              /\ \A i \in 1..Len(Kept(w)) : list[i] = Kept(w)[i]
              BY <1>3, <1>4
        <2>2. FlattenSeq(list) = FlattenSeq(Kept(w)) \o list[Len(list)]
              BY <1>3, <1>4, <2>1, FlattenOne
        <2> QED BY <1>3, <2>1, <2>2
  <1>8. FlattenSeq(list) = Unescape(w)
        BY <1>3, <1>7, ConcatEmptySeq
  <1>9. Len(Kept(more)) = Len(list) + 1
        BY <1>2, <1>3, <1>4
  <1>10. FlattenSeq(Kept(more)) = FlattenSeq(list) \o Kept(more)[Len(Kept(more))]
        BY <1>3, <1>4, <1>5, <1>9, FlattenOne
  <1>11. Unescape(more) = Unescape(w) \o <<"=">>
        BY <1>3, <1>6, <1>8, <1>10
  <1> QED BY <1>1, <1>3, <1>11, AppendIsConcat DEF more

LEMMA EscapedNone == Escaped(<<>>, FormatValue(<<>>))
  <1>1. <<>> \in Seq(Token) /\ Len(<<>>) = 0
        BY EmptySeq
  <1>2. Kept(<<>>) = <<>>
        BY <1>1 DEF Kept
  <1>3. Unescape(<<>>) = <<>>
        BY <1>1, <1>2, UnescapeIs, FlattenNone
  <1>4. 1..Len(<<>>) = {} /\ 1..(Len(<<>>) - 1) = {}
        BY <1>1
  <1> QED BY <1>1, <1>3, <1>4, FormatNone DEF Escaped

LEMMA EscapedMore ==
  ASSUME NEW v \in Seq(Token), NEW c \in Token, c # "backslash",
         Escaped(v, FormatValue(v))
  PROVE  Escaped(Append(v, c), FormatValue(Append(v, c)))
  <1> DEFINE w == FormatValue(v)
             more == Append(v, c)
  <1>1. /\ w \in Seq(Token) /\ Len(w) \in Nat /\ Len(v) \in Nat
        /\ FormatValue(more) = w \o Written(c)
        BY FormatAppend, LenProperties
  <1>2. /\ more \in Seq(Token) /\ Len(more) = Len(v) + 1 /\ more # <<>>
        /\ more[Len(v) + 1] = c /\ \A q \in 1..Len(v) : more[q] = v[q]
        BY <1>1, AppendProperties
  <1>3. /\ Unescape(w) = v
        /\ \A p \in 1..Len(w) :
              /\ w[p] = "=" => p > 1 /\ w[p - 1] = "backslash"
              /\ w[p] = "backslash" => p < Len(w) /\ w[p + 1] = "="
              /\ w[p] = "newline" => \E q \in 1..Len(v) : v[q] = "newline"
        /\ \A p \in 1..(Len(w) - 1) :
              w[p] = "|" /\ w[p + 1] = "CEF"
                => \E q \in 1..(Len(v) - 1) : v[q] = "|" /\ v[q + 1] = "CEF"
        /\ v = <<>> <=> w = <<>>
        /\ v # <<>> => w[Len(w)] = v[Len(v)]
        BY DEF Escaped
  <1>4. Len(v) > 0 <=> Len(w) > 0
        BY <1>1, <1>3, EmptySeq
  <1>5. Len(v) > 0 => w[Len(w)] = v[Len(v)]
        BY <1>1, <1>3, EmptySeq
  <1> HIDE DEF w, more
  <1>6. CASE c = "="
        <2> DEFINE ww == w \o Written(c)
        <2>1. /\ ww \in Seq(Token) /\ Len(ww) = Len(w) + 2 /\ ww # <<>>
              /\ \A p \in 1..Len(w) : ww[p] = w[p]
              /\ ww[Len(w) + 1] = "backslash" /\ ww[Len(w) + 2] = "="
              BY <1>1, <1>6, Tokens DEF Written
        <2>2. Unescape(ww) = more
              BY <1>1, <1>3, <1>6, UnescapeSign DEF more
        <2> HIDE DEF ww
        <2>3. \A p \in 1..Len(ww) :
                 /\ ww[p] = "=" => p > 1 /\ ww[p - 1] = "backslash"
                 /\ ww[p] = "backslash" => p < Len(ww) /\ ww[p + 1] = "="
                 /\ ww[p] = "newline" => \E q \in 1..Len(more) : more[q] = "newline"
              <3> TAKE p \in 1..Len(ww)
              <3>1. CASE p \in 1..Len(w)
                    <4>1. ww[p] = w[p] /\ (p > 1 => p - 1 \in 1..Len(w) /\ ww[p - 1] = w[p - 1])
                          BY <1>1, <2>1, <3>1
                    <4>2. p < Len(w) => p < Len(ww) /\ ww[p + 1] = w[p + 1]
                          BY <1>1, <2>1, <3>1
                    <4>3. \A q \in 1..Len(v) : q \in 1..Len(more) /\ more[q] = v[q]
                          BY <1>1, <1>2
                    <4> QED BY <1>3, <3>1, <4>1, <4>2, <4>3
              <3>2. CASE p = Len(w) + 1
                    BY <1>1, <2>1, <3>2
              <3>3. CASE p = Len(w) + 2
                    BY <1>1, <2>1, <3>3
              <3>4. p \in 1..Len(w) \/ p = Len(w) + 1 \/ p = Len(w) + 2
                    BY <1>1, <2>1
              <3> QED BY <3>1, <3>2, <3>3, <3>4
        <2>4. ASSUME NEW p \in 1..(Len(ww) - 1), ww[p] = "|", ww[p + 1] = "CEF"
              PROVE  \E q \in 1..(Len(more) - 1) : more[q] = "|" /\ more[q + 1] = "CEF"
              <3>1. p \in 1..(Len(w) - 1) /\ w[p] = "|" /\ w[p + 1] = "CEF"
                    BY <1>1, <2>1, <2>4, SMTT(60)
              <3>2. PICK q \in 1..(Len(v) - 1) : v[q] = "|" /\ v[q + 1] = "CEF"
                    BY <1>3, <3>1
              <3>3. q \in 1..(Len(more) - 1) /\ more[q] = v[q] /\ more[q + 1] = v[q + 1]
                    BY <1>1, <1>2, <3>2
              <3> QED BY <3>2, <3>3
        <2>5. ww[Len(ww)] = more[Len(more)]
              BY <1>2, <1>6, <2>1
        <2>6. Escaped(more, ww)
              BY <1>2, <2>1, <2>2, <2>3, <2>4, <2>5 DEF Escaped
        <2> QED BY <1>1, <2>6 DEF ww, more
  <1>7. CASE c # "="
        <2> DEFINE ww == Append(w, c)
        <2>1. ww = w \o Written(c)
              BY <1>1, <1>7, AppendIsConcat DEF Written
        <2>2. /\ ww \in Seq(Token) /\ Len(ww) = Len(w) + 1 /\ ww # <<>>
              /\ \A p \in 1..Len(w) : ww[p] = w[p]
              /\ ww[Len(w) + 1] = c
              BY <1>1, AppendProperties
        <2>3. Unescape(ww) = more
              BY <1>1, <1>3, <1>7, UnescapeAppend DEF more
        <2> HIDE DEF ww
        <2>4. \A p \in 1..Len(ww) :
                 /\ ww[p] = "=" => p > 1 /\ ww[p - 1] = "backslash"
                 /\ ww[p] = "backslash" => p < Len(ww) /\ ww[p + 1] = "="
                 /\ ww[p] = "newline" => \E q \in 1..Len(more) : more[q] = "newline"
              <3> TAKE p \in 1..Len(ww)
              <3>1. CASE p \in 1..Len(w)
                    <4>1. ww[p] = w[p] /\ (p > 1 => p - 1 \in 1..Len(w) /\ ww[p - 1] = w[p - 1])
                          BY <1>1, <2>2, <3>1
                    <4>2. p < Len(w) => p < Len(ww) /\ ww[p + 1] = w[p + 1]
                          BY <1>1, <2>2, <3>1
                    <4>3. \A q \in 1..Len(v) : q \in 1..Len(more) /\ more[q] = v[q]
                          BY <1>1, <1>2
                    <4> QED BY <1>3, <3>1, <4>1, <4>2, <4>3
              <3>2. CASE p = Len(w) + 1
                    <4>1. ww[p] = c /\ Len(more) \in 1..Len(more) /\ more[Len(more)] = c
                          BY <1>1, <1>2, <2>2, <3>2
                    <4> QED BY <1>7, <4>1
              <3> QED BY <1>1, <2>2, <3>1, <3>2
        <2>5. ASSUME NEW p \in 1..(Len(ww) - 1), ww[p] = "|", ww[p + 1] = "CEF"
              PROVE  \E q \in 1..(Len(more) - 1) : more[q] = "|" /\ more[q + 1] = "CEF"
              <3>1. CASE p < Len(w)
                    <4>1. p \in 1..(Len(w) - 1) /\ w[p] = "|" /\ w[p + 1] = "CEF"
                          BY <1>1, <2>2, <2>5, <3>1
                    <4>2. PICK q \in 1..(Len(v) - 1) : v[q] = "|" /\ v[q + 1] = "CEF"
                          BY <1>3, <4>1
                    <4>3. q \in 1..(Len(more) - 1) /\ more[q] = v[q] /\ more[q + 1] = v[q + 1]
                          BY <1>1, <1>2, <4>2
                    <4> QED BY <4>2, <4>3
              <3>2. CASE ~(p < Len(w))
                    <4>1. p = Len(w) /\ p + 1 = Len(w) + 1 /\ Len(w) > 0
                          BY <1>1, <2>2, <3>2
                    <4>2. w[Len(w)] = "|" /\ c = "CEF"
                          BY <2>2, <2>5, <4>1
                    <4>3. /\ Len(v) \in 1..(Len(more) - 1) /\ more[Len(v)] = v[Len(v)]
                          /\ more[Len(v) + 1] = c /\ v[Len(v)] = "|"
                          BY <1>1, <1>2, <1>4, <1>5, <4>1, <4>2
                    <4> QED BY <4>2, <4>3
              <3> QED BY <3>1, <3>2
        <2>6. ww[Len(ww)] = more[Len(more)]
              BY <1>2, <2>2
        <2>7. Escaped(more, ww)
              BY <1>2, <2>2, <2>3, <2>4, <2>5, <2>6 DEF Escaped
        <2> QED BY <1>1, <2>1, <2>7 DEF more
  <1> QED BY <1>6, <1>7

\* A value without backslashes is written so that Unescape finds it again.
LEMMA EscapedValue ==
  ASSUME NEW v \in Seq(Token), \A p \in 1..Len(v) : v[p] # "backslash"
  PROVE  Escaped(v, FormatValue(v))
  <1> DEFINE P == {s \in Seq(Token) :
                     (\A p \in 1..Len(s) : s[p] # "backslash") => Escaped(s, FormatValue(s))}
  <1>1. <<>> \in P
        BY EscapedNone, EmptySeq
  <1>2. ASSUME NEW s \in Seq(Token), NEW c \in Token, s \in P
        PROVE  Append(s, c) \in P
        <2> DEFINE more == Append(s, c)
        <2>1. /\ more \in Seq(Token) /\ Len(s) \in Nat /\ Len(more) = Len(s) + 1
              /\ more[Len(s) + 1] = c /\ \A p \in 1..Len(s) : more[p] = s[p]
              BY LenProperties, AppendProperties
        <2> HIDE DEF more
        <2>2. ASSUME \A p \in 1..Len(more) : more[p] # "backslash"
              PROVE  Escaped(more, FormatValue(more))
              <3>1. /\ \A p \in 1..Len(s) : p \in 1..Len(more) /\ more[p] = s[p]
                    /\ Len(s) + 1 \in 1..Len(more)
                    BY <2>1
              <3>2. (\A p \in 1..Len(s) : s[p] # "backslash") /\ c # "backslash"
                    BY <2>1, <2>2, <3>1
              <3>3. Escaped(s, FormatValue(s))
                    BY <1>2, <3>2
              <3> QED BY <3>2, <3>3, EscapedMore DEF more
        <2>3. more \in P
              BY <2>1, <2>2
        <2> QED BY <2>3 DEF more
  <1> HIDE DEF P
  <1>3. Seq(Token) \subseteq P
        BY <1>1, <1>2, ByAppend
  <1>4. v \in P
        BY <1>3
  <1> QED BY <1>4 DEF P

-----------------------------------------------------------------------------
(* The message of an event.                                                 *)

\* What a plain value is written as.
Carried(v, w) ==
    /\ w \in Seq(Token) /\ Unescape(w) = v
    /\ \A p \in 1..Len(w) :
          w[p] # "newline" /\ (w[p] = "=" => p > 1 /\ w[p - 1] = "backslash")
    /\ \A p \in 1..(Len(w) - 1) : ~(w[p] = "|" /\ w[p + 1] = "CEF")
    /\ v # <<>> => Len(w) > 0 /\ w[Len(w)] \notin White

LEMMA PlainCarried ==
  ASSUME NEW v \in Seq(STRING), Plain(v)
  PROVE  Carried(v, FormatValue(v))
  <1> DEFINE w == FormatValue(v)
  <1>1. v \in Seq(Token) /\ Len(v) \in Nat /\ DOMAIN v = 1..Len(v)
        <2>1. STRING \subseteq Token
              BY DEF Token
        <2>2. v \in Seq(Token)
              BY <2>1, SeqMonotonic
        <2> QED BY <2>2, LenProperties
  <1>2. \A p \in 1..Len(v) : v[p] # "backslash" /\ v[p] # "newline"
        <2>1. \A p \in 1..Len(v) : v[p] \in ToSet(v)
              BY <1>1 DEF ToSet
        <2> QED BY <2>1 DEF Plain
  <1>3. \A q \in 1..(Len(v) - 1) : ~(v[q] = "|" /\ v[q + 1] = "CEF")
        BY DEF Plain, Bars
  <1>4. v # <<>> => v[Len(v)] # "space"
        BY DEF Plain, Last
  <1>5. Escaped(v, w)
        BY <1>1, <1>2, EscapedValue
  <1> HIDE DEF w
  <1>6. w \in Seq(Token) /\ Unescape(w) = v /\ Len(w) \in Nat
        BY <1>5 DEF Escaped
  <1>7. \A p \in 1..Len(w) :
          w[p] # "newline" /\ (w[p] = "=" => p > 1 /\ w[p - 1] = "backslash")
        BY <1>2, <1>5 DEF Escaped
  <1>8. \A p \in 1..(Len(w) - 1) : ~(w[p] = "|" /\ w[p + 1] = "CEF")
        BY <1>3, <1>5 DEF Escaped
  <1>9. ASSUME v # <<>>
        PROVE  Len(w) > 0 /\ w[Len(w)] \notin White
        <2>1. w # <<>> /\ w[Len(w)] = v[Len(v)]
              BY <1>5, <1>9 DEF Escaped
        <2>2. Len(w) > 0 /\ Len(v) > 0
              BY <1>1, <1>6, <1>9, <2>1, EmptySeq
        <2>3. v[Len(v)] # "newline"
              BY <1>1, <1>2, <2>2
        <2> QED BY <1>4, <1>9, <2>1, <2>2, <2>3 DEF White
  <1> QED BY <1>6, <1>7, <1>8, <1>9 DEF Carried, w

LEMMA TrimIs ==
  ASSUME NEW s \in Seq(Token), Len(s) > 0, s[Len(s)] \notin White
  PROVE  TrimSpace(Append(s, "space")) = s
  <1> DEFINE longer == Append(s, "space")
             I      == {i \in 1..Len(longer) : longer[i] \notin White}
  <1>1. /\ Len(s) \in Nat /\ "space" \in Token /\ Len(longer) = Len(s) + 1
        /\ longer[Len(s) + 1] = "space" /\ \A i \in 1..Len(s) : longer[i] = s[i]
        BY Tokens, LenProperties, AppendProperties
  <1> HIDE DEF longer
  <1>2. Len(s) \in I
        BY <1>1
  <1>3. \A i \in I : i \in Nat /\ Len(s) >= i
        BY <1>1 DEF White
  <1>4. SelectLastInSeq(longer, LAMBDA t : t \notin White) = Max(I)
        BY <1>2 DEF SelectLastInSeq
  <1> HIDE DEF I
  <1>5. Max(I) = Len(s)
        <2>1. \A x \in I : (\A y \in I : x >= y) => x = Len(s)
              BY <1>1, <1>2, <1>3
        <2> QED BY <1>2, <1>3, <2>1 DEF Max
  <1>6. TrimSpace(longer) = SubSeq(longer, 1, Len(s))
        BY <1>4, <1>5 DEF TrimSpace
  <1> QED BY <1>1, <1>6, SeqFront DEF longer

LEMMA FlattenTwo ==
  ASSUME NEW S, NEW a \in Seq(S), NEW b \in Seq(S)
  PROVE  FlattenSeq(<<a, b>>) = a \o b
  <1>1. <<>> \in Seq(Seq(S)) /\ <<a>> \in Seq(Seq(S)) /\ <<a, b>> \in Seq(Seq(S))
        OBVIOUS
  <1>2. FlattenSeq(<<a>>) = FlattenSeq(<<>>) \o a
        <2>1. Len(<<a>>) = Len(<<>>) + 1 /\ <<a>>[Len(<<a>>)] = a /\ 1..Len(<<>>) = {}
              OBVIOUS
        <2> QED BY <1>1, <2>1, FlattenOne
  <1>3. FlattenSeq(<<a>>) = a
        BY <1>2, FlattenNone, ConcatEmptySeq
  <1>4. FlattenSeq(<<a, b>>) = FlattenSeq(<<a>>) \o b
        <2>1. /\ Len(<<a, b>>) = Len(<<a>>) + 1 /\ <<a, b>>[Len(<<a, b>>)] = b
              /\ \A i \in 1..Len(<<a>>) : <<a, b>>[i] = <<a>>[i]
              OBVIOUS
        <2> QED BY <1>1, <2>1, FlattenOne
  <1> QED BY <1>3, <1>4

\* The text of one key and its value.
KeyText(key, w) == <<key, "=">> \o w

LEMMA ExtensionIs ==
  ASSUME NEW x \in [ToSet(Keys) -> Seq(STRING)], NEW a, NEW b,
         a = FormatValue(x["msg"]), b = FormatValue(x["src"]),
         Carried(x["msg"], a), Carried(x["src"], b)
  PROVE  ExtensionText(x) =
           IF x["msg"] = <<>>
             THEN IF x["src"] = <<>> THEN <<>> ELSE <<"|">> \o KeyText("src", b)
           ELSE IF x["src"] = <<>> THEN <<"|">> \o KeyText("msg", a)
           ELSE <<"|">> \o (KeyText("msg", a) \o (<<"space">> \o KeyText("src", b)))
  <1> DEFINE Pair(key) == IF x[key] = <<>> THEN <<>>
                          ELSE <<key, "=">> \o FormatValue(x[key]) \o <<"space">>
             pairs == FlattenSeq([i \in DOMAIN SortedKeys |-> Pair(SortedKeys[i])])
             ka == KeyText("msg", a)
             kb == KeyText("src", b)
  <1>1. SortedKeys = <<"msg", "src">>
        BY DEF SortedKeys, Reverse, Keys
  <1>2. [i \in DOMAIN SortedKeys |-> Pair(SortedKeys[i])] = <<Pair("msg"), Pair("src")>>
        <2> HIDE DEF Pair
        <2>1. DOMAIN SortedKeys = 1..2 /\ SortedKeys[1] = "msg" /\ SortedKeys[2] = "src"
              BY <1>1
        <2>2. [i \in 1..2 |-> Pair(SortedKeys[i])] = <<Pair("msg"), Pair("src")>>
              BY <2>1
        <2> QED BY <2>1, <2>2
  <1>3. a \in Seq(Token) /\ b \in Seq(Token)
        BY DEF Carried
  <1>4. ka \in Seq(Token) /\ kb \in Seq(Token) /\ "space" \in Token
        BY <1>3, Tokens DEF KeyText
  <1>5. /\ x["msg"] # <<>> => Len(ka) > 0 /\ ka[Len(ka)] \notin White
        /\ x["src"] # <<>> => Len(kb) > 0 /\ kb[Len(kb)] \notin White
        <2>1. /\ Len(ka) = Len(a) + 2 /\ \A p \in 1..Len(a) : ka[p + 2] = a[p]
              /\ Len(kb) = Len(b) + 2 /\ \A p \in 1..Len(b) : kb[p + 2] = b[p]
              /\ Len(a) \in Nat /\ Len(b) \in Nat
              BY <1>3, Tokens DEF KeyText
        <2> HIDE DEF ka, kb
        <2>2. x["msg"] # <<>> => Len(a) \in 1..Len(a) /\ a[Len(a)] \notin White
              BY <2>1 DEF Carried
        <2>3. x["src"] # <<>> => Len(b) \in 1..Len(b) /\ b[Len(b)] \notin White
              BY <2>1 DEF Carried
        <2> QED BY <2>1, <2>2, <2>3
  <1>6. /\ Pair("msg") = IF x["msg"] = <<>> THEN <<>> ELSE ka \o <<"space">>
        /\ Pair("src") = IF x["src"] = <<>> THEN <<>> ELSE kb \o <<"space">>
        BY DEF KeyText
  <1>7. ExtensionText(x) = IF pairs = <<>> THEN <<>> ELSE <<"|">> \o TrimSpace(pairs)
        BY DEF ExtensionText
  <1> HIDE DEF ka, kb, Pair
  <1>8. Pair("msg") \in Seq(Token) /\ Pair("src") \in Seq(Token)
        <2>1. <<"space">> \in Seq(Token)
              BY <1>4
        <2>2. ka \o <<"space">> \in Seq(Token) /\ kb \o <<"space">> \in Seq(Token)
              BY <1>4, <2>1, ConcatProperties
        <2>3. <<>> \in Seq(Token)
              BY EmptySeq
        <2> QED BY <1>6, <2>2, <2>3
  <1>9. pairs = Pair("msg") \o Pair("src")
        BY <1>2, <1>8, FlattenTwo
  <1> HIDE DEF pairs
  <1>10. ASSUME NEW s \in Seq(Token), Len(s) > 0, s[Len(s)] \notin White,
                pairs = s \o <<"space">>
         PROVE  ExtensionText(x) = <<"|">> \o s
         <2>1. pairs = Append(s, "space")
               BY <1>4, <1>10, AppendIsConcat
         <2>2. TrimSpace(pairs) = s
               BY <1>10, <2>1, TrimIs
         <2>3. pairs # <<>>
               BY <1>4, <1>10, <2>1, AppendProperties
         <2> QED BY <1>7, <2>2, <2>3
  <1>11. CASE x["msg"] = <<>> /\ x["src"] = <<>>
         <2>1. pairs = <<>>
               BY <1>6, <1>9, <1>11, EmptySeq, ConcatEmptySeq
         <2> QED BY <1>7, <1>11, <2>1
  <1>12. CASE x["msg"] = <<>> /\ x["src"] # <<>>
         <2>1. pairs = kb \o <<"space">>
               BY <1>6, <1>8, <1>9, <1>12, ConcatEmptySeq
         <2> QED BY <1>4, <1>5, <1>10, <1>12, <2>1 DEF kb
  <1>13. CASE x["msg"] # <<>> /\ x["src"] = <<>>
         <2>1. pairs = ka \o <<"space">>
               BY <1>6, <1>8, <1>9, <1>13, ConcatEmptySeq
         <2> QED BY <1>4, <1>5, <1>10, <1>13, <2>1 DEF ka
  <1>14. CASE x["msg"] # <<>> /\ x["src"] # <<>>
         <2> DEFINE tail == <<"space">> \o kb
                    both == ka \o tail
         <2>1. tail \in Seq(Token) /\ both \in Seq(Token) /\ <<"space">> \in Seq(Token)
               BY <1>4, ConcatProperties
         <2>2. pairs = (ka \o <<"space">>) \o (kb \o <<"space">>)
               BY <1>6, <1>9, <1>14
         <2>3. pairs = both \o <<"space">>
               <3>1. pairs = ka \o (<<"space">> \o (kb \o <<"space">>))
                     <4>1. kb \o <<"space">> \in Seq(Token)
                           BY <1>4, <2>1, ConcatProperties
                     <4> QED BY <1>4, <2>1, <2>2, <4>1, ConcatAssociative
               <3>2. <<"space">> \o (kb \o <<"space">>) = tail \o <<"space">>
                     BY <1>4, <2>1, ConcatAssociative
               <3>3. ka \o (tail \o <<"space">>) = both \o <<"space">>
                     BY <1>4, <2>1, ConcatAssociative
               <3> QED BY <3>1, <3>2, <3>3
         <2>4. Len(both) > 0 /\ both[Len(both)] \notin White
               <3>1. /\ Len(tail) = Len(kb) + 1 /\ Len(kb) \in Nat /\ Len(ka) \in Nat
                     /\ \A i \in 1..Len(kb) : tail[i + 1] = kb[i]
                     BY <1>4
               <3>2. /\ Len(both) = Len(ka) + Len(tail)
                     /\ \A i \in 1..(Len(ka) + Len(tail)) :
                           both[i] = IF i <= Len(ka) THEN ka[i] ELSE tail[i - Len(ka)]
                     BY <1>4, <2>1, ConcatProperties
               <3> HIDE DEF both, tail
               <3>3. Len(kb) > 0 /\ kb[Len(kb)] \notin White
                     BY <1>5, <1>14
               <3>4. both[Len(both)] = tail[Len(kb) + 1]
                     BY <3>1, <3>2, <3>3
               <3>5. tail[Len(kb) + 1] = kb[Len(kb)]
                     BY <3>1, <3>3
               <3> QED BY <3>1, <3>2, <3>3, <3>4, <3>5
         <2> HIDE DEF both
         <2>5. ExtensionText(x) = <<"|">> \o both
               BY <1>10, <2>1, <2>3, <2>4
         <2> QED BY <1>14, <2>5 DEF both, ka, kb
  <1> QED BY <1>11, <1>12, <1>13, <1>14 DEF ka, kb

\* One key and its value behind k tokens, and nothing behind them.
OneValue(text, k, key, w) ==
    /\ text \in Seq(Token) /\ Len(text) = k + Len(w) + 3
    /\ text[k + 1] = "|" /\ text[k + 2] = key /\ text[k + 3] = "="
    /\ \A i \in 1..Len(w) : text[k + 3 + i] = w[i]

\* Both keys and their values.
TwoValues(text, k, a, b) ==
    /\ text \in Seq(Token) /\ Len(text) = k + Len(a) + Len(b) + 6
    /\ text[k + 1] = "|" /\ text[k + 2] = "msg" /\ text[k + 3] = "="
    /\ \A i \in 1..Len(a) : text[k + 3 + i] = a[i]
    /\ text[k + Len(a) + 4] = "space" /\ text[k + Len(a) + 5] = "src"
    /\ text[k + Len(a) + 6] = "="
    /\ \A i \in 1..Len(b) : text[k + Len(a) + 6 + i] = b[i]

\* What an event's text has behind its first k tokens.
Values(text, k, x, a, b) ==
    IF x["msg"] = <<>>
      THEN IF x["src"] = <<>> THEN text \in Seq(Token) /\ Len(text) = k
           ELSE OneValue(text, k, "src", b)
    ELSE IF x["src"] = <<>> THEN OneValue(text, k, "msg", a)
    ELSE TwoValues(text, k, a, b)

LEMMA Behind ==
  ASSUME NEW front \in Seq(Token), NEW x \in [ToSet(Keys) -> Seq(STRING)], NEW a, NEW b,
         a = FormatValue(x["msg"]), b = FormatValue(x["src"]),
         Carried(x["msg"], a), Carried(x["src"], b)
  PROVE  /\ Values(front \o ExtensionText(x), Len(front), x, a, b)
         /\ ExtensionText(x) \in Seq(Token)
         /\ \A i \in 1..Len(front) : (front \o ExtensionText(x))[i] = front[i]
  <1> DEFINE k    == Len(front)
             ext  == ExtensionText(x)
             text == front \o ext
  <1>1. a \in Seq(Token) /\ b \in Seq(Token) /\ Len(a) \in Nat /\ Len(b) \in Nat /\ k \in Nat
        BY LenProperties DEF Carried
  <1>2. ext = IF x["msg"] = <<>>
                THEN IF x["src"] = <<>> THEN <<>> ELSE <<"|">> \o KeyText("src", b)
              ELSE IF x["src"] = <<>> THEN <<"|">> \o KeyText("msg", a)
              ELSE <<"|">> \o (KeyText("msg", a) \o (<<"space">> \o KeyText("src", b)))
        BY ExtensionIs
  <1> HIDE DEF ext
  <1>3. ASSUME NEW key \in {"msg", "src"}, NEW w \in Seq(Token)
        PROVE  /\ KeyText(key, w) \in Seq(Token) /\ Len(KeyText(key, w)) = Len(w) + 2
               /\ KeyText(key, w)[1] = key /\ KeyText(key, w)[2] = "="
               /\ \A i \in 1..Len(w) : KeyText(key, w)[2 + i] = w[i]
        BY Tokens DEF KeyText
  <1>4. ASSUME NEW t \in Token, NEW s \in Seq(Token)
        PROVE  /\ <<t>> \o s \in Seq(Token) /\ Len(<<t>> \o s) = Len(s) + 1
               /\ (<<t>> \o s)[1] = t /\ \A i \in 1..Len(s) : (<<t>> \o s)[1 + i] = s[i]
        OBVIOUS
  <1>5. ASSUME ext \in Seq(Token)
        PROVE  /\ text \in Seq(Token) /\ Len(text) = k + Len(ext)
               /\ \A i \in 1..k : text[i] = front[i]
               /\ \A i \in 1..Len(ext) : text[k + i] = ext[i]
        BY <1>5
  <1> HIDE DEF text, k
  <1>6. CASE x["msg"] = <<>> /\ x["src"] = <<>>
        <2>1. ext = <<>> /\ Len(ext) = 0 /\ ext \in Seq(Token)
              BY <1>2, <1>6, EmptySeq
        <2>2. Values(text, k, x, a, b)
              BY <1>1, <1>5, <1>6, <2>1 DEF Values
        <2> QED BY <1>5, <2>1, <2>2 DEF text, k, ext
  <1>7. ASSUME NEW key \in {"msg", "src"}, NEW w \in Seq(Token), ext = <<"|">> \o KeyText(key, w)
        PROVE  ext \in Seq(Token) /\ OneValue(text, k, key, w)
        <2> DEFINE kw == KeyText(key, w)
        <2>1. /\ kw \in Seq(Token) /\ Len(kw) = Len(w) + 2 /\ kw[1] = key /\ kw[2] = "="
              /\ Len(w) \in Nat /\ \A i \in 1..Len(w) : kw[2 + i] = w[i]
              BY <1>3, LenProperties
        <2> HIDE DEF kw
        <2>2. /\ ext \in Seq(Token) /\ Len(ext) = Len(w) + 3 /\ ext[1] = "|"
              /\ \A i \in 1..Len(kw) : ext[1 + i] = kw[i]
              BY <1>4, <1>7, <2>1, Tokens DEF kw
        <2>3. /\ ext[2] = key /\ ext[3] = "="
              /\ \A i \in 1..Len(w) : ext[3 + i] = w[i]
              <3>1. 1 \in 1..Len(kw) /\ 2 \in 1..Len(kw)
                    BY <2>1
              <3>2. \A i \in 1..Len(w) : 2 + i \in 1..Len(kw) /\ 1 + (2 + i) = 3 + i
                    BY <2>1
              <3>3. 1 + 1 = 2 /\ 1 + 2 = 3
                    OBVIOUS
              <3> QED BY <2>1, <2>2, <3>1, <3>2, <3>3
        <2>4. /\ text[k + 1] = "|" /\ text[k + 2] = key /\ text[k + 3] = "="
              /\ \A i \in 1..Len(w) : text[k + 3 + i] = w[i]
              <3>1. 1 \in 1..Len(ext) /\ 2 \in 1..Len(ext) /\ 3 \in 1..Len(ext)
                    BY <2>1, <2>2
              <3>2. \A i \in 1..Len(w) : 3 + i \in 1..Len(ext) /\ k + (3 + i) = k + 3 + i
                    BY <1>1, <2>1, <2>2
              <3> QED BY <1>5, <2>2, <2>3, <3>1, <3>2
        <2>5. text \in Seq(Token) /\ Len(text) = k + Len(w) + 3
              BY <1>1, <1>5, <2>1, <2>2
        <2> QED BY <2>2, <2>4, <2>5 DEF OneValue
  <1>8. CASE x["msg"] = <<>> /\ x["src"] # <<>>
        <2>1. ext \in Seq(Token) /\ OneValue(text, k, "src", b)
              BY <1>1, <1>2, <1>7, <1>8
        <2>2. Values(text, k, x, a, b)
              BY <1>8, <2>1 DEF Values
        <2> QED BY <1>5, <2>1, <2>2 DEF text, k, ext
  <1>9. CASE x["msg"] # <<>> /\ x["src"] = <<>>
        <2>1. ext \in Seq(Token) /\ OneValue(text, k, "msg", a)
              BY <1>1, <1>2, <1>7, <1>9
        <2>2. Values(text, k, x, a, b)
              BY <1>9, <2>1 DEF Values
        <2> QED BY <1>5, <2>1, <2>2 DEF text, k, ext
  <1>10. CASE x["msg"] # <<>> /\ x["src"] # <<>>
        <2> DEFINE ka == KeyText("msg", a)
                   kb == KeyText("src", b)
                   sb == <<"space">> \o kb
                   both == ka \o sb
        <2>1. /\ ka \in Seq(Token) /\ Len(ka) = Len(a) + 2 /\ ka[1] = "msg" /\ ka[2] = "="
              /\ \A i \in 1..Len(a) : ka[2 + i] = a[i]
              BY <1>1, <1>3
        <2>2. /\ kb \in Seq(Token) /\ Len(kb) = Len(b) + 2 /\ kb[1] = "src" /\ kb[2] = "="
              /\ \A i \in 1..Len(b) : kb[2 + i] = b[i]
              BY <1>1, <1>3
        <2> HIDE DEF ka, kb
        <2>3. /\ sb \in Seq(Token) /\ Len(sb) = Len(kb) + 1 /\ sb[1] = "space"
              /\ \A i \in 1..Len(kb) : sb[1 + i] = kb[i]
              BY <1>4, <2>2, Tokens
        <2> HIDE DEF sb
        <2>4. /\ both \in Seq(Token) /\ Len(both) = Len(ka) + Len(sb)
              /\ \A i \in 1..Len(ka) : both[i] = ka[i]
              /\ \A i \in 1..Len(sb) : both[Len(ka) + i] = sb[i]
              <3>1. /\ both \in Seq(Token) /\ Len(both) = Len(ka) + Len(sb)
                    /\ \A i \in 1..(Len(ka) + Len(sb)) :
                          both[i] = IF i <= Len(ka) THEN ka[i] ELSE sb[i - Len(ka)]
                    <4>1. ka \in Seq(Token) /\ sb \in Seq(Token)
                          BY <2>1, <2>3
                    <4> QED BY <4>1, ConcatProperties
              <3>2. Len(ka) \in Nat /\ Len(sb) \in Nat
                    BY <2>1, <2>3, LenProperties
              <3> HIDE DEF both
              <3>3. \A i \in 1..Len(ka) : both[i] = ka[i]
                    BY <3>1, <3>2
              <3>4. \A i \in 1..Len(sb) : both[Len(ka) + i] = sb[i]
                    BY <3>1, <3>2, SMTT(60)
              <3> QED BY <3>1, <3>3, <3>4
        <2>5. ext = <<"|">> \o both
              BY <1>2, <1>10 DEF both, sb, ka, kb
        <2> HIDE DEF both
        <2>6. /\ ext \in Seq(Token) /\ Len(ext) = Len(both) + 1 /\ ext[1] = "|"
              /\ \A i \in 1..Len(both) : ext[1 + i] = both[i]
              BY <1>4, <2>4, <2>5, Tokens
        <2>7. /\ Len(both) = Len(a) + Len(b) + 5 /\ Len(ext) = Len(a) + Len(b) + 6
              /\ text \in Seq(Token) /\ Len(text) = k + Len(a) + Len(b) + 6
              BY <1>1, <1>5, <2>1, <2>2, <2>3, <2>4, <2>6
        <2>8. ASSUME NEW i \in 1..Len(both)
              PROVE  text[k + 1 + i] = both[i]
              <3>1. 1 + i \in 1..Len(ext) /\ k + (1 + i) = k + 1 + i
                    BY <1>1, <2>7
              <3> QED BY <1>5, <2>6, <3>1
        <2>9. text[k + 1] = "|"
              <3>1. 1 \in 1..Len(ext)
                    BY <1>1, <2>7
              <3> QED BY <1>5, <2>6, <3>1
        <2>10. text[k + 2] = "msg" /\ text[k + 3] = "="
              <3>1. 1 \in 1..Len(ka) /\ 2 \in 1..Len(ka) /\ 1 \in 1..Len(both) /\ 2 \in 1..Len(both)
                    BY <1>1, <2>1, <2>7
              <3>2. k + 1 + 1 = k + 2 /\ k + 1 + 2 = k + 3
                    BY <1>1
              <3> QED BY <2>1, <2>4, <2>8, <3>1, <3>2
        <2>11. ASSUME NEW i \in 1..Len(a)
               PROVE  text[k + 3 + i] = a[i]
              <3>1. 2 + i \in 1..Len(ka) /\ 2 + i \in 1..Len(both) /\ k + 1 + (2 + i) = k + 3 + i
                    BY <1>1, <2>1, <2>7
              <3> QED BY <2>1, <2>4, <2>8, <3>1
        <2>12. ASSUME NEW i \in 1..Len(sb)
               PROVE  text[k + Len(a) + 3 + i] = sb[i]
              <3>1. /\ Len(ka) + i \in 1..Len(both)
                    /\ k + 1 + (Len(ka) + i) = k + Len(a) + 3 + i
                    BY <1>1, <2>1, <2>2, <2>3, <2>7
              <3> QED BY <2>4, <2>8, <3>1
        <2>13. text[k + Len(a) + 4] = "space"
              <3>1. 1 \in 1..Len(sb) /\ k + Len(a) + 3 + 1 = k + Len(a) + 4
                    BY <1>1, <2>2, <2>3
              <3> QED BY <2>3, <2>12, <3>1
        <2>14. ASSUME NEW i \in 1..Len(kb)
               PROVE  text[k + Len(a) + 4 + i] = kb[i]
              <3>1. 1 + i \in 1..Len(sb) /\ k + Len(a) + 3 + (1 + i) = k + Len(a) + 4 + i
                    BY <1>1, <2>2, <2>3
              <3> QED BY <2>3, <2>12, <3>1
        <2>15. text[k + Len(a) + 5] = "src" /\ text[k + Len(a) + 6] = "="
              <3>1. 1 \in 1..Len(kb) /\ 2 \in 1..Len(kb)
                    BY <1>1, <2>2
              <3>2. k + Len(a) + 4 + 1 = k + Len(a) + 5 /\ k + Len(a) + 4 + 2 = k + Len(a) + 6
                    BY <1>1
              <3> QED BY <2>2, <2>14, <3>1, <3>2
        <2>16. ASSUME NEW i \in 1..Len(b)
               PROVE  text[k + Len(a) + 6 + i] = b[i]
              <3>1. 2 + i \in 1..Len(kb) /\ k + Len(a) + 4 + (2 + i) = k + Len(a) + 6 + i
                    BY <1>1, <2>2
              <3> QED BY <2>2, <2>14, <3>1
        <2>17. TwoValues(text, k, a, b)
              BY <2>7, <2>9, <2>10, <2>11, <2>13, <2>15, <2>16 DEF TwoValues
        <2>18. Values(text, k, x, a, b)
              BY <1>10, <2>17 DEF Values
        <2> QED BY <1>5, <2>6, <2>18 DEF text, k, ext
  <1> QED BY <1>6, <1>8, <1>9, <1>10

\* No newline, no second CEF, and no sign that a value brought with it.
LEMMA OneBehaved ==
  ASSUME NEW text, NEW k \in Nat, NEW key \in {"msg", "src"}, NEW v, NEW w,
         Carried(v, w), OneValue(text, k, key, w)
  PROVE  \A p \in (k + 1)..Len(text) :
            /\ text[p] # "newline"
            /\ text[p] = "=" /\ text[p - 1] # "backslash" <=> p = k + 3
            /\ p < Len(text) => ~(text[p] = "|" /\ text[p + 1] = "CEF")
  <1> TAKE p \in (k + 1)..Len(text)
  <1>1. w \in Seq(Token) /\ Len(w) \in Nat /\ Len(text) = k + Len(w) + 3 /\ p \in Nat
        BY LenProperties DEF Carried, OneValue
  <1>2. /\ text[k + 1] = "|" /\ text[k + 2] = key /\ text[k + 3] = "="
        /\ \A i \in 1..Len(w) : text[k + 3 + i] = w[i]
        BY DEF OneValue
  <1>3. CASE p = k + 1
        BY <1>1, <1>2, <1>3
  <1>4. CASE p = k + 2
        BY <1>1, <1>2, <1>4
  <1>5. CASE p = k + 3
        <2>1. p - 1 = k + 2
              BY <1>1, <1>5
        <2> QED BY <1>1, <1>2, <1>5, <2>1
  <1>6. CASE p > k + 3
        <2> DEFINE i == p - (k + 3)
        <2>1. i \in 1..Len(w) /\ p = k + 3 + i /\ p + 1 = k + 3 + (i + 1) /\ p - 1 = k + 3 + (i - 1)
              BY <1>1, <1>6
        <2> HIDE DEF i
        <2>2. text[p] = w[i]
              BY <1>2, <2>1
        <2>3. i > 1 => text[p - 1] = w[i - 1]
              <3>1. i > 1 => i - 1 \in 1..Len(w)
                    BY <1>1, <2>1
              <3> QED BY <1>2, <2>1, <3>1
        <2>4. p < Len(text) => i \in 1..(Len(w) - 1) /\ text[p + 1] = w[i + 1]
              <3>1. p < Len(text) => i \in 1..(Len(w) - 1) /\ i + 1 \in 1..Len(w)
                    BY <1>1, <2>1
              <3> QED BY <1>2, <2>1, <3>1
        <2>5. w[i] # "newline" /\ (w[i] = "=" => i > 1 /\ w[i - 1] = "backslash")
              BY <2>1 DEF Carried
        <2>6. p < Len(text) => ~(w[i] = "|" /\ w[i + 1] = "CEF")
              BY <2>4 DEF Carried
        <2>7. p # k + 3
              BY <1>1, <1>6
        <2> QED BY <2>2, <2>3, <2>4, <2>5, <2>6, <2>7
  <1>7. p = k + 1 \/ p = k + 2 \/ p = k + 3 \/ p > k + 3
        BY <1>1
  <1> QED BY <1>3, <1>4, <1>5, <1>6, <1>7

LEMMA TwoBehaved ==
  ASSUME NEW text, NEW k \in Nat, NEW v, NEW a, NEW u, NEW b,
         Carried(v, a), Carried(u, b), TwoValues(text, k, a, b)
  PROVE  \A p \in (k + 1)..Len(text) :
            /\ text[p] # "newline"
            /\ text[p] = "=" /\ text[p - 1] # "backslash"
                 <=> p = k + 3 \/ p = k + Len(a) + 6
            /\ p < Len(text) => ~(text[p] = "|" /\ text[p + 1] = "CEF")
  <1> TAKE p \in (k + 1)..Len(text)
  <1> DEFINE n == Len(a)
             m == Len(b)
  <1>1. n \in Nat /\ m \in Nat /\ Len(text) = k + n + m + 6 /\ p \in Nat
        BY LenProperties DEF Carried, TwoValues
  <1>2. /\ text[k + 1] = "|" /\ text[k + 2] = "msg" /\ text[k + 3] = "="
        /\ \A i \in 1..n : text[k + 3 + i] = a[i]
        /\ text[k + n + 4] = "space" /\ text[k + n + 5] = "src" /\ text[k + n + 6] = "="
        /\ \A i \in 1..m : text[k + n + 6 + i] = b[i]
        BY DEF TwoValues
  <1>3. /\ \A i \in 1..n : a[i] # "newline" /\ (a[i] = "=" => i > 1 /\ a[i - 1] = "backslash")
        /\ \A i \in 1..(n - 1) : ~(a[i] = "|" /\ a[i + 1] = "CEF")
        /\ \A i \in 1..m : b[i] # "newline" /\ (b[i] = "=" => i > 1 /\ b[i - 1] = "backslash")
        /\ \A i \in 1..(m - 1) : ~(b[i] = "|" /\ b[i + 1] = "CEF")
        BY DEF Carried
  <1> HIDE DEF n, m
  <1>4. CASE p = k + 1
        BY <1>1, <1>2, <1>4
  <1>5. CASE p = k + 2
        BY <1>1, <1>2, <1>5
  <1>6. CASE p = k + 3
        <2>1. p - 1 = k + 2
              BY <1>1, <1>6
        <2> QED BY <1>1, <1>2, <1>6, <2>1
  <1>7. CASE p > k + 3 /\ p < k + n + 4
        <2> DEFINE i == p - (k + 3)
        <2>1. i \in 1..n /\ p = k + 3 + i /\ p + 1 = k + 3 + (i + 1) /\ p - 1 = k + 3 + (i - 1)
              BY <1>1, <1>7
        <2> HIDE DEF i
        <2>2. text[p] = a[i]
              BY <1>2, <2>1
        <2>3. i > 1 => text[p - 1] = a[i - 1]
              <3>1. i > 1 => i - 1 \in 1..n
                    BY <1>1, <2>1
              <3> QED BY <1>2, <2>1, <3>1
        <2>4. i < n => i \in 1..(n - 1) /\ text[p + 1] = a[i + 1]
              <3>1. i < n => i \in 1..(n - 1) /\ i + 1 \in 1..n
                    BY <1>1, <2>1
              <3> QED BY <1>2, <2>1, <3>1
        <2>5. ~(i < n) => text[p + 1] = "space"
              <3>1. ~(i < n) => p + 1 = k + n + 4
                    BY <1>1, <2>1
              <3> QED BY <1>2, <3>1
        <2>6. ~(text[p] = "|" /\ text[p + 1] = "CEF")
              BY <1>3, <2>2, <2>4, <2>5
        <2>7. p # k + 3 /\ p # k + n + 6
              BY <1>1, <1>7
        <2>8. text[p] # "newline" /\ (text[p] = "=" => text[p - 1] = "backslash")
              BY <1>3, <2>1, <2>2, <2>3
        <2> QED BY <2>6, <2>7, <2>8 DEF n
  <1>8. CASE p = k + n + 4
        <2>1. p # k + 3 /\ p # k + n + 6
              BY <1>1, <1>8
        <2> QED BY <1>2, <1>8, <2>1 DEF n
  <1>9. CASE p = k + n + 5
        <2>1. p # k + 3 /\ p # k + n + 6
              BY <1>1, <1>9
        <2> QED BY <1>2, <1>9, <2>1 DEF n
  <1>10. CASE p = k + n + 6
        <2>1. p - 1 = k + n + 5
              BY <1>1, <1>10
        <2> QED BY <1>2, <1>10, <2>1 DEF n
  <1>11. CASE p > k + n + 6
        <2> DEFINE i == p - (k + n + 6)
        <2>1. /\ i \in 1..m /\ p = k + n + 6 + i /\ p + 1 = k + n + 6 + (i + 1)
              /\ p - 1 = k + n + 6 + (i - 1)
              BY <1>1, <1>11
        <2> HIDE DEF i
        <2>2. text[p] = b[i]
              BY <1>2, <2>1
        <2>3. i > 1 => text[p - 1] = b[i - 1]
              <3>1. i > 1 => i - 1 \in 1..m
                    BY <1>1, <2>1
              <3> QED BY <1>2, <2>1, <3>1
        <2>4. p < Len(text) => i \in 1..(m - 1) /\ text[p + 1] = b[i + 1]
              <3>1. p < Len(text) => i \in 1..(m - 1) /\ i + 1 \in 1..m
                    BY <1>1, <2>1
              <3> QED BY <1>2, <2>1, <3>1
        <2>5. p < Len(text) => ~(text[p] = "|" /\ text[p + 1] = "CEF")
              BY <1>3, <2>2, <2>4
        <2>6. p # k + 3 /\ p # k + n + 6
              BY <1>1, <1>11
        <2>7. text[p] # "newline" /\ (text[p] = "=" => text[p - 1] = "backslash")
              BY <1>3, <2>1, <2>2, <2>3
        <2> QED BY <2>5, <2>6, <2>7 DEF n
  <1>12. \/ p = k + 1 \/ p = k + 2 \/ p = k + 3 \/ (p > k + 3 /\ p < k + n + 4)
         \/ p = k + n + 4 \/ p = k + n + 5 \/ p = k + n + 6 \/ p > k + n + 6
         BY <1>1
  <1> QED BY <1>4, <1>5, <1>6, <1>7, <1>8, <1>9, <1>10, <1>11, <1>12

LEMMA Behaved ==
  ASSUME NEW text, NEW k \in Nat, NEW x, NEW a, NEW b,
         Carried(x["msg"], a), Carried(x["src"], b), Values(text, k, x, a, b)
  PROVE  \A p \in (k + 1)..Len(text) :
            /\ text[p] # "newline"
            /\ p < Len(text) => ~(text[p] = "|" /\ text[p + 1] = "CEF")
  <1>1. CASE x["msg"] = <<>> /\ x["src"] = <<>>
        <2>1. Len(text) = k
              BY <1>1 DEF Values
        <2>2. (k + 1)..Len(text) = {}
              BY <2>1
        <2> QED BY <2>2
  <1>2. CASE x["msg"] = <<>> /\ x["src"] # <<>>
        <2>1. OneValue(text, k, "src", b)
              BY <1>2 DEF Values
        <2> QED BY <2>1, OneBehaved
  <1>3. CASE x["msg"] # <<>> /\ x["src"] = <<>>
        <2>1. OneValue(text, k, "msg", a)
              BY <1>3 DEF Values
        <2> QED BY <2>1, OneBehaved
  <1>4. CASE x["msg"] # <<>> /\ x["src"] # <<>>
        <2>1. TwoValues(text, k, a, b)
              BY <1>4 DEF Values
        <2> QED BY <2>1, TwoBehaved
  <1> QED BY <1>1, <1>2, <1>3, <1>4

LEMMA ThreeTokens ==
  ASSUME NEW S, NEW a \in S, NEW b \in S, NEW c \in S
  PROVE  <<a, b>> \o <<c>> = <<a, b, c>>
  <1> DEFINE l == <<a, b>> \o <<c>>
             r == <<a, b, c>>
  <1>1. l \in Seq(S) /\ Len(l) = 3 /\ l[1] = a /\ l[2] = b /\ l[3] = c
        OBVIOUS
  <1>2. r \in Seq(S) /\ Len(r) = 3 /\ r[1] = a /\ r[2] = b /\ r[3] = c
        OBVIOUS
  <1> HIDE DEF l, r
  <1>3. l = r
        BY <1>1, <1>2, SeqEqual
  <1> QED BY <1>3 DEF l, r

LEMMA FourTokens ==
  ASSUME NEW S, NEW a \in S, NEW b \in S, NEW c \in S, NEW d \in S
  PROVE  <<a>> \o <<b, c, d>> = <<a, b, c, d>>
  <1> DEFINE l == <<a>> \o <<b, c, d>>
             r == <<a, b, c, d>>
  <1>1. l \in Seq(S) /\ Len(l) = 4 /\ l[1] = a /\ l[2] = b /\ l[3] = c /\ l[4] = d
        OBVIOUS
  <1>2. r \in Seq(S) /\ Len(r) = 4 /\ r[1] = a /\ r[2] = b /\ r[3] = c /\ r[4] = d
        OBVIOUS
  <1> HIDE DEF l, r
  <1>3. l = r
        BY <1>1, <1>2, SeqEqual
  <1> QED BY <1>3 DEF l, r

LEMMA FirstToken ==
  ASSUME NEW S, NEW text \in Seq(S), Len(text) > 0
  PROVE  SubSeq(text, 1, 1) = <<text[1]>>
  <1> DEFINE l == SubSeq(text, 1, 1)
             r == <<text[1]>>
  <1>1. l \in Seq(S) /\ Len(l) = 1 /\ l[1] = text[1]
        OBVIOUS
  <1>2. r \in Seq(S) /\ Len(r) = 1 /\ r[1] = text[1]
        OBVIOUS
  <1> HIDE DEF l, r
  <1>3. l = r
        BY <1>1, <1>2, SeqEqual
  <1> QED BY <1>3 DEF l, r

\* What the receiver gets as the first line, of an event with plain values.
LineFront(event) ==
    <<IF event.time = NoTime THEN "now" ELSE event.time, "space", "host", "space", "CEF">>

LEMMA LineIs ==
  ASSUME NEW event \in EventType, NEW x, x = event.extension, NEW a, NEW b,
         a = FormatValue(x["msg"]), b = FormatValue(x["src"]),
         Carried(x["msg"], a), Carried(x["src"], b)
  PROVE  FirstLine(MessageText("host", event)) = LineFront(event) \o ExtensionText(x)
  <1> DEFINE ext == ExtensionText(x)
             msg == SyslogText(event)
  <1>1. x \in [ToSet(Keys) -> Seq(STRING)] /\ event.time \in {"time", "zero"}
        BY DEF EventType, NoTime
  <1>2. ext \in Seq(Token)
        <2>1. <<>> \in Seq(Token)
              BY EmptySeq
        <2> QED BY <1>1, <2>1, Behind
  <1>3. ASSUME NEW front \in Seq(Token), Len(front) > 0, front[Len(front)] = "CEF",
               \A i \in 1..Len(front) : front[i] # "newline", NEW text, text = front \o ext
        PROVE  /\ text \in Seq(Token) /\ Len(text) >= Len(front)
               /\ \A i \in 1..Len(front) : text[i] = front[i]
               /\ \A p \in 1..Len(text) : text[p] # "newline"
               /\ \A p \in Len(front)..(Len(text) - 1) : ~(text[p] = "|" /\ text[p + 1] = "CEF")
        <2> DEFINE k == Len(front)
        <2>1. /\ Values(text, k, x, a, b)
              /\ \A i \in 1..k : text[i] = front[i]
              BY <1>1, <1>3, Behind
        <2>2. text \in Seq(Token) /\ Len(text) \in Nat /\ k \in Nat /\ Len(text) >= k
              BY <1>2, <1>3
        <2> HIDE DEF k
        <2>3. \A p \in (k + 1)..Len(text) :
                 /\ text[p] # "newline"
                 /\ p < Len(text) => ~(text[p] = "|" /\ text[p + 1] = "CEF")
              BY <2>1, <2>2, Behaved
        <2>4. k > 0 /\ front[k] = "CEF" /\ \A i \in 1..k : front[i] # "newline"
              BY <1>3 DEF k
        <2>5. \A p \in 1..Len(text) : text[p] # "newline"
              <3> TAKE p \in 1..Len(text)
              <3>1. p \in 1..k \/ p \in (k + 1)..Len(text)
                    BY <2>2
              <3> QED BY <2>1, <2>3, <2>4, <3>1
        <2>6. \A p \in k..(Len(text) - 1) : ~(text[p] = "|" /\ text[p + 1] = "CEF")
              <3> TAKE p \in k..(Len(text) - 1)
              <3>1. k \in 1..k /\ (p = k \/ (p \in (k + 1)..Len(text) /\ p < Len(text)))
                    BY <2>2, <2>4
              <3> QED BY <2>1, <2>3, <2>4, <3>1
        <2> QED BY <2>1, <2>2, <2>5, <2>6 DEF k
  <1>4. ASSUME NEW s \in Seq(Token), Len(s) > 0, \A p \in 1..Len(s) : s[p] # "newline", msg = s
        PROVE  MessageText("host", event) = CEFSyslogFormatter("host", Append(s, "newline"))
        <2>1. Last(msg) # "newline"
              BY <1>4, LenProperties DEF Last
        <2> QED BY <1>4, <2>1 DEF MessageText
  <1> HIDE DEF ext
  <1>5. CASE event.time = NoTime
        <2> DEFINE text == <<"CEF">> \o ext
                   head == <<"now", "space", "host", "space">>
        <2>1. msg = text
              <3>1. <<>> \o <<"CEF">> = <<"CEF">>
                    OBVIOUS
              <3> QED BY <1>5, <3>1 DEF SyslogText, ext
        <2> DEFINE front == <<"CEF">>
        <2>2. /\ front \in Seq(Token) /\ Len(front) = 1 /\ front[1] = "CEF"
              BY Tokens
        <2>3. /\ text \in Seq(Token) /\ Len(text) >= 1 /\ text[1] = "CEF"
              /\ \A p \in 1..Len(text) : text[p] # "newline"
              /\ \A p \in 1..(Len(text) - 1) : ~(text[p] = "|" /\ text[p + 1] = "CEF")
              <3>1. text = front \o ext
                    OBVIOUS
              <3> HIDE DEF front, text
              <3>2. \A i \in 1..Len(front) : front[i] # "newline"
                    BY <2>2
              <3>3. Len(front) > 0 /\ front[Len(front)] = "CEF"
                    BY <2>2
              <3>4. /\ text \in Seq(Token) /\ Len(text) >= Len(front)
                    /\ \A i \in 1..Len(front) : text[i] = front[i]
                    /\ \A p \in 1..Len(text) : text[p] # "newline"
                    /\ \A p \in Len(front)..(Len(text) - 1) :
                          ~(text[p] = "|" /\ text[p + 1] = "CEF")
                    BY <1>3, <2>2, <3>1, <3>2, <3>3
              <3> QED BY <2>2, <3>4
        <2> HIDE DEF text
        <2>4. MessageText("host", event) = CEFSyslogFormatter("host", Append(text, "newline"))
              BY <1>4, <2>1, <2>3
        <2>5. FirstLine(Append(text, "newline")) = text /\ Bars(text) = {}
              BY <2>3, FirstLineIs DEF Bars
        <2>6. MessageText("host", event) = head \o Append(text, "newline")
              BY <2>4, <2>5 DEF CEFSyslogFormatter
        <2>7. /\ head \in Seq(Token) /\ "newline" \in Token /\ Len(head) = 4
              /\ \A p \in 1..4 : head[p] # "newline"
              BY Tokens
        <2>8. LineFront(event) = head \o <<"CEF">>
              BY <1>5 DEF LineFront
        <2> HIDE DEF head
        <2>9. head \o Append(text, "newline") = Append(head \o text, "newline")
              <3>1. /\ Append(text, "newline") = text \o <<"newline">>
                    /\ Append(head \o text, "newline") = (head \o text) \o <<"newline">>
                    BY <2>3, <2>7, AppendIsConcat, ConcatProperties
              <3>2. <<"newline">> \in Seq(Token)
                    BY <2>7
              <3> QED BY <2>3, <2>7, <3>1, <3>2, ConcatAssociative, SMTT(60)
        <2>10. head \o text \in Seq(Token) /\ \A p \in 1..Len(head \o text) : (head \o text)[p] # "newline"
              <3> DEFINE whole == head \o text
              <3>1. /\ whole \in Seq(Token) /\ Len(whole) = 4 + Len(text) /\ Len(text) \in Nat
                    /\ \A p \in 1..(4 + Len(text)) :
                          whole[p] = IF p <= 4 THEN head[p] ELSE text[p - 4]
                    <4>1. head \in Seq(Token) /\ text \in Seq(Token) /\ Len(text) \in Nat
                          BY <2>3, <2>7, LenProperties
                    <4>2. /\ whole \in Seq(Token) /\ Len(whole) = Len(head) + Len(text)
                          /\ \A p \in 1..(Len(head) + Len(text)) :
                                whole[p] = IF p <= Len(head) THEN head[p] ELSE text[p - Len(head)]
                          BY <4>1, ConcatProperties
                    <4> HIDE DEF whole
                    <4> QED BY <2>7, <4>1, <4>2
              <3> HIDE DEF whole
              <3>2. \A p \in 1..Len(whole) : whole[p] # "newline"
                    <4> TAKE p \in 1..Len(whole)
                    <4>1. p \in 1..4 \/ (~(p <= 4) /\ p - 4 \in 1..Len(text))
                          BY <3>1
                    <4> QED BY <2>3, <2>7, <3>1, <4>1
              <3> QED BY <3>1, <3>2 DEF whole
        <2>11. FirstLine(MessageText("host", event)) = head \o text
              BY <2>6, <2>9, <2>10, FirstLineIs
        <2>12. head \o text = (head \o <<"CEF">>) \o ext
              BY <1>2, <2>2, <2>7, ConcatAssociative DEF text
        <2> QED BY <2>8, <2>11, <2>12 DEF ext
  <1>6. CASE event.time # NoTime
        <2> DEFINE front == <<"time", "|", "CEF">>
                   text  == front \o ext
                   line  == LineFront(event) \o ext
        <2>1. event.time = "time"
              BY <1>1, <1>6 DEF NoTime
        <2>2. msg = text
              <3>1. <<"time", "|">> \o <<"CEF">> = front
                    BY Tokens, ThreeTokens
              <3> QED BY <1>6, <2>1, <3>1 DEF SyslogText, ext
        <2>3. /\ front \in Seq(Token) /\ Len(front) = 3
              /\ front[1] = "time" /\ front[2] = "|" /\ front[3] = "CEF"
              BY Tokens
        <2> HIDE DEF front
        <2>4. /\ text \in Seq(Token) /\ Len(text) >= 3 /\ \A i \in 1..3 : text[i] = front[i]
              /\ \A p \in 1..Len(text) : text[p] # "newline"
              /\ \A p \in 3..(Len(text) - 1) : ~(text[p] = "|" /\ text[p + 1] = "CEF")
              <3>1. \A i \in 1..Len(front) : front[i] # "newline"
                    BY <2>3
              <3>2. Len(front) > 0 /\ front[Len(front)] = "CEF"
                    BY <2>3
              <3> HIDE DEF text
              <3>3. text = front \o ext
                    BY DEF text
              <3>4. /\ text \in Seq(Token) /\ Len(text) >= Len(front)
                    /\ \A i \in 1..Len(front) : text[i] = front[i]
                    /\ \A p \in 1..Len(text) : text[p] # "newline"
                    /\ \A p \in Len(front)..(Len(text) - 1) :
                          ~(text[p] = "|" /\ text[p + 1] = "CEF")
                    BY <1>3, <2>3, <3>1, <3>2, <3>3
              <3> QED BY <2>3, <3>4
        <2>5. /\ text = front \o ext /\ Len(text) \in Nat
              BY <2>4
        <2> HIDE DEF text
        <2>6. MessageText("host", event) = CEFSyslogFormatter("host", Append(text, "newline"))
              BY <1>4, <2>2, <2>4
        <2>7. FirstLine(Append(text, "newline")) = text
              BY <2>4, FirstLineIs
        <2>8. Bars(text) = {2}
              <3>1. text[1] = "time" /\ text[2] = "|" /\ text[3] = "CEF"
                    BY <2>3, <2>4
              <3>2. 2 \in Bars(text)
                    BY <2>4, <2>5, <3>1 DEF Bars
              <3>3. ASSUME NEW p \in Bars(text)
                    PROVE  p = 2
                    <4>1. p \in 1..(Len(text) - 1) /\ text[p] = "|" /\ text[p + 1] = "CEF"
                          BY DEF Bars
                    <4>2. p # 1
                          BY <3>1, <4>1
                    <4>3. ~(p \in 3..(Len(text) - 1))
                          BY <2>4, <4>1
                    <4> QED BY <2>5, <4>1, <4>2, <4>3
              <3> QED BY <3>2, <3>3
        <2>9. Max({2}) = 2
              BY DEF Max
        <2>10. MessageText("host", event)
                 = SubSeq(text, 1, 1) \o <<"space", "host", "space">> \o SubSeq(text, 3, Len(text))
              <3>1. Bars(text) # {} /\ Max(Bars(text)) - 1 = 1 /\ Max(Bars(text)) + 1 = 3
                    BY <2>8, <2>9
              <3> QED BY <2>6, <2>7, <3>1 DEF CEFSyslogFormatter
        <2>11. SubSeq(text, 1, 1) = <<"time">>
              <3>1. SubSeq(text, 1, 1) = <<text[1]>>
                    <4>1. text \in Seq(Token) /\ Len(text) > 0
                          BY <2>4, <2>5
                    <4> QED BY <4>1, FirstToken
              <3> QED BY <2>3, <2>4, <3>1
        <2>12. SubSeq(text, 3, Len(text)) = <<"CEF">> \o ext
              <3> DEFINE back == SubSeq(text, 3, Len(text))
                         rest == <<"CEF">> \o ext
              <3>1. /\ back \in Seq(Token) /\ Len(back) = Len(text) - 2
                    /\ \A i \in 1..(Len(text) - 2) : back[i] = text[i + 2]
                    BY <2>4
              <3>2. /\ rest \in Seq(Token) /\ Len(rest) = Len(ext) + 1 /\ Len(ext) \in Nat
                    /\ rest[1] = "CEF" /\ \A i \in 1..Len(ext) : rest[1 + i] = ext[i]
                    BY <1>2, Tokens
              <3>3. /\ Len(text) = 3 + Len(ext)
                    /\ text[3] = "CEF" /\ \A i \in 1..Len(ext) : text[3 + i] = ext[i]
                    <4>1. front \in Seq(Token) /\ ext \in Seq(Token)
                          BY <1>2, <2>3
                    <4>6. /\ Len(text) = Len(front) + Len(ext)
                          /\ \A i \in 1..(Len(front) + Len(ext)) :
                                text[i] = IF i <= Len(front) THEN front[i] ELSE ext[i - Len(front)]
                          BY <2>5, <4>1, ConcatProperties
                    <4>2. /\ Len(text) = 3 + Len(ext)
                          /\ \A i \in 1..(3 + Len(ext)) :
                                text[i] = IF i <= 3 THEN front[i] ELSE ext[i - 3]
                          BY <2>3, <4>6
                    <4>3. Len(ext) \in Nat
                          BY <1>2, LenProperties
                    <4>4. text[3] = "CEF"
                          BY <2>3, <2>4
                    <4>5. \A i \in 1..Len(ext) : text[3 + i] = ext[i]
                          BY <4>2, <4>3
                    <4> QED BY <4>2, <4>4, <4>5
              <3> HIDE DEF back, rest
              <3>4. ASSUME NEW i \in 1..Len(back)
                    PROVE  back[i] = rest[i]
                    <4>1. CASE i = 1
                          BY <3>1, <3>2, <3>3, <4>1
                    <4>2. CASE i # 1
                          <5>1. /\ i - 1 \in 1..Len(ext) /\ i = 1 + (i - 1) /\ i + 2 = 3 + (i - 1)
                                /\ i \in 1..(Len(text) - 2)
                                BY <3>1, <3>2, <3>3, <4>2
                          <5> QED BY <3>1, <3>2, <3>3, <5>1
                    <4> QED BY <4>1, <4>2
              <3>5. Len(back) = Len(rest)
                    BY <3>1, <3>2, <3>3
              <3>6. back = rest
                    BY <3>1, <3>2, <3>4, <3>5, SeqEqual
              <3> QED BY <3>6 DEF back, rest
        <2>13. MessageText("host", event) = line
              <3>1. <<"time">> \o <<"space", "host", "space">> = <<"time", "space", "host", "space">>
                    BY Tokens, FourTokens
              <3>2. LineFront(event) = <<"time", "space", "host", "space">> \o <<"CEF">>
                    BY <1>6, <2>1 DEF LineFront
              <3>3. <<"time", "space", "host", "space">> \in Seq(Token) /\ <<"CEF">> \in Seq(Token)
                    BY Tokens
              <3> DEFINE head == <<"time", "space", "host", "space">>
                         cef  == <<"CEF">>
              <3>4. MessageText("host", event) = head \o (cef \o ext)
                    BY <2>10, <2>11, <2>12, <3>1
              <3>5. line = (head \o cef) \o ext
                    BY <3>2
              <3> HIDE DEF head, cef, line
              <3>6. head \in Seq(Token) /\ cef \in Seq(Token)
                    BY <3>3 DEF head, cef
              <3>7. head \o (cef \o ext) = (head \o cef) \o ext
                    <4>1. ext \in Seq(Token)
                          BY <1>2
                    <4> QED BY <3>6, <4>1, ConcatAssociative
              <3> QED BY <3>4, <3>5, <3>7
        <2>14. line \in Seq(Token) /\ \A p \in 1..Len(line) : line[p] # "newline"
              <3>1. /\ LineFront(event) \in Seq(Token) /\ Len(LineFront(event)) = 5
                    /\ LineFront(event)[5] = "CEF" /\ \A i \in 1..5 : LineFront(event)[i] # "newline"
                    BY <1>6, <2>1, Tokens DEF LineFront
              <3> DEFINE f == LineFront(event)
              <3>2. /\ f \in Seq(Token) /\ Len(f) > 0 /\ f[Len(f)] = "CEF"
                    /\ \A i \in 1..Len(f) : f[i] # "newline"
                    BY <3>1
              <3> HIDE DEF f
              <3>3. line = f \o ext
                    BY DEF f, line
              <3> HIDE DEF line
              <3> QED BY <1>3, <3>2, <3>3
        <2> HIDE DEF line
        <2>15. FirstLine(line) = line
              BY <2>14, FirstLineIs
        <2> QED BY <2>13, <2>15 DEF line, ext
  <1> QED BY <1>5, <1>6

LEMMA SubSeqIs ==
  ASSUME NEW S, NEW text \in Seq(S), NEW w \in Seq(S), NEW j \in Nat,
         j + Len(w) <= Len(text), \A i \in 1..Len(w) : text[j + i] = w[i]
  PROVE  SubSeq(text, j + 1, j + Len(w)) = w
  <1> DEFINE part == SubSeq(text, j + 1, j + Len(w))
  <1>1. Len(text) \in Nat /\ Len(w) \in Nat
        BY LenProperties
  <1>2. /\ part \in Seq(S) /\ Len(part) = Len(w)
        /\ \A i \in 1..Len(w) : part[i] = text[j + i]
        BY <1>1
  <1> HIDE DEF part
  <1>3. part = w
        BY <1>2, SeqEqual
  <1> QED BY <1>3 DEF part

LEMMA Singleton ==
  ASSUME NEW n \in Nat
  PROVE  Min({n}) = n
  BY DEF Min

\* The receiver finds the value of a single key, and of both.
LEMMA OneRead ==
  ASSUME NEW line, NEW k \in Nat, k > 0, NEW key \in {"msg", "src"}, NEW v, NEW w,
         Carried(v, w), OneValue(line, k, key, w), \A p \in 1..k : line[p] # "="
  PROVE  /\ Signs(line) = {k + 3} /\ line[k + 3 - 1] = key
         /\ ValueAt(line, k + 3) = v
  <1>1. /\ line \in Seq(Token) /\ w \in Seq(Token) /\ Len(w) \in Nat
        /\ Len(line) = k + Len(w) + 3 /\ DOMAIN line = 1..Len(line)
        BY LenProperties DEF Carried, OneValue
  <1>2. Signs(line) = {k + 3}
        <2>1. \A p \in (k + 1)..Len(line) :
                 line[p] = "=" /\ line[p - 1] # "backslash" <=> p = k + 3
              BY OneBehaved
        <2>2. k + 3 \in (k + 1)..Len(line) /\ k + 3 \in DOMAIN line
              BY <1>1
        <2>3. \A p \in DOMAIN line : p \in 1..k \/ p \in (k + 1)..Len(line)
              BY <1>1
        <2> QED BY <2>1, <2>2, <2>3 DEF Signs
  <1>3. line[k + 3 - 1] = key
        <2>1. k + 3 - 1 = k + 2
              OBVIOUS
        <2> QED BY <2>1 DEF OneValue
  <1>4. {p \in Signs(line) : p > k + 3} = {}
        BY <1>2
  <1>5. SubSeq(line, k + 3 + 1, Len(line)) = w
        <2> DEFINE j == k + 3
        <2>1. j + Len(w) = Len(line) /\ j + Len(w) <= Len(line) /\ j \in Nat
              BY <1>1
        <2>2. \A i \in 1..Len(w) : line[j + i] = w[i]
              BY DEF OneValue
        <2> HIDE DEF j
        <2>3. SubSeq(line, j + 1, j + Len(w)) = w
              BY <1>1, <2>1, <2>2, SubSeqIs
        <2> QED BY <2>1, <2>3 DEF j
  <1>6. ValueAt(line, k + 3) = Unescape(w)
        BY <1>4, <1>5 DEF ValueAt
  <1> QED BY <1>2, <1>3, <1>6 DEF Carried

LEMMA TwoRead ==
  ASSUME NEW line, NEW k \in Nat, k > 0, NEW v, NEW a, NEW u, NEW b,
         Carried(v, a), Carried(u, b), TwoValues(line, k, a, b),
         \A p \in 1..k : line[p] # "="
  PROVE  /\ Signs(line) = {k + 3, k + Len(a) + 6} /\ Len(a) \in Nat
         /\ line[k + 3 - 1] = "msg" /\ line[k + Len(a) + 6 - 1] = "src"
         /\ ValueAt(line, k + 3) = v /\ ValueAt(line, k + Len(a) + 6) = u
  <1> DEFINE s == k + 3
             t == k + Len(a) + 6
  <1>1. /\ line \in Seq(Token) /\ a \in Seq(Token) /\ b \in Seq(Token)
        /\ Len(a) \in Nat /\ Len(b) \in Nat /\ DOMAIN line = 1..Len(line)
        /\ Len(line) = k + Len(a) + Len(b) + 6
        BY LenProperties DEF Carried, TwoValues
  <1>2. s \in Nat /\ t \in Nat /\ t > s
        BY <1>1
  <1>3. Signs(line) = {s, t}
        <2>1. \A p \in (k + 1)..Len(line) :
                 line[p] = "=" /\ line[p - 1] # "backslash" <=> p = s \/ p = t
              BY TwoBehaved
        <2>2. /\ s \in (k + 1)..Len(line) /\ s \in DOMAIN line
              /\ t \in (k + 1)..Len(line) /\ t \in DOMAIN line
              BY <1>1
        <2>3. \A p \in DOMAIN line : p \in 1..k \/ p \in (k + 1)..Len(line)
              BY <1>1
        <2> HIDE DEF s, t
        <2> QED BY <2>1, <2>2, <2>3 DEF Signs
  <1>4. line[s - 1] = "msg" /\ line[t - 1] = "src"
        <2>1. s - 1 = k + 2 /\ t - 1 = k + Len(a) + 5
              BY <1>1
        <2> HIDE DEF s, t
        <2> QED BY <2>1 DEF TwoValues
  <1>5. ValueAt(line, s) = v
        <2>1. k + 3 + Len(a) = t - 3 /\ k + 3 + Len(a) <= Len(line)
              BY <1>1
        <2>2. \A i \in 1..Len(a) : line[k + 3 + i] = a[i]
              BY DEF TwoValues
        <2>3. SubSeq(line, s + 1, s + Len(a)) = a
              BY <1>1, <1>2, <2>1, <2>2, SubSeqIs
        <2>4. s + Len(a) = t - 3
              BY <2>1
        <2> HIDE DEF s, t
        <2>5. {p \in Signs(line) : p > s} = {t}
              BY <1>2, <1>3
        <2>6. ValueAt(line, s) = Unescape(SubSeq(line, s + 1, t - 3))
              BY <1>2, <2>5, Singleton DEF ValueAt
        <2> QED BY <2>3, <2>4, <2>6 DEF Carried
  <1>6. ValueAt(line, t) = u
        <2>1. t + Len(b) = Len(line)
              BY <1>1
        <2>2. \A i \in 1..Len(b) : line[k + Len(a) + 6 + i] = b[i]
              BY DEF TwoValues
        <2>3. \A i \in 1..Len(b) : line[t + i] = b[i]
              BY <2>2
        <2> HIDE DEF s, t
        <2>4. SubSeq(line, t + 1, t + Len(b)) = b
              BY <1>1, <1>2, <2>1, <2>3, SubSeqIs
        <2>5. {p \in Signs(line) : p > t} = {}
              BY <1>2, <1>3
        <2>6. ValueAt(line, t) = Unescape(SubSeq(line, t + 1, Len(line)))
              BY <2>5 DEF ValueAt
        <2> QED BY <2>1, <2>4, <2>6 DEF Carried
  <1> QED BY <1>1, <1>3, <1>4, <1>5, <1>6

LEMMA ReadsEvent ==
  ASSUME NEW event \in EventType, \A key \in ToSet(Keys) : Plain(event.extension[key])
  PROVE  ReadBack(MessageText("host", event)) = Stamped(event)
  <1> DEFINE x == event.extension
             a == FormatValue(x["msg"])
             b == FormatValue(x["src"])
             line == LineFront(event) \o ExtensionText(x)
             at(key) == {p \in Signs(line) : line[p - 1] = key}
             value(key) == IF at(key) = {} THEN <<>> ELSE ValueAt(line, Min(at(key)))
  <1>1. ToSet(Keys) = {"src", "msg"}
        BY DEF ToSet, Keys
  <1>2. /\ x \in [ToSet(Keys) -> Seq(STRING)] /\ event.time \in {"time", "zero"}
        /\ event = [time |-> event.time, extension |-> x]
        BY DEF EventType, NoTime
  <1> HIDE DEF x
  <1>3. Carried(x["msg"], a) /\ Carried(x["src"], b)
        BY <1>1, <1>2, PlainCarried DEF x
  <1> HIDE DEF a, b
  <1>4. FirstLine(MessageText("host", event)) = line
        BY <1>2, <1>3, LineIs DEF x, a, b
  <1>5. ReadBack(MessageText("host", event))
          = [time |-> line[1], extension |-> [key \in ToSet(Keys) |-> value(key)]]
        BY <1>4 DEF ReadBack
  <1>6. /\ LineFront(event) \in Seq(Token) /\ Len(LineFront(event)) = 5
        /\ \A i \in 1..5 : LineFront(event)[i] # "="
        /\ LineFront(event)[1] = IF event.time = NoTime THEN "now" ELSE event.time
        BY <1>2, Tokens DEF LineFront
  <1>7. /\ Values(line, 5, x, a, b) /\ \A i \in 1..5 : line[i] = LineFront(event)[i]
        BY <1>2, <1>3, <1>6, Behind DEF a, b
  <1> HIDE DEF line
  <1>8. line[1] = IF event.time = NoTime THEN "now" ELSE event.time
        BY <1>6, <1>7
  <1>9. \A p \in 1..5 : line[p] # "="
        BY <1>6, <1>7
  <1>10. value("msg") = x["msg"] /\ value("src") = x["src"]
        <2>1. CASE x["msg"] = <<>> /\ x["src"] = <<>>
              <3>1. line \in Seq(Token) /\ Len(line) = 5
                    BY <1>7, <2>1 DEF Values
              <3>2. Signs(line) = {}
                    BY <1>9, <3>1 DEF Signs
              <3> QED BY <2>1, <3>2
        <2>2. ASSUME NEW key \in {"msg", "src"}, NEW other \in {"msg", "src"}, other # key,
                     NEW w, OneValue(line, 5, key, w), Carried(x[key], w), x[other] = <<>>
              PROVE  value(key) = x[key] /\ value(other) = x[other]
              <3>1. /\ Signs(line) = {8} /\ line[8 - 1] = key /\ ValueAt(line, 8) = x[key]
                    <4> DEFINE k == 5
                    <4>1. k \in Nat /\ k > 0 /\ OneValue(line, k, key, w) /\ k = 5
                          /\ \A p \in 1..k : line[p] # "="
                          BY <1>9, <2>2
                    <4> HIDE DEF k
                    <4>2. /\ Signs(line) = {k + 3} /\ line[k + 3 - 1] = key
                          /\ ValueAt(line, k + 3) = x[key]
                          BY <2>2, <4>1, OneRead, ZenonT(60)
                    <4> QED BY <4>1, <4>2
              <3>2. at(key) = {8} /\ at(other) = {}
                    BY <2>2, <3>1
              <3>3. Min({8}) = 8
                    BY Singleton
              <3> HIDE DEF at
              <3> QED BY <2>2, <3>1, <3>2, <3>3
        <2>3. CASE x["msg"] = <<>> /\ x["src"] # <<>>
              <3>1. OneValue(line, 5, "src", b)
                    BY <1>7, <2>3 DEF Values
              <3> QED BY <1>3, <2>2, <2>3, <3>1
        <2>4. CASE x["msg"] # <<>> /\ x["src"] = <<>>
              <3>1. OneValue(line, 5, "msg", a)
                    BY <1>7, <2>4 DEF Values
              <3> QED BY <1>3, <2>2, <2>4, <3>1
        <2>5. CASE x["msg"] # <<>> /\ x["src"] # <<>>
              <3> DEFINE t == 5 + Len(a) + 6
              <3>1. TwoValues(line, 5, a, b)
                    BY <1>7, <2>5 DEF Values
              <3>2. /\ Signs(line) = {8, t} /\ t \in Nat /\ line[8 - 1] = "msg"
                    /\ line[t - 1] = "src"
                    /\ ValueAt(line, 8) = x["msg"] /\ ValueAt(line, t) = x["src"]
                    <4>1. /\ Signs(line) = {5 + 3, t} /\ Len(a) \in Nat /\ line[5 + 3 - 1] = "msg"
                          /\ line[t - 1] = "src"
                          /\ ValueAt(line, 5 + 3) = x["msg"] /\ ValueAt(line, t) = x["src"]
                          BY <1>3, <1>9, <3>1, TwoRead, SMTT(60)
                    <4> QED BY <4>1
              <3> HIDE DEF t
              <3>3. at("msg") = {8} /\ at("src") = {t}
                    BY <3>2
              <3>4. Min({8}) = 8 /\ Min({t}) = t
                    BY <3>2, Singleton
              <3> HIDE DEF at
              <3> QED BY <3>2, <3>3, <3>4
        <2> QED BY <2>1, <2>3, <2>4, <2>5
  <1> HIDE DEF value
  <1>11. [key \in ToSet(Keys) |-> value(key)] = x
        BY <1>1, <1>2, <1>10
  <1>12. Stamped(event)
           = [time |-> IF event.time = NoTime THEN "now" ELSE event.time, extension |-> x]
        BY <1>2 DEF Stamped, NoTime
  <1> QED BY <1>5, <1>8, <1>11, <1>12

\* What the server reads is what was sent: of a whole message, and with values
\* that the code can carry, it reads the time and every value of the event that
\* SendEvent was called with, through sorting, escaping, trimming and the formatter
\* that moves the time stamp.
THEOREM ReadsBack == Spec => []Intact
  <1>1. TypeOK => Intact
        <2> SUFFICES ASSUME TypeOK, NEW m \in ToSet(arrived), m.whole,
                            \A key \in ToSet(Keys) : Plain(events[m.call].extension[key])
                     PROVE  ReadBack(Text(m)) = Stamped(events[m.call])
            BY DEF Intact
        <2>1. m \in Sent
              BY DEF TypeOK, ToSet
        <2>2. m.call \in 1..calls
              BY <2>1 DEF Sent
        <2>3. events \in Seq(EventType) /\ calls \in 0..Len(events)
              BY SyslogWriterAssumption DEF TypeOK
        <2>4. events[m.call] \in EventType
              BY <2>2, <2>3
        <2> QED BY <2>4, ReadsEvent DEF Text
  <1> QED BY <1>1, TypeCorrect, PTL
=============================================================================
