--------------------------- MODULE CefRecordProofs ---------------------------
(* Theorems about CefRecord, for every set of logs: any number of records    *)
(* before, in and behind the page, and any flows and tuples in a record.     *)
EXTENDS FileTask, SequenceTheorems, FunctionTheorems, FiniteSetTheorems, TLAPS

-----------------------------------------------------------------------------
(* The text of a blob.                                                       *)

\* The field of a record, of the two, that is its time.
TimeField(kind) == IF kind = "nsg" THEN 1 ELSE 2

Tokens == [token : {"begin", "next", "end", "time", "operation"}, of : Nat]

LEMMA TextFacts ==
  ASSUME NEW kind \in Kinds, NEW n \in Nat \ {0}
  PROVE  LET text == Text(kind, n) IN
         /\ text \in Seq(Tokens) /\ Len(text) = 3 * n + 1
         /\ \A p \in 1..(3 * n + 1) :
               /\ IsTime(text[p]) <=> (p - 1) % 3 = TimeField(kind)
               /\ text[p].token = "operation" <=> (p - 1) % 3 = 3 - TimeField(kind)
               /\ text[p].token = "end" <=> p = 3 * n + 1
               /\ (p - 1) % 3 # 0 => text[p].of = (p - 1) \div 3 + 1
  <1> DEFINE text == Text(kind, n)
  <1>1. ContentLength(n) = 3 * n + 1 /\ 3 * n + 1 \in Nat
        BY DEF ContentLength, Width
  <1>2. ASSUME NEW p \in 1..(3 * n + 1)
        PROVE  text[p] = IF (p - 1) % 3 > 0
                           THEN [token |-> Fields(kind)[(p - 1) % 3], of |-> (p - 1) \div 3 + 1]
                           ELSE Separator(IF p = 1 THEN "begin"
                                          ELSE IF p = 3 * n + 1 THEN "end" ELSE "next")
        BY <1>1 DEF Text, Width
  <1>3. text = [p \in 1..(3 * n + 1) |-> text[p]]
        BY <1>1 DEF Text
  <1> HIDE DEF text
  <1>4. /\ Fields(kind)[TimeField(kind)] = "time"
        /\ Fields(kind)[3 - TimeField(kind)] = "operation"
        /\ TimeField(kind) \in {1, 2}
        BY DEF Fields, TimeField
  <1>5. ASSUME NEW p \in 1..(3 * n + 1)
        PROVE  /\ text[p] \in Tokens
               /\ IsTime(text[p]) <=> (p - 1) % 3 = TimeField(kind)
               /\ text[p].token = "operation" <=> (p - 1) % 3 = 3 - TimeField(kind)
               /\ text[p].token = "end" <=> p = 3 * n + 1
               /\ (p - 1) % 3 # 0 => text[p].of = (p - 1) \div 3 + 1
        <2> DEFINE field == (p - 1) % 3
                   r == (p - 1) \div 3 + 1
                   mark == IF p = 1 THEN "begin" ELSE IF p = 3 * n + 1 THEN "end" ELSE "next"
        <2>1. field \in 0..2 /\ r \in Nat
              OBVIOUS
        <2>2. p = 3 * n + 1 => field = 0
              OBVIOUS
        <2>3. text[p] = IF field > 0 THEN [token |-> Fields(kind)[field], of |-> r]
                                     ELSE Separator(mark)
              BY <1>2
        <2>4. /\ mark \in {"begin", "next", "end"}
              /\ mark = "end" <=> p = 3 * n + 1
              OBVIOUS
        <2> HIDE DEF field, r, mark
        <2>5. CASE field = 0
              <3>1. text[p] = [token |-> mark, of |-> 0]
                    BY <2>3, <2>5 DEF Separator
              <3>2. text[p].token = mark /\ text[p] \in Tokens
                    BY <2>4, <3>1 DEF Tokens
              <3>3. /\ IsTime(text[p]) <=> field = TimeField(kind)
                    /\ text[p].token = "operation" <=> field = 3 - TimeField(kind)
                    /\ text[p].token = "end" <=> p = 3 * n + 1
                    BY <1>4, <2>4, <2>5, <3>2 DEF IsTime
              <3> QED BY <2>5, <3>2, <3>3 DEF field, r
        <2>6. CASE field # 0
              <3>1. field \in {1, 2} /\ field > 0
                    BY <2>1, <2>6
              <3>2. text[p] = [token |-> Fields(kind)[field], of |-> r]
                    BY <2>3, <3>1
              <3>3. Fields(kind)[field] = IF field = TimeField(kind) THEN "time" ELSE "operation"
                    BY <1>4, <3>1
              <3>4. field = 3 - TimeField(kind) <=> field # TimeField(kind)
                    BY <1>4, <3>1
              <3>5. /\ text[p].of = r
                    /\ text[p].token = IF field = TimeField(kind) THEN "time" ELSE "operation"
                    BY <3>2, <3>3
              <3>6. text[p] \in Tokens
                    BY <2>1, <3>2, <3>3 DEF Tokens
              <3>7. /\ IsTime(text[p]) <=> field = TimeField(kind)
                    /\ text[p].token = "operation" <=> field = 3 - TimeField(kind)
                    /\ text[p].token = "end" <=> p = 3 * n + 1
                    BY <2>2, <2>6, <3>4, <3>5 DEF IsTime
              <3> QED BY <3>5, <3>6, <3>7 DEF field, r
        <2> QED BY <2>5, <2>6
  <1>6. text \in Seq(Tokens) /\ Len(text) = 3 * n + 1
        <2> DEFINE m == 3 * n + 1
        <2> HIDE DEF m
        <2>1. m \in Nat /\ text = [p \in 1..m |-> text[p]] /\ \A p \in 1..m : text[p] \in Tokens
              BY <1>1, <1>3, <1>5 DEF m
        <2> QED BY <2>1 DEF m
  <1> QED BY <1>5, <1>6 DEF text

-----------------------------------------------------------------------------
(* What arrives of it, and what is given to the parser.                      *)

Total == log.before + Len(log.records) + log.later
BlobText == Text(log.kind, Total)
Skipped == ContentLength(log.before)

LEMMA LogFacts ==
  ASSUME log \in Logs
  PROVE  /\ log.kind \in Kinds /\ log.records \in Seq(RecordsOf(log.kind))
         /\ log.before \in Nat /\ log.later \in Nat /\ log.lost \in Nat
         /\ Len(log.records) \in Nat \ {0} /\ Total \in Nat \ {0}
         /\ Skipped \in Nat /\ Skipped = IF log.before = 0 THEN 0 ELSE 3 * log.before + 1
  <1>1. /\ log.kind \in Kinds /\ log.records \in Seq(RecordsOf(log.kind))
        /\ log.records # <<>>
        /\ log.before \in Nat /\ log.later \in Nat /\ log.lost \in Nat
        BY CefRecordAssumption
  <1>2. Len(log.records) \in Nat \ {0}
        BY <1>1, EmptySeq
  <1>3. Total \in Nat \ {0}
        BY <1>1, <1>2 DEF Total
  <1>4. Skipped = IF log.before = 0 THEN 0 ELSE 3 * log.before + 1
        BY <1>1 DEF Skipped, ContentLength, Width
  <1>5. Skipped \in Nat
        BY <1>1, <1>4
  <1> QED BY <1>1, <1>2, <1>3, <1>4, <1>5

LEMMA SubSeqFacts ==
  ASSUME NEW S, NEW s \in Seq(S), NEW m \in Nat \ {0}, NEW n \in Int, n <= Len(s)
  PROVE  /\ SubSeq(s, m, n) \in Seq(S)
         /\ Len(SubSeq(s, m, n)) = IF m <= n THEN n - m + 1 ELSE 0
         /\ \A i \in 1..(n - m + 1) : SubSeq(s, m, n)[i] = s[m + i - 1]
  <1>1. Len(s) \in Nat /\ \A i \in 1..Len(s) : s[i] \in S
        BY ElementOfSeq
  <1>2. \A i \in m..n : s[i] \in S
        BY <1>1
  <1>3. m \in Int
        OBVIOUS
  <1> QED BY <1>2, <1>3, SubSeqProperties

LEMMA BlobTextFacts ==
  ASSUME log \in Logs
  PROVE  /\ BlobText \in Seq(Tokens) /\ Len(BlobText) = 3 * Total + 1
         /\ \A p \in 1..(3 * Total + 1) :
               /\ IsTime(BlobText[p]) <=> (p - 1) % 3 = TimeField(log.kind)
               /\ BlobText[p].token = "operation" <=> (p - 1) % 3 = 3 - TimeField(log.kind)
               /\ BlobText[p].token = "end" <=> p = 3 * Total + 1
               /\ (p - 1) % 3 # 0 => BlobText[p].of = (p - 1) \div 3 + 1
  <1>1. log.kind \in Kinds /\ Total \in Nat \ {0}
        BY LogFacts
  <1> QED BY <1>1, TextFacts DEF BlobText

\* The part of the text that arrives begins behind the checkpoint, and reaches
\* to the end of the blob just when nobody has appended to it and nothing is lost.
LEMMA ArrivedFacts ==
  ASSUME log \in Logs
  PROVE  /\ Arrived \in Seq(Tokens) /\ Len(Arrived) \in Nat
         /\ Skipped + Len(Arrived) <= 3 * Total + 1
         /\ \A q \in 1..Len(Arrived) : Arrived[q] = BlobText[Skipped + q]
         /\ (log.later = 0 /\ log.lost = 0) <=> Skipped + Len(Arrived) = 3 * Total + 1
  <1> DEFINE listed == log.before + Len(log.records)
             later == log.later
             lost == log.lost
             length == 3 * Total + 1
             asked == 3 * listed + 2
             high == IF later = 0 THEN length ELSE asked
             answer == SubSeq(BlobText, Skipped + 1, high)
             part == SubSeq(answer, 1, Len(answer) - lost)
  <1>1. BlobText \in Seq(Tokens) /\ Len(BlobText) = length
        BY BlobTextFacts
  <1>2. Total = listed + later /\ Total \in Nat \ {0}
        BY LogFacts DEF Total
  <1>3. /\ listed \in Nat \ {0} /\ later \in Nat /\ lost \in Nat
        /\ Skipped \in Nat /\ Skipped < 3 * listed + 1
        <2> DEFINE b == log.before
                   n == Len(log.records)
        <2>1. /\ b \in Nat /\ n \in Nat \ {0} /\ Skipped = IF b = 0 THEN 0 ELSE 3 * b + 1
              /\ later \in Nat /\ lost \in Nat
              BY LogFacts
        <2> HIDE DEF b, n, later, lost
        <2>2. /\ b + n \in Nat \ {0} /\ Skipped \in Nat /\ Skipped < 3 * (b + n) + 1
              BY <2>1
        <2> QED BY <2>1, <2>2 DEF b, n
  <1>4. GetRange(BlobText, UnprocessedRange(log.before, listed))
          = SubSeq(BlobText, Skipped + 1, Min({asked, length}))
        <2>1. ContentLength(listed) = 3 * listed + 1 /\ (3 * listed + 1) + 1 = asked
              BY <1>3 DEF ContentLength, Width
        <2> QED BY <1>1, <2>1 DEF GetRange, UnprocessedRange, Skipped
  <1> HIDE DEF listed, later, lost
  <1>5. /\ asked \in Nat /\ length \in Nat /\ high \in Nat
        /\ Skipped < high /\ high <= length /\ high <= asked
        /\ later = 0 <=> high = length
        BY <1>2, <1>3
  <1>6. high \in {asked, length}
        OBVIOUS
  <1> HIDE DEF asked, length, high
  <1>7. Min({asked, length}) = high
        <2>1. \A y \in {asked, length} : high <= y
              BY <1>5
        <2>2. \A x \in {asked, length} : (\A y \in {asked, length} : x <= y) => x = high
              BY <1>5, <1>6
        <2> QED BY <1>6, <2>1, <2>2 DEF Min
  <1>8. Arrived = part
        BY <1>2, <1>4, <1>7 DEF Arrived, BlobText, listed, later, lost
  <1>9. /\ answer \in Seq(Tokens) /\ Len(answer) = high - Skipped
        /\ \A q \in 1..(high - Skipped) : answer[q] = BlobText[Skipped + q]
        <2> DEFINE m == Skipped + 1
        <2>1. m \in Nat \ {0} /\ high \in Int /\ high <= Len(BlobText) /\ m <= high
              BY <1>1, <1>3, <1>5
        <2> HIDE DEF m
        <2>2. /\ SubSeq(BlobText, m, high) \in Seq(Tokens)
              /\ Len(SubSeq(BlobText, m, high)) = high - m + 1
              /\ \A i \in 1..(high - m + 1) : SubSeq(BlobText, m, high)[i] = BlobText[m + i - 1]
              BY <1>1, <2>1, SubSeqFacts
        <2>3. high - m + 1 = high - Skipped /\ \A i \in Nat : m + i - 1 = Skipped + i
              BY <1>3, <1>5 DEF m
        <2> QED BY <2>2, <2>3 DEF m
  <1> HIDE DEF answer
  <1> DEFINE rest == high - Skipped - lost
  <1>10. rest \in Int /\ rest <= high - Skipped /\ high - Skipped \in Nat
        BY <1>3, <1>5
  <1>11. /\ part \in Seq(Tokens) /\ Len(part) = IF 1 <= rest THEN rest ELSE 0
        /\ \A q \in 1..rest : part[q] = answer[q]
        <2>1. Len(answer) - lost = rest /\ rest <= Len(answer)
              BY <1>9, <1>10
        <2> HIDE DEF rest
        <2>2. /\ part \in Seq(Tokens) /\ Len(part) = IF 1 <= rest THEN rest - 1 + 1 ELSE 0
              /\ \A q \in 1..(rest - 1 + 1) : part[q] = answer[1 + q - 1]
              BY <1>9, <1>10, <2>1, SubSeqFacts
        <2> HIDE DEF part
        <2>3. rest - 1 + 1 = rest /\ \A q \in 1..rest : 1 + q - 1 = q
              BY <1>10 DEF rest
        <2> QED BY <2>2, <2>3
  <1> HIDE DEF part
  <1>12. /\ Len(part) \in Nat /\ Len(part) <= high - Skipped
        /\ \A q \in 1..Len(part) : q \in 1..rest /\ q \in 1..(high - Skipped)
        BY <1>10, <1>11
  <1>13. \A q \in 1..Len(part) : part[q] = BlobText[Skipped + q]
        BY <1>9, <1>11, <1>12
  <1>14. Skipped + Len(part) <= length
        BY <1>3, <1>5, <1>12
  <1>15. later = 0 /\ lost = 0 <=> Skipped + Len(part) = length
        BY <1>3, <1>5, <1>10, <1>11
  <1> QED BY <1>8, <1>11, <1>12, <1>13, <1>14, <1>15 DEF length, later, lost

LEMMA Smallest ==
  ASSUME NEW S \in SUBSET Nat, S # {}
  PROVE  Min(S) \in S /\ \A n \in S : Min(S) <= n
  <1> DEFINE less == OpToRel(<, Nat)
  <1>1. IsWellFoundedOn(less, Nat)
        BY NatLessThanWellFounded, Zenon
  <1>2. \A n, m \in Nat : n < m => <<n, m>> \in less
        BY Zenon DEF OpToRel
  <1> HIDE DEF less
  <1>3. PICK m \in S : \A n \in S : <<n, m>> \notin less
        BY <1>1, WFMin
  <1>4. \A n \in S : ~(n < m)
        BY <1>2, <1>3
  <1>5. \A n \in S : m <= n
        BY <1>4
  <1> QED BY <1>5 DEF Min

LEMMA SelectFacts ==
  ASSUME NEW s, Len(s) \in Nat
  PROVE  LET first == SelectInSeq(s, IsTime) IN
         IF \E q \in 1..Len(s) : IsTime(s[q])
           THEN /\ first \in 1..Len(s) /\ IsTime(s[first])
                /\ \A q \in 1..Len(s) : IsTime(s[q]) => first <= q
           ELSE first = 0
  <1> DEFINE I == {q \in 1..Len(s) : IsTime(s[q])}
             first == SelectInSeq(s, IsTime)
  <1>1. first = IF I # {} THEN Min(I) ELSE 0
        BY DEF SelectInSeq
  <1>2. I \in SUBSET Nat
        OBVIOUS
  <1> HIDE DEF first
  <1>3. I # {} => first \in I /\ \A q \in I : first <= q
        BY <1>1, <1>2, Smallest
  <1> QED BY <1>1, <1>3 DEF first

\* The text for the parser, when a time has arrived.
LEMMA StructuredFacts ==
  ASSUME NEW bytes \in Seq(Tokens), NEW first \in 1..Len(bytes),
         first = SelectInSeq(bytes, IsTime)
  PROVE  LET text == StructuredJson(bytes) IN
         /\ text \in Seq(Tokens) /\ Len(text) = Len(bytes) - first + 2
         /\ text[1] = Separator("begin")
         /\ \A p \in 2..Len(text) : text[p] = bytes[first + p - 2]
         /\ IsJson(text) <=> bytes[Len(bytes)].token = "end"
  <1> DEFINE rest == SubSeq(bytes, first, Len(bytes))
             text == StructuredJson(bytes)
             head == <<Separator("begin")>>
             n == Len(bytes)
  <1>1. n \in Nat /\ first \in Nat \ {0} /\ first <= n
        OBVIOUS
  <1>2. text = head \o rest
        BY <1>1 DEF StructuredJson
  <1>3. head \in Seq(Tokens) /\ Len(head) = 1 /\ head[1] = Separator("begin")
        BY DEF Separator, Tokens
  <1>4. /\ rest \in Seq(Tokens) /\ Len(rest) = n - first + 1
        /\ \A i \in 1..(n - first + 1) : rest[i] = bytes[first + i - 1]
        BY <1>1, SubSeqFacts
  <1> HIDE DEF head, rest, text, n
  <1>5. /\ text \in Seq(Tokens) /\ Len(text) = Len(head) + Len(rest)
        /\ \A i \in 1..(Len(head) + Len(rest)) :
              text[i] = IF i <= Len(head) THEN head[i] ELSE rest[i - Len(head)]
        BY <1>2, <1>3, <1>4, ConcatProperties
  <1>6. Len(text) = n - first + 2 /\ Len(text) \in Nat \ {0, 1}
        BY <1>1, <1>3, <1>4, <1>5
  <1>7. text[1] = Separator("begin")
        BY <1>3, <1>4, <1>5, <1>6
  <1>8. ASSUME NEW p \in 2..Len(text) PROVE text[p] = bytes[first + p - 2]
        <2>1. p - 1 \in 1..(n - first + 1) /\ first + (p - 1) - 1 = first + p - 2
              BY <1>1, <1>6
        <2>2. text[p] = rest[p - 1]
              BY <1>3, <1>4, <1>5, <1>6
        <2>3. rest[p - 1] = bytes[first + (p - 1) - 1]
              BY <1>4, <2>1
        <2> QED BY <2>1, <2>2, <2>3
  <1>9. IsJson(text) <=> bytes[n].token = "end"
        <2>1. Len(text) \in 2..Len(text) /\ first + Len(text) - 2 = n
              BY <1>1, <1>6
        <2>2. Last(text) = bytes[n]
              BY <1>8, <2>1 DEF Last
        <2>3. text # <<>>
              BY <1>6
        <2> QED BY <2>2, <2>3 DEF IsJson
  <1> QED BY <1>5, <1>6, <1>7, <1>8, <1>9 DEF text, n

\* The range arrives whole, or what arrives does not end where the blob ends.
LEMMA PayloadEnds ==
  ASSUME log \in Logs
  PROVE  IsJson(Payload) => log.later = 0 /\ log.lost = 0
  <1> DEFINE n == Len(Arrived)
             first == SelectInSeq(Arrived, IsTime)
  <1>1. /\ Arrived \in Seq(Tokens) /\ n \in Nat /\ Skipped \in Nat /\ Total \in Nat
        /\ Skipped + n <= 3 * Total + 1
        /\ \A q \in 1..n : Arrived[q] = BlobText[Skipped + q]
        BY ArrivedFacts, LogFacts
  <1>2. first = 0 \/ first \in 1..n
        BY <1>1, SelectFacts
  <1>3. CASE first = 0
        BY <1>3 DEF Payload, StructuredJson, IsJson
  <1>4. CASE first \in 1..n
        <2>1. IsJson(Payload) => Arrived[n].token = "end"
              BY <1>1, <1>4, StructuredFacts DEF Payload
        <2>2. n \in 1..n /\ Skipped + n \in 1..(3 * Total + 1)
              BY <1>1, <1>4
        <2>3. Arrived[n].token = "end" => Skipped + n = 3 * Total + 1
              BY <1>1, <2>2, BlobTextFacts
        <2> QED BY <2>1, <2>3, ArrivedFacts
  <1> QED BY <1>2, <1>3, <1>4

LEMMA ModThree ==
  ASSUME NEW k \in Nat, NEW r \in 0..2
  PROVE  (3 * k + r) % 3 = r /\ (3 * k + r) \div 3 = k
  OBVIOUS

\* The token that the first time of the answer is, counted in the blob.
FirstTime == 3 * log.before + 1 + TimeField(log.kind)

LEMMA FirstTimeFacts ==
  ASSUME log \in Logs, log.later = 0, log.lost = 0
  PROVE  /\ FirstTime - Skipped \in 1..Len(Arrived)
         /\ SelectInSeq(Arrived, IsTime) = FirstTime - Skipped
  <1> DEFINE b == log.before
             n == Len(log.records)
             c == TimeField(log.kind)
             m == Len(Arrived)
             f == FirstTime - Skipped
  <1>1. /\ m \in Nat /\ Skipped + m = 3 * (b + n) + 1
        /\ \A q \in 1..m : Arrived[q] = BlobText[Skipped + q]
        <2>1. b \in Nat /\ n \in Nat /\ Total = b + n
              BY LogFacts DEF Total
        <2> QED BY <2>1, ArrivedFacts
  <1>2. /\ b \in Nat /\ n \in Nat \ {0} /\ Skipped = IF b = 0 THEN 0 ELSE 3 * b + 1
        /\ c \in {1, 2} /\ Total = b + n
        BY LogFacts DEF TimeField, Total
  <1>3. \A p \in 1..(3 * Total + 1) : IsTime(BlobText[p]) <=> (p - 1) % 3 = c
        BY BlobTextFacts
  <1>4. f = (3 * b + 1 + c) - Skipped
        BY DEF FirstTime
  <1> HIDE DEF b, n, c, m, f
  <1>5. f \in 1..m
        BY <1>1, <1>2, <1>4
  <1>6. \A q \in 1..m : Skipped + q \in 1..(3 * Total + 1)
        BY <1>1, <1>2
  <1>7. ASSUME NEW q \in 1..m PROVE IsTime(Arrived[q]) <=> (Skipped + q - 1) % 3 = c
        <2>1. Skipped + q \in 1..(3 * Total + 1) /\ Arrived[q] = BlobText[Skipped + q]
              BY <1>1, <1>6
        <2>2. IsTime(BlobText[Skipped + q]) <=> ((Skipped + q) - 1) % 3 = c
              BY <1>3, <2>1
        <2>3. (Skipped + q) - 1 = Skipped + q - 1
              BY <1>2
        <2> QED BY <2>1, <2>2, <2>3
  <1>8. IsTime(Arrived[f])
        <2>1. Skipped + f - 1 = 3 * b + c
              BY <1>1, <1>2, <1>4
        <2>2. (3 * b + c) % 3 = c
              BY <1>2, ModThree
        <2> QED BY <1>5, <1>7, <2>1, <2>2
  <1>9. ASSUME NEW q \in 1..m, q < f PROVE ~IsTime(Arrived[q])
        <2> DEFINE r == Skipped + q - 1 - 3 * b
        <2>1. r \in 0..2 /\ r # c /\ Skipped + q - 1 = 3 * b + r
              BY <1>1, <1>2, <1>4, <1>9
        <2> HIDE DEF r
        <2>2. (Skipped + q - 1) % 3 = r
              BY <1>2, <2>1, ModThree
        <2> QED BY <1>7, <2>1, <2>2
  <1>10. LET first == SelectInSeq(Arrived, IsTime) IN
         /\ first \in 1..m /\ IsTime(Arrived[first])
         /\ \A q \in 1..m : IsTime(Arrived[q]) => first <= q
        BY <1>1, <1>5, <1>8, SelectFacts DEF m
  <1> DEFINE first == SelectInSeq(Arrived, IsTime)
  <1> HIDE DEF first
  <1>11. first \in 1..m /\ first <= f /\ ~(first < f)
        BY <1>5, <1>8, <1>9, <1>10 DEF first
  <1>12. first = f
        BY <1>5, <1>11
  <1> QED BY <1>5, <1>12 DEF first, f, m

\* What is given to the parser, when all arrives.
LEMMA PayloadFacts ==
  ASSUME log \in Logs, log.later = 0, log.lost = 0
  PROVE  LET length == 3 * Len(log.records) + 2 - TimeField(log.kind) IN
         /\ IsJson(Payload) /\ Payload \in Seq(Tokens) /\ Len(Payload) = length
         /\ Payload[1] = Separator("begin")
         /\ \A p \in 2..length : Payload[p] = BlobText[FirstTime + p - 2]
  <1> DEFINE b == log.before
             n == Len(log.records)
             c == TimeField(log.kind)
             m == Len(Arrived)
             f == FirstTime - Skipped
  <1>1. /\ b \in Nat /\ n \in Nat \ {0} /\ Skipped \in Nat /\ c \in {1, 2}
        /\ Total = b + n /\ FirstTime = 3 * b + 1 + c
        BY LogFacts DEF TimeField, Total, FirstTime
  <1>2. /\ Arrived \in Seq(Tokens) /\ m \in Nat /\ Skipped + m = 3 * Total + 1
        /\ \A q \in 1..m : Arrived[q] = BlobText[Skipped + q]
        BY ArrivedFacts
  <1>3. f \in 1..m /\ SelectInSeq(Arrived, IsTime) = f
        BY FirstTimeFacts
  <1>4. /\ Payload \in Seq(Tokens) /\ Len(Payload) = m - f + 2
        /\ Payload[1] = Separator("begin")
        /\ \A p \in 2..Len(Payload) : Payload[p] = Arrived[f + p - 2]
        /\ IsJson(Payload) <=> Arrived[m].token = "end"
        BY <1>2, <1>3, StructuredFacts DEF Payload
  <1> HIDE DEF b, n, c, m
  <1>5. m - f + 2 = 3 * n + 2 - c
        <2>1. Skipped + m = 3 * b + 3 * n + 1
              BY <1>1, <1>2
        <2>2. f = (3 * b + 1 + c) - Skipped /\ f \in Int
              BY <1>1
        <2> HIDE DEF f
        <2> QED BY <1>1, <1>2, <2>1, <2>2
  <1>6. IsJson(Payload)
        <2>1. m \in 1..m /\ Skipped + m \in 1..(3 * Total + 1)
              BY <1>1, <1>2, <1>3
        <2>2. BlobText[3 * Total + 1].token = "end"
              BY <1>2, <2>1, BlobTextFacts
        <2> QED BY <1>2, <1>4, <2>1, <2>2
  <1>7. ASSUME NEW p \in 2..Len(Payload) PROVE Payload[p] = BlobText[FirstTime + p - 2]
        <2>1. f + p - 2 \in 1..m /\ Skipped + (f + p - 2) = FirstTime + p - 2
              BY <1>1, <1>2, <1>3, <1>4
        <2>2. Arrived[f + p - 2] = BlobText[Skipped + (f + p - 2)]
              BY <1>2, <2>1
        <2> QED BY <1>4, <2>1, <2>2
  <1>8. Len(Payload) = 3 * n + 2 - c /\ \A p \in 2..(3 * n + 2 - c) : p \in 2..Len(Payload)
        BY <1>4, <1>5
  <1> QED BY <1>4, <1>6, <1>7, <1>8 DEF n, c

-----------------------------------------------------------------------------
(* The records that the parser finds.                                        *)

\* Every third token, from the second on.
Thirds(n) == {3 * i - 1 : i \in 1..n}

LEMMA ThirdsCount == ASSUME NEW n \in Nat PROVE Cardinality(Thirds(n)) = n
  <1> DEFINE f == [i \in 1..n |-> 3 * i - 1]
  <1>1. f \in [1..n -> Thirds(n)]
        BY DEF Thirds
  <1>2. \A a, b \in 1..n : f[a] = f[b] => a = b
        OBVIOUS
  <1>3. \A t \in Thirds(n) : \E i \in 1..n : f[i] = t
        BY DEF Thirds
  <1> HIDE DEF f
  <1>4. f \in Bijection(1..n, Thirds(n))
        BY <1>1, <1>2, <1>3, Fun_IsBij
  <1>5. ExistsBijection(1..n, Thirds(n))
        BY <1>4 DEF ExistsBijection
  <1> QED BY <1>5, FS_CountingElements

LEMMA NthThird ==
  ASSUME NEW n \in Nat, NEW i \in 1..n
  PROVE  Nth(Thirds(n), i) = 3 * i - 1
  <1>1. ASSUME NEW j \in 1..n PROVE {q \in Thirds(n) : q <= 3 * j - 1} = Thirds(j)
        BY DEF Thirds
  <1>2. ASSUME NEW j \in 1..n PROVE Cardinality({q \in Thirds(n) : q <= 3 * j - 1}) = j
        BY <1>1, ThirdsCount
  <1>3. 3 * i - 1 \in Thirds(n)
        BY DEF Thirds
  <1>4. ASSUME NEW p \in Thirds(n), Cardinality({q \in Thirds(n) : q <= p}) = i
        PROVE  p = 3 * i - 1
        <2>1. PICK j \in 1..n : p = 3 * j - 1
              BY DEF Thirds
        <2> QED BY <1>2, <1>4, <2>1
  <1> QED BY <1>2, <1>3, <1>4 DEF Nth

\* The token in place r of the ith three, the first of which is a time.
LEMMA TokenFacts ==
  ASSUME log \in Logs, log.later = 0, log.lost = 0, NEW i \in Nat, NEW r \in 0..2,
         3 * i - 1 + r \in 2..Len(Payload)
  PROVE  LET token == Payload[3 * i - 1 + r]
             c == TimeField(log.kind)
         IN  /\ IsTime(token) <=> r = 0
             /\ token.token = "operation" <=> r = c
             /\ r = 0 => token.of = log.before + i
             /\ r = c => token.of = IF c = 1 THEN log.before + i ELSE log.before + i + 1
  <1> DEFINE b == log.before
             n == Len(log.records)
             c == TimeField(log.kind)
             p == 3 * i - 1 + r
             q == FirstTime + p - 2
             k == b + i - 1
  <1>1. /\ b \in Nat /\ n \in Nat \ {0} /\ c \in {1, 2} /\ Total = b + n
        /\ FirstTime = 3 * b + 1 + c
        BY LogFacts DEF TimeField, Total, FirstTime
  <1>2. Len(Payload) = 3 * n + 2 - c /\ p \in 2..(3 * n + 2 - c) /\ Payload[p] = BlobText[q]
        BY PayloadFacts
  <1> HIDE DEF b, n, c, p
  <1>3. p = 3 * i - 1 + r /\ i >= 1
        BY <1>2 DEF p
  <1>4. k \in Nat /\ q - 1 = 3 * k + (c + r) /\ q \in 1..(3 * (b + n) + 1)
        BY <1>1, <1>2, <1>3
  <1> HIDE DEF k, q
  <1>5. /\ IsTime(BlobText[q]) <=> (q - 1) % 3 = c
        /\ BlobText[q].token = "operation" <=> (q - 1) % 3 = 3 - c
        /\ (q - 1) % 3 # 0 => BlobText[q].of = (q - 1) \div 3 + 1
        BY <1>1, <1>4, BlobTextFacts DEF c
  <1> DEFINE Goal == /\ IsTime(Payload[p]) <=> r = 0
                     /\ Payload[p].token = "operation" <=> r = c
                     /\ r = 0 => Payload[p].of = b + i
                     /\ r = c => Payload[p].of = IF c = 1 THEN b + i ELSE b + i + 1
  <1>6. k + 1 = b + i
        BY <1>1, <1>3 DEF k
  <1>7. ASSUME c + r <= 2 PROVE Goal
        <2>1. (q - 1) % 3 = c + r /\ (q - 1) \div 3 = k /\ c + r # 0
              BY <1>1, <1>4, <1>7, ModThree
        <2>2. (c + r = c <=> r = 0) /\ (c + r = 3 - c <=> r = c) /\ (r = c => c = 1)
              BY <1>1, <1>7
        <2>3. BlobText[q].of = b + i
              BY <1>5, <1>6, <2>1
        <2> QED BY <1>2, <1>5, <2>1, <2>2, <2>3
  <1>8. ASSUME c + r > 2 PROVE Goal
        <2> DEFINE s == c + r - 3
        <2>1. s \in 0..2 /\ q - 1 = 3 * (k + 1) + s /\ k + 1 \in Nat
              BY <1>1, <1>4, <1>8
        <2>2. s # c /\ r # 0 /\ (s = 3 - c <=> r = c) /\ (r = c => c = 2 /\ s # 0)
              BY <1>1, <1>8
        <2> HIDE DEF s
        <2>3. (q - 1) % 3 = s /\ (q - 1) \div 3 = k + 1
              BY <2>1, ModThree
        <2>4. s # 0 => BlobText[q].of = b + i + 1
              BY <1>5, <1>6, <2>3
        <2> QED BY <1>2, <1>5, <2>2, <2>3, <2>4
  <1>9. Goal
        BY <1>1, <1>7, <1>8
  <1> QED BY <1>9 DEF b, c, p

LEMMA PlaceFacts ==
  ASSUME NEW p \in Nat, p >= 2
  PROVE  \E i \in Nat \ {0} : \E r \in 0..2 : p = 3 * i - 1 + r
  <1>1. (p + 1) \div 3 \in Nat \ {0} /\ (p + 1) % 3 \in 0..2
        /\ p = 3 * ((p + 1) \div 3) - 1 + ((p + 1) % 3)
        OBVIOUS
  <1> QED BY <1>1

\* The times of the page are those of its records.
LEMMA TimesFacts ==
  ASSUME log \in Logs, log.later = 0, log.lost = 0
  PROVE  Times(Payload) = Thirds(Len(log.records))
  <1> DEFINE n == Len(log.records)
             length == Len(Payload)
  <1>1. /\ n \in Nat \ {0} /\ length \in {3 * n, 3 * n + 1} /\ Payload \in Seq(Tokens)
        /\ Payload[1] = Separator("begin")
        <2>1. TimeField(log.kind) \in {1, 2} /\ n \in Nat \ {0}
              BY LogFacts DEF TimeField
        <2>2. length = 3 * n + 2 - TimeField(log.kind)
              BY PayloadFacts
        <2> QED BY <2>1, <2>2, PayloadFacts
  <1>2. DOMAIN Payload = 1..length /\ ~IsTime(Payload[1])
        BY <1>1 DEF IsTime, Separator
  <1> HIDE DEF n, length
  <1>3. ASSUME NEW p \in 1..length, IsTime(Payload[p]) PROVE p \in Thirds(n)
        <2>1. p \in Nat /\ p >= 2
              BY <1>1, <1>2, <1>3
        <2>2. PICK i \in Nat \ {0}, r \in 0..2 : p = 3 * i - 1 + r
              BY <2>1, PlaceFacts
        <2>3. 3 * i - 1 + r \in 2..Len(Payload) /\ IsTime(Payload[3 * i - 1 + r])
              BY <1>3, <2>1, <2>2 DEF length
        <2>4. r = 0
              BY <2>3, TokenFacts
        <2>5. i \in 1..n /\ p = 3 * i - 1
              BY <1>1, <2>2, <2>4
        <2> QED BY <2>5 DEF Thirds
  <1>4. ASSUME NEW p \in Thirds(n) PROVE p \in 1..length /\ IsTime(Payload[p])
        <2>1. PICK i \in 1..n : p = 3 * i - 1
              BY DEF Thirds
        <2>2. i \in Nat /\ p = 3 * i - 1 + 0 /\ p \in 2..length
              BY <1>1, <2>1
        <2> QED BY <2>2, TokenFacts DEF length
  <1>5. Times(Payload) = {p \in 1..length : IsTime(Payload[p])}
        BY <1>2 DEF Times
  <1> QED BY <1>3, <1>4, <1>5 DEF n

\* The parser finds the records between the checkpoint and the listing, in order;
\* only the first one of a gateway log has lost its operation.
LEMMA UnmarshalFacts ==
  ASSUME log \in Logs, log.later = 0, log.lost = 0
  PROVE  Unmarshal(Payload)
           = [i \in 1..Len(log.records) |->
                [of |-> log.before + i, operation |-> log.kind = "nsg" \/ i > 1]]
  <1> DEFINE b == log.before
             n == Len(log.records)
             c == TimeField(log.kind)
             length == Len(Payload)
             named(of) == [token |-> "operation", of |-> of] \in ToSet(Payload)
  <1>1. /\ b \in Nat /\ n \in Nat \ {0} /\ c \in {1, 2} /\ length = 3 * n + 2 - c
        /\ log.kind = "nsg" <=> c = 1
        BY LogFacts, PayloadFacts DEF TimeField
  <1>2. Payload \in Seq(Tokens) /\ Payload[1] = Separator("begin")
        BY PayloadFacts
  <1>3. Times(Payload) = Thirds(n) /\ Cardinality(Times(Payload)) = n
        BY <1>1, TimesFacts, ThirdsCount
  <1>4. ToSet(Payload) = {Payload[p] : p \in 1..length}
        BY <1>2 DEF ToSet
  <1>5. \A p \in 1..length : Payload[p] \in Tokens
        BY <1>2, ElementOfSeq
  <1>6. \A j \in Nat, r \in 0..2 : 3 * j - 1 + r \in 2..length =>
          /\ Payload[3 * j - 1 + r].token = "operation" <=> r = c
          /\ r = 0 => Payload[3 * j - 1 + r].of = b + j
          /\ r = c => Payload[3 * j - 1 + r].of = IF c = 1 THEN b + j ELSE b + j + 1
        BY TokenFacts
  <1> HIDE DEF b, n, c, length
  <1>7. ASSUME NEW i \in 1..n PROVE named(b + i) <=> c = 1 \/ i > 1
        <2>1. ASSUME c = 1 PROVE named(b + i)
              <3>1. 3 * i - 1 + 1 \in 2..length /\ 3 * i - 1 + 1 \in 1..length
                    BY <1>1, <2>1
              <3>2. /\ Payload[3 * i - 1 + 1].token = "operation"
                    /\ Payload[3 * i - 1 + 1].of = b + i
                    BY <1>6, <2>1, <3>1
              <3>3. Payload[3 * i - 1 + 1] = [token |-> "operation", of |-> b + i]
                    BY <1>5, <3>1, <3>2 DEF Tokens
              <3> QED BY <1>4, <3>1, <3>3
        <2>2. ASSUME c = 2, i > 1 PROVE named(b + i)
              <3> DEFINE j == i - 1
              <3>1. /\ j \in Nat /\ b + j + 1 = b + i
                    /\ 3 * j - 1 + 2 \in 2..length /\ 3 * j - 1 + 2 \in 1..length
                    BY <1>1, <2>2
              <3> HIDE DEF j
              <3>2. /\ Payload[3 * j - 1 + 2].token = "operation"
                    /\ Payload[3 * j - 1 + 2].of = b + i
                    BY <1>6, <2>2, <3>1
              <3>3. Payload[3 * j - 1 + 2] = [token |-> "operation", of |-> b + i]
                    BY <1>5, <3>1, <3>2 DEF Tokens
              <3> QED BY <1>4, <3>1, <3>3
        <2>3. ASSUME c = 2, named(b + i) PROVE i > 1
              <3>1. PICK p \in 1..length : Payload[p] = [token |-> "operation", of |-> b + i]
                    BY <1>4, <2>3
              <3>2. p # 1 /\ p \in Nat /\ p >= 2
                    BY <1>1, <1>2, <3>1 DEF Separator
              <3>3. PICK j \in Nat \ {0}, r \in 0..2 : p = 3 * j - 1 + r
                    BY <3>2, PlaceFacts
              <3>4. 3 * j - 1 + r \in 2..length /\ j \in Nat
                    BY <1>1, <3>2, <3>3
              <3>5. Payload[3 * j - 1 + r] = [token |-> "operation", of |-> b + i]
                    BY <3>1, <3>3
              <3>6. r = c /\ b + i = b + j + 1
                    <4>1. Payload[3 * j - 1 + r].token = "operation"
                          BY <3>5
                    <4>2. r = c
                          BY <1>6, <3>4, <4>1
                    <4>3. Payload[3 * j - 1 + r].of = b + j + 1
                          BY <1>6, <2>3, <3>4, <4>2
                    <4> QED BY <3>5, <4>2, <4>3
              <3> QED BY <1>1, <3>3, <3>6
        <2> QED BY <1>1, <2>1, <2>2, <2>3
  <1>8. ASSUME NEW i \in 1..n PROVE Payload[Nth(Times(Payload), i)].of = b + i
        <2>1. Nth(Times(Payload), i) = 3 * i - 1 + 0
              BY <1>1, <1>3, NthThird
        <2>2. 3 * i - 1 + 0 \in 2..length /\ i \in Nat
              BY <1>1
        <2> QED BY <1>6, <2>1, <2>2
  <1>9. Unmarshal(Payload) = [i \in 1..n |-> [of |-> b + i, operation |-> c = 1 \/ i > 1]]
        <2>1. Unmarshal(Payload)
                = [i \in 1..n |-> [of |-> Payload[Nth(Times(Payload), i)].of,
                                   operation |-> named(Payload[Nth(Times(Payload), i)].of)]]
              BY <1>3 DEF Unmarshal
        <2> HIDE DEF named
        <2>2. ASSUME NEW i \in 1..n PROVE named(b + i) = (c = 1 \/ i > 1)
              BY <1>7 DEF named
        <2> QED BY <1>8, <2>1, <2>2
  <1> QED BY <1>1, <1>9 DEF b, n

-----------------------------------------------------------------------------
(* The page.                                                                 *)

\* What PageLoaded says of a page that loads.
Whole == IF log.kind = "nsg" THEN log.records
         ELSE [log.records EXCEPT ![1].operation = "unknown"]

LEMMA WholeType ==
  ASSUME log \in Logs
  PROVE  /\ Whole \in Seq(RecordsOf(log.kind)) /\ Len(Whole) = Len(log.records)
         /\ \A i \in 1..Len(log.records) :
               Whole[i] = IF log.kind = "nsg" \/ i > 1 THEN log.records[i]
                          ELSE [log.records[i] EXCEPT !.operation = "unknown"]
  <1> DEFINE R == RecordsOf(log.kind)
             n == Len(log.records)
  <1>1. log.records \in Seq(R) /\ n \in Nat \ {0} /\ log.kind \in Kinds
        BY LogFacts
  <1>2. \A i \in 1..n : log.records[i] \in R
        BY <1>1, ElementOfSeq
  <1>3. log.records = [i \in 1..n |-> log.records[i]]
        BY <1>1
  <1>4. CASE log.kind = "nsg"
        BY <1>1, <1>4 DEF Whole
  <1>5. CASE log.kind # "nsg"
        <2>1. ASSUME NEW r \in R PROVE [r EXCEPT !.operation = "unknown"] \in R
              <3>1. CASE log.kind = "access"
                    BY <3>1 DEF RecordsOf, AccessRecords, OtherRecords
              <3>2. CASE log.kind = "firewall"
                    BY <3>2 DEF RecordsOf, FirewallRecords, OtherRecords
              <3> QED BY <1>1, <1>5, <3>1, <3>2 DEF Kinds
        <2> HIDE DEF R, n
        <2>2. Whole = [i \in 1..n |->
                         IF i > 1 THEN log.records[i]
                         ELSE [log.records[i] EXCEPT !.operation = "unknown"]]
              <3> DEFINE records == log.records
                         first == [records[1] EXCEPT !.operation = "unknown"]
              <3>1. Whole = [records EXCEPT ![1] = first]
                    BY <1>5 DEF Whole
              <3> HIDE DEF records, first
              <3>2. DOMAIN records = 1..n
                    BY <1>1 DEF records, n
              <3>3. Whole = [i \in 1..n |-> IF i = 1 THEN first ELSE records[i]]
                    BY <3>1, <3>2
              <3>4. \A i \in 1..n : i > 1 <=> i # 1
                    BY <1>1
              <3> QED BY <3>3, <3>4 DEF records, first
        <2>3. \A i \in 1..n : Whole[i] \in R
              BY <1>2, <2>1, <2>2
        <2>4. Whole = [i \in 1..n |-> Whole[i]]
              BY <2>2
        <2>5. Whole \in Seq(R) /\ Len(Whole) = n
              BY <1>1, <2>3, <2>4
        <2> QED BY <1>5, <2>2, <2>5 DEF R, n
  <1> QED BY <1>4, <1>5

LEMMA LoadedPage ==
  ASSUME log \in Logs, log.later = 0, log.lost = 0
  PROVE  [i \in DOMAIN Unmarshal(Payload) |-> Parsed(Unmarshal(Payload)[i])] = Whole
  <1> DEFINE b == log.before
             n == Len(log.records)
             found(i) == [of |-> b + i, operation |-> log.kind = "nsg" \/ i > 1]
  <1>1. b \in Nat /\ n \in Nat
        BY LogFacts
  <1>2. Unmarshal(Payload) = [i \in 1..n |-> found(i)]
        BY UnmarshalFacts
  <1>3. ASSUME NEW i \in 1..n PROVE Parsed(found(i)) = Whole[i]
        <2>1. found(i).of - log.before = i /\ found(i).operation = (log.kind = "nsg" \/ i > 1)
              BY <1>1
        <2> QED BY <2>1, WholeType DEF Parsed
  <1>4. Whole = [i \in 1..n |-> Whole[i]]
        BY <1>1, WholeType
  <1> HIDE DEF found, b, n
  <1>5. DOMAIN Unmarshal(Payload) = 1..n /\ \A i \in 1..n : Unmarshal(Payload)[i] = found(i)
        BY <1>2
  <1> QED BY <1>3, <1>4, <1>5

-----------------------------------------------------------------------------
(* The tuples of a flow record, and those that the loops have passed.        *)

IsPlace(r, f, s, t) ==
    /\ f \in 1..Len(r.flows)
    /\ s \in 1..Len(r.flows[f].flows)
    /\ t \in 1..Len(r.flows[f].flows[s].tuples)

LEMMA RecordTypes ==
  ASSUME NEW r \in FlowRecords
  PROVE  /\ Len(r.flows) \in Nat /\ DOMAIN r.flows = 1..Len(r.flows)
         /\ \A f \in 1..Len(r.flows) :
               LET flows == r.flows[f].flows IN
               /\ r.flows[f].rule \in BOOLEAN
               /\ Len(flows) \in Nat /\ DOMAIN flows = 1..Len(flows)
               /\ \A s \in 1..Len(flows) :
                     /\ flows[s].listed \in BOOLEAN /\ flows[s].mac \in BOOLEAN
                     /\ Len(flows[s].tuples) \in Nat
                     /\ DOMAIN flows[s].tuples = 1..Len(flows[s].tuples)
                     /\ \A t \in 1..Len(flows[s].tuples) : flows[s].tuples[t] \in TupleKinds
  <1>1. r.flows \in Seq(Flows)
        BY DEF FlowRecords
  <1>2. ASSUME NEW f \in 1..Len(r.flows)
        PROVE  r.flows[f].rule \in BOOLEAN /\ r.flows[f].flows \in Seq(SubFlows)
        <2>1. r.flows[f] \in Flows
              BY <1>1, ElementOfSeq
        <2> QED BY <2>1 DEF Flows
  <1>3. ASSUME NEW f \in 1..Len(r.flows), NEW s \in 1..Len(r.flows[f].flows)
        PROVE  LET sub == r.flows[f].flows[s] IN
               /\ sub.listed \in BOOLEAN /\ sub.mac \in BOOLEAN
               /\ sub.tuples \in Seq(TupleKinds)
        <2>1. r.flows[f].flows[s] \in SubFlows
              BY <1>2, ElementOfSeq
        <2> QED BY <2>1 DEF SubFlows
  <1>4. ASSUME NEW f \in 1..Len(r.flows), NEW s \in 1..Len(r.flows[f].flows)
        PROVE  LET tuples == r.flows[f].flows[s].tuples IN
               /\ Len(tuples) \in Nat /\ DOMAIN tuples = 1..Len(tuples)
               /\ \A t \in 1..Len(tuples) : tuples[t] \in TupleKinds
        BY <1>3, ElementOfSeq
  <1>5. Len(r.flows) \in Nat /\ DOMAIN r.flows = 1..Len(r.flows)
        BY <1>1
  <1>6. ASSUME NEW f \in 1..Len(r.flows)
        PROVE  /\ r.flows[f].rule \in BOOLEAN /\ Len(r.flows[f].flows) \in Nat
               /\ DOMAIN r.flows[f].flows = 1..Len(r.flows[f].flows)
        BY <1>2
  <1>7. ASSUME NEW f \in 1..Len(r.flows), NEW s \in 1..Len(r.flows[f].flows)
        PROVE  r.flows[f].flows[s].listed \in BOOLEAN /\ r.flows[f].flows[s].mac \in BOOLEAN
        BY <1>3
  <1> QED BY <1>4, <1>5, <1>6, <1>7

LEMMA PositionsFacts ==
  ASSUME NEW r \in FlowRecords
  PROVE  /\ \A f, s, t : <<f, s, t>> \in Positions(r) <=> IsPlace(r, f, s, t)
         /\ \A p \in Positions(r) : \E f, s, t \in Nat \ {0} :
               p = <<f, s, t>> /\ IsPlace(r, f, s, t)
  <1> DEFINE Places(f, s) == {<<f, s, t>> : t \in DOMAIN r.flows[f].flows[s].tuples}
             InFlowAt(f) == UNION {Places(f, s) : s \in DOMAIN r.flows[f].flows}
  <1>1. Positions(r) = UNION {InFlowAt(f) : f \in DOMAIN r.flows}
        BY DEF Positions
  <1>2. ASSUME NEW p \in Positions(r)
        PROVE  \E f, s, t \in Nat \ {0} : p = <<f, s, t>> /\ IsPlace(r, f, s, t)
        <2>1. PICK f \in DOMAIN r.flows : p \in InFlowAt(f)
              BY <1>1
        <2>2. PICK s \in DOMAIN r.flows[f].flows : p \in Places(f, s)
              BY <2>1
        <2>3. PICK t \in DOMAIN r.flows[f].flows[s].tuples : p = <<f, s, t>>
              BY <2>2
        <2>4. IsPlace(r, f, s, t)
              BY RecordTypes, <2>1, <2>2, <2>3 DEF IsPlace
        <2>5. f \in Nat \ {0} /\ s \in Nat \ {0} /\ t \in Nat \ {0}
              BY <2>4 DEF IsPlace
        <2> QED BY <2>3, <2>4, <2>5
  <1>3. ASSUME NEW f, NEW s, NEW t, IsPlace(r, f, s, t) PROVE <<f, s, t>> \in Positions(r)
        <2>1. /\ f \in DOMAIN r.flows /\ s \in DOMAIN r.flows[f].flows
              /\ t \in DOMAIN r.flows[f].flows[s].tuples
              BY RecordTypes, <1>3 DEF IsPlace
        <2>2. <<f, s, t>> \in Places(f, s)
              BY <2>1
        <2>3. <<f, s, t>> \in InFlowAt(f)
              BY <2>1, <2>2
        <2> QED BY <1>1, <2>1, <2>3
  <1>4. ASSUME NEW f, NEW s, NEW t, <<f, s, t>> \in Positions(r) PROVE IsPlace(r, f, s, t)
        <2>1. PICK a, b, c \in Nat \ {0} : <<f, s, t>> = <<a, b, c>> /\ IsPlace(r, a, b, c)
              BY <1>2, <1>4
        <2>2. f = a /\ s = b /\ t = c
              BY <2>1
        <2> QED BY <2>1, <2>2
  <1> QED BY <1>2, <1>3, <1>4

\* The tuples up to a cursor, and those of them of some kinds.
Reached(r, c) == {p \in Positions(r) : p = c \/ Before(p, c)}
Of(r, c, kinds) == {p \in Reached(r, c) : TupleAt(r, p) \in kinds}

\* Tuple <<a, b, c>> is at most <<f, s, t>>.
UpTo(a, b, c, f, s, t) == a < f \/ (a = f /\ b < s) \/ (a = f /\ b = s /\ c <= t)

LEMMA ReachedAt ==
  ASSUME NEW r \in FlowRecords, NEW f \in Nat, NEW s \in Nat, NEW t \in Nat,
         NEW a \in Nat \ {0}, NEW b \in Nat \ {0}, NEW c \in Nat \ {0}
  PROVE  <<a, b, c>> \in Reached(r, <<f, s, t>>)
           <=> (IsPlace(r, a, b, c) /\ UpTo(a, b, c, f, s, t))
  <1>1. (<<a, b, c>> = <<f, s, t>> \/ Before(<<a, b, c>>, <<f, s, t>>))
          <=> UpTo(a, b, c, f, s, t)
        BY DEF Before, UpTo
  <1> QED BY <1>1, PositionsFacts DEF Reached

LEMMA ReachedPlace ==
  ASSUME NEW r \in FlowRecords, NEW f \in Nat, NEW s \in Nat, NEW t \in Nat,
         NEW p \in Reached(r, <<f, s, t>>)
  PROVE  \E a, b, c \in Nat \ {0} :
            p = <<a, b, c>> /\ IsPlace(r, a, b, c) /\ UpTo(a, b, c, f, s, t)
  <1>1. p \in Positions(r)
        BY DEF Reached
  <1>2. PICK a, b, c \in Nat \ {0} : p = <<a, b, c>> /\ IsPlace(r, a, b, c)
        BY <1>1, PositionsFacts
  <1>3. UpTo(a, b, c, f, s, t)
        BY <1>2, ReachedAt
  <1> QED BY <1>2, <1>3

\* Two cursors with the same tuples behind them.
SameBehind(r, f, s, t, g, u, v) ==
    \A a, b, c \in Nat \ {0} :
        IsPlace(r, a, b, c) => (UpTo(a, b, c, f, s, t) <=> UpTo(a, b, c, g, u, v))

LEMMA SameReached ==
  ASSUME NEW r \in FlowRecords, NEW f \in Nat, NEW s \in Nat, NEW t \in Nat,
         NEW g \in Nat, NEW u \in Nat, NEW v \in Nat, SameBehind(r, f, s, t, g, u, v)
  PROVE  Reached(r, <<f, s, t>>) = Reached(r, <<g, u, v>>)
  <1>1. ASSUME NEW p \in Reached(r, <<f, s, t>>) PROVE p \in Reached(r, <<g, u, v>>)
        <2>1. PICK a, b, c \in Nat \ {0} :
                 p = <<a, b, c>> /\ IsPlace(r, a, b, c) /\ UpTo(a, b, c, f, s, t)
              BY ReachedPlace
        <2> QED BY <2>1, ReachedAt DEF SameBehind
  <1>2. ASSUME NEW p \in Reached(r, <<g, u, v>>) PROVE p \in Reached(r, <<f, s, t>>)
        <2>1. PICK a, b, c \in Nat \ {0} :
                 p = <<a, b, c>> /\ IsPlace(r, a, b, c) /\ UpTo(a, b, c, g, u, v)
              BY ReachedPlace
        <2> QED BY <2>1, ReachedAt DEF SameBehind
  <1> QED BY <1>1, <1>2

\* To go into the next flow, at the end of one, passes no tuple ...
LEMMA PassFlow ==
  ASSUME NEW r \in FlowRecords, NEW f \in Nat, NEW s \in Nat, NEW t \in Nat,
         f > 0 => s >= Len(r.flows[f].flows),
         f > 0 /\ s > 0 => t >= Len(r.flows[f].flows[s].tuples)
  PROVE  Reached(r, <<f + 1, 0, 0>>) = Reached(r, <<f, s, t>>)
  <1>1. ASSUME NEW a \in Nat \ {0}, NEW b \in Nat \ {0}, NEW c \in Nat \ {0},
               IsPlace(r, a, b, c)
        PROVE  UpTo(a, b, c, f, s, t) <=> UpTo(a, b, c, f + 1, 0, 0)
        <2>1. UpTo(a, b, c, f + 1, 0, 0) <=> a <= f
              BY DEF UpTo
        <2>2. a \in 1..Len(r.flows) /\ Len(r.flows[a].flows) \in Nat
              BY <1>1, RecordTypes DEF IsPlace
        <2>3. b \in 1..Len(r.flows[a].flows) /\ Len(r.flows[a].flows[b].tuples) \in Nat
              BY <1>1, <2>2, RecordTypes DEF IsPlace
        <2>4. b <= Len(r.flows[a].flows) /\ c <= Len(r.flows[a].flows[b].tuples)
              BY <1>1, <2>2, <2>3 DEF IsPlace
        <2>5. ASSUME a = f PROVE b < s \/ (b = s /\ c <= t)
              <3>1. b <= s
                    BY <2>2, <2>4, <2>5
              <3>2. b = s => c <= t
                    BY <2>3, <2>4, <2>5
              <3> QED BY <3>1, <3>2
        <2> QED BY <2>1, <2>5 DEF UpTo
  <1>2. f + 1 \in Nat /\ 0 \in Nat
        OBVIOUS
  <1>3. SameBehind(r, f + 1, 0, 0, f, s, t)
        BY <1>1 DEF SameBehind
  <1> QED BY <1>2, <1>3, SameReached

\* ... nor does to go into the next sub-flow.
LEMMA PassSubFlow ==
  ASSUME NEW r \in FlowRecords, NEW f \in Nat \ {0}, NEW s \in Nat, NEW t \in Nat,
         s > 0 => t >= Len(r.flows[f].flows[s].tuples)
  PROVE  Reached(r, <<f, s + 1, 0>>) = Reached(r, <<f, s, t>>)
  <1>1. ASSUME NEW a \in Nat \ {0}, NEW b \in Nat \ {0}, NEW c \in Nat \ {0},
               IsPlace(r, a, b, c)
        PROVE  UpTo(a, b, c, f, s, t) <=> UpTo(a, b, c, f, s + 1, 0)
        <2>1. UpTo(a, b, c, f, s + 1, 0) <=> (a < f \/ (a = f /\ b <= s))
              BY DEF UpTo
        <2>2. a \in 1..Len(r.flows) /\ b \in 1..Len(r.flows[a].flows)
              BY <1>1 DEF IsPlace
        <2>3. Len(r.flows[a].flows[b].tuples) \in Nat
              BY <2>2, RecordTypes
        <2>4. a = f /\ b = s => c <= t
              BY <1>1, <2>3 DEF IsPlace
        <2> QED BY <2>1, <2>4 DEF UpTo
  <1>2. s + 1 \in Nat /\ 0 \in Nat /\ f \in Nat
        OBVIOUS
  <1>3. SameBehind(r, f, s + 1, 0, f, s, t)
        BY <1>1 DEF SameBehind
  <1> QED BY <1>2, <1>3, SameReached

\* To go on to the next tuple passes that one.
LEMMA PassTuple ==
  ASSUME NEW r \in FlowRecords, NEW f \in Nat \ {0}, NEW s \in Nat \ {0}, NEW t \in Nat,
         IsPlace(r, f, s, t + 1)
  PROVE  /\ Reached(r, <<f, s, t + 1>>) = Reached(r, <<f, s, t>>) \cup {<<f, s, t + 1>>}
         /\ <<f, s, t + 1>> \notin Reached(r, <<f, s, t>>)
         /\ \A p \in Reached(r, <<f, s, t>>) : Before(p, <<f, s, t + 1>>)
  <1>1. ASSUME NEW a \in Nat \ {0}, NEW b \in Nat \ {0}, NEW c \in Nat \ {0}
        PROVE  UpTo(a, b, c, f, s, t + 1)
                 <=> (UpTo(a, b, c, f, s, t) \/ (a = f /\ b = s /\ c = t + 1))
        BY DEF UpTo
  <1>2. /\ t + 1 \in Nat \ {0} /\ f \in Nat /\ s \in Nat
        /\ ~UpTo(f, s, t + 1, f, s, t) /\ UpTo(f, s, t + 1, f, s, t + 1)
        BY DEF UpTo
  <1>3. <<f, s, t + 1>> \notin Reached(r, <<f, s, t>>)
        BY <1>2, ReachedAt
  <1>4. <<f, s, t + 1>> \in Reached(r, <<f, s, t + 1>>)
        BY <1>2, ReachedAt
  <1>5. ASSUME NEW p \in Reached(r, <<f, s, t>>)
        PROVE  p \in Reached(r, <<f, s, t + 1>>) /\ Before(p, <<f, s, t + 1>>)
        <2>1. PICK a, b, c \in Nat \ {0} :
                 p = <<a, b, c>> /\ IsPlace(r, a, b, c) /\ UpTo(a, b, c, f, s, t)
              BY <1>2, ReachedPlace
        <2>2. p \in Reached(r, <<f, s, t + 1>>)
              BY <1>1, <1>2, <2>1, ReachedAt
        <2>3. Before(<<a, b, c>>, <<f, s, t + 1>>)
              BY <2>1 DEF UpTo, Before
        <2> QED BY <2>1, <2>2, <2>3
  <1>6. ASSUME NEW p \in Reached(r, <<f, s, t + 1>>)
        PROVE  p \in Reached(r, <<f, s, t>>) \/ p = <<f, s, t + 1>>
        <2>1. PICK a, b, c \in Nat \ {0} :
                 p = <<a, b, c>> /\ IsPlace(r, a, b, c) /\ UpTo(a, b, c, f, s, t + 1)
              BY <1>2, ReachedPlace
        <2> QED BY <1>1, <1>2, <2>1, ReachedAt
  <1> QED BY <1>3, <1>4, <1>5, <1>6

\* At the end of the last flow, all is passed.
LEMMA PassAll ==
  ASSUME NEW r \in FlowRecords, NEW s \in Nat, NEW t \in Nat,
         Len(r.flows) > 0 => s >= Len(r.flows[Len(r.flows)].flows),
         Len(r.flows) > 0 /\ s > 0 => t >= Len(r.flows[Len(r.flows)].flows[s].tuples)
  PROVE  Reached(r, <<Len(r.flows), s, t>>) = Positions(r)
  <1> DEFINE f == Len(r.flows)
  <1>1. f \in Nat
        BY RecordTypes
  <1>2. Reached(r, <<f, s, t>>) = Reached(r, <<f + 1, 0, 0>>)
        BY <1>1, PassFlow
  <1>3. ASSUME NEW p \in Positions(r) PROVE p \in Reached(r, <<f + 1, 0, 0>>)
        <2>1. PICK a, b, c \in Nat \ {0} : p = <<a, b, c>> /\ IsPlace(r, a, b, c)
              BY PositionsFacts
        <2>2. UpTo(a, b, c, f + 1, 0, 0)
              BY <1>1, <2>1 DEF UpTo, IsPlace
        <2> QED BY <1>1, <2>1, <2>2, ReachedAt
  <1> QED BY <1>2, <1>3 DEF Reached

\* Nothing is passed at the start.
LEMMA PassNone ==
  ASSUME NEW r \in FlowRecords
  PROVE  Reached(r, <<0, 0, 0>>) = {}
  <1>1. ASSUME NEW p \in Reached(r, <<0, 0, 0>>) PROVE FALSE
        <2>1. PICK a, b, c \in Nat \ {0} :
                 p = <<a, b, c>> /\ IsPlace(r, a, b, c) /\ UpTo(a, b, c, 0, 0, 0)
              BY ReachedPlace
        <2> QED BY <2>1 DEF UpTo
  <1> QED BY <1>1

-----------------------------------------------------------------------------
(* Lists of events.                                                          *)

Held(s) == {<<s[i].record, s[i].at>> : i \in 1..Len(s)}
Precedes(e, f) == e.record < f.record \/ (e.record = f.record /\ Before(e.at, f.at))
Ordered(s) == \A i \in 1..(Len(s) - 1) : Precedes(s[i], s[i + 1])

LEMMA Joined ==
  ASSUME NEW s \in Seq(EventType), NEW t \in Seq(EventType), Ordered(s), Ordered(t),
         \A i \in 1..Len(s), j \in 1..Len(t) : Precedes(s[i], t[j])
  PROVE  /\ s \o t \in Seq(EventType)
         /\ Ordered(s \o t) /\ Held(s \o t) = Held(s) \cup Held(t)
  <1> DEFINE m == Len(s)
             n == Len(t)
             u == s \o t
  <1>1. /\ m \in Nat /\ n \in Nat /\ u \in Seq(EventType) /\ Len(u) = m + n
        /\ \A i \in 1..(m + n) : u[i] = IF i <= m THEN s[i] ELSE t[i - m]
        BY ConcatProperties
  <1> HIDE DEF m, n, u
  <1>2. \A i \in 1..m : u[i] = s[i]
        BY <1>1
  <1>3. \A j \in 1..n : u[m + j] = t[j] /\ m + j \in 1..(m + n)
        BY <1>1
  <1>4. \A i \in 1..(m + n) : i \in 1..m \/ \E j \in 1..n : i = m + j
        <2>1. ASSUME NEW i \in 1..(m + n), i \notin 1..m PROVE \E j \in 1..n : i = m + j
              <3>1. i - m \in 1..n /\ i = m + (i - m)
                    BY <1>1, <2>1
              <3> QED BY <3>1
        <2> QED BY <2>1
  <1>5. ASSUME NEW i \in 1..(m + n - 1) PROVE Precedes(u[i], u[i + 1])
        <2>1. CASE i < m
              <3>1. i \in 1..m /\ i + 1 \in 1..m /\ i \in 1..(m - 1)
                    BY <1>1, <2>1
              <3> QED BY <1>2, <3>1 DEF Ordered, m
        <2>2. CASE i = m
              <3>1. i \in 1..m /\ 1 \in 1..n /\ i + 1 = m + 1
                    BY <1>1, <2>2
              <3>2. u[i + 1] = t[1]
                    BY <1>3, <3>1
              <3> QED BY <1>2, <3>1, <3>2 DEF m, n
        <2>3. CASE i > m
              <3> DEFINE j == i - m
              <3>1. j \in 1..(n - 1) /\ j \in 1..n /\ j + 1 \in 1..n /\ i = m + j
                    /\ i + 1 = m + (j + 1)
                    BY <1>1, <2>3
              <3> HIDE DEF j
              <3>2. u[i] = t[j] /\ u[i + 1] = t[j + 1]
                    BY <1>3, <3>1
              <3> QED BY <3>1, <3>2 DEF Ordered, n
        <2> QED BY <1>1, <2>1, <2>2, <2>3
  <1>6. Ordered(u)
        BY <1>1, <1>5 DEF Ordered
  <1>7. ASSUME NEW h \in Held(u) PROVE h \in Held(s) \cup Held(t)
        <2>1. PICK i \in 1..(m + n) : h = <<u[i].record, u[i].at>>
              BY <1>1 DEF Held
        <2>2. CASE i \in 1..m
              <3>1. h = <<s[i].record, s[i].at>> /\ i \in 1..Len(s)
                    BY <1>2, <2>1, <2>2 DEF m
              <3> QED BY <3>1 DEF Held
        <2>3. CASE \E j \in 1..n : i = m + j
              <3>1. PICK j \in 1..n : i = m + j
                    BY <2>3
              <3>2. h = <<t[j].record, t[j].at>> /\ j \in 1..Len(t)
                    BY <1>3, <2>1, <3>1 DEF n
              <3> QED BY <3>2 DEF Held
        <2> QED BY <1>4, <2>2, <2>3
  <1>8. Held(s) \subseteq Held(u)
        <2>1. \A i \in 1..m : i \in 1..Len(u)
              BY <1>1
        <2> QED BY <1>2, <2>1 DEF Held, m
  <1>9. Held(t) \subseteq Held(u)
        <2>1. \A j \in 1..n : m + j \in 1..Len(u)
              BY <1>1, <1>3
        <2> QED BY <1>3, <2>1 DEF Held, n
  <1> QED BY <1>1, <1>6, <1>7, <1>8, <1>9 DEF u

LEMMA Single ==
  ASSUME NEW s \in Seq(EventType), NEW e \in EventType, Ordered(s),
         \A i \in 1..Len(s) : Precedes(s[i], e)
  PROVE  /\ Append(s, e) \in Seq(EventType) /\ Len(Append(s, e)) = Len(s) + 1
         /\ Ordered(Append(s, e)) /\ Held(Append(s, e)) = Held(s) \cup {<<e.record, e.at>>}
  <1> DEFINE t == <<e>>
  <1>1. /\ t \in Seq(EventType) /\ Len(t) = 1 /\ t[1] = e
        OBVIOUS
  <1>2. Ordered(t)
        <2>1. 1..(Len(t) - 1) = {}
              BY <1>1
        <2> QED BY <2>1 DEF Ordered
  <1>3. Held(t) = {<<e.record, e.at>>}
        <2>1. 1..Len(t) = {1}
              BY <1>1
        <2> QED BY <1>1, <2>1 DEF Held
  <1>4. /\ s \o t \in Seq(EventType) /\ Len(s \o t) = Len(s) + 1
        /\ \A i \in 1..(Len(s) + 1) : (s \o t)[i] = IF i <= Len(s) THEN s[i] ELSE t[i - Len(s)]
        BY <1>1, ConcatProperties
  <1>5. /\ Append(s, e) \in Seq(EventType) /\ Len(Append(s, e)) = Len(s) + 1
        /\ \A i \in 1..(Len(s) + 1) : Append(s, e)[i] = IF i <= Len(s) THEN s[i] ELSE e
        <2>1. Len(s) \in Nat
              OBVIOUS
        <2>2. \A i \in 1..(Len(s) + 1) : i <= Len(s) \/ i = Len(s) + 1
              BY <2>1
        <2> QED BY <2>1, <2>2, AppendProperties
  <1>6. Append(s, e) = s \o t
        <2>1. Len(s) \in Nat
              OBVIOUS
        <2>2. ASSUME NEW i \in 1..(Len(s) + 1) PROVE Append(s, e)[i] = (s \o t)[i]
              <3>1. i <= Len(s) \/ i - Len(s) = 1
                    BY <2>1
              <3> QED BY <1>1, <1>4, <1>5, <3>1
        <2> HIDE DEF t
        <2> QED BY <1>4, <1>5, <2>2, SeqEqual
  <1>7. \A i \in 1..Len(s), j \in 1..Len(t) : Precedes(s[i], t[j])
        BY <1>1
  <1> HIDE DEF t
  <1> QED BY <1>1, <1>2, <1>3, <1>5, <1>6, <1>7, Joined

-----------------------------------------------------------------------------
(* Types, and the page.                                                      *)

\* Where the client is in the page.
InPage ==
    /\ pc = "load" => page = <<>> /\ record = 1
    /\ pc = "flows" => record <= Len(page)

Typed == TypeOK /\ PageLoaded /\ InPage

LEMMA TypedInit == Init => Typed
  <1> SUFFICES ASSUME Init PROVE Typed
      OBVIOUS
  <1>1. /\ log \in Logs /\ page = <<>> /\ record = 1 /\ pc = "load"
        /\ flow = 0 /\ subFlow = 0 /\ tuple = 0
        /\ events = <<>> /\ errors = 0 /\ collected = <<>>
        BY DEF Init
  <1>2. \A S : <<>> \in Seq(S) /\ Len(<<>>) = 0
        OBVIOUS
  <1> QED BY <1>1, <1>2 DEF Typed, TypeOK, PageLoaded, InPage

LEMMA LoadPageTyped == Typed /\ LoadPage => Typed'
  <1> SUFFICES ASSUME Typed, LoadPage PROVE Typed'
      OBVIOUS
  <1>1. log \in Logs /\ log.later = 0 /\ log.lost = 0
        BY PayloadEnds DEF Typed, TypeOK, LoadPage
  <1>2. page' = Whole /\ pc' = "page" /\ log' = log
        BY <1>1, LoadedPage DEF LoadPage
  <1>3. page' \in Seq(RecordsOf(log'.kind))
        BY <1>1, <1>2, WholeType
  <1>4. record' = 1 /\ record' \in 1..(Len(page') + 1)
        <2>1. Len(page') \in Nat
              BY <1>3
        <2>2. record' = 1
              BY DEF LoadPage, Typed, InPage
        <2> QED BY <2>1, <2>2
  <1>5. TypeOK'
        <2> HIDE DEF Whole
        <2>1. UNCHANGED <<log, flow, subFlow, tuple, events, errors, collected>> /\ pc # "flows"
              BY DEF LoadPage
        <2> QED BY <1>2, <1>3, <1>4, <2>1 DEF Typed, TypeOK
  <1>6. PageLoaded'
        BY <1>1, <1>2 DEF PageLoaded, Whole
  <1>7. InPage'
        BY <1>2 DEF InPage
  <1> QED BY <1>5, <1>6, <1>7 DEF Typed

LEMMA LoadFailsTyped == Typed /\ LoadFails => Typed'
  <1> SUFFICES ASSUME Typed, LoadFails PROVE Typed'
      OBVIOUS
  <1>1. log \in Logs /\ log.later \in Nat /\ log.lost \in Nat
        BY LogFacts DEF Typed, TypeOK
  <1>2. ~(log.later = 0 /\ log.lost = 0)
        BY <1>1, PayloadFacts DEF LoadFails
  <1>3. page' = <<>> /\ log' = log /\ pc' = "done"
        BY DEF LoadFails, Typed, InPage
  <1>4. TypeOK'
        BY DEF LoadFails, Typed, TypeOK
  <1>5. PageLoaded'
        BY <1>1, <1>2, <1>3 DEF PageLoaded
  <1>6. InPage'
        BY <1>3 DEF InPage
  <1> QED BY <1>4, <1>5, <1>6 DEF Typed

\* After the loading, the page stays.
LEMMA SamePage ==
  ASSUME Typed, UNCHANGED <<log, page>>, pc # "load", pc' # "load",
         pc' = "flows" => record' <= Len(page), TypeOK'
  PROVE  Typed'
  BY DEF Typed, PageLoaded, InPage

\* A panic leaves nothing of the record.
LEMMA PanicTyped ==
  ASSUME Typed, UNCHANGED <<log, page>>, pc # "load", record <= Len(page), Panic
  PROVE  Typed'
  <1>1. /\ record' = record + 1 /\ pc' = "page" /\ flow' = 0 /\ subFlow' = 0 /\ tuple' = 0
        /\ events' = <<>> /\ errors' = 0 /\ collected' = collected
        BY DEF Panic, NextRecord, Forget
  <1>2. Len(page) \in Nat
        BY DEF Typed, TypeOK
  <1>3. record' \in 1..(Len(page') + 1)
        BY <1>1, <1>2 DEF Typed, TypeOK
  <1>4. TypeOK'
        BY <1>1, <1>3 DEF Typed, TypeOK
  <1> QED BY <1>1, <1>4, SamePage

LEMMA EventsTyped ==
  ASSUME Typed
  PROVE  /\ record \in Nat \ {0} /\ Len(page) \in Nat /\ record <= Len(page) + 1
         /\ \A dated \in BOOLEAN :
               /\ [record |-> record, at |-> <<0, 0, 0>>, dated |-> dated] \in EventType
               /\ [record |-> record, at |-> <<flow, subFlow, tuple + 1>>, dated |-> dated]
                     \in EventType
  <1>1. Len(page) \in Nat /\ record \in 1..(Len(page) + 1)
        BY DEF Typed, TypeOK
  <1>2. flow \in Nat /\ subFlow \in Nat /\ tuple + 1 \in Nat
        BY DEF Typed, TypeOK
  <1>3. record \in Nat \ {0} /\ record <= Len(page) + 1
        BY <1>1
  <1> QED BY <1>1, <1>2, <1>3 DEF EventType

LEMMA TypedNext == Typed /\ [Next]_vars => Typed'
  <1> SUFFICES ASSUME Typed, [Next]_vars PROVE Typed'
      OBVIOUS
  <1>1. CASE LoadPage
        BY <1>1, LoadPageTyped
  <1>2. CASE LoadFails
        BY <1>2, LoadFailsTyped
  <1>3. CASE SkipRecord
        <2>1. TypeOK'
              <3>1. record' \in 1..(Len(page') + 1)
                    BY <1>3, EventsTyped DEF SkipRecord, AtRecord, NextRecord
              <3> QED BY <1>3, <3>1 DEF SkipRecord, AtRecord, NextRecord, Typed, TypeOK
        <2> QED BY <1>3, <2>1, SamePage DEF SkipRecord, AtRecord, NextRecord
  <1>4. CASE ConvertGateway
        <2>1. pc = "page" /\ record <= Len(page) /\ UNCHANGED <<log, page>>
              BY <1>4 DEF ConvertGateway, AtRecord
        <2>2. CASE Panic
              BY <2>1, <2>2, PanicTyped
        <2>3. CASE Current.complete
              <3> DEFINE e == [record |-> record, at |-> <<0, 0, 0>>, dated |-> TRUE]
              <3>1. /\ collected' = Append(collected, e) /\ record' = record + 1 /\ pc' = "page"
                    /\ UNCHANGED <<flow, subFlow, tuple, events, errors>>
                    BY <1>4, <2>3 DEF ConvertGateway, NextRecord
              <3>2. e \in EventType
                    BY EventsTyped
              <3> HIDE DEF e
              <3>3. collected' \in Seq(EventType)
                    BY <3>1, <3>2, AppendProperties DEF Typed, TypeOK
              <3>4. record' \in 1..(Len(page') + 1)
                    BY <2>1, <3>1, EventsTyped
              <3>5. TypeOK'
                    BY <2>1, <3>1, <3>3, <3>4 DEF Typed, TypeOK
              <3> QED BY <2>1, <3>1, <3>5, SamePage
        <2> QED BY <1>4, <2>2, <2>3 DEF ConvertGateway
  <1>5. CASE EnterFlows
        <2>1. pc = "page" /\ record <= Len(page) /\ UNCHANGED <<log, page>>
              BY <1>5 DEF EnterFlows, AtRecord
        <2>2. CASE Panic
              BY <2>1, <2>2, PanicTyped
        <2>3. CASE Current.listed
              <3>1. /\ pc' = "flows"
                    /\ UNCHANGED <<record, flow, subFlow, tuple, events, errors, collected>>
                    BY <1>5, <2>3 DEF EnterFlows
              <3>2. TypeOK'
                    BY <2>1, <3>1 DEF Typed, TypeOK
              <3> QED BY <2>1, <3>1, <3>2, SamePage
        <2> QED BY <1>5, <2>2, <2>3 DEF EnterFlows
  <1>6. CASE NextFlow
        <2>1. pc = "flows" /\ record <= Len(page) /\ UNCHANGED <<log, page>>
              BY <1>6 DEF NextFlow, Typed, InPage
        <2>2. CASE Panic
              BY <2>1, <2>2, PanicTyped
        <2>3. CASE Current.flows[flow + 1].rule
              <3>1. /\ flow' = flow + 1 /\ subFlow' = 0 /\ tuple' = 0
                    /\ UNCHANGED <<record, events, errors, collected, pc>>
                    BY <1>6, <2>3 DEF NextFlow
              <3>2. TypeOK'
                    BY <2>1, <3>1 DEF Typed, TypeOK
              <3> QED BY <2>1, <3>1, <3>2, SamePage
        <2> QED BY <1>6, <2>2, <2>3 DEF NextFlow
  <1>7. CASE NextSubFlow
        <2>1. pc = "flows" /\ record <= Len(page) /\ UNCHANGED <<log, page>>
              BY <1>7 DEF NextSubFlow, Typed, InPage
        <2>2. CASE Panic
              BY <2>1, <2>2, PanicTyped
        <2>3. CASE TheFlow.flows[subFlow + 1].listed
              <3>1. /\ subFlow' = subFlow + 1 /\ tuple' = 0
                    /\ UNCHANGED <<record, flow, events, errors, collected, pc>>
                    BY <1>7, <2>3 DEF NextSubFlow
              <3>2. TypeOK'
                    BY <2>1, <3>1 DEF Typed, TypeOK
              <3> QED BY <2>1, <3>1, <3>2, SamePage
        <2> QED BY <1>7, <2>2, <2>3 DEF NextSubFlow
  <1>8. CASE ShortTuple
        <2>1. /\ pc = "flows" /\ record <= Len(page) /\ UNCHANGED <<log, page>>
              /\ errors' = errors + 1 /\ tuple' = tuple + 1
              /\ UNCHANGED <<record, flow, subFlow, events, collected, pc>>
              BY <1>8 DEF ShortTuple, AtTuple, Typed, InPage
        <2>2. TypeOK'
              BY <2>1 DEF Typed, TypeOK
        <2> QED BY <2>1, <2>2, SamePage
  <1>9. CASE ConvertTuple
        <2> DEFINE e == [record |-> record, at |-> <<flow, subFlow, tuple + 1>>,
                         dated |-> TheTuple = "full"]
        <2>1. /\ pc = "flows" /\ record <= Len(page) /\ UNCHANGED <<log, page>>
              /\ events' = Append(events, e) /\ tuple' = tuple + 1
              /\ errors' \in {errors, errors + 1}
              /\ UNCHANGED <<record, flow, subFlow, collected, pc>>
              BY <1>9 DEF ConvertTuple, AtTuple, Typed, InPage
        <2>2. e \in EventType
              BY EventsTyped
        <2> HIDE DEF e
        <2>3. events' \in Seq(EventType)
              BY <2>1, <2>2, AppendProperties DEF Typed, TypeOK
        <2>4. TypeOK'
              BY <2>1, <2>3 DEF Typed, TypeOK
        <2> QED BY <2>1, <2>4, SamePage
  <1>10. CASE TuplePanics
        <2>1. pc = "flows" /\ record <= Len(page) /\ UNCHANGED <<log, page>> /\ Panic
              BY <1>10 DEF TuplePanics, AtTuple, Typed, InPage
        <2> QED BY <2>1, PanicTyped
  <1>11. CASE ReturnEvents
        <2>1. /\ pc = "flows" /\ record <= Len(page) /\ UNCHANGED <<log, page>>
              /\ record' = record + 1 /\ pc' = "page" /\ flow' = 0 /\ subFlow' = 0 /\ tuple' = 0
              /\ events' = <<>> /\ errors' = 0 /\ collected' = collected \o events
              BY <1>11 DEF ReturnEvents, NextRecord, Forget, Typed, InPage
        <2>2. record' \in 1..(Len(page') + 1)
              BY <2>1, EventsTyped
        <2>3. collected' \in Seq(EventType)
              BY <2>1, ConcatProperties DEF Typed, TypeOK
        <2>4. TypeOK'
              BY <2>1, <2>2, <2>3 DEF Typed, TypeOK
        <2> QED BY <2>1, <2>4, SamePage
  <1>12. CASE Finish
        <2>1. TypeOK'
              BY <1>12 DEF Finish, Typed, TypeOK
        <2> QED BY <1>12, <2>1, SamePage DEF Finish
  <1>13. CASE UNCHANGED vars
        <2>1. UNCHANGED <<log, page, record, flow, subFlow, tuple, events, errors,
                          collected, pc>>
              BY <1>13 DEF vars
        <2> QED BY <2>1 DEF Typed, TypeOK, PageLoaded, InPage
  <1> QED BY <1>1, <1>2, <1>3, <1>4, <1>5, <1>6, <1>7, <1>8, <1>9, <1>10, <1>11, <1>12,
             <1>13 DEF Next

\* Every variable has its type, and between records nothing is left of a conversion:
\* what a panic interrupts is gone.
THEOREM TypeCorrect == Spec => []TypeOK
  <1>1. Typed => TypeOK
        BY DEF Typed
  <1> QED BY <1>1, TypedInit, TypedNext, PTL DEF Spec

\* The client never converts a part of a page.  Whatever was appended since the
\* listing and wherever the answer ends, either the records between the checkpoint and
\* the listing are all there, in order, or the JSON parser fails and there is none; and
\* of a gateway log only the first has lost the operation before its time.
THEOREM PageWhole == Spec => []PageLoaded
  <1>1. Typed => PageLoaded
        BY DEF Typed
  <1> QED BY <1>1, TypedInit, TypedNext, PTL DEF Spec

-----------------------------------------------------------------------------
(* The loops.                                                                *)

\* The cursor is inside the record ...
CursorIn(r, f, s, t) ==
    /\ f <= Len(r.flows)
    /\ f = 0 => s = 0
    /\ s = 0 => t = 0
    /\ f > 0 => s <= Len(r.flows[f].flows)
    /\ s > 0 => t <= Len(r.flows[f].flows[s].tuples)

\* ... nothing up to it makes the conversion panic ...
Harmless(r, p) ==
    TupleAt(r, p) # "alien" /\ (TupleAt(r, p) # "short" => SubFlowAt(r, p).mac)

SaneUpTo(r, f, s, t) ==
    /\ \A a \in 1..f :
          /\ r.flows[a].rule
          /\ \A b \in 1..Len(r.flows[a].flows) :
                a < f \/ b <= s => r.flows[a].flows[b].listed
    /\ \A p \in Reached(r, <<f, s, t>>) : Harmless(r, p)

Kept == {"full", "undated"}
Faulty == {"undated", "short"}

\* ... and of the tuples up to it, the list has each that is kept, once and in order,
\* and the faulty ones are counted.
Tally(r, i, c, list, count) ==
    /\ IsFiniteSet(Of(r, c, Kept)) /\ Len(list) = Cardinality(Of(r, c, Kept))
    /\ IsFiniteSet(Of(r, c, Faulty)) /\ count = Cardinality(Of(r, c, Faulty))
    /\ Held(list) = {<<i, p>> : p \in Of(r, c, Kept)}
    /\ Ordered(list)

Loops ==
    pc = "flows" =>
        /\ IsFlow /\ Current.late /\ Current.listed
        /\ CursorIn(Current, flow, subFlow, tuple)
        /\ SaneUpTo(Current, flow, subFlow, tuple)
        /\ Tally(Current, record, <<flow, subFlow, tuple>>, events, errors)

LEMMA TallySame ==
  ASSUME NEW r, NEW i, NEW c, NEW d, NEW list, NEW count,
         Reached(r, c) = Reached(r, d), Tally(r, i, d, list, count)
  PROVE  Tally(r, i, c, list, count)
  <1>1. \A kinds : Of(r, c, kinds) = Of(r, d, kinds)
        BY DEF Of
  <1> QED BY <1>1 DEF Tally

LEMMA TallyNone ==
  ASSUME NEW r \in FlowRecords, NEW i
  PROVE  Tally(r, i, <<0, 0, 0>>, <<>>, 0)
  <1>1. \A kinds : Of(r, <<0, 0, 0>>, kinds) = {}
        BY PassNone DEF Of
  <1>2. IsFiniteSet({}) /\ Cardinality({}) = 0
        BY FS_EmptySet
  <1>3. Held(<<>>) = {} /\ Ordered(<<>>) /\ Len(<<>>) = 0
        BY DEF Held, Ordered
  <1> QED BY <1>1, <1>2, <1>3 DEF Tally

\* One more tuple behind, of the kinds or not.
LEMMA OfTaken ==
  ASSUME NEW r \in FlowRecords, NEW f \in Nat \ {0}, NEW s \in Nat \ {0}, NEW t \in Nat,
         IsPlace(r, f, s, t + 1), NEW kinds, TupleAt(r, <<f, s, t + 1>>) \in kinds,
         IsFiniteSet(Of(r, <<f, s, t>>, kinds))
  PROVE  /\ Of(r, <<f, s, t + 1>>, kinds) = Of(r, <<f, s, t>>, kinds) \cup {<<f, s, t + 1>>}
         /\ IsFiniteSet(Of(r, <<f, s, t + 1>>, kinds))
         /\ Cardinality(Of(r, <<f, s, t + 1>>, kinds))
              = Cardinality(Of(r, <<f, s, t>>, kinds)) + 1
  <1> DEFINE p == <<f, s, t + 1>>
             old == Of(r, <<f, s, t>>, kinds)
  <1>1. /\ Reached(r, p) = Reached(r, <<f, s, t>>) \cup {p}
        /\ p \notin Reached(r, <<f, s, t>>)
        BY PassTuple
  <1>2. Of(r, p, kinds) = old \cup {p} /\ p \notin old
        BY <1>1 DEF Of
  <1>3. IsFiniteSet(old \cup {p}) /\ Cardinality(old \cup {p}) = Cardinality(old) + 1
        BY <1>2, FS_AddElement
  <1> QED BY <1>2, <1>3

LEMMA OfPassed ==
  ASSUME NEW r \in FlowRecords, NEW f \in Nat \ {0}, NEW s \in Nat \ {0}, NEW t \in Nat,
         IsPlace(r, f, s, t + 1), NEW kinds, TupleAt(r, <<f, s, t + 1>>) \notin kinds
  PROVE  Of(r, <<f, s, t + 1>>, kinds) = Of(r, <<f, s, t>>, kinds)
  <1>1. Reached(r, <<f, s, t + 1>>) = Reached(r, <<f, s, t>>) \cup {<<f, s, t + 1>>}
        BY PassTuple
  <1> QED BY <1>1 DEF Of

LEMMA TallyShort ==
  ASSUME NEW r \in FlowRecords, NEW f \in Nat \ {0}, NEW s \in Nat \ {0}, NEW t \in Nat,
         IsPlace(r, f, s, t + 1), TupleAt(r, <<f, s, t + 1>>) = "short",
         NEW i, NEW list, NEW count, Tally(r, i, <<f, s, t>>, list, count)
  PROVE  Tally(r, i, <<f, s, t + 1>>, list, count + 1)
  <1>1. TupleAt(r, <<f, s, t + 1>>) \notin Kept /\ TupleAt(r, <<f, s, t + 1>>) \in Faulty
        BY DEF Kept, Faulty
  <1>2. IsFiniteSet(Of(r, <<f, s, t>>, Faulty))
        BY DEF Tally
  <1>3. Of(r, <<f, s, t + 1>>, Kept) = Of(r, <<f, s, t>>, Kept)
        BY <1>1, OfPassed
  <1>4. /\ IsFiniteSet(Of(r, <<f, s, t + 1>>, Faulty))
        /\ Cardinality(Of(r, <<f, s, t + 1>>, Faulty))
             = Cardinality(Of(r, <<f, s, t>>, Faulty)) + 1
        BY <1>1, <1>2, OfTaken
  <1> QED BY <1>3, <1>4 DEF Tally

LEMMA TallyKept ==
  ASSUME NEW r \in FlowRecords, NEW f \in Nat \ {0}, NEW s \in Nat \ {0}, NEW t \in Nat,
         IsPlace(r, f, s, t + 1), TupleAt(r, <<f, s, t + 1>>) \in Kept,
         NEW i \in Nat \ {0}, NEW list \in Seq(EventType), NEW count,
         Tally(r, i, <<f, s, t>>, list, count), NEW dated \in BOOLEAN
  PROVE  Tally(r, i, <<f, s, t + 1>>,
               Append(list, [record |-> i, at |-> <<f, s, t + 1>>, dated |-> dated]),
               IF TupleAt(r, <<f, s, t + 1>>) = "undated" THEN count + 1 ELSE count)
  <1> DEFINE p == <<f, s, t + 1>>
             e == [record |-> i, at |-> p, dated |-> dated]
             old == Of(r, <<f, s, t>>, Kept)
             more == IF TupleAt(r, p) = "undated" THEN count + 1 ELSE count
  <1>1. /\ Of(r, p, Kept) = old \cup {p} /\ IsFiniteSet(Of(r, p, Kept))
        /\ Cardinality(Of(r, p, Kept)) = Cardinality(old) + 1
        <2>1. IsFiniteSet(old)
              BY DEF Tally
        <2> QED BY <2>1, OfTaken, SMTT(30)
  <1>2. TupleAt(r, p) \in Faulty <=> TupleAt(r, p) = "undated"
        BY DEF Kept, Faulty
  <1>3. /\ IsFiniteSet(Of(r, p, Faulty))
        /\ more = Cardinality(Of(r, p, Faulty))
        <2>1. /\ IsFiniteSet(Of(r, <<f, s, t>>, Faulty))
              /\ count = Cardinality(Of(r, <<f, s, t>>, Faulty))
              BY DEF Tally
        <2>2. CASE TupleAt(r, p) \in Faulty
              <3>1. /\ IsFiniteSet(Of(r, p, Faulty))
                    /\ Cardinality(Of(r, p, Faulty))
                         = Cardinality(Of(r, <<f, s, t>>, Faulty)) + 1
                    BY <2>1, <2>2, OfTaken, SMTT(30)
              <3> QED BY <1>2, <2>1, <2>2, <3>1
        <2>3. CASE TupleAt(r, p) \notin Faulty
              <3>1. Of(r, p, Faulty) = Of(r, <<f, s, t>>, Faulty)
                    BY <2>3, OfPassed
              <3> QED BY <1>2, <2>1, <2>3, <3>1
        <2> QED BY <2>2, <2>3
  <1>4. e \in EventType /\ e.record = i /\ e.at = p
        <2>1. f \in Nat /\ s \in Nat /\ t + 1 \in Nat
              OBVIOUS
        <2> QED BY <2>1 DEF EventType
  <1>5. ASSUME NEW j \in 1..Len(list) PROVE Precedes(list[j], e)
        <2>1. <<list[j].record, list[j].at>> \in Held(list)
              BY DEF Held
        <2>2. <<list[j].record, list[j].at>> \in {<<i, q>> : q \in old}
              BY <2>1 DEF Tally
        <2>3. PICK q \in old : <<list[j].record, list[j].at>> = <<i, q>>
              BY <2>2
        <2>4. list[j].record = i /\ list[j].at \in Reached(r, <<f, s, t>>)
              BY <2>3 DEF Of
        <2>5. Before(list[j].at, p)
              BY <2>4, PassTuple
        <2> QED BY <1>4, <2>4, <2>5 DEF Precedes
  <1>6. Ordered(list) /\ Len(list) = Cardinality(old) /\ Held(list) = {<<i, q>> : q \in old}
        BY DEF Tally
  <1> DEFINE longer == Append(list, e)
  <1> HIDE DEF e, more, p, old
  <1>7. /\ Ordered(Append(list, e)) /\ Len(Append(list, e)) = Len(list) + 1
        /\ Held(Append(list, e)) = Held(list) \cup {<<i, p>>}
        BY <1>4, <1>5, <1>6, Single
  <1>8. {<<i, q>> : q \in old \cup {p}} = {<<i, q>> : q \in old} \cup {<<i, p>>}
        OBVIOUS
  <1>9. Held(longer) = {<<i, q>> : q \in Of(r, p, Kept)}
        BY <1>1, <1>6, <1>7, <1>8
  <1>10. Len(longer) = Cardinality(Of(r, p, Kept)) /\ Ordered(longer)
        BY <1>1, <1>6, <1>7
  <1>11. Tally(r, i, p, longer, more)
        <2> HIDE DEF longer
        <2> QED BY <1>1, <1>3, <1>9, <1>10, ZenonT(30) DEF Tally
  <1> QED BY <1>11 DEF e, p, more

LEMMA StepFlow ==
  ASSUME NEW r \in FlowRecords, NEW f \in Nat, NEW s \in Nat, NEW t \in Nat,
         f > 0 => s >= Len(r.flows[f].flows),
         f > 0 /\ s > 0 => t >= Len(r.flows[f].flows[s].tuples),
         f < Len(r.flows), r.flows[f + 1].rule, SaneUpTo(r, f, s, t)
  PROVE  CursorIn(r, f + 1, 0, 0) /\ SaneUpTo(r, f + 1, 0, 0)
  <1>1. /\ f + 1 \in 1..Len(r.flows) /\ Len(r.flows) \in Nat
        /\ \A a \in 1..Len(r.flows) : Len(r.flows[a].flows) \in Nat
        BY RecordTypes, SMTT(30)
  <1>2. Reached(r, <<f + 1, 0, 0>>) = Reached(r, <<f, s, t>>)
        BY PassFlow
  <1>3. ASSUME NEW a \in 1..(f + 1)
        PROVE  /\ r.flows[a].rule
               /\ \A b \in 1..Len(r.flows[a].flows) :
                     a < f + 1 \/ b <= 0 => r.flows[a].flows[b].listed
        <2>1. CASE a = f + 1
              BY <1>1, <2>1
        <2>2. CASE a # f + 1
              <3>1. a \in 1..f /\ a \in 1..Len(r.flows)
                    BY <1>1, <2>2
              <3>2. \A b \in 1..Len(r.flows[a].flows) : a < f \/ b <= s
                    BY <1>1, <3>1
              <3> QED BY <3>1, <3>2 DEF SaneUpTo
        <2> QED BY <2>1, <2>2
  <1>4. CursorIn(r, f + 1, 0, 0)
        BY <1>1 DEF CursorIn
  <1> QED BY <1>2, <1>3, <1>4 DEF SaneUpTo

LEMMA StepSubFlow ==
  ASSUME NEW r \in FlowRecords, NEW f \in Nat \ {0}, NEW s \in Nat, NEW t \in Nat,
         s > 0 => t >= Len(r.flows[f].flows[s].tuples),
         f <= Len(r.flows), s < Len(r.flows[f].flows), r.flows[f].flows[s + 1].listed,
         SaneUpTo(r, f, s, t)
  PROVE  CursorIn(r, f, s + 1, 0) /\ SaneUpTo(r, f, s + 1, 0)
  <1>1. /\ f \in 1..Len(r.flows) /\ Len(r.flows[f].flows) \in Nat
        /\ s + 1 \in 1..Len(r.flows[f].flows)
        /\ Len(r.flows[f].flows[s + 1].tuples) \in Nat
        <2>1. f \in 1..Len(r.flows)
              <3>1. Len(r.flows) \in Nat
                    BY RecordTypes
              <3> QED BY <3>1
        <2>2. Len(r.flows[f].flows) \in Nat
              BY <2>1, RecordTypes
        <2>3. s + 1 \in 1..Len(r.flows[f].flows)
              BY <2>2
        <2> QED BY <2>1, <2>2, <2>3, RecordTypes
  <1>2. Reached(r, <<f, s + 1, 0>>) = Reached(r, <<f, s, t>>)
        BY PassSubFlow
  <1>3. ASSUME NEW a \in 1..f, NEW b \in 1..Len(r.flows[a].flows), a < f \/ b <= s + 1
        PROVE  r.flows[a].flows[b].listed
        <2>1. CASE a < f \/ b <= s
              BY <2>1 DEF SaneUpTo
        <2>2. CASE a = f /\ b = s + 1
              BY <2>2
        <2>3. Len(r.flows[a].flows) \in Nat
              <3>1. a \in 1..Len(r.flows)
                    BY <1>1
              <3> QED BY <3>1, RecordTypes
        <2>4. a < f \/ b <= s \/ (a = f /\ b = s + 1)
              BY <1>3, <2>3
        <2> QED BY <2>1, <2>2, <2>4
  <1>4. CursorIn(r, f, s + 1, 0)
        BY <1>1 DEF CursorIn
  <1> QED BY <1>2, <1>3, <1>4 DEF SaneUpTo

LEMMA StepTuple ==
  ASSUME NEW r \in FlowRecords, NEW f \in Nat \ {0}, NEW s \in Nat \ {0}, NEW t \in Nat,
         IsPlace(r, f, s, t + 1), SaneUpTo(r, f, s, t), Harmless(r, <<f, s, t + 1>>)
  PROVE  CursorIn(r, f, s, t + 1) /\ SaneUpTo(r, f, s, t + 1)
  <1>1. CursorIn(r, f, s, t + 1)
        BY RecordTypes DEF CursorIn, IsPlace
  <1>2. /\ Reached(r, <<f, s, t + 1>>) = Reached(r, <<f, s, t>>) \cup {<<f, s, t + 1>>}
        /\ <<f, s, t + 1>> \notin Reached(r, <<f, s, t>>)
        /\ \A p \in Reached(r, <<f, s, t>>) : Before(p, <<f, s, t + 1>>)
        BY PassTuple, Zenon
  <1> QED BY <1>1, <1>2 DEF SaneUpTo

LEMMA CurrentFlow ==
  ASSUME Typed, record <= Len(page), IsFlow
  PROVE  Current \in FlowRecords
  <1>1. /\ page \in Seq(RecordsOf(log.kind)) /\ record \in 1..Len(page) /\ log.kind \in Kinds
        BY EventsTyped, LogFacts DEF Typed, TypeOK
  <1>2. Current \in RecordsOf(log.kind)
        BY <1>1, ElementOfSeq DEF Current
  <1>3. CASE log.kind = "nsg"
        BY <1>2, <1>3 DEF RecordsOf, NsgRecords, OtherRecords, IsFlow
  <1>4. CASE log.kind = "access"
        BY <1>2, <1>4 DEF RecordsOf, AccessRecords, OtherRecords, IsFlow
  <1>5. CASE log.kind = "firewall"
        BY <1>2, <1>5 DEF RecordsOf, FirewallRecords, OtherRecords, IsFlow
  <1> QED BY <1>1, <1>3, <1>4, <1>5 DEF Kinds

\* In the loops, with what the guards of the steps say.
LEMMA LoopFacts ==
  ASSUME Typed, Loops, pc = "flows"
  PROVE  /\ Current \in FlowRecords /\ record \in Nat \ {0} /\ record <= Len(page)
         /\ flow \in Nat /\ subFlow \in Nat /\ tuple \in Nat
         /\ IsFlow /\ Current.late /\ Current.listed
         /\ CursorIn(Current, flow, subFlow, tuple)
         /\ SaneUpTo(Current, flow, subFlow, tuple)
         /\ Tally(Current, record, <<flow, subFlow, tuple>>, events, errors)
         /\ SubFlowsLeft <=> flow > 0 /\ subFlow < Len(Current.flows[flow].flows)
         /\ TuplesLeft =>
              flow > 0 /\ subFlow > 0 /\ IsPlace(Current, flow, subFlow, tuple + 1)
         /\ ~TuplesLeft => (flow > 0 /\ subFlow > 0 =>
                              tuple >= Len(Current.flows[flow].flows[subFlow].tuples))
         /\ ~SubFlowsLeft => (flow > 0 => subFlow >= Len(Current.flows[flow].flows))
         /\ TheTuple = TupleAt(Current, <<flow, subFlow, tuple + 1>>)
         /\ TheSubFlow = SubFlowAt(Current, <<flow, subFlow, tuple + 1>>)
  <1>1. record \in Nat \ {0} /\ record <= Len(page)
        BY EventsTyped DEF Typed, InPage
  <1>2. /\ IsFlow /\ Current.late /\ Current.listed
        /\ CursorIn(Current, flow, subFlow, tuple)
        /\ SaneUpTo(Current, flow, subFlow, tuple)
        /\ Tally(Current, record, <<flow, subFlow, tuple>>, events, errors)
        BY DEF Loops
  <1>3. Current \in FlowRecords
        BY <1>1, <1>2, CurrentFlow
  <1>4. flow \in Nat /\ subFlow \in Nat /\ tuple \in Nat
        BY DEF Typed, TypeOK
  <1>5. TheTuple = TupleAt(Current, <<flow, subFlow, tuple + 1>>)
        /\ TheSubFlow = SubFlowAt(Current, <<flow, subFlow, tuple + 1>>)
        BY DEF TheTuple, TheSubFlow, TheFlow, TupleAt, SubFlowAt
  <1>6. SubFlowsLeft <=> flow > 0 /\ subFlow < Len(Current.flows[flow].flows)
        BY DEF SubFlowsLeft, InFlow, TheFlow
  <1>7. TuplesLeft <=> subFlow > 0 /\ tuple < Len(Current.flows[flow].flows[subFlow].tuples)
        BY DEF TuplesLeft, InSubFlow, TheSubFlow, TheFlow
  <1>8. Len(Current.flows) \in Nat
        BY <1>3, RecordTypes
  <1>9. flow > 0 => flow \in 1..Len(Current.flows) /\ Len(Current.flows[flow].flows) \in Nat
        BY <1>2, <1>3, <1>4, <1>8, RecordTypes DEF CursorIn
  <1>10. flow > 0 /\ subFlow > 0 =>
           /\ subFlow \in 1..Len(Current.flows[flow].flows)
           /\ Len(Current.flows[flow].flows[subFlow].tuples) \in Nat
        <2>1. flow > 0 /\ subFlow > 0 => subFlow \in 1..Len(Current.flows[flow].flows)
              BY <1>2, <1>4, <1>9 DEF CursorIn
        <2> QED BY <1>3, <1>9, <2>1, RecordTypes
  <1>11. subFlow > 0 => flow > 0
        BY <1>2, <1>4 DEF CursorIn
  <1>12. TuplesLeft =>
           flow > 0 /\ subFlow > 0 /\ IsPlace(Current, flow, subFlow, tuple + 1)
        BY <1>4, <1>7, <1>9, <1>10, <1>11 DEF IsPlace
  <1>13. ~TuplesLeft => (flow > 0 /\ subFlow > 0 =>
                          tuple >= Len(Current.flows[flow].flows[subFlow].tuples))
        <2> DEFINE l == Len(Current.flows[flow].flows[subFlow].tuples)
        <2>1. /\ TuplesLeft <=> subFlow > 0 /\ tuple < l
              /\ flow > 0 /\ subFlow > 0 => l \in Nat
              BY <1>7, <1>10
        <2> HIDE DEF l
        <2>2. ~TuplesLeft => (flow > 0 /\ subFlow > 0 => tuple >= l)
              BY <1>4, <2>1
        <2> QED BY <2>2 DEF l
  <1>14. ~SubFlowsLeft => (flow > 0 => subFlow >= Len(Current.flows[flow].flows))
        BY <1>4, <1>6, <1>9
  <1> QED BY <1>1, <1>2, <1>3, <1>4, <1>5, <1>6, <1>12, <1>13, <1>14

\* The record does not change while the loops go through it.
LEMMA SameLoops ==
  ASSUME Typed, Loops, pc = "flows", UNCHANGED <<page, record, pc>>,
         CursorIn(Current, flow', subFlow', tuple'),
         SaneUpTo(Current, flow', subFlow', tuple'),
         Tally(Current, record, <<flow', subFlow', tuple'>>, events', errors')
  PROVE  Loops'
  <1>1. Current' = Current /\ (IsFlow' <=> IsFlow)
        BY DEF Current, IsFlow
  <1>2. IsFlow /\ Current.late /\ Current.listed
        BY DEF Loops
  <1> QED BY <1>1, <1>2 DEF Loops

LEMMA LoopsNext == Typed /\ Loops /\ [Next]_vars => Loops'
  <1> SUFFICES ASSUME Typed, Loops, [Next]_vars PROVE Loops'
      OBVIOUS
  <1> DEFINE r == Current
  <1>1. CASE LoadPage \/ LoadFails \/ SkipRecord \/ ConvertGateway \/ ReturnEvents \/ Finish
        <2>1. pc' # "flows"
              BY <1>1 DEF LoadPage, LoadFails, SkipRecord, ConvertGateway, ReturnEvents, Finish,
                          Panic, NextRecord
        <2> QED BY <2>1 DEF Loops
  <1>2. CASE Panic
        BY <1>2 DEF Panic, NextRecord, Loops
  <1>3. CASE EnterFlows
        <2>1. CASE r.listed
              <3>1. /\ pc' = "flows" /\ pc = "page" /\ record <= Len(page) /\ IsFlow /\ r.late
                    /\ UNCHANGED <<page, record, flow, subFlow, tuple, events, errors>>
                    BY <1>3, <2>1 DEF EnterFlows, AtRecord
              <3>2. flow = 0 /\ subFlow = 0 /\ tuple = 0 /\ events = <<>> /\ errors = 0
                    BY <3>1 DEF Typed, TypeOK
              <3>3. r \in FlowRecords
                    BY <3>1, CurrentFlow
              <3>4. CursorIn(r, 0, 0, 0)
                    BY <3>3, RecordTypes DEF CursorIn
              <3>5. SaneUpTo(r, 0, 0, 0)
                    BY <3>3, PassNone DEF SaneUpTo
              <3>6. Tally(r, record, <<0, 0, 0>>, <<>>, 0)
                    BY <3>3, TallyNone
              <3>7. Current' = r /\ (IsFlow' <=> IsFlow)
                    BY <3>1 DEF Current, IsFlow
              <3> HIDE DEF r
              <3> QED BY <2>1, <3>1, <3>2, <3>4, <3>5, <3>6, <3>7 DEF Loops, r
        <2> QED BY <1>2, <1>3, <2>1 DEF EnterFlows
  <1>4. CASE NextFlow
        <2>1. CASE r.flows[flow + 1].rule
              <3>1. /\ pc = "flows" /\ ~TuplesLeft /\ ~SubFlowsLeft /\ flow < Len(r.flows)
                    /\ flow' = flow + 1 /\ subFlow' = 0 /\ tuple' = 0
                    /\ UNCHANGED <<page, record, events, errors, pc>>
                    BY <1>4, <2>1 DEF NextFlow
              <3>2. /\ r \in FlowRecords /\ flow \in Nat /\ subFlow \in Nat /\ tuple \in Nat
                    /\ flow > 0 => subFlow >= Len(r.flows[flow].flows)
                    /\ flow > 0 /\ subFlow > 0 => tuple >= Len(r.flows[flow].flows[subFlow].tuples)
                    /\ SaneUpTo(r, flow, subFlow, tuple)
                    /\ Tally(r, record, <<flow, subFlow, tuple>>, events, errors)
                    BY <3>1, LoopFacts
              <3> HIDE DEF r
              <3>3. CursorIn(r, flow + 1, 0, 0) /\ SaneUpTo(r, flow + 1, 0, 0)
                    BY <2>1, <3>1, <3>2, StepFlow
              <3>4. Reached(r, <<flow + 1, 0, 0>>) = Reached(r, <<flow, subFlow, tuple>>)
                    BY <3>2, PassFlow
              <3>5. Tally(r, record, <<flow + 1, 0, 0>>, events, errors)
                    BY <3>2, <3>4, TallySame
              <3> QED BY <3>1, <3>3, <3>5, SameLoops DEF r
        <2> QED BY <1>2, <1>4, <2>1 DEF NextFlow
  <1>5. CASE NextSubFlow
        <2>1. CASE TheFlow.flows[subFlow + 1].listed
              <3>1. /\ pc = "flows" /\ ~TuplesLeft /\ SubFlowsLeft
                    /\ flow' = flow /\ subFlow' = subFlow + 1 /\ tuple' = 0
                    /\ UNCHANGED <<page, record, events, errors, pc>>
                    BY <1>5, <2>1 DEF NextSubFlow
              <3>2. /\ r \in FlowRecords /\ flow \in Nat \ {0} /\ subFlow \in Nat /\ tuple \in Nat
                    /\ subFlow > 0 => tuple >= Len(r.flows[flow].flows[subFlow].tuples)
                    /\ subFlow < Len(r.flows[flow].flows)
                    /\ CursorIn(r, flow, subFlow, tuple)
                    /\ SaneUpTo(r, flow, subFlow, tuple)
                    /\ Tally(r, record, <<flow, subFlow, tuple>>, events, errors)
                    BY <3>1, LoopFacts
              <3>3. r.flows[flow].flows[subFlow + 1].listed /\ flow <= Len(r.flows)
                    BY <2>1, <3>2 DEF TheFlow, CursorIn
              <3> HIDE DEF r
              <3>4. CursorIn(r, flow, subFlow + 1, 0) /\ SaneUpTo(r, flow, subFlow + 1, 0)
                    BY <3>2, <3>3, StepSubFlow
              <3>5. Reached(r, <<flow, subFlow + 1, 0>>) = Reached(r, <<flow, subFlow, tuple>>)
                    BY <3>2, PassSubFlow
              <3>6. Tally(r, record, <<flow, subFlow + 1, 0>>, events, errors)
                    BY <3>2, <3>5, TallySame
              <3> QED BY <3>1, <3>4, <3>6, SameLoops DEF r
        <2> QED BY <1>2, <1>5, <2>1 DEF NextSubFlow
  <1>6. CASE ShortTuple
        <2>1. /\ pc = "flows" /\ TuplesLeft /\ TheTuple = "short"
              /\ flow' = flow /\ subFlow' = subFlow /\ tuple' = tuple + 1
              /\ events' = events /\ errors' = errors + 1
              /\ UNCHANGED <<page, record, pc>>
              BY <1>6 DEF ShortTuple, AtTuple
        <2>2. /\ r \in FlowRecords /\ flow \in Nat \ {0} /\ subFlow \in Nat \ {0} /\ tuple \in Nat
              /\ IsPlace(r, flow, subFlow, tuple + 1)
              /\ TupleAt(r, <<flow, subFlow, tuple + 1>>) = "short"
              /\ SaneUpTo(r, flow, subFlow, tuple)
              /\ Tally(r, record, <<flow, subFlow, tuple>>, events, errors)
              BY <2>1, LoopFacts
        <2> HIDE DEF r
        <2>3. Harmless(r, <<flow, subFlow, tuple + 1>>)
              BY <2>2 DEF Harmless
        <2>4. CursorIn(r, flow, subFlow, tuple + 1) /\ SaneUpTo(r, flow, subFlow, tuple + 1)
              BY <2>2, <2>3, StepTuple
        <2>5. Tally(r, record, <<flow, subFlow, tuple + 1>>, events, errors + 1)
              BY <2>2, TallyShort
        <2> QED BY <2>1, <2>4, <2>5, SameLoops DEF r
  <1>7. CASE ConvertTuple
        <2> DEFINE p == <<flow, subFlow, tuple + 1>>
                   dated == TheTuple = "full"
        <2>1. /\ pc = "flows" /\ TuplesLeft /\ TheTuple \in Kept /\ TheSubFlow.mac
              /\ flow' = flow /\ subFlow' = subFlow /\ tuple' = tuple + 1
              /\ events' = Append(events, [record |-> record, at |-> p, dated |-> dated])
              /\ errors' = IF TheTuple = "undated" THEN errors + 1 ELSE errors
              /\ UNCHANGED <<page, record, pc>>
              BY <1>7 DEF ConvertTuple, AtTuple, Kept
        <2>2. /\ r \in FlowRecords /\ flow \in Nat \ {0} /\ subFlow \in Nat \ {0} /\ tuple \in Nat
              /\ IsPlace(r, flow, subFlow, tuple + 1) /\ record \in Nat \ {0}
              /\ SaneUpTo(r, flow, subFlow, tuple)
              /\ Tally(r, record, <<flow, subFlow, tuple>>, events, errors)
              BY <2>1, LoopFacts
        <2>3. TheTuple = TupleAt(r, p) /\ TheSubFlow = SubFlowAt(r, p)
              BY <2>1, LoopFacts
        <2>4. events \in Seq(EventType) /\ dated \in BOOLEAN
              BY DEF Typed, TypeOK
        <2> HIDE DEF r, dated
        <2>5. Harmless(r, p)
              BY <2>1, <2>3 DEF Harmless, Kept
        <2>6. CursorIn(r, flow, subFlow, tuple + 1) /\ SaneUpTo(r, flow, subFlow, tuple + 1)
              BY <2>2, <2>5, StepTuple
        <2>7. Tally(r, record, <<flow, subFlow, tuple + 1>>,
                    Append(events, [record |-> record, at |-> p, dated |-> dated]),
                    IF TupleAt(r, p) = "undated" THEN errors + 1 ELSE errors)
              BY <2>1, <2>2, <2>3, <2>4, TallyKept
        <2>8. Tally(r, record, <<flow, subFlow, tuple + 1>>, events', errors')
              BY <2>1, <2>3, <2>7
        <2> QED BY <2>1, <2>6, <2>8, SameLoops DEF r
  <1>8. CASE TuplePanics
        BY <1>2, <1>8 DEF TuplePanics
  <1>9. CASE UNCHANGED vars
        BY <1>9 DEF vars, Loops, Current, IsFlow
  <1> QED BY <1>1, <1>3, <1>4, <1>5, <1>6, <1>7, <1>8, <1>9 DEF Next

\* No tuple of a flow record is passed over, however the loops went through the flows
\* before it: of those behind the cursor, each with its eight fields is an event, each
\* that is short or has no number for a time is an error.
THEOREM TuplesAccounted == Spec => []Accounted
  <1>1. Init => Loops
        BY DEF Init, Loops
  <1>2. Loops => Accounted
        <2> SUFFICES ASSUME Loops, pc = "flows" PROVE Accounted
            BY DEF Accounted
        <2> DEFINE cursor == <<flow, subFlow, tuple>>
                   Behind(kinds) == {p \in Positions(Current) :
                                       /\ p = cursor \/ Before(p, cursor)
                                       /\ TupleAt(Current, p) \in kinds}
        <2>1. \A kinds : Behind(kinds) = Of(Current, cursor, kinds)
              BY DEF Of, Reached
        <2>2. /\ Len(events) = Cardinality(Of(Current, cursor, Kept))
              /\ errors = Cardinality(Of(Current, cursor, Faulty))
              BY DEF Loops, Tally
        <2>3. /\ Len(events) = Cardinality(Behind({"full", "undated"}))
              /\ errors = Cardinality(Behind({"undated", "short"}))
              BY <2>1, <2>2 DEF Kept, Faulty
        <2> QED BY <2>3 DEF Accounted
  <1> QED BY <1>1, <1>2, TypedInit, TypedNext, LoopsNext, PTL DEF Spec

-----------------------------------------------------------------------------
(* What the client holds.                                                    *)

\* The sources in the first n records.
SourcesUpTo(n) == UNION {{<<i, p>> : p \in Sources(i)} : i \in 1..n}

LEMMA ConvertedIs ==
  Converted <=> Held(collected) = SourcesUpTo(record - 1) /\ Ordered(collected)
  BY DEF Converted, Held, SourcesUpTo, Ordered, Precedes

LEMMA SourcesNext ==
  ASSUME NEW n \in Nat
  PROVE  SourcesUpTo(n + 1) = SourcesUpTo(n) \cup {<<n + 1, p>> : p \in Sources(n + 1)}
  <1> DEFINE S(i) == {<<i, p>> : p \in Sources(i)}
  <1>1. \A i : i \in 1..(n + 1) <=> i \in 1..n \/ i = n + 1
        OBVIOUS
  <1>2. /\ SourcesUpTo(n + 1) = UNION {S(i) : i \in 1..(n + 1)}
        /\ SourcesUpTo(n) = UNION {S(i) : i \in 1..n}
        BY DEF SourcesUpTo
  <1> HIDE DEF S
  <1>3. UNION {S(i) : i \in 1..(n + 1)} = (UNION {S(i) : i \in 1..n}) \cup S(n + 1)
        BY <1>1
  <1> QED BY <1>2, <1>3 DEF S

LEMMA SameSources ==
  ASSUME page' = page
  PROVE  \A n : SourcesUpTo(n)' = SourcesUpTo(n)
  <1>1. \A i : Sources(i)' = Sources(i)
        BY DEF Sources
  <1> QED BY <1>1 DEF SourcesUpTo

\* Everything collected is of a record before the current one.
LEMMA CollectedBefore ==
  ASSUME Typed, Converted, NEW i \in 1..Len(collected)
  PROVE  collected[i].record < record
  <1>1. <<collected[i].record, collected[i].at>> \in SourcesUpTo(record - 1)
        BY ConvertedIs DEF Held
  <1>2. PICK j \in 1..(record - 1) :
           <<collected[i].record, collected[i].at>> \in {<<j, p>> : p \in Sources(j)}
        BY <1>1 DEF SourcesUpTo
  <1>3. collected[i].record = j
        BY <1>2
  <1> QED BY <1>3, EventsTyped

\* A record is done, and all that its sources give, and nothing else, is collected.
LEMMA Advance ==
  ASSUME Typed, Converted, page' = page, record' = record + 1, Ordered(collected'),
         Held(collected') = Held(collected) \cup {<<record, p>> : p \in Sources(record)}
  PROVE  Converted'
  <1>1. record \in Nat \ {0}
        BY EventsTyped
  <1>2. record - 1 \in Nat /\ (record - 1) + 1 = record /\ record' - 1 = record
        BY <1>1
  <1>3. SourcesUpTo(record)
          = SourcesUpTo(record - 1) \cup {<<record, p>> : p \in Sources(record)}
        BY <1>2, SourcesNext
  <1>4. Held(collected') = SourcesUpTo(record)
        BY <1>3, ConvertedIs
  <1>5. SourcesUpTo(record') = UNION {{<<i, p>> : p \in Sources(i)} : i \in 1..record'}
        BY DEF SourcesUpTo
  <1>6. \A i : Sources(i)' = Sources(i)
        BY DEF Sources
  <1>7. Held(collected') = UNION {{<<i, p>> : p \in Sources(i)'} : i \in 1..(record' - 1)}
        BY <1>2, <1>4, <1>6 DEF SourcesUpTo
  <1> QED BY <1>7 DEF Converted, Held, Ordered, Precedes

\* A record without sources.
LEMMA AdvanceEmpty ==
  ASSUME Typed, Converted, page' = page, record' = record + 1, collected' = collected,
         Sources(record) = {}
  PROVE  Converted'
  <1>1. Ordered(collected') /\ Held(collected') = Held(collected)
        BY ConvertedIs
  <1>2. {<<record, p>> : p \in Sources(record)} = {}
        OBVIOUS
  <1> QED BY <1>1, <1>2, Advance

\* Whatever makes a flow record panic is not sane in it.
LEMMA AdvancePanic ==
  ASSUME Typed, Converted, page' = page, Panic, IsFlow, ~Sane(Current)
  PROVE  Converted'
  <1>1. record' = record + 1 /\ collected' = collected
        BY DEF Panic, NextRecord
  <1>2. Sources(record) = {}
        BY DEF Sources, EventsAt, IsFlow, Current
  <1> QED BY <1>1, <1>2, AdvanceEmpty

\* The tuples with an event, when nothing panics.
LongEnough(r) == {p \in Positions(r) : TupleAt(r, p) # "short"}

\* At the end of the loops, the sources of the record are behind the cursor.
LEMMA AtEnd ==
  ASSUME NEW r \in FlowRecords, NEW f \in Nat, NEW s \in Nat, NEW t \in Nat,
         r.listed, f = Len(r.flows), SaneUpTo(r, f, s, t),
         f > 0 => s >= Len(r.flows[f].flows),
         f > 0 /\ s > 0 => t >= Len(r.flows[f].flows[s].tuples)
  PROVE  Sane(r) /\ LongEnough(r) = Of(r, <<f, s, t>>, Kept)
  <1>1. Reached(r, <<f, s, t>>) = Positions(r)
        BY PassAll
  <1>2. /\ DOMAIN r.flows = 1..f
        /\ \A a \in 1..f : /\ Len(r.flows[a].flows) \in Nat
                           /\ DOMAIN r.flows[a].flows = 1..Len(r.flows[a].flows)
        BY RecordTypes
  <1>3. ASSUME NEW a \in 1..f, NEW b \in 1..Len(r.flows[a].flows)
        PROVE  r.flows[a].flows[b].listed
        <2>1. a < f \/ b <= s
              BY <1>2
        <2> QED BY <2>1 DEF SaneUpTo
  <1>4. \A p \in Positions(r) : Harmless(r, p)
        BY <1>1 DEF SaneUpTo
  <1>5. Sane(r)
        BY <1>2, <1>3, <1>4 DEF Sane, SaneUpTo, Harmless
  <1>6. ASSUME NEW p \in Positions(r) PROVE TupleAt(r, p) # "short" <=> TupleAt(r, p) \in Kept
        <2>1. PICK a, b, c \in Nat \ {0} : p = <<a, b, c>> /\ IsPlace(r, a, b, c)
              BY PositionsFacts
        <2>2. TupleAt(r, p) = r.flows[a].flows[b].tuples[c]
              BY <2>1 DEF TupleAt, SubFlowAt
        <2>3. TupleAt(r, p) \in TupleKinds
              <3>1. /\ a \in 1..Len(r.flows) /\ b \in 1..Len(r.flows[a].flows)
                    /\ c \in 1..Len(r.flows[a].flows[b].tuples)
                    BY <2>1 DEF IsPlace
              <3>2. r.flows[a].flows[b].tuples[c] \in TupleKinds
                    BY <3>1, RecordTypes
              <3> QED BY <2>2, <3>2
        <2> QED BY <1>4, <2>3 DEF Harmless, TupleKinds, Kept
  <1>7. LongEnough(r) = Of(r, <<f, s, t>>, Kept)
        BY <1>1, <1>6 DEF LongEnough, Of
  <1> QED BY <1>5, <1>7

\* The steps in the loops that panic, for a flow, for a sub-flow and for a tuple.
LEMMA LoopsPanic ==
  ASSUME Typed, Loops, Panic, NextFlow \/ NextSubFlow \/ TuplePanics
  PROVE  page' = page /\ IsFlow /\ ~Sane(Current)
  <1> DEFINE r == Current
  <1>1. CASE NextFlow
        <2>1. /\ pc = "flows" /\ ~r.flows[flow + 1].rule /\ flow < Len(r.flows) /\ page' = page
              <3>1. pc = "flows" /\ pc' = "page"
                    BY <1>1 DEF NextFlow, Panic, NextRecord
              <3> QED BY <1>1, <3>1 DEF NextFlow
        <2>2. r \in FlowRecords /\ flow \in Nat /\ IsFlow
              BY <2>1, LoopFacts
        <2>3. Len(r.flows) \in Nat /\ DOMAIN r.flows = 1..Len(r.flows)
              BY <2>2, RecordTypes
        <2>4. flow + 1 \in DOMAIN r.flows
              BY <2>1, <2>2, <2>3
        <2> QED BY <2>1, <2>2, <2>4 DEF Sane
  <1>2. CASE NextSubFlow
        <2>1. /\ pc = "flows" /\ SubFlowsLeft /\ ~TheFlow.flows[subFlow + 1].listed
              /\ page' = page
              <3>1. pc = "flows" /\ pc' = "page"
                    BY <1>2 DEF NextSubFlow, Panic, NextRecord
              <3> QED BY <1>2, <3>1 DEF NextSubFlow
        <2>2. /\ r \in FlowRecords /\ flow \in Nat \ {0} /\ subFlow \in Nat /\ IsFlow
              /\ CursorIn(r, flow, subFlow, tuple) /\ subFlow < Len(r.flows[flow].flows)
              BY <2>1, LoopFacts
        <2>3. /\ Len(r.flows) \in Nat /\ DOMAIN r.flows = 1..Len(r.flows)
              /\ flow \in DOMAIN r.flows
              BY <2>2, RecordTypes DEF CursorIn
        <2>4. /\ Len(r.flows[flow].flows) \in Nat
              /\ DOMAIN r.flows[flow].flows = 1..Len(r.flows[flow].flows)
              BY <2>2, <2>3, RecordTypes
        <2>5. subFlow + 1 \in DOMAIN r.flows[flow].flows
              BY <2>2, <2>4
        <2> QED BY <2>1, <2>2, <2>3, <2>5 DEF Sane, TheFlow
  <1>3. CASE TuplePanics
        <2> DEFINE p == <<flow, subFlow, tuple + 1>>
        <2>1. /\ pc = "flows" /\ TuplesLeft /\ page' = page
              /\ TheTuple = "alien" \/ (TheTuple \in Kept /\ ~TheSubFlow.mac)
              BY <1>3 DEF TuplePanics, AtTuple, Kept
        <2>2. /\ r \in FlowRecords /\ IsFlow /\ IsPlace(r, flow, subFlow, tuple + 1)
              /\ TheTuple = TupleAt(r, p) /\ TheSubFlow = SubFlowAt(r, p)
              BY <2>1, LoopFacts
        <2>3. p \in Positions(r)
              BY <2>2, PositionsFacts
        <2> QED BY <2>1, <2>2, <2>3 DEF Sane, Kept
  <1> QED BY <1>1, <1>2, <1>3

LEMMA ConvertedNext == Typed /\ Loops /\ Converted /\ [Next]_vars => Converted'
  <1> SUFFICES ASSUME Typed, Loops, Converted, [Next]_vars PROVE Converted'
      OBVIOUS
  <1>1. ASSUME UNCHANGED <<page, record, collected>> PROVE Converted'
        BY <1>1, SameSources DEF Converted, Sources
  <1>2. CASE LoadPage
        <2>1. record = 1 /\ record' = 1 /\ collected' = collected
              BY <1>2 DEF LoadPage, Typed, InPage
        <2>2. 1..(record - 1) = {} /\ 1..(record' - 1) = {}
              BY <2>1
        <2> QED BY <2>1, <2>2 DEF Converted
  <1>3. CASE LoadFails \/ Finish
        BY <1>1, <1>3 DEF LoadFails, Finish
  <1>4. CASE SkipRecord
        <2>1. /\ ~(IsFlow \/ IsGateway) \/ ~Current.late
              /\ page' = page /\ record' = record + 1 /\ collected' = collected
              BY <1>4 DEF SkipRecord, NextRecord
        <2>2. Sources(record) = {}
              BY <2>1 DEF Sources, EventsAt, IsFlow, IsGateway, Current
        <2> QED BY <2>1, <2>2, AdvanceEmpty
  <1>5. CASE ConvertGateway
        <2>1. IsGateway /\ Current.late /\ page' = page /\ record' = record + 1
              BY <1>5 DEF ConvertGateway, Panic, NextRecord
        <2>2. CASE Current.complete
              <3> DEFINE e == [record |-> record, at |-> <<0, 0, 0>>, dated |-> TRUE]
              <3>1. collected' = Append(collected, e)
                    BY <1>5, <2>2 DEF ConvertGateway
              <3>2. e \in EventType /\ e.record = record /\ e.at = <<0, 0, 0>>
                    BY EventsTyped
              <3>3. Sources(record) = {<<0, 0, 0>>}
                    BY <2>1, <2>2 DEF Sources, EventsAt, IsGateway, Current
              <3> HIDE DEF e
              <3>4. \A i \in 1..Len(collected) : Precedes(collected[i], e)
                    BY <3>2, CollectedBefore DEF Precedes
              <3>5. collected \in Seq(EventType) /\ Ordered(collected)
                    BY ConvertedIs DEF Typed, TypeOK
              <3>6. /\ Ordered(collected')
                    /\ Held(collected') = Held(collected) \cup {<<record, <<0, 0, 0>> >>}
                    BY <3>1, <3>2, <3>4, <3>5, Single
              <3>7. {<<record, p>> : p \in Sources(record)} = {<<record, <<0, 0, 0>> >>}
                    BY <3>3
              <3> QED BY <2>1, <3>6, <3>7, Advance
        <2>3. CASE ~Current.complete
              <3>1. collected' = collected
                    BY <1>5, <2>3 DEF ConvertGateway, Panic
              <3>2. Sources(record) = {}
                    BY <2>1, <2>3 DEF Sources, EventsAt, IsGateway, Current
              <3> QED BY <2>1, <3>1, <3>2, AdvanceEmpty
        <2> QED BY <2>2, <2>3
  <1>6. CASE EnterFlows
        <2>1. CASE Current.listed
              BY <1>1, <1>6, <2>1 DEF EnterFlows
        <2>2. CASE ~Current.listed
              <3>1. Panic /\ page' = page /\ IsFlow
                    BY <1>6, <2>2 DEF EnterFlows
              <3>2. ~Sane(Current)
                    BY <2>2 DEF Sane
              <3> QED BY <3>1, <3>2, AdvancePanic
        <2> QED BY <2>1, <2>2
  <1>7. CASE (NextFlow \/ NextSubFlow \/ TuplePanics) /\ Panic
        BY <1>7, LoopsPanic, AdvancePanic
  <1>8. CASE (NextFlow \/ NextSubFlow) /\ ~Panic
        BY <1>1, <1>8 DEF NextFlow, NextSubFlow
  <1>9. CASE TuplePanics
        BY <1>7, <1>9 DEF TuplePanics
  <1>10. CASE ShortTuple \/ ConvertTuple
        BY <1>1, <1>10 DEF ShortTuple, ConvertTuple
  <1>11. CASE ReturnEvents
        <2> DEFINE r == Current
                   kept == Of(r, <<flow, subFlow, tuple>>, Kept)
        <2>1. /\ pc = "flows" /\ ~TuplesLeft /\ ~SubFlowsLeft /\ flow = Len(r.flows)
              /\ page' = page /\ record' = record + 1 /\ collected' = collected \o events
              BY <1>11 DEF ReturnEvents, NextRecord
        <2>2. /\ r \in FlowRecords /\ flow \in Nat /\ subFlow \in Nat /\ tuple \in Nat
              /\ flow > 0 => subFlow >= Len(r.flows[flow].flows)
              /\ flow > 0 /\ subFlow > 0 => tuple >= Len(r.flows[flow].flows[subFlow].tuples)
              /\ IsFlow /\ r.late /\ r.listed /\ SaneUpTo(r, flow, subFlow, tuple)
              BY <2>1, LoopFacts
        <2>3. Held(events) = {<<record, p>> : p \in kept} /\ Ordered(events)
              BY <2>1 DEF Loops, Tally
        <2>4. Sane(r) /\ LongEnough(r) = kept
              BY <2>1, <2>2, AtEnd
        <2>5. Sources(record) = kept
              BY <2>2, <2>4 DEF Sources, EventsAt, IsFlow, Current, LongEnough
        <2>6. /\ collected \in Seq(EventType) /\ Ordered(collected)
              /\ events \in Seq(EventType)
              BY ConvertedIs DEF Typed, TypeOK
        <2> HIDE DEF kept, r
        <2>7. ASSUME NEW i \in 1..Len(collected), NEW j \in 1..Len(events)
              PROVE  Precedes(collected[i], events[j])
              <3>1. <<events[j].record, events[j].at>> \in {<<record, p>> : p \in kept}
                    BY <2>3 DEF Held
              <3>2. events[j].record = record
                    BY <3>1
              <3> QED BY <3>2, CollectedBefore DEF Precedes
        <2>8. /\ Ordered(collected')
              /\ Held(collected') = Held(collected) \cup Held(events)
              BY <2>1, <2>3, <2>6, <2>7, Joined
        <2> QED BY <2>1, <2>3, <2>5, <2>8, Advance
  <1>12. CASE UNCHANGED vars
        BY <1>1, <1>12 DEF vars
  <1> QED BY <1>2, <1>3, <1>4, <1>5, <1>6, <1>7, <1>8, <1>9, <1>10, <1>11, <1>12 DEF Next

LEMMA ConvertedInit == Init => Loops /\ Converted
  <1> SUFFICES ASSUME Init PROVE Loops /\ Converted
      OBVIOUS
  <1>1. Loops
        BY DEF Init, Loops
  <1>2. collected = <<>> /\ record = 1
        BY DEF Init
  <1>3. 1..Len(collected) = {} /\ 1..(Len(collected) - 1) = {} /\ 1..(record - 1) = {}
        BY <1>2
  <1> QED BY <1>1, <1>3 DEF Converted

\* What a malformed record costs: at any moment the client holds an event for each
\* source in the records it has gone through, each once and in the order of the page.
\* A record that panics, at whatever flow, sub-flow or tuple, has none of its events
\* among them, and takes none from any other.
THEOREM RecordsConverted == Spec => []Converted
  <1> QED BY TypedInit, ConvertedInit, TypedNext, LoopsNext, ConvertedNext, PTL DEF Spec

-----------------------------------------------------------------------------
(* The file task that all this is.                                           *)

\* The client has a page only if the whole range arrived.
Begun == pc \in {"page", "flows"} => log.later = 0 /\ log.lost = 0

LEMMA BegunNext == Typed /\ Begun /\ [Next]_vars => Begun'
  <1> SUFFICES ASSUME Typed, Begun, [Next]_vars PROVE Begun'
      OBVIOUS
  <1>1. CASE LoadPage
        BY <1>1, PayloadEnds DEF LoadPage, Typed, TypeOK, Begun
  <1>2. CASE LoadFails \/ Finish
        BY <1>2 DEF LoadFails, Finish, Begun
  <1>3. ASSUME log' = log, pc \in {"page", "flows"} PROVE Begun'
        BY <1>3 DEF Begun
  <1>4. CASE SkipRecord \/ ConvertGateway \/ EnterFlows
        BY <1>3, <1>4 DEF SkipRecord, ConvertGateway, EnterFlows, AtRecord
  <1>5. CASE NextFlow \/ NextSubFlow \/ ShortTuple \/ ConvertTuple \/ TuplePanics \/ ReturnEvents
        BY <1>3, <1>5 DEF NextFlow, NextSubFlow, ShortTuple, ConvertTuple, TuplePanics,
                          ReturnEvents, AtTuple
  <1>6. CASE UNCHANGED vars
        BY <1>6 DEF vars, Begun
  <1> QED BY <1>1, <1>2, <1>4, <1>5, <1>6 DEF Next

\* Before the page is loaded, the client holds nothing.
LEMMA NothingCollected ==
  ASSUME Typed, Converted, pc = "load"
  PROVE  collected = <<>>
  <1>1. record - 1 = 0
        BY DEF Typed, InPage
  <1>2. SourcesUpTo(0) = {}
        BY DEF SourcesUpTo
  <1>3. Held(collected) = {} /\ Len(collected) \in Nat
        BY <1>1, <1>2, ConvertedIs DEF Typed, TypeOK
  <1>4. ~(1 \in 1..Len(collected))
        BY <1>3 DEF Held
  <1> QED BY <1>3, <1>4, EmptySeq DEF Typed, TypeOK

\* An event is dated if what it comes from is.
TrulyDated(records, s) ==
    \A i \in 1..Len(s) : s[i].dated <=> Dated(records[s[i].record], s[i].at)

Stamped == TrulyDated(page, events) /\ TrulyDated(page, collected)

LEMMA AppendDated ==
  ASSUME NEW records, NEW s \in Seq(EventType), NEW e \in EventType, TrulyDated(records, s),
         e.dated <=> Dated(records[e.record], e.at)
  PROVE  TrulyDated(records, Append(s, e))
  <1> DEFINE t == Append(s, e)
  <1>1. Len(t) = Len(s) + 1 /\ Len(s) \in Nat
        BY AppendProperties
  <1>2. ASSUME NEW i \in 1..Len(t) PROVE t[i] = e \/ (i \in 1..Len(s) /\ t[i] = s[i])
        BY <1>1, AppendProperties
  <1> HIDE DEF t
  <1>3. ASSUME NEW i \in 1..Len(t) PROVE t[i].dated <=> Dated(records[t[i].record], t[i].at)
        BY <1>2 DEF TrulyDated
  <1> QED BY <1>3 DEF TrulyDated, t

LEMMA JoinDated ==
  ASSUME NEW records, NEW s \in Seq(EventType), NEW t \in Seq(EventType),
         TrulyDated(records, s), TrulyDated(records, t)
  PROVE  TrulyDated(records, s \o t)
  <1> DEFINE u == s \o t
  <1>1. /\ Len(u) = Len(s) + Len(t) /\ Len(s) \in Nat /\ Len(t) \in Nat
        /\ \A i \in 1..Len(u) : u[i] = IF i <= Len(s) THEN s[i] ELSE t[i - Len(s)]
        BY ConcatProperties
  <1>2. ASSUME NEW i \in 1..Len(u)
        PROVE  \/ i \in 1..Len(s) /\ u[i] = s[i]
               \/ i - Len(s) \in 1..Len(t) /\ u[i] = t[i - Len(s)]
        BY <1>1
  <1> HIDE DEF u
  <1>3. ASSUME NEW i \in 1..Len(u) PROVE u[i].dated <=> Dated(records[u[i].record], u[i].at)
        BY <1>2 DEF TrulyDated
  <1> QED BY <1>3 DEF TrulyDated, u

LEMMA StampedNext == Typed /\ Loops /\ Converted /\ Stamped /\ [Next]_vars => Stamped'
  <1> SUFFICES ASSUME Typed, Loops, Converted, Stamped, [Next]_vars PROVE Stamped'
      OBVIOUS
  <1>1. collected \in Seq(EventType) /\ events \in Seq(EventType)
        BY DEF Typed, TypeOK
  <1>2. \A records : TrulyDated(records, <<>>)
        BY DEF TrulyDated
  <1>3. ASSUME page' = page, events' = events \/ events' = <<>>, collected' = collected
        PROVE  Stamped'
        BY <1>2, <1>3 DEF Stamped
  <1>4. CASE LoadPage
        <2>1. events' = <<>> /\ collected' = <<>>
              BY <1>4, NothingCollected DEF LoadPage, Typed, TypeOK
        <2> QED BY <1>2, <2>1 DEF Stamped
  <1>5. CASE LoadFails \/ SkipRecord \/ Finish
        BY <1>3, <1>5 DEF LoadFails, SkipRecord, Finish
  <1>6. CASE EnterFlows \/ NextFlow \/ NextSubFlow \/ ShortTuple \/ TuplePanics
        BY <1>3, <1>6 DEF EnterFlows, NextFlow, NextSubFlow, ShortTuple, TuplePanics, Panic,
                          Forget
  <1>7. CASE ConvertGateway
        <2> DEFINE e == [record |-> record, at |-> <<0, 0, 0>>, dated |-> TRUE]
        <2>1. CASE ~Current.complete
              BY <1>3, <1>7, <2>1 DEF ConvertGateway, Panic, Forget
        <2>2. CASE Current.complete
              <3>1. /\ page' = page /\ events' = events /\ collected' = Append(collected, e)
                    /\ Current.operation # "NetworkSecurityGroupFlowEvents"
                    BY <1>7, <2>2 DEF ConvertGateway, IsGateway
              <3>2. e \in EventType /\ Dated(page[e.record], e.at) /\ e.dated
                    BY <3>1, EventsTyped DEF Dated, Current
              <3> HIDE DEF e
              <3>3. TrulyDated(page, Append(collected, e))
                    BY <1>1, <3>2, AppendDated DEF Stamped
              <3> QED BY <3>1, <3>3 DEF Stamped
        <2> QED BY <2>1, <2>2
  <1>8. CASE ConvertTuple
        <2> DEFINE p == <<flow, subFlow, tuple + 1>>
                   e == [record |-> record, at |-> p, dated |-> TheTuple = "full"]
        <2>1. /\ page' = page /\ events' = Append(events, e) /\ collected' = collected
              /\ pc = "flows" /\ TuplesLeft
              BY <1>8 DEF ConvertTuple, AtTuple
        <2>2. IsFlow /\ TheTuple = TupleAt(Current, p)
              BY <2>1, LoopFacts
        <2>3. e \in EventType /\ (e.dated <=> Dated(page[e.record], e.at))
              BY <2>2, EventsTyped DEF Dated, Current, IsFlow
        <2> HIDE DEF e
        <2>4. TrulyDated(page, Append(events, e))
              BY <1>1, <2>3, AppendDated DEF Stamped
        <2> QED BY <2>1, <2>4 DEF Stamped
  <1>9. CASE ReturnEvents
        <2>1. page' = page /\ events' = <<>> /\ collected' = collected \o events
              BY <1>9 DEF ReturnEvents, Forget
        <2>2. TrulyDated(page, collected \o events)
              BY <1>1, JoinDated DEF Stamped
        <2> QED BY <1>2, <2>1, <2>2 DEF Stamped
  <1>10. CASE UNCHANGED vars
        BY <1>3, <1>10 DEF vars
  <1> QED BY <1>4, <1>5, <1>6, <1>7, <1>8, <1>9, <1>10 DEF Next

LEMMA StampedInit == Init => Stamped
  BY DEF Init, Stamped, TrulyDated

\* The order of two events, of two of which one comes earlier, and of three.
LEMMA PlaceOrder ==
  ASSUME NEW p \in Nat \X Nat \X Nat, NEW q \in Nat \X Nat \X Nat
  PROVE  /\ ~(Before(p, q) /\ Before(q, p))
         /\ \A r \in Nat \X Nat \X Nat : Before(p, q) /\ Before(q, r) => Before(p, r)
  BY DEF Before

LEMMA EventOrder ==
  ASSUME NEW e \in EventType, NEW f \in EventType, NEW g \in EventType,
         Precedes(e, f), Precedes(f, g)
  PROVE  Precedes(e, g)
  <1>1. /\ e.record \in Nat /\ f.record \in Nat /\ g.record \in Nat
        /\ e.at \in Nat \X Nat \X Nat /\ f.at \in Nat \X Nat \X Nat
        /\ g.at \in Nat \X Nat \X Nat
        BY DEF EventType
  <1>2. Before(e.at, f.at) /\ Before(f.at, g.at) => Before(e.at, g.at)
        BY <1>1, PlaceOrder
  <1> QED BY <1>1, <1>2 DEF Precedes

\* Of events each of which precedes the next one, each precedes all that follow.
LEMMA Monotone ==
  ASSUME NEW s \in Seq(EventType), Ordered(s), NEW i \in 1..Len(s), NEW j \in 1..Len(s),
         i < j
  PROVE  Precedes(s[i], s[j])
  <1> DEFINE Falls == {d \in Nat \ {0} : i + d <= Len(s) /\ ~Precedes(s[i], s[i + d])}
  <1>1. Len(s) \in Nat /\ \A k \in 1..Len(s) : s[k] \in EventType
        BY ElementOfSeq
  <1>2. ASSUME Falls # {} PROVE FALSE
        <2>1. Falls \in SUBSET Nat
              OBVIOUS
        <2>2. PICK d \in Falls : \A n \in Falls : d <= n
              BY <1>2, <2>1, Smallest
        <2> HIDE <1>2
        <2>3. d \in Nat \ {0} /\ i + d <= Len(s) /\ ~Precedes(s[i], s[i + d])
              OBVIOUS
        <2> DEFINE k == i + (d - 1)
        <2>4. k \in 1..(Len(s) - 1) /\ k + 1 = i + d /\ k <= Len(s) /\ i + d \in 1..Len(s)
              BY <1>1, <2>3
        <2>5. Precedes(s[k], s[i + d])
              BY <2>4 DEF Ordered
        <2>6. d # 1
              <3>1. d = 1 => k = i
                    OBVIOUS
              <3> QED BY <2>3, <2>5, <3>1
        <2>7. d - 1 \in Nat \ {0} /\ ~(d <= d - 1)
              BY <2>3, <2>6
        <2>8. d - 1 \notin Falls
              <3> HIDE DEF Falls
              <3> QED BY <2>2, <2>7
        <2>9. Precedes(s[i], s[k])
              BY <2>4, <2>7, <2>8
        <2>10. s[i] \in EventType /\ s[k] \in EventType /\ s[i + d] \in EventType
              BY <1>1, <2>4
        <2> HIDE DEF k, Falls
        <2> QED BY <2>3, <2>5, <2>9, <2>10, EventOrder
  <1>3. j - i \in Nat \ {0} /\ i + (j - i) = j
        BY <1>1
  <1>4. j - i \notin Falls
        BY <1>2
  <1> QED BY <1>3, <1>4

\* The records of the page that give events.
Giving == {k \in 1..Len(log.records) : Sources(k) # {}}

\* They are those of the client's events when the page is done, the first of them that
\* of the first event and the last that of the last.
LEMMA CollectedGiving ==
  ASSUME Typed, Converted, Begun, pc = "page", record > Len(page)
  PROVE  /\ {event.record : event \in ToSet(collected)} = Giving
         /\ collected = <<>> <=> Giving = {}
         /\ collected # <<>> =>
              LET first == collected[1].record
                  last == Last(collected).record
              IN  /\ first \in Giving /\ last \in Giving
                  /\ \A k \in Giving : first <= k /\ k <= last
  <1>1. /\ collected \in Seq(EventType) /\ Len(collected) \in Nat /\ Ordered(collected)
        /\ Held(collected) = SourcesUpTo(record - 1)
        BY ConvertedIs DEF Typed, TypeOK
  <1>2. page = Whole /\ Len(page) = Len(log.records) /\ Len(page) \in Nat
        BY WholeType, LogFacts DEF Typed, TypeOK, PageLoaded, Begun, Whole
  <1>3. record - 1 = Len(log.records)
        BY <1>2, EventsTyped
  <1>4. ToSet(collected) = {collected[i] : i \in 1..Len(collected)}
        BY <1>1 DEF ToSet
  <1>5. ASSUME NEW i \in 1..Len(collected) PROVE collected[i].record \in Giving
        <2>1. <<collected[i].record, collected[i].at>> \in SourcesUpTo(record - 1)
              BY <1>1 DEF Held
        <2>2. PICK k \in 1..(record - 1) :
                 <<collected[i].record, collected[i].at>> \in {<<k, p>> : p \in Sources(k)}
              BY <2>1 DEF SourcesUpTo
        <2>3. collected[i].record = k /\ Sources(k) # {}
              BY <2>2
        <2> QED BY <1>3, <2>3 DEF Giving
  <1>6. ASSUME NEW k \in Giving PROVE \E i \in 1..Len(collected) : collected[i].record = k
        <2>1. k \in 1..(record - 1) /\ Sources(k) # {}
              BY <1>3 DEF Giving
        <2>2. PICK p : p \in Sources(k)
              BY <2>1
        <2>3. <<k, p>> \in Held(collected)
              BY <1>1, <2>1, <2>2 DEF SourcesUpTo
        <2> QED BY <2>3 DEF Held
  <1>7. {event.record : event \in ToSet(collected)} = Giving
        BY <1>4, <1>5, <1>6
  <1>8. collected = <<>> <=> Len(collected) = 0
        BY <1>1, EmptySeq
  <1>9. collected = <<>> <=> Giving = {}
        <2>1. collected = <<>> => Giving = {}
              BY <1>6, <1>8
        <2>2. collected # <<>> => 1 \in 1..Len(collected)
              BY <1>1, <1>8
        <2> QED BY <1>5, <2>1, <2>2
  <1>10. ASSUME collected # <<>>, NEW k \in Giving
         PROVE  collected[1].record <= k /\ k <= Last(collected).record
        <2> DEFINE n == Len(collected)
        <2>1. PICK i \in 1..n : collected[i].record = k
              BY <1>6
        <2>2. 1 \in 1..n /\ i \in 1..n /\ n \in 1..n
              BY <1>1, <1>8, <1>10, <2>1
        <2> HIDE DEF n
        <2>3. /\ \A l \in 1..n : collected[l].record \in Nat
              /\ \A l, m \in 1..n : l < m => Precedes(collected[l], collected[m])
              <3>1. \A l \in 1..n : collected[l] \in EventType
                    BY <1>1, ElementOfSeq DEF n
              <3>2. \A l, m \in 1..n : l < m => Precedes(collected[l], collected[m])
                    BY <1>1, Monotone DEF n
              <3> QED BY <3>1, <3>2 DEF EventType
        <2>4. /\ \A l, m \in 1..n : l < m => collected[l].record <= collected[m].record
              /\ collected[1].record \in Nat /\ collected[i].record \in Nat
              /\ collected[n].record \in Nat
              BY <2>2, <2>3 DEF Precedes
        <2>5. collected[1].record <= collected[i].record
              BY <2>2, <2>4
        <2>6. collected[i].record <= collected[n].record
              BY <2>2, <2>4
        <2> QED BY <2>1, <2>5, <2>6 DEF Last, n
  <1>11. collected # <<>> => collected[1].record \in Giving /\ Last(collected).record \in Giving
        <2>1. collected # <<>> => 1 \in 1..Len(collected) /\ Len(collected) \in 1..Len(collected)
              BY <1>1, <1>8
        <2> QED BY <1>5, <2>1 DEF Last
  <1> QED BY <1>7, <1>9, <1>10, <1>11

LEMMA OneAt == ASSUME NEW x PROVE One(x)[1] = x
  BY DEF One

\* What BlobIngest reads of the blob and of the task.
LEMMA BlobFacts ==
  ASSUME log \in Logs
  PROVE  /\ Listed \in Nat /\ Len(content[1]) = Listed + log.later
         /\ logFiles[1] = [stamp |-> 1, length |-> Listed, start |-> log.before,
                           lastRecord |-> 1]
         /\ \A k \in 1..Len(log.records) :
               /\ log.before + k \in Nat
               /\ content[1][log.before + k].time
                     = IF log.records[k].late THEN log.before + k + 1 ELSE 1
               /\ content[1][log.before + k].flows <=> EventsAt(log.records[k]) # {}
               /\ EventsAt(log.records[k]) # {} =>
                     content[1][log.before + k].events = TimesIn(log.before + k)
               /\ Time(log.before + k) = content[1][log.before + k].time
  <1> DEFINE b == log.before
             n == Len(log.records)
  <1>1. b \in Nat /\ n \in Nat /\ log.later \in Nat
        BY LogFacts
  <1>2. Listed = b + n /\ Listed \in Nat /\ Listed + log.later \in Nat
        BY <1>1 DEF Listed
  <1> DEFINE Stored(i) == [time   |-> Time(i), flows |-> Yields(i),
                           events |-> IF Yields(i) THEN TimesIn(i)
                                      ELSE [first |-> 0, last |-> 0, json |-> TRUE]]
  <1>3. content[1] = [i \in 1..(Listed + log.later) |-> Stored(i)]
        BY OneAt DEF content
  <1> HIDE DEF Stored
  <1>4. Len(content[1]) = Listed + log.later
        BY <1>2, <1>3
  <1>5. logFiles[1] = [stamp |-> 1, length |-> Listed, start |-> b, lastRecord |-> 1]
        BY OneAt DEF logFiles
  <1>6. ASSUME NEW k \in 1..n
        PROVE  /\ b + k \in Nat
               /\ content[1][b + k].time = IF log.records[k].late THEN b + k + 1 ELSE 1
               /\ content[1][b + k].flows <=> EventsAt(log.records[k]) # {}
               /\ EventsAt(log.records[k]) # {} => content[1][b + k].events = TimesIn(b + k)
               /\ Time(b + k) = content[1][b + k].time
        <2>1. /\ b + k \in Nat /\ b + k \in (b + 1)..Listed /\ (b + k) - b = k
              /\ b + k \in 1..(Listed + log.later)
              <3> DEFINE later == log.later
                         listed == Listed
              <3>1. b \in Nat /\ later \in Nat /\ listed = b + n /\ k \in Nat /\ 1 <= k /\ k <= n
                    BY <1>1, <1>2
              <3> HIDE DEF b, n, later, listed
              <3>2. /\ b + k \in Nat /\ b + k \in (b + 1)..listed /\ (b + k) - b = k
                    /\ b + k \in 1..(listed + later)
                    BY <1>1, <3>1
              <3> QED BY <3>2 DEF later, listed
        <2>2. /\ content[1][b + k].time = Time(b + k) /\ content[1][b + k].flows = Yields(b + k)
              /\ Yields(b + k) => content[1][b + k].events = TimesIn(b + k)
              <3>1. content[1][b + k] = Stored(b + k)
                    BY <1>3, <2>1
              <3> QED BY <3>1 DEF Stored
        <2>3. Time(b + k) = IF log.records[k].late THEN b + k + 1 ELSE 1
              BY <2>1 DEF Time
        <2>4. Yields(b + k) <=> EventsAt(log.records[k]) # {}
              <3> DEFINE i == b + k
              <3>1. i \in (b + 1)..Listed /\ log.records[i - b] = log.records[k]
                    BY <2>1
              <3> HIDE DEF i
              <3> QED BY <3>1 DEF Yields, i
        <2> QED BY <2>1, <2>2, <2>3, <2>4
  <1> QED BY <1>2, <1>4, <1>5, <1>6

\* Which record gives events, in the terms of the log.
LEMMA GivingIs ==
  ASSUME Typed, Begun, pc = "page", NEW k \in 1..Len(log.records)
  PROVE  /\ k \in Giving <=> /\ log.records[k].late /\ EventsAt(log.records[k]) # {}
                             /\ log.kind = "nsg" \/ k > 1
         /\ k \in Giving => page[k] = log.records[k] /\ Sources(k) = EventsAt(log.records[k])
  <1>1. log \in Logs /\ log.later = 0 /\ log.lost = 0 /\ k \in Nat
        BY DEF Typed, TypeOK, Begun
  <1>2. page = Whole
        BY <1>1 DEF Typed, PageLoaded, Whole
  <1>3. page[k] = IF log.kind = "nsg" \/ k > 1 THEN log.records[k]
                  ELSE [log.records[k] EXCEPT !.operation = "unknown"]
        BY <1>1, <1>2, WholeType
  <1>4. CASE log.kind = "nsg" \/ k > 1
        BY <1>3, <1>4 DEF Giving, Sources
  <1>5. CASE ~(log.kind = "nsg" \/ k > 1)
        <2>1. page[k].operation = "unknown"
              <3>1. log.records[k] \in RecordsOf(log.kind) /\ log.kind \in Kinds
                    BY <1>1, LogFacts, ElementOfSeq
              <3>2. \A O : \A r \in OtherRecords(O) :
                       [r EXCEPT !.operation = "unknown"].operation = "unknown"
                    BY DEF OtherRecords
              <3> QED BY <1>3, <1>5, <3>1, <3>2
                      DEF RecordsOf, AccessRecords, FirewallRecords, Kinds
        <2>2. EventsAt(page[k]) = {}
              BY <2>1 DEF EventsAt
        <2> QED BY <1>5, <2>2 DEF Giving, Sources
  <1> QED BY <1>4, <1>5

\* The time of an event is that which its record has for its place.
At(k, p) == EventTime(log.before + k, p, Dated(log.records[k], p))

LEMMA TimesAre ==
  ASSUME log \in Logs, NEW k \in Nat
  PROVE  LET times == TimesIn(log.before + k)
             places == EventsAt(log.records[k])
         IN  /\ times.first = At(k, FirstOf(places)) /\ times.last = At(k, LastOf(places))
             /\ times.json <=> \A p \in places : At(k, p) \in Writable
  <1>1. (log.before + k) - log.before = k
        BY LogFacts
  <1> QED BY <1>1 DEF TimesIn, At

\* So the file is named for the first and the last time of the records that give events,
\* and json takes it if it takes theirs.
LEMMA CollectedTimes ==
  ASSUME Typed, Converted, Begun, Stamped, pc = "page", record > Len(page), collected # <<>>
  PROVE  LET In(k) == TimesIn(log.before + k)
         IN  /\ TimeOf(collected[1]) = In(collected[1].record).first
             /\ TimeOf(Last(collected)) = In(Last(collected).record).last
             /\ (\A event \in ToSet(collected) : TimeOf(event) \in Writable)
                  <=> \A k \in Giving : In(k).json
  <1> DEFINE n == Len(collected)
             Places(k) == EventsAt(log.records[k])
  <1>1. /\ log \in Logs /\ collected \in Seq(EventType) /\ n \in Nat \ {0}
        /\ Held(collected) = SourcesUpTo(record - 1) /\ Ordered(collected)
        /\ \A i \in 1..n : collected[i] \in EventType
        BY ConvertedIs, EmptySeq, ElementOfSeq DEF Typed, TypeOK
  <1>2. record - 1 = Len(log.records)
        <2>1. Len(page) = Len(log.records)
              BY WholeType, LogFacts DEF Typed, TypeOK, PageLoaded, Begun, Whole
        <2> QED BY <2>1, EventsTyped
  <1>3. ASSUME NEW k \in Giving
        PROVE  k \in Nat /\ page[k] = log.records[k] /\ Sources(k) = Places(k)
        <2>1. k \in 1..Len(log.records)
              BY DEF Giving
        <2> QED BY <2>1, GivingIs
  <1>4. ASSUME NEW i \in 1..n
        PROVE  /\ collected[i].record \in Giving
               /\ collected[i].at \in Places(collected[i].record)
               /\ collected[i].at \in Nat \X Nat \X Nat
               /\ TimeOf(collected[i]) = At(collected[i].record, collected[i].at)
        <2>1. PICK k \in 1..(record - 1) :
                 <<collected[i].record, collected[i].at>> \in {<<k, p>> : p \in Sources(k)}
              BY <1>1 DEF SourcesUpTo, Held
        <2>2. collected[i].record = k /\ collected[i].at \in Sources(k)
              BY <2>1
        <2>3. k \in Giving
              BY <1>2, <2>2 DEF Giving
        <2>4. page[k] = log.records[k] /\ Sources(k) = Places(k)
              BY <1>3, <2>3
        <2>5. /\ collected[i].dated \in BOOLEAN /\ collected[i].at \in Nat \X Nat \X Nat
              /\ collected[i].dated <=> Dated(log.records[k], collected[i].at)
              BY <1>1, <2>2, <2>4 DEF EventType, Stamped, TrulyDated
        <2>6. TimeOf(collected[i]) = At(k, collected[i].at)
              BY <2>2, <2>5 DEF TimeOf, RecordOf, EventTime, At
        <2> QED BY <2>2, <2>3, <2>4, <2>5, <2>6
  <1>5. ASSUME NEW k \in Giving, NEW p \in Places(k)
        PROVE  \E i \in 1..n : collected[i].record = k /\ collected[i].at = p
        <2>1. k \in 1..(record - 1) /\ p \in Sources(k)
              BY <1>2, <1>3 DEF Giving
        <2>2. <<k, p>> \in Held(collected)
              BY <1>1, <2>1 DEF SourcesUpTo
        <2> QED BY <2>2 DEF Held
  <1> HIDE DEF Places
  <1>6. \A i, j \in 1..n : i < j => Precedes(collected[i], collected[j])
        BY <1>1, Monotone
  <1>7. 1 \in 1..n /\ n \in 1..n /\ Last(collected) = collected[n]
        BY <1>1 DEF Last
  <1>8. FirstOf(Places(collected[1].record)) = collected[1].at
        <2> DEFINE k == collected[1].record
                   a == collected[1].at
        <2>1. /\ k \in Giving /\ a \in Places(k) /\ a \in Nat \X Nat \X Nat
              BY <1>4, <1>7
        <2>2. ASSUME NEW q \in Places(k)
              PROVE  q \in Nat \X Nat \X Nat /\ (a = q \/ Before(a, q))
              <3>1. PICK i \in 1..n : collected[i].record = k /\ collected[i].at = q
                    BY <1>5, <2>1
              <3>2. i = 1 \/ 1 < i
                    BY <1>1
              <3>3. k \in Nat
                    BY <1>3, <2>1
              <3> QED BY <1>4, <1>6, <1>7, <3>1, <3>2, <3>3 DEF Precedes
        <2> HIDE DEF k, a
        <2>3. ASSUME NEW q \in Places(k), \A r \in Places(k) : q = r \/ Before(q, r)
              PROVE  q = a
              BY <2>1, <2>2, <2>3, PlaceOrder
        <2>4. FirstOf(Places(k)) = a
              BY <2>1, <2>2, <2>3 DEF FirstOf
        <2> QED BY <2>4 DEF k, a
  <1>9. LastOf(Places(collected[n].record)) = collected[n].at
        <2> DEFINE k == collected[n].record
                   a == collected[n].at
        <2>1. /\ k \in Giving /\ a \in Places(k) /\ a \in Nat \X Nat \X Nat
              BY <1>4, <1>7
        <2>2. ASSUME NEW q \in Places(k)
              PROVE  q \in Nat \X Nat \X Nat /\ (a = q \/ Before(q, a))
              <3>1. PICK i \in 1..n : collected[i].record = k /\ collected[i].at = q
                    BY <1>5, <2>1
              <3>2. i = n \/ i < n
                    BY <1>1
              <3>3. k \in Nat
                    BY <1>3, <2>1
              <3> HIDE DEF n
              <3> QED BY <1>4, <1>6, <1>7, <3>1, <3>2, <3>3 DEF Precedes
        <2> HIDE DEF k, a
        <2>3. ASSUME NEW q \in Places(k), \A r \in Places(k) : q = r \/ Before(r, q)
              PROVE  q = a
              BY <2>1, <2>2, <2>3, PlaceOrder
        <2>4. LastOf(Places(k)) = a
              BY <2>1, <2>2, <2>3 DEF LastOf
        <2> QED BY <2>4 DEF k, a
  <1>10. /\ TimeOf(collected[1]) = TimesIn(log.before + collected[1].record).first
         /\ TimeOf(Last(collected)) = TimesIn(log.before + Last(collected).record).last
        <2>1. collected[1].record \in Nat /\ collected[n].record \in Nat
              BY <1>3, <1>4, <1>7
        <2> HIDE DEF n
        <2> QED BY <1>1, <1>4, <1>7, <1>8, <1>9, <2>1, TimesAre DEF Places
  <1>11. (\A event \in ToSet(collected) : TimeOf(event) \in Writable)
           <=> \A i \in 1..n : TimeOf(collected[i]) \in Writable
        <2>1. ToSet(collected) = {collected[i] : i \in 1..n}
              BY <1>1 DEF ToSet
        <2> QED BY <2>1
  <1>12. (\A i \in 1..n : TimeOf(collected[i]) \in Writable)
           <=> \A k \in Giving : \A p \in Places(k) : At(k, p) \in Writable
        <2>1. ASSUME \A i \in 1..n : TimeOf(collected[i]) \in Writable,
                     NEW k \in Giving, NEW p \in Places(k)
              PROVE  At(k, p) \in Writable
              <3>1. PICK i \in 1..n : collected[i].record = k /\ collected[i].at = p
                    BY <1>5
              <3> QED BY <1>4, <2>1, <3>1
        <2>2. ASSUME \A k \in Giving : \A p \in Places(k) : At(k, p) \in Writable,
                     NEW i \in 1..n
              PROVE  TimeOf(collected[i]) \in Writable
              BY <1>4, <2>2
        <2> QED BY <2>1, <2>2
  <1>13. ASSUME NEW k \in Giving
         PROVE  TimesIn(log.before + k).json <=> \A p \in Places(k) : At(k, p) \in Writable
        BY <1>1, <1>3, TimesAre DEF Places
  <1> QED BY <1>10, <1>11, <1>12, <1>13

\* What depends on the log alone.
LEMMA SameLog ==
  ASSUME log' = log
  PROVE  UNCHANGED <<content, stamp, logFiles, disk, received, crashes>>
  <1>1. Listed' = Listed
        BY DEF Listed
  <1>2. \A i : Time(i)' = Time(i) /\ Yields(i)' = Yields(i)
        BY <1>1 DEF Time, Yields
  <1> DEFINE Stored(i) == [time   |-> Time(i), flows |-> Yields(i),
                           events |-> IF Yields(i) THEN TimesIn(i)
                                      ELSE [first |-> 0, last |-> 0, json |-> TRUE]]
  <1>3. content' = content
        <2>1. \A i : TimesIn(i)' = TimesIn(i)
              BY DEF TimesIn
        <2>2. \A i : Stored(i)' = Stored(i)
              BY <1>2, <2>1
        <2>3. content = One([i \in 1..(Listed + log.later) |-> Stored(i)])
              BY DEF content
        <2>4. content' = One([i \in 1..(Listed' + log'.later) |-> Stored(i)'])
              BY DEF content, One
        <2> HIDE DEF Stored
        <2> QED BY <1>1, <2>2, <2>3, <2>4
  <1>4. logFiles' = logFiles /\ disk' = disk
        BY <1>1 DEF logFiles, disk, One
  <1>5. stamp' = stamp /\ received' = received /\ crashes' = crashes
        BY DEF stamp, received, crashes, One
  <1> QED BY <1>3, <1>4, <1>5

\* As long as nothing is written, there is the checkpoint the task was made with.
LEMMA NothingWritten ==
  ASSUME log' = log, ~Written, ~Written'
  PROVE  UNCHANGED <<status, files>> /\ files = {}
  BY DEF status, files, One

\* The page of the blob, which has not changed, is loaded.
LEMMA TaskLoads ==
  ASSUME Typed, LoadPage
  PROVE  /\ taskPc = "run" /\ taskPc' = "send" /\ todo = {1} /\ cur' = 1 /\ pos' = 1
         /\ logFiles[1].start < Len(content[1]) /\ Len(content[1]) = logFiles[1].length
         /\ UNCHANGED <<content, stamp, status, logFiles, todo, disk, received, files,
                        crashes, faults>>
  <1>1. log' = log /\ pc = "load" /\ pc' = "page" /\ log \in Logs
        BY DEF LoadPage, Typed, TypeOK
  <1>2. log.later = 0 /\ log.lost = 0
        BY <1>1, PayloadEnds DEF LoadPage
  <1>3. /\ taskPc = "run" /\ taskPc' = "send" /\ todo = {1} /\ todo' = {1}
        /\ cur' = 1 /\ pos' = 1
        BY <1>1 DEF taskPc, Converting, todo, cur, pos
  <1>4. faults' = faults
        BY <1>1, <1>2 DEF faults
  <1>5. UNCHANGED <<status, files>>
        BY <1>1, NothingWritten DEF Written
  <1>6. logFiles[1].start < Len(content[1]) /\ Len(content[1]) = logFiles[1].length
        <2>1. log.before \in Nat /\ Len(log.records) \in Nat \ {0}
              BY <1>1, LogFacts
        <2>2. Len(content[1]) = Listed /\ logFiles[1].length = Listed
              /\ logFiles[1].start = log.before
              BY <1>1, <1>2, BlobFacts
        <2> QED BY <2>1, <2>2 DEF Listed
  <1> QED BY <1>1, <1>3, <1>4, <1>5, <1>6, SameLog

\* Or the task ends with an error: the range cut a record, or the answer was cut.
LEMMA TaskFails ==
  ASSUME Typed, Converted, LoadFails
  PROVE  /\ taskPc = "run" /\ todo = {1} /\ todo' = {1} \ {1}
         /\ \/ logFiles[1].length < Len(content[1]) /\ UNCHANGED faults
            \/ logFiles[1].start < Len(content[1]) /\ faults = 0 /\ faults' = 1
         /\ UNCHANGED <<content, stamp, taskPc, status, logFiles, cur, pos, disk, received,
                        files, crashes>>
  <1>1. log' = log /\ pc = "load" /\ pc' = "done" /\ log \in Logs /\ collected' = collected
        BY DEF LoadFails, Typed, TypeOK
  <1>2. /\ log.later \in Nat /\ log.lost \in Nat /\ log.before \in Nat
        /\ Len(log.records) \in Nat \ {0} /\ ~(log.later = 0 /\ log.lost = 0)
        BY <1>1, LogFacts, PayloadFacts DEF LoadFails
  <1>3. collected = <<>>
        BY <1>1, NothingCollected
  <1>4. UNCHANGED <<status, files>>
        BY <1>1, <1>3, NothingWritten DEF Written
  <1>5. /\ taskPc = "run" /\ todo = {1} /\ todo' = {1} \ {1}
        /\ UNCHANGED <<taskPc, cur, pos>>
        BY <1>1 DEF taskPc, Converting, todo, cur, pos
  <1>6. /\ Len(content[1]) = Listed + log.later /\ Listed = log.before + Len(log.records)
        /\ logFiles[1].length = Listed /\ logFiles[1].start = log.before
        BY <1>1, BlobFacts DEF Listed
  <1>7. CASE log.later = 0
        <2>1. faults = 0 /\ faults' = 1
              BY <1>1, <1>2, <1>7 DEF faults
        <2>2. logFiles[1].start < Len(content[1])
              BY <1>2, <1>6, <1>7
        <2> QED BY <1>1, <1>4, <1>5, <2>1, <2>2, SameLog
  <1>8. CASE log.later > 0
        <2>1. faults' = faults
              BY <1>1, <1>2, <1>8 DEF faults
        <2>2. logFiles[1].length < Len(content[1])
              BY <1>2, <1>6, <1>8
        <2> QED BY <1>1, <1>4, <1>5, <2>1, <2>2, SameLog
  <1> QED BY <1>2, <1>7, <1>8

\* The file, in the terms of the records that give events.
FirstGiving == CHOOSE k \in Giving : \A l \in Giving : k <= l
LastGiving  == CHOOSE k \in Giving : \A l \in Giving : l <= k

GivingFile ==
    [name   |-> [log   |-> "log",
                 start |-> content[1][log.before + FirstGiving].events.first,
                 end   |-> content[1][log.before + LastGiving].events.last],
     events |-> {<<1, log.before + k>> : k \in Giving}]

GivingMarshalled == \A k \in Giving : content[1][log.before + k].events.json

\* The end of the page: the file has the records that give events, and is named for the
\* first and the last of their times; the checkpoint is the last record of the page.  If
\* json refuses one of their times there is neither.
LEMMA TaskEnds ==
  ASSUME Typed, Converted, Begun, Stamped, Finish
  PROVE  /\ taskPc = "send" /\ taskPc' = "run" /\ cur = 1 /\ cur' = 0 /\ pos' = 0
         /\ todo' = {1} \ {1} /\ todo = {1} /\ files = {}
         /\ UNCHANGED <<content, stamp, logFiles, disk, received, crashes, faults>>
         /\ Giving = {} \/ ~GivingMarshalled => UNCHANGED <<status, files>>
         /\ Giving # {} /\ GivingMarshalled =>
              /\ FirstGiving \in Giving /\ LastGiving \in Giving /\ files' = {GivingFile}
              /\ status' = [status EXCEPT ![1] =
                    [stamp |-> 1, end |-> Listed,
                     lastRecord |-> content[1][log.before + Len(log.records)].time]]
  <1>1. /\ log' = log /\ pc = "page" /\ pc' = "done" /\ log \in Logs
        /\ collected' = collected /\ record > Len(page)
        BY DEF Finish, Typed, TypeOK
  <1>2. /\ taskPc = "send" /\ taskPc' = "run" /\ cur = 1 /\ cur' = 0 /\ pos' = 0
        /\ todo' = {1} \ {1} /\ todo = {1}
        BY <1>1 DEF taskPc, Converting, todo, cur, pos
  <1>3. faults' = faults
        BY <1>1 DEF faults
  <1>4. /\ files = {} /\ ~Written
        /\ Written' <=> /\ collected # <<>>
                        /\ \A event \in ToSet(collected) : TimeOf(event) \in Writable
        BY <1>1 DEF files, Written, TimeOf, RecordOf
  <1>5. /\ {event.record : event \in ToSet(collected)} = Giving
        /\ collected = <<>> <=> Giving = {}
        BY <1>1, CollectedGiving
  <1>6. ASSUME NEW k \in Giving
        PROVE  k \in Nat /\ content[1][log.before + k].events = TimesIn(log.before + k)
        <2>1. k \in 1..Len(log.records)
              BY DEF Giving
        <2>2. EventsAt(log.records[k]) # {}
              BY <1>1, <2>1, GivingIs
        <2>3. content[1][log.before + k].events = TimesIn(log.before + k)
              BY <1>1, <2>1, <2>2, BlobFacts
        <2>4. k \in Nat
              BY <2>1
        <2> QED BY <2>3, <2>4
  <1>7. Written' <=> Giving # {} /\ GivingMarshalled
        <2>1. GivingMarshalled <=> \A k \in Giving : TimesIn(log.before + k).json
              BY <1>6 DEF GivingMarshalled
        <2>2. CASE collected = <<>>
              BY <1>4, <1>5, <2>2
        <2>3. CASE collected # <<>>
              BY <1>1, <1>4, <1>5, <2>1, <2>3, CollectedTimes
        <2> QED BY <2>2, <2>3
  <1>8. ASSUME Giving = {} \/ ~GivingMarshalled PROVE UNCHANGED <<status, files>>
        BY <1>1, <1>4, <1>8, <1>7, NothingWritten
  <1>9. ASSUME Giving # {}, GivingMarshalled
        PROVE  /\ FirstGiving \in Giving /\ LastGiving \in Giving /\ files' = {GivingFile}
               /\ status' = [status EXCEPT ![1] =
                     [stamp |-> 1, end |-> Listed,
                      lastRecord |-> content[1][log.before + Len(log.records)].time]]
        <2> DEFINE first == collected[1].record
                   last == Last(collected).record
        <2>1. /\ first \in Giving /\ last \in Giving
              /\ \A k \in Giving : first <= k /\ k <= last
              BY <1>1, <1>5, <1>9, CollectedGiving
        <2>2. /\ Giving \subseteq 1..Len(log.records)
              /\ Len(log.records) \in 1..Len(log.records) /\ Giving \subseteq Nat
              BY <1>1, LogFacts DEF Giving
        <2> HIDE DEF first, last
        <2>3. FirstGiving = first
              <3>1. \A k \in Giving : (\A l \in Giving : k <= l) => k = first
                    BY <2>1, <2>2
              <3> QED BY <2>1, <3>1 DEF FirstGiving
        <2>4. LastGiving = last
              <3>1. \A k \in Giving : (\A l \in Giving : l <= k) => k = last
                    BY <2>1, <2>2
              <3> QED BY <2>1, <3>1 DEF LastGiving
        <2>5. /\ TimeOf(collected[1]) = content[1][log.before + first].events.first
              /\ TimeOf(Last(collected)) = content[1][log.before + last].events.last
              BY <1>1, <1>5, <1>9, <1>6, <2>1, CollectedTimes DEF first, last
        <2>6. {<<1, RecordOf(event)>> : event \in ToSet(collected)}
                = {<<1, log.before + k>> : k \in Giving}
              BY <1>5 DEF RecordOf
        <2>7. files' = {[name   |-> [log   |-> "log",
                                    start |-> TimeOf(collected[1]),
                                    end   |-> TimeOf(Last(collected))],
                        events |-> {<<1, RecordOf(event)>> : event \in ToSet(collected)}]}
              <3>1. Written'
                    BY <1>9, <1>7
              <3>2. \A event : TimeOf(event)' = TimeOf(event) /\ RecordOf(event)' = RecordOf(event)
                    BY <1>1 DEF TimeOf, RecordOf
              <3>3. TimeOf(collected[1])' = TimeOf(collected[1])
                    BY <1>1 DEF TimeOf, RecordOf
              <3>4. TimeOf(Last(collected))' = TimeOf(Last(collected))
                    BY <1>1 DEF TimeOf, RecordOf
              <3> QED BY <1>1, <3>1, <3>2, <3>3, <3>4 DEF files
        <2>8. files' = {GivingFile}
              BY <2>3, <2>4, <2>5, <2>6, <2>7 DEF GivingFile
        <2> DEFINE new == [stamp |-> 1, end |-> Listed, lastRecord |-> Time(Listed)]
        <2>9. status' = [status EXCEPT ![1] = new]
              <3>1. Written'
                    BY <1>9, <1>7
              <3>2. Listed' = Listed /\ Time(Listed)' = Time(Listed)
                    BY <1>1 DEF Time, Listed
              <3>3. new' = new
                    BY <3>2
              <3> HIDE DEF new
              <3>4. status' = [b \in {1} |-> new]
                    BY <3>1, <3>3 DEF status, One, new
              <3>5. \A x, y : [[b \in {1} |-> x] EXCEPT ![1] = y] = [b \in {1} |-> y]
                    OBVIOUS
              <3> QED BY <1>4, <3>4, <3>5 DEF status, One
        <2>10. Time(Listed) = content[1][log.before + Len(log.records)].time
              BY <1>1, <2>2, BlobFacts DEF Listed
        <2> QED BY <2>1, <2>3, <2>4, <2>8, <2>9, <2>10
  <1> QED BY <1>1, <1>2, <1>3, <1>4, <1>8, <1>9, SameLog

\* The three kinds of step in an NSG log, whose entries are all whole.
LEMMA NsgLoads == ASSUME Typed, LoadPage PROVE NsgBlob!FileTask(1)
  <1>1. NsgBlob!LoadBlobRange(1)
        <2>1. NsgBlob!NextTask(1)
              BY TaskLoads DEF NsgBlob!NextTask
        <2> QED BY <2>1, TaskLoads
                DEF NsgBlob!LoadBlobRange, NsgBlob!Start, NsgBlob!Length, NsgBlob!azure,
                    NsgBlob!sinks
  <1> QED BY <1>1 DEF NsgBlob!FileTask

LEMMA NsgFails == ASSUME Typed, Converted, LoadFails PROVE NsgBlob!FileTask(1)
  <1>1. NsgBlob!NextTask(1) /\ todo' = todo \ {1}
        BY TaskFails DEF NsgBlob!NextTask
  <1>2. UNCHANGED <<content, stamp, taskPc, status, logFiles, cur, pos, disk, received,
                    files, crashes>>
        BY TaskFails
  <1>3. CASE logFiles[1].length < Len(content[1]) /\ UNCHANGED faults
        BY <1>1, <1>2, <1>3 DEF NsgBlob!FileTask, NsgBlob!LoadCutsRecord, NsgBlob!Length,
                                NsgBlob!azure, NsgBlob!sinks
  <1>4. CASE logFiles[1].start < Len(content[1]) /\ faults = 0 /\ faults' = 1
        <2>1. NsgBlob!Fault("get")
              BY <1>4 DEF NsgBlob!Fault, FaultKinds, MaxFaults
        <2> QED BY <1>1, <1>2, <1>4, <2>1
                DEF NsgBlob!FileTask, NsgBlob!LoadFallsShort, NsgBlob!Start, NsgBlob!azure,
                    NsgBlob!sinks
  <1> QED BY <1>3, <1>4, TaskFails

LEMMA NsgEnds ==
  ASSUME Typed, Converted, Begun, Stamped, Finish, log.kind = "nsg" PROVE NsgBlob!FileTask(1)
  <1> DEFINE b == log.before
             n == Len(log.records)
  <1>1. log \in Logs /\ pc = "page" /\ cur = 1 /\ b \in Nat /\ n \in Nat \ {0}
        BY TaskEnds, LogFacts DEF Finish, Typed, TypeOK
  <1>2. /\ logFiles[1] = [stamp |-> 1, length |-> Listed, start |-> b, lastRecord |-> 1]
        /\ Listed = b + n
        BY <1>1, BlobFacts DEF Listed
  <1>3. NsgBlob!PageSize = n
        BY <1>1, <1>2 DEF NsgBlob!PageSize, NsgBlob!Length, NsgBlob!Start
  <1>4. NsgBlob!Entries = 1..n
        BY <1>3 DEF NsgBlob!Entries
  <1>5. \A k : NsgBlob!Entry(k) = b + k
        BY <1>1, <1>2 DEF NsgBlob!Entry, NsgBlob!Start, PerIteration
  <1>6. ASSUME NEW k \in 1..n PROVE NsgBlob!Emits(k) <=> k \in Giving
        <2>1. /\ content[1][b + k].time = IF log.records[k].late THEN b + k + 1 ELSE 1
              /\ content[1][b + k].flows <=> EventsAt(log.records[k]) # {}
              BY <1>1, BlobFacts
        <2>2. content[1][b + k].time > 1 <=> log.records[k].late
              <3> DEFINE time == content[1][b + k].time
                         late == log.records[k].late
              <3>1. time = IF late THEN b + k + 1 ELSE 1
                    BY <2>1
              <3> HIDE DEF time, late
              <3> QED BY <1>1, <3>1 DEF time, late
        <2>3. NsgBlob!HeadLost(b + k) <=> FALSE
              BY <1>1, <1>2 DEF NsgBlob!HeadLost
        <2>4. NsgBlob!Emits(k) <=>
                /\ content[1][b + k].flows /\ ~NsgBlob!HeadLost(b + k)
                /\ content[1][b + k].time > 1
              BY <1>1, <1>2, <1>5 DEF NsgBlob!Emits
        <2>5. k \in Giving <=>
                /\ log.records[k].late /\ EventsAt(log.records[k]) # {}
                /\ log.kind = "nsg" \/ k > 1
              BY <1>1, GivingIs
        <2>6. k > 1 <=> k # 1
              BY <1>1
        <2> QED BY <2>1, <2>2, <2>3, <2>4, <2>5, <2>6
  <1>7. NsgBlob!Emitting = Giving
        <2>1. Giving \subseteq 1..n
              BY DEF Giving
        <2> QED BY <1>4, <1>6, <2>1 DEF NsgBlob!Emitting
  <1>8. NsgBlob!Writing /\ files = {} /\ UNCHANGED <<content, stamp, logFiles, disk, received,
                                                   crashes, faults>>
        BY TaskEnds DEF NsgBlob!Writing, Destination
  <1>9. CASE Giving = {}
        BY <1>1, <1>7, <1>8, <1>9, TaskEnds
           DEF NsgBlob!FileTask, NsgBlob!NothingToWrite, NsgBlob!NotReported, NsgBlob!NoBlob,
               NsgBlob!azure,
               NsgBlob!sinks
  <1>10. \A k : NsgBlob!EventsOf(k) = content[1][b + k].events
        BY <1>1, <1>5 DEF NsgBlob!EventsOf
  <1>11. NsgBlob!Marshalled <=> GivingMarshalled
        BY <1>7, <1>10 DEF NsgBlob!Marshalled, GivingMarshalled
  <1>12. CASE Giving # {} /\ ~GivingMarshalled
        BY <1>1, <1>8, <1>11, <1>12, TaskEnds
           DEF NsgBlob!FileTask, NsgBlob!MarshalFails, NsgBlob!NotReported, NsgBlob!NoBlob,
               NsgBlob!azure, NsgBlob!sinks
  <1>13. CASE Giving # {} /\ GivingMarshalled
        <2>1. /\ files' = {GivingFile}
              /\ status' = [status EXCEPT ![1] =
                    [stamp |-> 1, end |-> Listed, lastRecord |-> content[1][b + n].time]]
              BY <1>13, TaskEnds
        <2>2. NsgBlob!Checkpoint
                = [stamp |-> 1, end |-> Listed, lastRecord |-> content[1][b + n].time]
              BY <1>1, <1>2, <1>3, <1>5 DEF NsgBlob!Checkpoint, NsgBlob!Length
        <2>3. NsgBlob!RecordResult
              BY <1>1, <2>1, <2>2, TaskEnds DEF NsgBlob!RecordResult, NsgBlob!NoBlob
        <2>4. NsgBlob!FileName = GivingFile.name
              <3>1. NsgBlob!FileName = [log   |-> LogName[1],
                                    start |-> NsgBlob!EventsOf(FirstGiving).first,
                                    end   |-> NsgBlob!EventsOf(LastGiving).last]
                    BY <1>1, <1>7 DEF NsgBlob!FileName, FirstGiving, LastGiving
              <3>2. LogName[1] = "log"
                    BY DEF LogName
              <3> QED BY <1>10, <3>1, <3>2 DEF GivingFile
        <2>5. {<<cur, NsgBlob!Entry(k)>> : k \in NsgBlob!Emitting} = GivingFile.events
              BY <1>1, <1>5, <1>7 DEF GivingFile
        <2>6. {GivingFile} = {f \in files : f.name # NsgBlob!FileName}
                 \cup {[name   |-> NsgBlob!FileName,
                        events |-> {<<cur, NsgBlob!Entry(k)>> : k \in NsgBlob!Emitting}]}
              <3>1. GivingFile = [name |-> GivingFile.name, events |-> GivingFile.events]
                    BY DEF GivingFile
              <3> QED BY <1>8, <2>4, <2>5, <3>1
        <2>7. NsgBlob!WriteFile
              BY <1>7, <1>8, <1>11, <1>13, <2>1, <2>3, <2>6 DEF NsgBlob!WriteFile, NsgBlob!azure
        <2> QED BY <2>7 DEF NsgBlob!FileTask
  <1> QED BY <1>9, <1>12, <1>13

\* The three kinds of step in the log of a gateway, whose first entry has lost its operation.
LEMMA GatewayLoads == ASSUME Typed, LoadPage PROVE GatewayBlob!FileTask(1)
  <1>1. GatewayBlob!LoadBlobRange(1)
        <2>1. GatewayBlob!NextTask(1)
              BY TaskLoads DEF GatewayBlob!NextTask
        <2> QED BY <2>1, TaskLoads
                DEF GatewayBlob!LoadBlobRange, GatewayBlob!Start, GatewayBlob!Length,
                    GatewayBlob!azure, GatewayBlob!sinks
  <1> QED BY <1>1 DEF GatewayBlob!FileTask

LEMMA GatewayFails == ASSUME Typed, Converted, LoadFails PROVE GatewayBlob!FileTask(1)
  <1>1. GatewayBlob!NextTask(1) /\ todo' = todo \ {1}
        BY TaskFails DEF GatewayBlob!NextTask
  <1>2. UNCHANGED <<content, stamp, taskPc, status, logFiles, cur, pos, disk, received,
                    files, crashes>>
        BY TaskFails
  <1>3. CASE logFiles[1].length < Len(content[1]) /\ UNCHANGED faults
        BY <1>1, <1>2, <1>3 DEF GatewayBlob!FileTask, GatewayBlob!LoadCutsRecord,
                                GatewayBlob!Length,
                                GatewayBlob!azure, GatewayBlob!sinks
  <1>4. CASE logFiles[1].start < Len(content[1]) /\ faults = 0 /\ faults' = 1
        <2>1. GatewayBlob!Fault("get")
              BY <1>4 DEF GatewayBlob!Fault, FaultKinds, MaxFaults
        <2> QED BY <1>1, <1>2, <1>4, <2>1
                DEF GatewayBlob!FileTask, GatewayBlob!LoadFallsShort, GatewayBlob!Start,
                    GatewayBlob!azure, GatewayBlob!sinks
  <1> QED BY <1>3, <1>4, TaskFails

LEMMA GatewayEnds ==
  ASSUME Typed, Converted, Begun, Stamped, Finish, log.kind # "nsg" PROVE GatewayBlob!FileTask(1)
  <1> DEFINE b == log.before
             n == Len(log.records)
  <1>1. log \in Logs /\ pc = "page" /\ cur = 1 /\ b \in Nat /\ n \in Nat \ {0}
        BY TaskEnds, LogFacts DEF Finish, Typed, TypeOK
  <1>2. /\ logFiles[1] = [stamp |-> 1, length |-> Listed, start |-> b, lastRecord |-> 1]
        /\ Listed = b + n
        BY <1>1, BlobFacts DEF Listed
  <1>3. GatewayBlob!PageSize = n
        BY <1>1, <1>2 DEF GatewayBlob!PageSize, GatewayBlob!Length, GatewayBlob!Start
  <1>4. GatewayBlob!Entries = 1..n
        BY <1>3 DEF GatewayBlob!Entries
  <1>5. \A k : GatewayBlob!Entry(k) = b + k
        BY <1>1, <1>2 DEF GatewayBlob!Entry, GatewayBlob!Start, PerIteration
  <1>6. ASSUME NEW k \in 1..n PROVE GatewayBlob!Emits(k) <=> k \in Giving
        <2>1. /\ content[1][b + k].time = IF log.records[k].late THEN b + k + 1 ELSE 1
              /\ content[1][b + k].flows <=> EventsAt(log.records[k]) # {}
              BY <1>1, BlobFacts
        <2>2. content[1][b + k].time > 1 <=> log.records[k].late
              <3> DEFINE time == content[1][b + k].time
                         late == log.records[k].late
              <3>1. time = IF late THEN b + k + 1 ELSE 1
                    BY <2>1
              <3> HIDE DEF time, late
              <3> QED BY <1>1, <3>1 DEF time, late
        <2>3. GatewayBlob!HeadLost(b + k) <=> k = 1
              BY <1>1, <1>2 DEF GatewayBlob!HeadLost, GatewayBlob!Start
        <2>4. GatewayBlob!Emits(k) <=>
                /\ content[1][b + k].flows /\ ~GatewayBlob!HeadLost(b + k)
                /\ content[1][b + k].time > 1
              BY <1>1, <1>2, <1>5 DEF GatewayBlob!Emits
        <2>5. k \in Giving <=>
                /\ log.records[k].late /\ EventsAt(log.records[k]) # {}
                /\ log.kind = "nsg" \/ k > 1
              BY <1>1, GivingIs
        <2>6. k > 1 <=> k # 1
              BY <1>1
        <2> QED BY <2>1, <2>2, <2>3, <2>4, <2>5, <2>6
  <1>7. GatewayBlob!Emitting = Giving
        <2>1. Giving \subseteq 1..n
              BY DEF Giving
        <2> QED BY <1>4, <1>6, <2>1 DEF GatewayBlob!Emitting
  <1>8. GatewayBlob!Writing /\ files = {} /\ UNCHANGED <<content, stamp, logFiles, disk, received,
                                                   crashes, faults>>
        BY TaskEnds DEF GatewayBlob!Writing, Destination
  <1>9. CASE Giving = {}
        BY <1>1, <1>7, <1>8, <1>9, TaskEnds
           DEF GatewayBlob!FileTask, GatewayBlob!NothingToWrite, GatewayBlob!NotReported,
               GatewayBlob!NoBlob,
               GatewayBlob!azure, GatewayBlob!sinks
  <1>10. \A k : GatewayBlob!EventsOf(k) = content[1][b + k].events
        BY <1>1, <1>5 DEF GatewayBlob!EventsOf
  <1>11. GatewayBlob!Marshalled <=> GivingMarshalled
        BY <1>7, <1>10 DEF GatewayBlob!Marshalled, GivingMarshalled
  <1>12. CASE Giving # {} /\ ~GivingMarshalled
        BY <1>1, <1>8, <1>11, <1>12, TaskEnds
           DEF GatewayBlob!FileTask, GatewayBlob!MarshalFails, GatewayBlob!NotReported,
               GatewayBlob!NoBlob, GatewayBlob!azure, GatewayBlob!sinks
  <1>13. CASE Giving # {} /\ GivingMarshalled
        <2>1. /\ files' = {GivingFile}
              /\ status' = [status EXCEPT ![1] =
                    [stamp |-> 1, end |-> Listed, lastRecord |-> content[1][b + n].time]]
              BY <1>13, TaskEnds
        <2>2. GatewayBlob!Checkpoint
                = [stamp |-> 1, end |-> Listed, lastRecord |-> content[1][b + n].time]
              BY <1>1, <1>2, <1>3, <1>5 DEF GatewayBlob!Checkpoint, GatewayBlob!Length
        <2>3. GatewayBlob!RecordResult
              BY <1>1, <2>1, <2>2, TaskEnds DEF GatewayBlob!RecordResult, GatewayBlob!NoBlob
        <2>4. GatewayBlob!FileName = GivingFile.name
              <3>1. GatewayBlob!FileName = [log   |-> LogName[1],
                                    start |-> GatewayBlob!EventsOf(FirstGiving).first,
                                    end   |-> GatewayBlob!EventsOf(LastGiving).last]
                    BY <1>1, <1>7 DEF GatewayBlob!FileName, FirstGiving, LastGiving
              <3>2. LogName[1] = "log"
                    BY DEF LogName
              <3> QED BY <1>10, <3>1, <3>2 DEF GivingFile
        <2>5. {<<cur, GatewayBlob!Entry(k)>> : k \in GatewayBlob!Emitting} = GivingFile.events
              BY <1>1, <1>5, <1>7 DEF GivingFile
        <2>6. {GivingFile} = {f \in files : f.name # GatewayBlob!FileName}
                 \cup {[name   |-> GatewayBlob!FileName,
                        events |-> {<<cur, GatewayBlob!Entry(k)>> : k \in GatewayBlob!Emitting}]}
              <3>1. GivingFile = [name |-> GivingFile.name, events |-> GivingFile.events]
                    BY DEF GivingFile
              <3> QED BY <1>8, <2>4, <2>5, <3>1
        <2>7. GatewayBlob!WriteFile
              BY <1>7, <1>8, <1>11, <1>13, <2>1, <2>3, <2>6 DEF GatewayBlob!WriteFile,
                                                                GatewayBlob!azure
        <2> QED BY <2>7 DEF GatewayBlob!FileTask
  <1> QED BY <1>9, <1>12, <1>13

\* Between two records, and in the loops of one, BlobIngest sees nothing.
LEMMA UnseenStep ==
  ASSUME log' = log, pc \in {"page", "flows"}, pc' \in {"page", "flows"}
  PROVE  UNCHANGED NsgBlob!vars
  <1>1. UNCHANGED <<taskPc, todo, cur, pos, faults>>
        BY DEF taskPc, Converting, todo, cur, pos, faults
  <1>2. UNCHANGED <<status, files>>
        BY NothingWritten DEF Written
  <1> QED BY <1>1, <1>2, SameLog DEF NsgBlob!vars

LEMMA TaskNext ==
  ASSUME Typed, Converted, Begun, Stamped, [Next]_vars
  PROVE  \/ UNCHANGED NsgBlob!vars
         \/ IF log.kind = "nsg" THEN NsgBlob!FileTask(1) ELSE GatewayBlob!FileTask(1)
  <1>1. CASE LoadPage
        BY <1>1, NsgLoads, GatewayLoads
  <1>2. CASE LoadFails
        BY <1>2, NsgFails, GatewayFails
  <1>3. CASE Finish
        BY <1>3, NsgEnds, GatewayEnds
  <1>4. CASE SkipRecord \/ ConvertGateway \/ EnterFlows
        <2>1. log' = log /\ pc = "page" /\ pc' \in {"page", "flows"}
              BY <1>4 DEF SkipRecord, ConvertGateway, EnterFlows, AtRecord, NextRecord, Panic
        <2> QED BY <2>1, UnseenStep
  <1>5. CASE NextFlow \/ NextSubFlow \/ ShortTuple \/ ConvertTuple \/ TuplePanics \/ ReturnEvents
        <2>1. log' = log /\ pc = "flows" /\ pc' \in {"page", "flows"}
              BY <1>5 DEF NextFlow, NextSubFlow, ShortTuple, ConvertTuple, TuplePanics,
                          ReturnEvents, AtTuple, NextRecord, Panic
        <2> QED BY <2>1, UnseenStep
  <1>6. CASE UNCHANGED vars
        <2>1. UNCHANGED <<log, pc, collected>>
              BY <1>6 DEF vars
        <2>2. UNCHANGED <<taskPc, todo, cur, pos, faults>>
              BY <2>1 DEF taskPc, Converting, todo, cur, pos, faults
        <2>3. UNCHANGED <<status, files>>
              BY <2>1 DEF status, files, Written, TimeOf, RecordOf, Time, Listed, One
        <2> QED BY <2>1, <2>2, <2>3, SameLog DEF NsgBlob!vars
  <1> QED BY <1>1, <1>2, <1>3, <1>4, <1>5, <1>6 DEF Next

\* BlobIngest's account of a task is what the code does with the tokens, records and
\* tuples of a log: whatever log it is, each step of the loading, of the conversion and
\* of the loops is a step of BlobIngest's file task or none that it sees.  So a page is
\* whole or the task ends, an entry emits as BlobIngest's filter says and the first one
\* of a gateway log never, and the file has the records BlobIngest gives it and is named for
\* the times their first and last events have; or there is none, if json refuses a time.
THEOREM TaskImplemented == Spec => IsFileTask
  <1> DEFINE Inv == Typed /\ Loops /\ Converted /\ Begun /\ Stamped
  <1>1. Init => Inv
        BY TypedInit, ConvertedInit, StampedInit DEF Init, Begun
  <1>2. Inv /\ [Next]_vars => Inv'
        BY TypedNext, LoopsNext, ConvertedNext, BegunNext, StampedNext
  <1>3. Inv /\ [Next]_vars =>
          [IF log.kind = "nsg" THEN NsgBlob!FileTask(1) ELSE GatewayBlob!FileTask(1)]_(NsgBlob!vars)
        BY TaskNext
  <1> QED BY <1>1, <1>2, <1>3, PTL DEF Spec, IsFileTask
=============================================================================
