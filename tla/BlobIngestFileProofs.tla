------------------------ MODULE BlobIngestFileProofs ------------------------
(* Theorems about BlobIngest with the file destination: what the files hold, *)
(* and how often, for every value of the constants.                          *)
EXTENDS BlobIngestProofs

-----------------------------------------------------------------------------
(* Both checkpoints are positions of their blobs.                            *)

Positions ==
  /\ \A b \in Blobs : Ordered(content[b])
  /\ \A b \in Blobs : Sound(status[b], b) /\ Sound(disk[b], b)

LEMMA SoundNoStatus == ASSUME TypeInv, NEW b \in Blobs PROVE Sound(NoStatus[b], b)
  <1>1. Len(content[b]) \in Nat
        BY DEF TypeInv, TypeOK
  <1> QED BY <1>1 DEF Sound, NoStatus, NoEntry

LEMMA InitPositions == ASSUME Init PROVE Positions
  <1>1. \A b \in Blobs : Ordered(content[b])
        BY DEF Init, Ordered
  <1>2. \A b \in Blobs : Sound(NoStatus[b], b)
        BY InitType, SoundNoStatus
  <1> QED BY <1>1, <1>2 DEF Init, Positions

\* A step that writes to no blob and makes no new checkpoint.
LEMMA QuietPositions ==
  ASSUME TypeInv, Positions, UNCHANGED content,
         status' \in {status, disk, NoStatus}, disk' \in {status, disk, NoStatus}
  PROVE  Positions'
  <1>1. \A b \in Blobs : Sound(status'[b], b) /\ Sound(disk'[b], b)
        BY SoundNoStatus DEF Positions
  <1>2. (\A b \in Blobs : Sound(status[b], b) /\ Sound(disk[b], b))'
        BY <1>1 DEF Sound
  <1>3. (\A b \in Blobs : Ordered(content[b]))'
        BY DEF Positions, Ordered
  <1> QED BY <1>2, <1>3 DEF Positions

\* A page that was handed on leaves the checkpoint at its end.
LEMMA RecordFacts ==
  ASSUME TypeInv, pc = "send", RecordResult
  PROVE  /\ pc' = "run" /\ cur \in Blobs /\ Length(cur) \in 1..Len(content[cur])
         /\ status'[cur].end = Length(cur)
         /\ status'[cur].lastRecord = content[cur][Length(cur)].time
         /\ \A b \in Blobs : b # cur => status'[b] = status[b]
  <1>1. /\ cur \in Blobs /\ Length(cur) \in 1..Len(content[cur]) /\ Entry(PageSize) = Length(cur)
        BY PageFacts
  <1>2. pc' = "run" /\ status' = [status EXCEPT ![cur] = Checkpoint]
        BY DEF RecordResult
  <1>3. status'[cur] = Checkpoint /\ \A b \in Blobs : b # cur => status'[b] = status[b]
        BY <1>1, <1>2 DEF TypeInv, TypeOK
  <1> QED BY <1>1, <1>2, <1>3 DEF Checkpoint

LEMMA RecordPositions ==
  ASSUME TypeInv, Positions, pc = "send", RecordResult, UNCHANGED <<content, disk>>
  PROVE  Positions'
  <1>1. ASSUME NEW b \in Blobs PROVE Sound(status'[b], b)
        <2>1. CASE b = cur
              <3>1. Length(cur) \in Nat /\ Length(cur) # 0 /\ Length(cur) <= Len(content[cur])
                    BY RecordFacts
              <3> QED BY <2>1, <3>1, RecordFacts DEF Sound
        <2>2. CASE b # cur
              BY <2>2, RecordFacts DEF Positions
        <2> QED BY <2>1, <2>2
  <1>2. (\A b \in Blobs : Sound(status[b], b) /\ Sound(disk[b], b))'
        BY <1>1 DEF Positions, Sound
  <1>3. (\A b \in Blobs : Ordered(content[b]))'
        BY DEF Positions, Ordered
  <1> QED BY <1>2, <1>3 DEF Positions

\* The positions under the checkpoints, as numbers.
LEMMA PositionFacts ==
  ASSUME TypeInv, Positions, NEW b \in Blobs
  PROVE  /\ status[b].end \in Nat /\ status[b].end <= Len(content[b])
         /\ disk[b].end \in Nat /\ disk[b].end <= Len(content[b])
         /\ Len(content[b]) \in Nat /\ Len(content[b]) <= MaxRecords
  <1>1. status[b].end <= Len(content[b]) /\ disk[b].end <= Len(content[b])
        BY DEF Positions, Sound
  <1>2. Len(content[b]) \in Nat /\ Len(content[b]) <= MaxRecords
        BY DEF TypeInv, TypeOK
  <1> QED BY <1>1, <1>2, CheckpointFacts

LEMMA AppendPositions ==
  ASSUME TypeInv, Positions, OrderedTimes, NEW b \in Blobs, AppendRecord(b)
  PROVE  Positions'
  <1>1. UNCHANGED <<status, disk>>
        BY DEF AppendRecord, job
  <1>2. ASSUME NEW c \in Blobs PROVE Ordered(content'[c])
        BY AppendEffect DEF Positions
  <1>3. ASSUME NEW c \in Blobs PROVE Sound(status[c], c)' /\ Sound(disk[c], c)'
        <2>1. \A e \in {status[c], disk[c]} : e.end # 0 => content'[c][e.end] = content[c][e.end]
              BY PositionFacts, AppendEffect
        <2>2. Len(content'[c]) \in Nat /\ Len(content[c]) <= Len(content'[c])
              BY AppendEffect
        <2> QED BY <1>1, <2>1, <2>2, PositionFacts DEF Positions, Sound
  <1> QED BY <1>2, <1>3 DEF Positions, Ordered

LEMMA NextPositions ==
  ASSUME OrderedTimes, TypeInv, Positions, [Next]_vars
  PROVE  Positions'
  <1> USE DEF azure, sinks, job
  <1>1. CASE Poll \/ ReadStatusFails \/ ListBlobsFails
        BY <1>1, QuietPositions DEF Poll, ReadStatusFails, ListBlobsFails, StartJob
  <1>2. ASSUME NEW b \in Blobs, Load(b) \/ GetRangeFails(b) \/ LoadFallsShort(b)
        PROVE  Positions'
        BY <1>2, QuietPositions DEF Load, LoadBlobRange, LoadCutsRecord, LoadPastEnd,
                                    GetRangeFails, LoadFallsShort, Exit
  <1>3. CASE SendEvent \/ SendEventFails \/ SkipRecord \/ NothingToWrite \/ MarshalFails
        BY <1>3, QuietPositions DEF SendEvent, SendEventFails, SkipRecord, NothingToWrite,
                                    MarshalFails, NotReported
  <1>4. CASE FinishSyslog \/ WriteFile \/ WriteFileFails
        BY <1>4, RecordPositions DEF FinishSyslog, WriteFile, WriteFileFails, Sending, Writing
  <1>5. CASE TruncateStatus \/ WriteStatus \/ OpenStatusFails \/ WriteStatusFails
        BY <1>5, QuietPositions DEF TruncateStatus, WriteStatus, OpenStatusFails, WriteStatusFails
  <1>6. CASE Crash \/ Restart \/ UNCHANGED vars
        BY <1>6, QuietPositions DEF Crash, Restart, Exit, vars
  <1>7. ASSUME NEW b \in Blobs, AppendRecord(b) PROVE Positions'
        BY <1>7, AppendPositions
  <1>8. ASSUME NEW b \in Blobs, TouchBlob(b) PROVE Positions'
        BY <1>8, QuietPositions DEF TouchBlob
  <1> QED BY <1>1, <1>2, <1>3, <1>4, <1>5, <1>6, <1>7, <1>8 DEF Next, Process, Failure,
                                                                Environment

LEMMA PositionsInvariant == ASSUME OrderedTimes PROVE Spec => []Positions
  <1>1. Init => Positions
        BY InitPositions
  <1>2. TypeInv /\ Positions /\ [Next]_vars => Positions'
        BY NextPositions
  <1> QED BY <1>1, <1>2, TypeInvariant, PTL DEF Spec

-----------------------------------------------------------------------------
(* A file holds what its name says.                                          *)

\* The file is of a page of the blob that yields its first events at record i
\* and its last at record j.
Holds(f, b, i, j) ==
  /\ Wanted(b, i) /\ Wanted(b, j)
  /\ f.name.log = LogName[b]
  /\ f.name.start = content[b][i].events.first /\ f.name.end = content[b][j].events.last
  /\ f.events = {<<b, k>> : k \in {k \in i..j : content[b][k].flows}}

Faithful ==
  \A f \in files : \E b \in Blobs : \E i, j \in 1..Len(content[b]) : Holds(f, b, i, j)

LEMMA Smallest ==
  ASSUME NEW S \in SUBSET Nat, S # {}
  PROVE  \E m \in S : \A n \in S : m <= n
  <1> DEFINE less == OpToRel(<, Nat)
  <1>1. IsWellFoundedOn(less, Nat)
        BY NatLessThanWellFounded, Zenon
  <1>2. \A n, m \in Nat : n < m => <<n, m>> \in less
        BY Zenon DEF OpToRel
  <1> HIDE DEF less
  <1>3. PICK m \in S : \A n \in S : <<n, m>> \notin less
        BY <1>1, WFMin
  <1>4. \A n \in S : ~(n < m)
        BY <1>2, <1>3
  <1> QED BY <1>4

LEMMA Largest ==
  ASSUME NEW N \in Nat, NEW S \in SUBSET (1..N), S # {}
  PROVE  \E m \in S : \A n \in S : n <= m
  <1> DEFINE T == {N - n : n \in S}
  <1>1. \A n \in S : n \in Int /\ N - n \in Nat
        OBVIOUS
  <1>2. T \in SUBSET Nat /\ T # {}
        BY <1>1
  <1> HIDE DEF T
  <1>3. PICK t \in T : \A u \in T : t <= u
        BY <1>2, Smallest
  <1>4. PICK m \in S : t = N - m
        BY DEF T
  <1>5. ASSUME NEW n \in S PROVE n <= m
        <2>1. N - n \in T
              BY DEF T
        <2>2. N - m <= N - n
              BY <1>3, <1>4, <2>1
        <2> QED BY <1>1, <2>2
  <1> QED BY <1>5

\* A file is named after the first and the last record that yields events.
LEMMA NameFacts ==
  ASSUME TypeInv, pc = "send", Emitting # {}
  PROVE  \E k, l \in Emitting :
            /\ \A m \in Emitting : k <= m /\ m <= l
            /\ FileName.log = LogName[cur]
            /\ FileName.start = EventsOf(k).first /\ FileName.end = EventsOf(l).last
  <1> DEFINE first == CHOOSE k \in Emitting : \A l \in Emitting : k <= l
             last == CHOOSE k \in Emitting : \A l \in Emitting : l <= k
  <1>1. PageSize \in Nat
        BY PageFacts
  <1>2. Emitting \in SUBSET (1..PageSize) /\ Emitting \in SUBSET Nat
        BY <1>1 DEF Emitting, Entries
  <1>3. first \in Emitting /\ \A l \in Emitting : first <= l
        BY <1>2, Smallest
  <1>4. last \in Emitting /\ \A l \in Emitting : l <= last
        BY <1>1, <1>2, Largest
  <1>5. FileName = [log |-> LogName[cur], start |-> EventsOf(first).first,
                    end |-> EventsOf(last).last]
        BY DEF FileName
  <1> HIDE DEF first, last
  <1> QED BY <1>3, <1>4, <1>5

\* What WriteFile writes is the file of a page of the blob.
LEMMA NewFile ==
  ASSUME TypeInv, Positions, PerIteration, TimeFirst, pc = "send", Emitting # {},
         NEW f, f.name = FileName, f.events = {<<cur, Entry(k)>> : k \in Emitting}
  PROVE  \E i, j \in 1..Len(content[cur]) : Holds(f, cur, i, j)
  <1>1. PICK k \in Emitting, l \in Emitting :
           /\ \A m \in Emitting : k <= m /\ m <= l
           /\ FileName.log = LogName[cur]
           /\ FileName.start = EventsOf(k).first /\ FileName.end = EventsOf(l).last
        BY NameFacts
  <1>2. /\ cur \in Blobs /\ PageSize \in Nat /\ Start(cur) \in Nat
        /\ Emitting \subseteq 1..PageSize
        /\ \A m \in Emitting : /\ Entry(m) \in 1..Len(content[cur])
                               /\ content[cur][Entry(m)].flows
        /\ \A m \in 1..PageSize : Entry(m) = Start(cur) + m
        /\ Len(content[cur]) \in Nat
        BY PageFacts, PositionFacts DEF Emitting, Entries, Entry, Emits
  <1> DEFINE span == {i \in Entry(k)..Entry(l) : content[cur][i].flows}
  <1>3. ASSUME NEW m \in Emitting PROVE Entry(m) \in span
        <2>1. Entry(k) <= Entry(m) /\ Entry(m) <= Entry(l)
              BY <1>1, <1>2
        <2> QED BY <1>2, <2>1
  <1>4. ASSUME NEW i \in span PROVE \E m \in Emitting : i = Entry(m)
        <2>1. /\ i \in Int /\ Entry(k) <= i /\ i <= Entry(l) /\ content[cur][i].flows
              /\ i \in 1..Len(content[cur])
              BY <1>2
        <2> DEFINE m == i - Start(cur)
        <2>2. m \in 1..PageSize /\ Entry(m) = i
              <3>1. k \in 1..PageSize /\ l \in 1..PageSize
                    BY <1>2
              <3>2. Entry(k) = Start(cur) + k /\ Entry(l) = Start(cur) + l
                    BY <1>2, <3>1
              <3>3. m \in 1..PageSize /\ Start(cur) + m = i
                    BY <1>2, <2>1, <3>1, <3>2
              <3> QED BY <1>2, <3>3
        <2>3. m \in Entries
              BY <2>2 DEF Entries
        <2> HIDE DEF m
        <2>4. Wanted(cur, Entry(m)) /\ Sound(status[cur], cur) /\ Ordered(content[cur])
              BY <1>2, <2>1, <2>2 DEF Wanted, Positions
        <2>5. Emits(m)
              BY <2>3, <2>4, FilterPasses
        <2> QED BY <2>2, <2>3, <2>5 DEF Emitting
  <1>5. f.events = {<<cur, i>> : i \in span}
        BY <1>3, <1>4
  <1>6. /\ FileName.start = content[cur][Entry(k)].events.first
        /\ FileName.end = content[cur][Entry(l)].events.last
        BY <1>1 DEF EventsOf
  <1>7. Holds(f, cur, Entry(k), Entry(l))
        BY <1>1, <1>2, <1>5, <1>6 DEF Holds, Wanted
  <1> QED BY <1>2, <1>7

\* Files of one name of a blob whose pages no two names confuse are the same.
LEMMA SameFile ==
  ASSUME NEW b, ~Confused(b), NEW f, NEW g, f.name = g.name,
         NEW i \in 1..Len(content[b]), NEW j \in 1..Len(content[b]), Holds(f, b, i, j),
         NEW k \in 1..Len(content[b]), NEW l \in 1..Len(content[b]), Holds(g, b, k, l)
  PROVE  f.events = g.events
  <1>1. i = k /\ j = l
        BY DEF Holds, Confused
  <1> QED BY <1>1 DEF Holds

\* Writing a file takes no record from the files of another blob, and none from
\* those of its own that are not confused.
LEMMA FilesKept ==
  ASSUME TypeInv, Positions, Faithful, PerIteration, TimeFirst, LogNamesTell, WriteFile
  PROVE  /\ \E f \in files' : f.events = {<<cur, Entry(k)>> : k \in Emitting}
         /\ \A f \in files, b \in Blobs, i \in Nat :
               <<b, i>> \in f.events /\ (b = cur => ~Confused(cur))
               => \E g \in files' : <<b, i>> \in g.events
         /\ ~Confused(cur) =>
               \A f \in files :
                  f.name = FileName => f.events = {<<cur, Entry(k)>> : k \in Emitting}
  <1> DEFINE E == {<<cur, Entry(k)>> : k \in Emitting}
             new == [name |-> FileName, events |-> E]
  <1>1. /\ pc = "send" /\ Emitting # {}
        /\ files' = {f \in files : f.name # FileName} \cup {new}
        BY DEF WriteFile, Writing
  <1>2. cur \in Blobs /\ new.name = FileName /\ new.events = E
        BY <1>1, PageFacts
  <1>3. PICK k \in 1..Len(content[cur]), l \in 1..Len(content[cur]) : Holds(new, cur, k, l)
        BY <1>1, NewFile
  <1> HIDE DEF E, new
  <1>4. ASSUME NEW f \in files, f.name = FileName
        PROVE  \E i, j \in 1..Len(content[cur]) : Holds(f, cur, i, j)
        <2>1. PICK b \in Blobs : \E i, j \in 1..Len(content[b]) : Holds(f, b, i, j)
              BY DEF Faithful
        <2>2. b = cur
              BY <1>2, <1>3, <1>4, <2>1 DEF Holds, LogNamesTell
        <2> QED BY <2>1, <2>2
  <1>5. ASSUME ~Confused(cur), NEW f \in files, f.name = FileName PROVE f.events = E
        BY <1>2, <1>3, <1>4, <1>5, SameFile
  <1>6. ASSUME NEW f \in files, NEW b \in Blobs, NEW i \in Nat,
               <<b, i>> \in f.events, b = cur => ~Confused(cur)
        PROVE  \E g \in files' : <<b, i>> \in g.events
        <2>1. CASE f.name # FileName
              BY <1>1, <1>6, <2>1
        <2>2. CASE f.name = FileName
              <3>1. b = cur
                    BY <1>4, <1>6, <2>2 DEF Holds
              <3>2. f.events = new.events
                    BY <1>2, <1>5, <1>6, <2>2, <3>1
              <3> QED BY <1>1, <1>6, <3>2
        <2> QED BY <2>1, <2>2
  <1> QED BY <1>1, <1>2, <1>5, <1>6 DEF E

\* What is written to the blobs a file does not speak of.
LEMMA HoldsKept ==
  ASSUME NEW f, NEW b \in Blobs, NEW i \in 1..Len(content[b]), NEW j \in 1..Len(content[b]),
         Holds(f, b, i, j), Len(content[b]) \in Nat, Len(content'[b]) \in Nat,
         Len(content[b]) <= Len(content'[b]),
         \A k \in 1..Len(content[b]) : content'[b][k] = content[b][k]
  PROVE  /\ i \in 1..Len(content'[b]) /\ j \in 1..Len(content'[b])
         /\ Holds(f, b, i, j)'
  <1>1. i \in 1..Len(content'[b]) /\ j \in 1..Len(content'[b])
        OBVIOUS
  <1>2. \A k \in i..j : content'[b][k] = content[b][k]
        OBVIOUS
  <1>3. {k \in i..j : content'[b][k].flows} = {k \in i..j : content[b][k].flows}
        BY <1>2
  <1> QED BY <1>1, <1>3 DEF Holds, Wanted

LEMMA AppendFaithful ==
  ASSUME TypeInv, Faithful, NEW b \in Blobs, AppendRecord(b)
  PROVE  Faithful'
  <1>1. files' = files
        BY DEF AppendRecord, sinks
  <1>2. ASSUME NEW f \in files
        PROVE  \E c \in Blobs : \E i, j \in 1..Len(content'[c]) : Holds(f, c, i, j)'
        <2>1. PICK c \in Blobs : \E i, j \in 1..Len(content[c]) : Holds(f, c, i, j)
              BY DEF Faithful
        <2>2. PICK i \in 1..Len(content[c]), j \in 1..Len(content[c]) : Holds(f, c, i, j)
              BY <2>1
        <2>3. i \in 1..Len(content'[c]) /\ j \in 1..Len(content'[c]) /\ Holds(f, c, i, j)'
              BY <2>2, HoldsKept, AppendEffect
        <2> QED BY <2>3
  <1> QED BY <1>1, <1>2 DEF Faithful

LEMMA WriteFaithful ==
  ASSUME TypeInv, Positions, Faithful, PerIteration, TimeFirst, WriteFile
  PROVE  Faithful'
  <1> DEFINE new == [name   |-> FileName,
                     events |-> {<<cur, Entry(k)>> : k \in Emitting}]
  <1>1. /\ pc = "send" /\ Emitting # {} /\ content' = content
        /\ files' = {f \in files : f.name # FileName} \cup {new}
        BY DEF WriteFile, Writing, azure
  <1>2. cur \in Blobs /\ \E i, j \in 1..Len(content[cur]) : Holds(new, cur, i, j)
        BY <1>1, NewFile, PageFacts
  <1> HIDE DEF new
  <1>3. \A f \in files' : \E b \in Blobs : \E i, j \in 1..Len(content[b]) : Holds(f, b, i, j)
        BY <1>1, <1>2 DEF Faithful
  <1>4. \A f, b, i, j : Holds(f, b, i, j) => Holds(f, b, i, j)'
        BY <1>1 DEF Holds, Wanted
  <1> QED BY <1>1, <1>3, <1>4 DEF Faithful

LEMMA NextFaithful ==
  ASSUME PerIteration, TimeFirst, TypeInv, Positions, Faithful, [Next]_vars
  PROVE  Faithful'
  <1> USE DEF azure, sinks, job
  <1>1. ASSUME UNCHANGED <<content, files>> PROVE Faithful'
        BY <1>1 DEF Faithful, Holds, Wanted
  <1>2. CASE WriteFile
        BY <1>2, WriteFaithful
  <1>3. ASSUME NEW b \in Blobs, AppendRecord(b) PROVE Faithful'
        BY <1>3, AppendFaithful
  <1>4. CASE Poll \/ ReadStatusFails \/ ListBlobsFails
        BY <1>1, <1>4 DEF Poll, ReadStatusFails, ListBlobsFails, StartJob
  <1>5. ASSUME NEW b \in Blobs, Load(b) \/ GetRangeFails(b) \/ LoadFallsShort(b) \/ TouchBlob(b)
        PROVE  Faithful'
        BY <1>1, <1>5 DEF Load, LoadBlobRange, LoadCutsRecord, LoadPastEnd, GetRangeFails,
                          LoadFallsShort, TouchBlob
  <1>6. CASE SendEvent \/ SendEventFails \/ SkipRecord \/ FinishSyslog \/ WriteFileFails
        BY <1>1, <1>6 DEF SendEvent, SendEventFails, SkipRecord, FinishSyslog, WriteFileFails
  <1>7. CASE NothingToWrite \/ MarshalFails \/ TruncateStatus \/ WriteStatus
          \/ OpenStatusFails \/ WriteStatusFails
        BY <1>1, <1>7 DEF NothingToWrite, MarshalFails, NotReported, TruncateStatus,
                          WriteStatus, OpenStatusFails,
                          WriteStatusFails
  <1>8. CASE Crash \/ Restart \/ UNCHANGED vars
        BY <1>1, <1>8 DEF Crash, Restart, vars
  <1> QED BY <1>2, <1>3, <1>4, <1>5, <1>6, <1>7, <1>8 DEF Next, Process, Failure, Environment

LEMMA FaithfulInvariant ==
  ASSUME OrderedTimes, PerIteration, TimeFirst
  PROVE  Spec => []Faithful
  <1>1. Init => Faithful
        BY DEF Init, Faithful
  <1>2. TypeInv /\ Positions /\ Faithful /\ [Next]_vars => Faithful'
        BY NextFaithful
  <1> QED BY <1>1, <1>2, TypeInvariant, PositionsInvariant, PTL DEF Spec

-----------------------------------------------------------------------------
(* How often the files repeat a record.                                      *)

\* A record still to be written is in no more files than failures excuse.
Rewriting ==
  /\ IsFiniteSet(files) /\ FileCopiesBounded
  /\ Writing => pos = 1
  /\ \A b \in Blobs, i \in 1..MaxRecords :
        Pending(b, i) => Cardinality(Copies(b, i)) <= crashes + faults

LEMMA CopiesFacts ==
  ASSUME Rewriting, NEW b, NEW i
  PROVE  IsFiniteSet(Copies(b, i)) /\ Cardinality(Copies(b, i)) \in Nat
  <1>1. Copies(b, i) \in SUBSET files
        BY DEF Copies
  <1> QED BY <1>1, FS_Subset, FS_CardinalityType DEF Rewriting

LEMMA CopiesBounds ==
  ASSUME TypeInv, Rewriting
  PROVE  /\ crashes \in Nat /\ faults \in Nat
         /\ \A b \in Blobs, i \in 1..MaxRecords :
               /\ Cardinality(Copies(b, i)) \in Nat
               /\ Cardinality(Copies(b, i)) <= 1 + crashes + faults
  BY CountFacts, CopiesFacts DEF Rewriting, FileCopiesBounded, Copies

\* A step that writes no file keeps Rewriting if it makes no record pending, or
\* if it is itself a crash or a failure.
LEMMA QuietRewriting ==
  ASSUME TypeInv, Rewriting, files' = files, Writing' => pos' = 1,
         \/ /\ crashes' = crashes /\ faults' \in {faults, faults + 1}
            /\ \A b \in Blobs, i \in 1..MaxRecords : Pending(b, i)' => Pending(b, i)
         \/ crashes' = crashes /\ faults' = faults + 1
         \/ crashes' = crashes + 1 /\ faults' = faults
  PROVE  Rewriting'
  <1>1. \A b, i : Copies(b, i)' = Copies(b, i)
        BY DEF Copies
  <1>2. ASSUME NEW b \in Blobs, NEW i \in 1..MaxRecords
        PROVE  /\ Cardinality(Copies(b, i)) <= 1 + crashes' + faults'
               /\ Pending(b, i)' => Cardinality(Copies(b, i)) <= crashes' + faults'
        <2> DEFINE n == Cardinality(Copies(b, i))
        <2>1. /\ n \in Nat /\ n <= 1 + crashes + faults /\ crashes \in Nat /\ faults \in Nat
              /\ Pending(b, i) => n <= crashes + faults
              BY CopiesBounds DEF Rewriting
        <2> HIDE DEF n
        <2>2. /\ n <= 1 + crashes' + faults'
              /\ Pending(b, i)' => n <= crashes' + faults'
              BY <2>1
        <2> QED BY <2>2 DEF n
  <1>3. FileCopiesBounded'
        BY <1>1, <1>2 DEF FileCopiesBounded, Copies
  <1>4. (\A b \in Blobs, i \in 1..MaxRecords :
           Pending(b, i) => Cardinality(Copies(b, i)) <= crashes + faults)'
        BY <1>1, <1>2
  <1> QED BY <1>3, <1>4 DEF Rewriting

LEMMA AddOne ==
  ASSUME NEW S, NEW x, IsFiniteSet(S), NEW T, T \subseteq S \cup {x}
  PROVE  IsFiniteSet(T) /\ Cardinality(T) <= Cardinality(S) + 1
  <1>1. /\ IsFiniteSet(S \cup {x}) /\ Cardinality(S) \in Nat
        /\ Cardinality(S \cup {x}) = IF x \in S THEN Cardinality(S) ELSE Cardinality(S) + 1
        BY FS_AddElement, FS_CardinalityType
  <1> DEFINE U == S \cup {x}
  <1> HIDE DEF U
  <1>2. IsFiniteSet(U) /\ T \in SUBSET U
        BY <1>1 DEF U
  <1>3. IsFiniteSet(T) /\ Cardinality(T) <= Cardinality(U)
        BY <1>2, FS_Subset
  <1>4. Cardinality(T) \in Nat /\ Cardinality(U) \in Nat
        BY <1>2, <1>3, FS_CardinalityType
  <1>5. Cardinality(U) <= Cardinality(S) + 1
        BY <1>1 DEF U
  <1> QED BY <1>1, <1>3, <1>4, <1>5

LEMMA WriteRewriting ==
  ASSUME TypeInv, Rewriting, WriteFile
  PROVE  Rewriting'
  <1> DEFINE E == {<<cur, Entry(k)>> : k \in Emitting}
             new == [name |-> FileName, events |-> E]
  <1>1. /\ pc = "send" /\ Writing /\ RecordResult
        /\ files' = {f \in files : f.name # FileName} \cup {new}
        /\ UNCHANGED <<crashes, faults>>
        BY DEF WriteFile, Writing
  <1>2. new.events = E
        OBVIOUS
  <1>3. /\ pos = 1 /\ cur \in Blobs /\ Start(cur) \in Nat /\ Length(cur) \in Nat
        /\ Start(cur) < Length(cur)
        BY <1>1, PageFacts DEF Rewriting
  <1>4. ASSUME NEW i, <<cur, i>> \in E
        PROVE  i \in 1..MaxRecords /\ i > Start(cur) /\ i <= Length(cur)
        <2>1. PICK k \in Emitting : i = Entry(k)
              BY <1>4
        <2>2. k \in Entries /\ Entry(k) \in 1..Length(cur) /\ Length(cur) <= MaxRecords
              BY <1>1, <2>1, PageFacts DEF Emitting
        <2>3. Entry(k) > Start(cur)
              BY <1>3, <2>2 DEF Entry, Entries
        <2> QED BY <2>1, <2>2, <2>3, <1>3, Bounds
  <1>5. \A b, i : <<b, i>> \in E => b = cur
        OBVIOUS
  <1> HIDE DEF E, new
  <1>6. files' \subseteq files \cup {new}
        BY <1>1
  <1>7. IsFiniteSet(files')
        BY <1>6, AddOne DEF Rewriting
  <1>8. /\ pc' = "run" /\ status'[cur].end = Length(cur)
        /\ \A b \in Blobs : b # cur => status'[b] = status[b]
        BY <1>1, RecordFacts
  <1>9. ASSUME NEW b \in Blobs, NEW i \in 1..MaxRecords
        PROVE  /\ Cardinality(Copies(b, i)') <= 1 + crashes + faults
               /\ Pending(b, i)' => Cardinality(Copies(b, i)') <= crashes + faults
        <2> DEFINE n == Cardinality(Copies(b, i))
                   m == Cardinality(Copies(b, i)')
        <2>1. /\ n \in Nat /\ n <= 1 + crashes + faults /\ crashes \in Nat /\ faults \in Nat
              /\ IsFiniteSet(Copies(b, i))
              /\ Pending(b, i) => n <= crashes + faults
              BY CopiesBounds, CopiesFacts DEF Rewriting
        <2>2. CASE <<b, i>> \in E
              <3>1. b = cur /\ i > Start(cur) /\ i <= Length(cur)
                    BY <1>4, <1>5, <2>2
              <3>2. Pending(b, i)
                    BY <1>1, <1>3, <3>1 DEF Pending
              <3>3. ~Pending(b, i)'
                    BY <1>3, <1>8, <3>1 DEF Pending
              <3>4. Copies(b, i)' \subseteq Copies(b, i) \cup {new}
                    BY <1>6 DEF Copies
              <3>5. m <= n + 1 /\ m \in Nat
                    BY <2>1, <3>4, AddOne, FS_CardinalityType
              <3> HIDE DEF n, m
              <3>6. m <= 1 + crashes + faults
                    BY <2>1, <3>2, <3>5
              <3> QED BY <3>3, <3>6 DEF m
        <2>3. CASE <<b, i>> \notin E
              <3>1. Copies(b, i)' \subseteq Copies(b, i)
                    BY <1>2, <1>6, <2>3 DEF Copies
              <3>2. m <= n /\ m \in Nat
                    BY <2>1, <3>1, FS_Subset, FS_CardinalityType
              <3>3. Pending(b, i)' => Pending(b, i)
                    BY <1>1, <1>3, <1>8 DEF Pending
              <3> HIDE DEF n, m
              <3>4. m <= 1 + crashes + faults /\ (Pending(b, i)' => m <= crashes + faults)
                    BY <2>1, <3>2, <3>3
              <3> QED BY <3>4 DEF m
        <2> QED BY <2>2, <2>3
  <1>10. FileCopiesBounded'
        BY <1>1, <1>9 DEF FileCopiesBounded, Copies
  <1>11. (\A b \in Blobs, i \in 1..MaxRecords :
           Pending(b, i) => Cardinality(Copies(b, i)) <= crashes + faults)'
        BY <1>1, <1>9
  <1>12. ~Writing'
        BY <1>8 DEF Writing
  <1> QED BY <1>7, <1>10, <1>11, <1>12 DEF Rewriting

LEMMA NextRewriting ==
  ASSUME Destination = "file", TypeInv, Growth, Rewriting, [Next]_vars
  PROVE  Rewriting'
  <1> USE DEF azure, sinks, job
  <1>1. CASE WriteFile
        BY <1>1, WriteRewriting
  <1>2. CASE Poll \/ ListBlobsFails
        BY <1>2, QuietRewriting DEF Poll, ListBlobsFails, Fault, StartJob, Pending, Writing
  <1>3. CASE ReadStatusFails \/ OpenStatusFails \/ WriteStatusFails
        BY <1>3, QuietRewriting DEF ReadStatusFails, StartJob, OpenStatusFails,
                                    WriteStatusFails, Fault, Writing
  <1>4. CASE Crash
        BY <1>4, QuietRewriting DEF Crash, Exit, Writing
  <1>5. ASSUME NEW b \in Blobs, GetRangeFails(b) PROVE Rewriting'
        BY <1>5, QuietRewriting DEF GetRangeFails, Exit, Fault, Writing
  <1>6. ASSUME NEW b \in Blobs, LoadCutsRecord(b) PROVE Rewriting'
        BY <1>6, QuietRewriting DEF LoadCutsRecord, NextTask, Pending, Writing
  <1>7. ASSUME NEW b \in Blobs, LoadBlobRange(b) PROVE Rewriting'
        <2>1. /\ pc = "run" /\ pc' = "send" /\ cur' = b /\ pos' = 1 /\ b \in todo
              /\ UNCHANGED <<status, logFiles, files, crashes, faults>>
              BY <1>7 DEF LoadBlobRange, NextTask
        <2>2. logFiles[b].start = status[b].end /\ status[b].end \in Nat
              BY <2>1, CheckpointFacts DEF TypeInv, TypeOK, Tasks, Start
        <2>3. \A c \in Blobs, i \in 1..MaxRecords : Pending(c, i)' => Pending(c, i)
              BY <2>1, <2>2 DEF Pending, Start
        <2> QED BY <2>1, <2>3, QuietRewriting
  <1>8. ~(SendEvent \/ SkipRecord \/ SendEventFails \/ FinishSyslog)
        BY DEF SendEvent, SkipRecord, SendEventFails, FinishSyslog, Sending
  <1>9. CASE NothingToWrite \/ MarshalFails
        <2>1. /\ pc = "send" /\ Writing /\ pc' = "run"
              /\ UNCHANGED <<status, files, crashes, faults>>
              BY <1>9 DEF NothingToWrite, MarshalFails, NotReported, Writing
        <2>2. /\ pos = 1 /\ cur \in Blobs /\ Start(cur) = status[cur].end
              /\ status[cur].end \in Nat
              BY <2>1, PageFacts, CheckpointFacts DEF Rewriting, TypeInv, Tasks
        <2>3. \A c \in Blobs, i \in 1..MaxRecords : Pending(c, i)' => Pending(c, i)
              BY <2>1, <2>2 DEF Pending
        <2>4. ~Writing'
              BY <2>1 DEF Writing
        <2> QED BY <2>1, <2>3, <2>4, QuietRewriting
  <1>10. CASE WriteFileFails
        <2>1. pc' = "run" /\ files' = files /\ crashes' = crashes /\ faults' = faults + 1
              BY <1>10 DEF WriteFileFails, RecordResult, Fault
        <2> QED BY <2>1, QuietRewriting DEF Writing
  <1>11. CASE TruncateStatus \/ WriteStatus \/ Restart
        BY <1>11, QuietRewriting DEF TruncateStatus, WriteStatus, Restart, Pending, Writing
  <1>12. ASSUME NEW b \in Blobs, AppendRecord(b) \/ TouchBlob(b) PROVE Rewriting'
        BY <1>12, QuietRewriting DEF AppendRecord, TouchBlob, Pending, Start, Writing, Rewriting
  <1>13. CASE UNCHANGED vars
        BY <1>13, QuietRewriting DEF vars, Pending, Start, Writing, Rewriting
  <1>14. ASSUME NEW b \in Blobs, LoadFallsShort(b) PROVE Rewriting'
        BY <1>14, QuietRewriting DEF LoadFallsShort, NextTask, Fault, Pending, Writing
  <1> QED BY <1>1, <1>2, <1>3, <1>4, <1>5, <1>6, <1>7, <1>8, <1>9, <1>10, <1>11, <1>12, <1>13,
             <1>14, NeverPastEnd DEF Next, Process, Failure, Environment, Load

LEMMA InitRewriting == ASSUME Init PROVE Rewriting
  <1>1. files = {} /\ ~Writing /\ crashes = 0 /\ faults = 0
        BY DEF Init, Writing
  <1>2. \A b, i : Copies(b, i) = {}
        BY <1>1 DEF Copies
  <1>3. IsFiniteSet({}) /\ Cardinality({}) = 0
        BY FS_EmptySet
  <1>4. FileCopiesBounded
        BY <1>1, <1>2, <1>3 DEF FileCopiesBounded, Copies
  <1> QED BY <1>1, <1>2, <1>3, <1>4 DEF Rewriting

\* While nobody touches a blob, a record is in one file, and in one more for each
\* crash and each failed call at most: without one no interleaving with Azure makes the process write a
\* record into a second file.
THEOREM FileCopies ==
  ASSUME Destination = "file", MaxTouches = 0
  PROVE  Spec => []FileCopiesBounded
  <1>1. Init => Growth /\ Rewriting
        BY InitGrowth, InitRewriting
  <1>2. TypeInv /\ Growth /\ Rewriting /\ [Next]_vars => Growth' /\ Rewriting'
        BY NextGrowth, NextRewriting
  <1>3. Rewriting => FileCopiesBounded
        BY DEF Rewriting
  <1> QED BY <1>1, <1>2, <1>3, TypeInvariant, PTL DEF Spec
=============================================================================
