------------------------ MODULE BlobIngestLossProofs ------------------------
(* Theorems about BlobIngest: which records the checkpoint may cover that    *)
(* were not delivered, for both destinations and every value of the          *)
(* constants.                                                                *)
EXTENDS BlobIngestFileProofs

-----------------------------------------------------------------------------
(* What a step may add to the records that are missed.                       *)

Passed(b, i) ==
  \/ i <= status[b].end \/ i <= disk[b].end
  \/ Sending /\ b = cur /\ i < Start(cur) + pos

\* A record that neither this job nor one that starts from the disk will send.
Misses(b, i) == Passed(b, i) /\ Wanted(b, i) /\ ~Delivered(b, i)

NoneNew == \A b \in Blobs, i \in 1..MaxRecords : Misses(b, i)' => Misses(b, i)

\* A blob whose files, if there are any, do not replace each other.
Spared(b) == Destination = "file" => ~Confused(b)

NoneNewSpared ==
  \A b \in Blobs, i \in 1..MaxRecords : Spared(b) /\ Misses(b, i)' => Misses(b, i)

\* Where every record comes to its turn: pages point to their records, a record
\* keeps its keys, and the filter on the last record drops nothing.
Converting == PerIteration /\ TimeFirst /\ OrderedTimes

\* A step that neither writes to a blob nor delivers, nor goes on with a page.
LEMMA QuietMisses ==
  ASSUME TypeInv, UNCHANGED <<content, received, files>>, pc' # "send",
         status' \in {status, disk, NoStatus}, disk' \in {status, disk, NoStatus}
  PROVE  NoneNew
  <1>1. ASSUME NEW b \in Blobs, NEW i \in 1..MaxRecords, Passed(b, i)'
        PROVE  Passed(b, i)
        <2>1. i <= status'[b].end \/ i <= disk'[b].end
              BY <1>1 DEF Passed, Sending
        <2>2. ~(i <= NoStatus[b].end)
              BY Bounds DEF NoStatus, NoEntry
        <2> QED BY <2>1, <2>2 DEF Passed
  <1> QED BY <1>1 DEF NoneNew, Misses, Wanted, Delivered

\* A step after which the same records are under the same positions.
LEMMA SamePassed ==
  ASSUME UNCHANGED <<content, received, files>>,
         \A b \in Blobs, i \in 1..MaxRecords : Passed(b, i)' => Passed(b, i)
  PROVE  NoneNew
  BY DEF NoneNew, Misses, Wanted, Delivered

LEMMA LoadMisses ==
  ASSUME TypeInv, NEW b \in Blobs, LoadBlobRange(b)
  PROVE  NoneNew
  <1>1. /\ b \in todo /\ cur' = b /\ pos' = 1
        /\ UNCHANGED <<content, received, files, status, disk, logFiles>>
        BY DEF LoadBlobRange, NextTask, azure, sinks
  <1>2. Start(b) = status[b].end /\ status[b].end \in Nat
        BY <1>1, CheckpointFacts DEF TypeInv, Tasks
  <1>3. ASSUME NEW c \in Blobs, NEW i \in 1..MaxRecords, Passed(c, i)' PROVE Passed(c, i)
        <2>1. i < Start(b) + 1 => i <= status[b].end
              BY <1>2
        <2> QED BY <1>1, <1>3, <2>1 DEF Passed, Start
  <1> QED BY <1>1, <1>3, SamePassed

LEMMA PassedLength ==
  ASSUME TypeInv, Positions, NEW b \in Blobs, NEW i \in 1..MaxRecords, Passed(b, i)
  PROVE  i \in 1..Len(content[b])
  <1>1. CASE i <= status[b].end \/ i <= disk[b].end
        BY <1>1, PositionFacts
  <1>2. CASE Sending /\ b = cur /\ i < Start(cur) + pos
        <2>1. /\ Start(cur) \in Nat /\ Length(cur) \in Nat /\ Len(content[b]) \in Nat
              /\ pos \in 1..(Length(cur) - Start(cur) + 1) /\ Length(cur) <= Len(content[b])
              BY <1>2, PageFacts, PositionFacts DEF Sending, PageSize
        <2> QED BY <1>2, <2>1
  <1> QED BY <1>1, <1>2 DEF Passed

LEMMA AppendMisses ==
  ASSUME TypeInv, Positions, NEW b \in Blobs, AppendRecord(b)
  PROVE  NoneNew
  <1>1. UNCHANGED <<pc, status, logFiles, cur, pos, disk, received, files>>
        BY DEF AppendRecord, job, sinks
  <1>2. ASSUME NEW c \in Blobs, NEW i \in 1..MaxRecords, Misses(c, i)' PROVE Misses(c, i)
        <2>1. Passed(c, i) /\ ~Delivered(c, i)
              BY <1>1, <1>2 DEF Misses, Passed, Delivered, Sending, Start
        <2>2. i \in 1..Len(content[c]) /\ content'[c][i] = content[c][i]
              BY <2>1, PassedLength, AppendEffect
        <2>3. Wanted(c, i)
              BY <1>2, <2>2 DEF Misses, Wanted
        <2> QED BY <2>1, <2>3 DEF Misses
  <1> QED BY <1>2 DEF NoneNew

\* One entry further in a page, the position passes one record more.
LEMMA EntryPassed ==
  ASSUME PerIteration, TypeInv, Sending, pos \in Entries, pos' = pos + 1,
         UNCHANGED <<pc, status, logFiles, cur, disk>>,
         NEW b \in Blobs, NEW i \in 1..MaxRecords, Passed(b, i)'
  PROVE  Passed(b, i) \/ (b = cur /\ i = Entry(pos))
  <1>1. /\ Entry(pos) = Start(cur) + pos /\ Start(cur) \in Nat /\ pos \in Nat
        BY PageFacts DEF Sending, Entry
  <1>2. i < Start(cur) + (pos + 1) => i < Start(cur) + pos \/ i = Entry(pos)
        BY <1>1
  <1> QED BY <1>2 DEF Passed, Sending, Start

\* What the server has received it keeps.
LEMMA SendKeeps ==
  ASSUME Destination = "syslog", TypeInv, SendEvent
  PROVE  /\ received'[cur][Entry(pos)] > 0
         /\ \A b \in Blobs, i \in 1..MaxRecords : Delivered(b, i) => Delivered(b, i)'
  <1> DEFINE n == Entry(pos)
  <1>1. /\ pc = "send" /\ pos \in Entries /\ UNCHANGED cur
        /\ received' = [received EXCEPT ![cur][n] = Bumped(@)]
        BY DEF SendEvent, Sending
  <1>2. cur \in Blobs /\ n \in 1..MaxRecords
        BY <1>1, PageFacts, Bounds
  <1>3. received \in [Blobs -> [1..MaxRecords -> 0..MaxCount]]
        BY DEF TypeInv, TypeOK
  <1>4. \A m \in 0..MaxCount : Bumped(m) > 0 /\ Bumped(m) >= m
        BY Bounds DEF Bumped
  <1> HIDE DEF n
  <1>5. ASSUME NEW b \in Blobs, NEW i \in 1..MaxRecords
        PROVE  received'[b][i] = IF b = cur /\ i = n THEN Bumped(received[b][i])
                                                    ELSE received[b][i]
        BY <1>1, <1>2, <1>3
  <1>6. \A b \in Blobs, i \in 1..MaxRecords : received[b][i] \in 0..MaxCount
        BY <1>3
  <1>7. received'[cur][n] > 0
        BY <1>2, <1>4, <1>5, <1>6
  <1>8. \A b \in Blobs, i \in 1..MaxRecords : received[b][i] > 0 => received'[b][i] > 0
        BY <1>4, <1>5, <1>6
  <1> QED BY <1>7, <1>8 DEF Delivered, n

LEMMA PageMisses ==
  ASSUME Converting, TypeInv, Positions, SendEvent \/ SkipRecord
  PROVE  NoneNew
  <1>1. /\ Sending /\ pc = "send" /\ pos \in Entries /\ pos' = pos + 1
        /\ UNCHANGED <<content, pc, status, logFiles, cur, disk, files>>
        BY DEF SendEvent, SkipRecord, Sending, azure, sinks
  <1>2. cur \in Blobs /\ Destination = "syslog"
        BY <1>1, PageFacts DEF Sending
  <1>3. \A b \in Blobs, i \in 1..MaxRecords : Delivered(b, i) => Delivered(b, i)'
        BY <1>2, SendKeeps DEF SkipRecord, sinks, Delivered
  <1>4. Wanted(cur, Entry(pos))=> SendEvent
        <2>1. Sound(status[cur], cur) /\ Ordered(content[cur])
              BY <1>2 DEF Positions
        <2>2. Wanted(cur, Entry(pos)) => Emits(pos)
              BY <1>1, <2>1, FilterPasses DEF Converting
        <2> QED BY <2>2 DEF SkipRecord
  <1>5. ASSUME NEW b \in Blobs, NEW i \in 1..MaxRecords, Misses(b, i)' PROVE Misses(b, i)
        <2>1. Wanted(b, i) /\ ~Delivered(b, i)
              BY <1>1, <1>3, <1>5 DEF Misses, Wanted
        <2>2. Passed(b, i) \/ (b = cur /\ i = Entry(pos))
              BY <1>1, <1>5, EntryPassed DEF Misses, Converting
        <2>3. ~(b = cur /\ i = Entry(pos))
              <3>1. SUFFICES ASSUME b = cur, i = Entry(pos) PROVE FALSE
                    OBVIOUS
              <3>2. SendEvent
                    BY <1>4, <2>1, <3>1
              <3>3. received'[cur][Entry(pos)] > 0
                    BY <1>2, <3>2, SendKeeps
              <3> QED BY <1>1, <1>2, <1>5, <3>1, <3>3 DEF Misses, Delivered
        <2> QED BY <2>1, <2>2, <2>3 DEF Misses
  <1> QED BY <1>5 DEF NoneNew

LEMMA SendFailsMisses ==
  ASSUME PerIteration, TypeInv, SendEventFails
  PROVE  \A b \in Blobs, i \in 1..MaxRecords :
            Misses(b, i)' => Misses(b, i) \/ (b = cur /\ i = Entry(pos))
  <1>1. /\ Sending /\ pos \in Entries /\ pos' = pos + 1
        /\ UNCHANGED <<content, pc, status, logFiles, cur, disk, received, files>>
        BY DEF SendEventFails, Sending, azure, sinks
  <1>2. ASSUME NEW b \in Blobs, NEW i \in 1..MaxRecords, Misses(b, i)'
        PROVE  Misses(b, i) \/ (b = cur /\ i = Entry(pos))
        <2>1. Wanted(b, i) /\ ~Delivered(b, i)
              BY <1>1, <1>2 DEF Misses, Wanted, Delivered
        <2>2. Passed(b, i) \/ (b = cur /\ i = Entry(pos))
              BY <1>1, <1>2, EntryPassed DEF Misses
        <2> QED BY <2>1, <2>2 DEF Misses
  <1> QED BY <1>2

\* What the checkpoint of a page that was handed on passes.
LEMMA RecordPassed ==
  ASSUME TypeInv, pc = "send", RecordResult, disk' = disk,
         NEW b \in Blobs, NEW i \in 1..MaxRecords, Passed(b, i)'
  PROVE  Passed(b, i) \/ (b = cur /\ i \in (Start(cur) + 1)..Length(cur))
  <1>1. /\ pc' # "send" /\ status'[cur].end = Length(cur)
        /\ \A c \in Blobs : c # cur => status'[c] = status[c]
        BY RecordFacts
  <1>2. Start(cur) = status[cur].end /\ Start(cur) \in Nat /\ Length(cur) \in Nat
        BY PageFacts DEF TypeInv, Tasks
  <1>3. i <= status'[b].end \/ i <= disk[b].end
        BY <1>1 DEF Passed, Sending
  <1>4. CASE b = cur /\ i <= Length(cur)
        <2>1. i <= Start(cur) \/ i \in (Start(cur) + 1)..Length(cur)
              BY <1>2, <1>4
        <2> QED BY <1>2, <1>4, <2>1 DEF Passed
  <1> QED BY <1>1, <1>3, <1>4 DEF Passed

LEMMA FinishMisses ==
  ASSUME TypeInv, FinishSyslog
  PROVE  NoneNew
  <1>1. /\ Sending /\ pc = "send" /\ pos > PageSize /\ RecordResult
        /\ UNCHANGED <<content, disk, received, files>>
        BY DEF FinishSyslog, Sending, azure, sinks
  <1>2. /\ Start(cur) \in Nat /\ Length(cur) \in Nat /\ pos \in Nat
        /\ pos = Length(cur) - Start(cur) + 1
        BY <1>1, PageFacts DEF PageSize
  <1>3. ASSUME NEW b \in Blobs, NEW i \in 1..MaxRecords, Passed(b, i)' PROVE Passed(b, i)
        <2>1. i \in (Start(cur) + 1)..Length(cur) => i < Start(cur) + pos
              BY <1>2
        <2> QED BY <1>1, <1>3, <2>1, RecordPassed DEF Passed
  <1> QED BY <1>1, <1>3, SamePassed

LEMMA WriteMisses ==
  ASSUME Converting, LogNamesTell, TypeInv, Positions, Faithful, WriteFile
  PROVE  NoneNewSpared
  <1>1. /\ Writing /\ pc = "send" /\ RecordResult /\ UNCHANGED <<content, disk>>
        BY DEF WriteFile, Writing, azure
  <1>2. /\ \E f \in files' : f.events = {<<cur, Entry(k)>> : k \in Emitting}
        /\ \A f \in files, b \in Blobs, i \in Nat :
              <<b, i>> \in f.events /\ (b = cur => ~Confused(cur))
              => \E g \in files' : <<b, i>> \in g.events
        BY FilesKept DEF Converting
  <1>3. ASSUME NEW b \in Blobs, NEW i \in 1..MaxRecords, Spared(b), Misses(b, i)'
        PROVE  Misses(b, i)
        <2>1. Destination # "syslog" /\ ~Confused(b) /\ i \in Nat
              BY <1>1, <1>3, Bounds DEF Writing, Spared
        <2>2. Wanted(b, i) /\ ~Delivered(b, i)
              BY <1>1, <1>2, <1>3, <2>1 DEF Misses, Wanted, Delivered
        <2>3. ASSUME b = cur, i \in (Start(cur) + 1)..Length(cur) PROVE FALSE
              <3> DEFINE k == i - Start(cur)
              <3>1. Start(cur) \in Nat /\ Length(cur) \in Nat /\ cur \in Blobs
                    BY <1>1, PageFacts
              <3>2. k \in Entries /\ Entry(k) = i
                    BY <2>3, <3>1 DEF Entries, PageSize, Entry, Converting
              <3> HIDE DEF k
              <3>3. Sound(status[cur], cur) /\ Ordered(content[cur])
                    BY <3>1 DEF Positions
              <3>4. Emits(k)
                    BY <1>1, <2>2, <2>3, <3>2, <3>3, FilterPasses DEF Converting
              <3>5. <<b, i>> \in {<<cur, Entry(l)>> : l \in Emitting}
                    BY <2>3, <3>2, <3>4 DEF Emitting
              <3> QED BY <1>2, <1>3, <2>1, <3>5 DEF Misses, Delivered
        <2>4. Passed(b, i)
              BY <1>1, <1>3, <2>3, RecordPassed DEF Misses
        <2> QED BY <2>2, <2>4 DEF Misses
  <1> QED BY <1>3 DEF NoneNewSpared

LEMMA WriteFailsMisses ==
  ASSUME TypeInv, WriteFileFails
  PROVE  \A b \in Blobs, i \in 1..MaxRecords : Misses(b, i)' => Misses(b, i) \/ b = cur
  <1>1. /\ pc = "send" /\ RecordResult /\ UNCHANGED <<content, disk, received, files>>
        BY DEF WriteFileFails, Writing, azure, sinks
  <1> QED BY <1>1, RecordPassed DEF Misses, Wanted, Delivered

\* Only a send or a write that fails makes the process miss a record.
LEMMA NextMisses ==
  ASSUME Converting, Destination = "file" => LogNamesTell /\ Faithful,
         TypeInv, Positions, [Next]_vars, ~SendEventFails, ~WriteFileFails
  PROVE  NoneNewSpared
  <1> USE DEF azure, sinks, job
  <1>0. CASE WriteFile
        BY <1>0, WriteMisses DEF WriteFile, Writing
  <1> SUFFICES ASSUME ~WriteFile PROVE NoneNew
      BY <1>0 DEF NoneNew, NoneNewSpared
  <1>1. CASE Poll \/ ReadStatusFails \/ ListBlobsFails
        BY <1>1, QuietMisses DEF Poll, ReadStatusFails, ListBlobsFails, StartJob
  <1>2. ASSUME NEW b \in Blobs, LoadBlobRange(b) PROVE NoneNew
        BY <1>2, LoadMisses
  <1>3. ASSUME NEW b \in Blobs,
               LoadCutsRecord(b) \/ LoadPastEnd(b) \/ GetRangeFails(b) \/ LoadFallsShort(b)
        PROVE  NoneNew
        BY <1>3, QuietMisses DEF LoadCutsRecord, LoadPastEnd, GetRangeFails, LoadFallsShort,
                                 NextTask, Exit
  <1>4. CASE SendEvent \/ SkipRecord
        BY <1>4, PageMisses
  <1>5. CASE FinishSyslog
        BY <1>5, FinishMisses
  <1>7. CASE NothingToWrite \/ MarshalFails
        BY <1>7, QuietMisses DEF NothingToWrite, MarshalFails, NotReported
  <1>8. CASE TruncateStatus \/ WriteStatus \/ OpenStatusFails \/ WriteStatusFails
        BY <1>8, QuietMisses DEF TruncateStatus, WriteStatus, OpenStatusFails, WriteStatusFails
  <1>9. CASE Crash \/ Restart
        BY <1>9, QuietMisses DEF Crash, Restart, Exit
  <1>10. ASSUME NEW b \in Blobs, AppendRecord(b) PROVE NoneNew
        BY <1>10, AppendMisses
  <1>11. ASSUME NEW b \in Blobs, TouchBlob(b) PROVE NoneNew
        BY <1>11, SamePassed DEF TouchBlob, Passed, Sending, Start
  <1>12. CASE UNCHANGED vars
        BY <1>12, SamePassed DEF vars, Passed, Sending, Start
  <1> QED BY <1>1, <1>2, <1>3, <1>4, <1>5, <1>7, <1>8, <1>9, <1>10, <1>11, <1>12
          DEF Next, Process, Failure, Environment, Load

LEMMA InitMisses == ASSUME Init, NEW b \in Blobs, NEW i \in 1..MaxRecords PROVE ~Misses(b, i)
  BY DEF Init, Misses, Wanted

-----------------------------------------------------------------------------
(* Every loss is a failed call.                                              *)

Missed == {r \in Blobs \X (1..MaxRecords) : Misses(r[1], r[2])}
MissedBlobs == {b \in Blobs : ~Confused(b) /\ \E i \in 1..MaxRecords : Misses(b, i)}

\* A failed send costs a record, a failed write what one file was to hold.
Missing == IF Destination = "syslog" THEN Missed ELSE MissedBlobs

MissingCounted == Cardinality(Missing) <= faults

LEMMA MissingFinite == IsFiniteSet(Missing) /\ Cardinality(Missing) \in Nat
  <1>1. IsFiniteSet(Blobs) /\ IsFiniteSet(1..MaxRecords)
        BY BlobIngestAssumption, FS_Interval DEF Blobs
  <1> DEFINE U == Blobs \X (1..MaxRecords)
  <1>2. IsFiniteSet(U)
        BY <1>1, FS_Product
  <1>3. Missed \in SUBSET U /\ MissedBlobs \in SUBSET Blobs
        BY DEF Missed, MissedBlobs
  <1> HIDE DEF U
  <1>4. IsFiniteSet(Missed) /\ IsFiniteSet(MissedBlobs)
        BY <1>1, <1>2, <1>3, FS_Subset
  <1> QED BY <1>4, FS_CardinalityType DEF Missing

\* No step but Azure's writes to a blob.
LEMMA NextContent ==
  ASSUME [Next]_vars
  PROVE  UNCHANGED content \/ \E b \in Blobs : AppendRecord(b)
  <1> USE DEF azure
  <1>1. CASE Process
        BY <1>1 DEF Process, Poll, StartJob, Load, LoadBlobRange, LoadCutsRecord, LoadPastEnd,
              SendEvent, SkipRecord, FinishSyslog, WriteFile, NothingToWrite, MarshalFails,
              NotReported, TruncateStatus, WriteStatus
  <1>2. CASE Failure
        BY <1>2 DEF Failure, ReadStatusFails, ListBlobsFails, StartJob, GetRangeFails,
              LoadFallsShort, SendEventFails, WriteFileFails, OpenStatusFails, WriteStatusFails
  <1>3. CASE Crash \/ Restart \/ Environment \/ UNCHANGED vars
        BY <1>3 DEF Crash, Restart, Environment, TouchBlob, vars
  <1> QED BY <1>1, <1>2, <1>3 DEF Next

\* A blob never ceases to be confused.
LEMMA NextConfused ==
  ASSUME TypeInv, [Next]_vars, NEW b \in Blobs, Confused(b)
  PROVE  Confused(b)'
  <1>1. CASE UNCHANGED content
        BY <1>1 DEF Confused, Wanted
  <1>2. ASSUME NEW c \in Blobs, AppendRecord(c) PROVE Confused(b)'
        <2>1. /\ Len(content[b]) \in Nat /\ Len(content'[b]) \in Nat
              /\ Len(content[b]) <= Len(content'[b])
              /\ \A i \in 1..Len(content[b]) : content'[b][i] = content[b][i]
              BY <1>2, AppendEffect
        <2>2. \A i \in 1..Len(content[b]) :
                 i \in 1..Len(content'[b]) /\ (Wanted(b, i) => Wanted(b, i)')
              BY <2>1 DEF Wanted
        <2> QED BY <2>1, <2>2 DEF Confused
  <1> QED BY <1>1, <1>2, NextContent

LEMMA QuietMissing ==
  ASSUME TypeInv, [Next]_vars, MissingCounted, NoneNewSpared, faults' \in {faults, faults + 1}
  PROVE  MissingCounted'
  <1>1. Destination = "syslog" => Missed' \subseteq Missed
        BY DEF NoneNewSpared, Spared, Missed
  <1>2. MissedBlobs' \subseteq MissedBlobs
        BY NextConfused DEF NoneNewSpared, Spared, MissedBlobs
  <1>3. Missing' \in SUBSET Missing
        BY <1>1, <1>2 DEF Missing
  <1>4. /\ Cardinality(Missing') <= Cardinality(Missing)
        /\ IsFiniteSet(Missing') /\ Cardinality(Missing) \in Nat
        BY <1>3, MissingFinite, FS_Subset
  <1>5. Cardinality(Missing') \in Nat
        BY <1>4, FS_CardinalityType
  <1>6. faults \in Nat /\ faults <= faults'
        BY CountFacts
  <1> QED BY <1>4, <1>5, <1>6 DEF MissingCounted

\* A failed call may cost one thing more.
LEMMA FaultMissing ==
  ASSUME TypeInv, MissingCounted, faults' = faults + 1, NEW x,
         Missing' \subseteq Missing \cup {x}
  PROVE  MissingCounted'
  <1>1. /\ IsFiniteSet(Missing') /\ Cardinality(Missing') <= Cardinality(Missing) + 1
        /\ Cardinality(Missing) \in Nat
        BY MissingFinite, AddOne
  <1>2. Cardinality(Missing') \in Nat
        BY <1>1, FS_CardinalityType
  <1>3. faults \in Nat
        BY CountFacts
  <1> QED BY <1>1, <1>2, <1>3 DEF MissingCounted

LEMMA SendFailsMissing ==
  ASSUME PerIteration, TypeInv, MissingCounted, SendEventFails
  PROVE  MissingCounted'
  <1>1. Destination = "syslog" /\ faults' = faults + 1
        BY DEF SendEventFails, Sending, Fault
  <1>2. Missing = Missed /\ Missing' = Missed'
        BY <1>1 DEF Missing
  <1>3. ASSUME NEW r \in Missed' PROVE r \in Missed \cup {<<cur, Entry(pos)>>}
        <2>1. PICK b \in Blobs, i \in 1..MaxRecords : r = <<b, i>>
              BY DEF Missed
        <2>2. Misses(b, i)'
              BY <2>1 DEF Missed
        <2>3. Misses(b, i) \/ (b = cur /\ i = Entry(pos))
              BY <2>2, SendFailsMisses
        <2> QED BY <2>1, <2>3 DEF Missed
  <1> QED BY <1>1, <1>2, <1>3, FaultMissing

LEMMA WriteFailsMissing ==
  ASSUME TypeInv, MissingCounted, WriteFileFails
  PROVE  MissingCounted'
  <1>1. Destination # "syslog" /\ faults' = faults + 1
        BY DEF WriteFileFails, Writing, Fault
  <1>2. Missing = MissedBlobs /\ Missing' = MissedBlobs'
        BY <1>1 DEF Missing
  <1>3. \A b \in Blobs : Confused(b)' <=> Confused(b)
        BY DEF WriteFileFails, azure, Confused, Wanted
  <1>4. MissedBlobs' \subseteq MissedBlobs \cup {cur}
        BY <1>3, WriteFailsMisses DEF MissedBlobs
  <1> QED BY <1>1, <1>2, <1>4, FaultMissing

\* No step calls more than one thing that fails.
LEMMA OneFault == ASSUME [Next]_vars PROVE faults' \in {faults, faults + 1}
  <1>1. CASE Process \/ Environment \/ UNCHANGED vars
        BY <1>1 DEF Process, Environment, vars, Poll, Load, LoadBlobRange, LoadCutsRecord,
                    LoadPastEnd, SendEvent, SkipRecord, FinishSyslog, WriteFile,
                    NothingToWrite, MarshalFails, NotReported,
                    TruncateStatus, WriteStatus, AppendRecord, TouchBlob
  <1>2. CASE Failure \/ Crash \/ Restart
        BY <1>2 DEF Failure, Crash, Restart, Fault, ReadStatusFails, ListBlobsFails,
                    GetRangeFails, LoadFallsShort, SendEventFails, WriteFileFails,
                    OpenStatusFails, WriteStatusFails
  <1> QED BY <1>1, <1>2 DEF Next

LEMMA NextMissing ==
  ASSUME Converting, Destination = "file" => LogNamesTell /\ Faithful,
         TypeInv, Positions, MissingCounted, [Next]_vars
  PROVE  MissingCounted'
  <1>1. CASE SendEventFails
        BY <1>1, SendFailsMissing DEF Converting
  <1>2. CASE WriteFileFails
        BY <1>2, WriteFailsMissing
  <1>3. CASE ~SendEventFails /\ ~WriteFileFails
        BY <1>3, NextMisses, OneFault, QuietMissing
  <1> QED BY <1>1, <1>2, <1>3

LEMMA InitMissing == ASSUME Init PROVE MissingCounted
  <1>1. Missed = {} /\ MissedBlobs = {}
        BY InitMisses DEF Missed, MissedBlobs
  <1>2. Cardinality(Missing) = 0 /\ faults = 0
        BY <1>1, FS_EmptySet DEF Missing, Init
  <1> QED BY <1>2 DEF MissingCounted

LEMMA LostCounted == ASSUME TypeInv, MissingCounted PROVE LossesCounted
  <1> DEFINE lost == IF Destination = "syslog" THEN Lost
                     ELSE {r[1] : r \in Lost} \ {b \in Blobs : Confused(b)}
  <1>1. \A r \in Lost : /\ r \in Missed /\ r[1] \in Blobs
                        /\ ~Confused(r[1]) => r[1] \in MissedBlobs
        BY DEF Lost, Missed, MissedBlobs, Misses, Passed
  <1>2. lost \in SUBSET Missing
        <2>1. CASE Destination = "syslog"
              <3>1. Lost \subseteq Missed
                    BY <1>1
              <3> QED BY <2>1, <3>1 DEF Missing
        <2>2. CASE Destination # "syslog"
              <3>1. ASSUME NEW b \in {r[1] : r \in Lost} \ {c \in Blobs : Confused(c)}
                    PROVE  b \in MissedBlobs
                    <4>1. PICK r \in Lost : b = r[1]
                          BY <3>1
                    <4>2. b \in Blobs /\ ~Confused(b)
                          BY <1>1, <3>1, <4>1
                    <4> QED BY <1>1, <4>1, <4>2
              <3>2. {r[1] : r \in Lost} \ {c \in Blobs : Confused(c)} \subseteq MissedBlobs
                    BY <3>1
              <3>3. lost = {r[1] : r \in Lost} \ {c \in Blobs : Confused(c)}
                    BY <2>2
              <3> HIDE DEF lost
              <3> QED BY <2>2, <3>2, <3>3 DEF Missing
        <2> QED BY <2>1, <2>2
  <1> HIDE DEF lost
  <1>3. /\ IsFiniteSet(lost) /\ Cardinality(lost) <= Cardinality(Missing)
        /\ Cardinality(Missing) \in Nat
        BY <1>2, MissingFinite, FS_Subset
  <1>4. Cardinality(lost) \in Nat /\ faults \in Nat
        BY <1>3, FS_CardinalityType, CountFacts
  <1>5. Cardinality(lost) <= faults
        BY <1>3, <1>4 DEF MissingCounted
  <1> QED BY <1>5 DEF lost, LossesCounted

\* Each record the checkpoint on disk covers without its events having reached
\* the syslog server is a send that failed, and each blob of which this is true
\* of the files is a write that failed or one of which two records have their
\* first or their last events in one second: a job that fails, a crash, a torn
\* status file and whatever Azure appends meanwhile lose nothing.
THEOREM Losses ==
  ASSUME Converting, Destination = "file" => LogNamesTell
  PROVE  Spec => []LossesCounted
  <1>1. Init => MissingCounted
        BY InitMissing
  <1>2. /\ TypeInv /\ Positions /\ Faithful
        /\ MissingCounted /\ [Next]_vars
        => MissingCounted'
        BY NextMissing
  <1>3. TypeInv /\ MissingCounted => LossesCounted
        BY LostCounted
  <1>4. Spec => []Positions /\ []Faithful
        BY PositionsInvariant, FaithfulInvariant DEF Converting
  <1> QED BY <1>1, <1>2, <1>3, <1>4, TypeInvariant, PTL DEF Spec

-----------------------------------------------------------------------------
(* Files of which every write succeeds lose nothing.                         *)

NothingMissed == \A b \in Blobs, i \in 1..MaxRecords : ~Misses(b, i)

\* Where the events of records of different times never share a second, no blob
\* is confused.
LEMMA NamesUnconfused ==
  ASSUME NamesTell, TypeInv, Positions, NEW b \in Blobs
  PROVE  ~Confused(b)
  <1>1. content[b] \in Seq(Records) /\ Ordered(content[b])
        BY DEF TypeInv, TypeOK, Positions
  <1>2. ASSUME NEW i \in 1..Len(content[b]), NEW j \in 1..Len(content[b]), i # j,
               Wanted(b, i), Wanted(b, j)
        PROVE  /\ content[b][i].events.first # content[b][j].events.first
               /\ content[b][i].events.last # content[b][j].events.last
        <2> DEFINE r == content[b][i]
                   q == content[b][j]
        <2>1. r \in Records /\ q \in Records /\ r.flows /\ q.flows
              BY <1>1, <1>2 DEF Wanted
        <2>2. /\ r.time \in 1..MaxTime /\ r.events \in Events[r.time]
              /\ q.time \in 1..MaxTime /\ q.events \in Events[q.time]
              BY <2>1, RecordsFacts
        <2>3. (i < j => r.time < q.time) /\ (j < i => q.time < r.time) /\ (i < j \/ j < i)
              BY <1>1, <1>2 DEF Ordered
        <2> HIDE DEF r, q
        <2>4. r.time # q.time
              BY <2>2, <2>3, Bounds
        <2>5. r.events.first # q.events.first /\ r.events.last # q.events.last
              BY <2>2, <2>4 DEF NamesTell
        <2> QED BY <2>5 DEF r, q
  <1> QED BY <1>2 DEF Confused

LEMMA NextNothingMissed ==
  ASSUME Destination = "file", Converting, NamesTell, "write" \notin FaultKinds,
         TypeInv, Positions, Faithful, NothingMissed, [Next]_vars
  PROVE  NothingMissed'
  <1>1. ~SendEventFails /\ ~WriteFileFails
        BY DEF SendEventFails, Sending, WriteFileFails, Fault
  <1>2. NoneNewSpared
        BY <1>1, NextMisses DEF NamesTell
  <1> QED BY <1>2, NamesUnconfused DEF NoneNewSpared, Spared, NothingMissed

LEMMA CheckpointMissesNothing ==
  ASSUME TypeInv, Positions, NothingMissed
  PROVE  CheckpointDelivered
  <1>1. ASSUME NEW b \in Blobs, NEW i \in 1..disk[b].end, Wanted(b, i) PROVE Delivered(b, i)
        <2>1. i \in 1..MaxRecords /\ i <= disk[b].end
              BY PositionFacts, Bounds
        <2> QED BY <1>1, <2>1 DEF NothingMissed, Misses, Passed
  <1> QED BY <1>1 DEF CheckpointDelivered

\* With writes that succeed, and records of different times whose first events,
\* and whose last, are never of one second, the checkpoint on disk covers no
\* record whose events are in no file: replacing a file of the same name then
\* never drops a record, since what is written holds it too.
THEOREM NoLossFiles ==
  ASSUME Destination = "file", Converting, NamesTell, "write" \notin FaultKinds
  PROVE  Spec => []CheckpointDelivered
  <1>1. Init => NothingMissed
        BY InitMisses DEF NothingMissed
  <1>2. TypeInv /\ Positions /\ Faithful /\ NothingMissed /\ [Next]_vars => NothingMissed'
        BY NextNothingMissed
  <1>3. TypeInv /\ Positions /\ NothingMissed => CheckpointDelivered
        BY CheckpointMissesNothing
  <1>4. Spec => []Positions /\ []Faithful
        BY PositionsInvariant, FaithfulInvariant DEF Converting
  <1> QED BY <1>1, <1>2, <1>3, <1>4, TypeInvariant, PTL DEF Spec

-----------------------------------------------------------------------------
(* BlobIngest with files implements AtLeastOnce.                             *)

\* There are finitely many files, and each is a name and its events.
Filed == IsFiniteSet(files) /\ \A f \in files : f = [name |-> f.name, events |-> f.events]

LEMMA NextFiled == ASSUME Filed, [Next]_vars PROVE Filed'
  <1> USE DEF azure, sinks, job
  <1>1. CASE UNCHANGED files
        BY <1>1 DEF Filed
  <1>2. CASE WriteFile
        <2> DEFINE new == [name   |-> FileName,
                           events |-> {<<cur, Entry(k)>> : k \in Emitting}]
        <2>1. files' = {f \in files : f.name # FileName} \cup {new}
              BY <1>2 DEF WriteFile
        <2>2. new = [name |-> new.name, events |-> new.events]
              OBVIOUS
        <2> HIDE DEF new
        <2>3. IsFiniteSet(files')
              BY <2>1, AddOne DEF Filed
        <2> QED BY <2>1, <2>2, <2>3 DEF Filed
  <1>3. CASE Process /\ ~WriteFile
        BY <1>1, <1>3 DEF Process, Poll, StartJob, Load, LoadBlobRange, LoadCutsRecord,
              LoadPastEnd, SendEvent, SkipRecord, FinishSyslog, NothingToWrite, MarshalFails,
              NotReported,
              TruncateStatus, WriteStatus
  <1>4. CASE Failure
        BY <1>1, <1>4 DEF Failure, ReadStatusFails, ListBlobsFails, StartJob, GetRangeFails,
              LoadFallsShort, SendEventFails, WriteFileFails, OpenStatusFails, WriteStatusFails
  <1>5. CASE Crash \/ Restart \/ Environment \/ UNCHANGED vars
        BY <1>1, <1>5 DEF Crash, Restart, Environment, AppendRecord, TouchBlob, vars
  <1> QED BY <1>2, <1>3, <1>4, <1>5 DEF Next

LEMMA FiledInvariant == Spec => []Filed
  <1>1. Init => Filed
        BY FS_EmptySet DEF Init, Filed
  <1> QED BY <1>1, NextFiled, PTL DEF Spec

LEMMA FilesArrive ==
  ASSUME NsgToFiles
  PROVE  Arrivals = Stored /\ Arrivals' = Stored'
  BY DEF Arrivals, NsgToFiles

LEMMA StoredFacts ==
  ASSUME Filed, NEW b \in Blobs, NEW i \in 1..MaxRecords
  PROVE  /\ IsFiniteSet(Copies(b, i)) /\ Cardinality(Copies(b, i)) \in Nat
         /\ Stored[b][i] = Abstract!Counted(Cardinality(Copies(b, i)))
         /\ Delivered(b, i) /\ Destination = "file" => Stored[b][i] > 0
  <1>1. Copies(b, i) \in SUBSET files
        BY DEF Copies
  <1>2. IsFiniteSet(Copies(b, i)) /\ Cardinality(Copies(b, i)) \in Nat
        BY <1>1, FS_Subset, FS_CardinalityType DEF Filed
  <1>3. Stored[b][i] = Abstract!Counted(Cardinality(Copies(b, i)))
        BY DEF Stored, Abstract!Counted
  <1>4. ASSUME Delivered(b, i), Destination = "file" PROVE Stored[b][i] > 0
        <2>1. Copies(b, i) # {}
              BY <1>4 DEF Delivered, Copies
        <2>2. Cardinality(Copies(b, i)) # 0
              BY <1>2, <2>1, FS_EmptySet
        <2> QED BY <1>2, <1>3, <2>2, Bounds DEF Abstract!Counted
  <1> QED BY <1>2, <1>3, <1>4

\* A page written over its own file leaves the files as they are.
LEMMA Overwrites ==
  ASSUME Filed, WriteFile,
         \A f \in files : f.name = FileName => f.events = {<<cur, Entry(k)>> : k \in Emitting},
         NEW f \in files, f.name = FileName
  PROVE  files' = files
  <1> DEFINE new == [name   |-> FileName,
                     events |-> {<<cur, Entry(k)>> : k \in Emitting}]
  <1>1. files' = {g \in files : g.name # FileName} \cup {new}
        BY DEF WriteFile
  <1>2. \A g \in files : g.name = FileName => g = new
        BY DEF Filed
  <1> HIDE DEF new
  <1> QED BY <1>1, <1>2

\* Any other page is a delivery of its records.
LEMMA WriteDelivers ==
  ASSUME NsgToFiles, TypeInv, Positions, StatusAdvancesDisk, Filed, WriteFile,
         \A f \in files : f.name # FileName
  PROVE  \E sent \in SUBSET (1..MaxRecords) : Abstract!Deliver(cur, sent)
  <1> DEFINE sent == {Entry(k) : k \in Emitting}
             E == {<<cur, Entry(k)>> : k \in Emitting}
             new == [name |-> FileName, events |-> E]
  <1>1. /\ pc = "send" /\ UNCHANGED <<content, disk>>
        /\ files' = files \cup {new}
        BY DEF WriteFile, Writing, azure
  <1>2. /\ cur \in Blobs /\ Start(cur) = status[cur].end
        /\ status[cur].end >= disk[cur].end /\ status[cur].end \in Nat /\ disk[cur].end \in Nat
        BY <1>1, PageFacts, CheckpointFacts DEF TypeInv, Tasks, StatusAdvancesDisk, Advances
  <1>3. ASSUME NEW i \in sent
        PROVE  i \in 1..MaxRecords /\ i \in 1..Len(Log[cur]) /\ i > Committed[cur] /\ Log[cur][i]
        <2>1. PICK k \in Emitting : i = Entry(k)
              OBVIOUS
        <2>2. /\ k \in Entries /\ Emits(k)
              /\ i \in 1..Len(content[cur]) /\ i = Start(cur) + k
              BY <1>1, <2>1, PageFacts DEF Emitting, Entry, NsgToFiles
        <2>3. i > Committed[cur]
              BY <1>2, <2>2 DEF Committed, Entries
        <2>4. content[cur][i].flows
              BY <2>1, <2>2 DEF Emits
        <2>5. Len(content[cur]) \in Nat /\ Len(content[cur]) <= MaxRecords
              BY <1>2, PositionFacts
        <2>6. /\ Len(Log[cur]) = Len(content[cur])
              /\ \A j \in 1..Len(content[cur]) : Log[cur][j] = content[cur][j].flows
              BY <1>2, LogFacts
        <2> QED BY <2>2, <2>3, <2>4, <2>5, <2>6, Bounds
  <1>4. \A b, i : <<b, i>> \in E <=> b = cur /\ i \in sent
        OBVIOUS
  <1>5. new.events = E /\ new \notin files
        OBVIOUS
  <1> HIDE DEF sent, E, new
  <1>6. ASSUME NEW b \in Blobs, NEW i \in 1..MaxRecords
        PROVE  Stored'[b][i] = IF b = cur /\ i \in sent
                                 THEN Abstract!Counted(Stored[b][i] + 1) ELSE Stored[b][i]
        <2> DEFINE n == Cardinality(Copies(b, i))
        <2>1. IsFiniteSet(Copies(b, i)) /\ n \in Nat /\ Stored[b][i] = Abstract!Counted(n)
              BY StoredFacts
        <2>2. Stored'[b][i] = Abstract!Counted(Cardinality(Copies(b, i)'))
              BY DEF Stored, Abstract!Counted
        <2>3. CASE b = cur /\ i \in sent
              <3>1. Copies(b, i)' = Copies(b, i) \cup {new} /\ new \notin Copies(b, i)
                    BY <1>1, <1>4, <1>5, <2>3 DEF Copies
              <3>2. Cardinality(Copies(b, i)') = n + 1
                    BY <2>1, <3>1, FS_AddElement
              <3> HIDE DEF n
              <3>3. Abstract!Counted(n + 1)
                      = Abstract!Counted(Abstract!Counted(n) + 1)
                    BY <2>1, Bounds DEF Abstract!Counted
              <3> QED BY <2>1, <2>2, <2>3, <3>2, <3>3
        <2>4. CASE ~(b = cur /\ i \in sent)
              <3>1. Copies(b, i)' = Copies(b, i)
                    BY <1>1, <1>4, <1>5, <2>4 DEF Copies
              <3> QED BY <2>1, <2>2, <2>4, <3>1
        <2> QED BY <2>3, <2>4
  <1> DEFINE now == [i \in 1..MaxRecords |->
                       IF i \in sent THEN Abstract!Counted(Stored[cur][i] + 1)
                                     ELSE Stored[cur][i]]
  <1>7. Stored' = [Stored EXCEPT ![cur] = now]
        <2>1. \A b \in Blobs : /\ Stored[b] = [i \in 1..MaxRecords |-> Stored[b][i]]
                               /\ Stored'[b] = [i \in 1..MaxRecords |-> Stored'[b][i]]
              BY DEF Stored
        <2>2. ASSUME NEW b \in Blobs PROVE Stored'[b] = IF b = cur THEN now ELSE Stored[b]
              <3>1. CASE b = cur
                    <4>1. \A i \in 1..MaxRecords : Stored'[cur][i] = now[i]
                          BY <1>2, <1>6
                    <4> QED BY <1>2, <2>1, <3>1, <4>1
              <3>2. CASE b # cur
                    <4>1. \A i \in 1..MaxRecords : Stored'[b][i] = Stored[b][i]
                          BY <1>6, <3>2
                    <4> HIDE DEF now
                    <4> QED BY <2>1, <3>2, <4>1
              <3> QED BY <3>1, <3>2
        <2>3. Stored = [b \in Blobs |-> Stored[b]] /\ Stored' = [b \in Blobs |-> Stored'[b]]
              BY DEF Stored
        <2> HIDE DEF now
        <2> QED BY <1>2, <2>2, <2>3
  <1>8. UNCHANGED <<Log, Committed>>
        BY <1>1 DEF Log, Committed
  <1>9. sent \subseteq 1..Len(Log[cur]) /\ \A i \in sent : i > Committed[cur] /\ Log[cur][i]
        BY <1>3
  <1>10. Abstract!Deliver(cur, sent)
        BY <1>7, <1>8, <1>9, FilesArrive DEF Abstract!Deliver
  <1>11. sent \in SUBSET (1..MaxRecords)
        BY <1>3
  <1> QED BY <1>10, <1>11

LEMMA WriteCommitsFiles ==
  ASSUME NsgToFiles, TypeInv, Positions, NothingMissed, Filed, WriteStatus
  PROVE  Abstract!Commit
  <1> DEFINE c == [b \in Blobs |-> status[b].end]
  <1>1. c \in [Blobs -> 0..MaxRecords]
        <2>1. \A b \in Blobs : status[b].end \in 0..MaxRecords
              BY CheckpointFacts DEF CheckpointType
        <2> QED BY <2>1
  <1>2. disk' = status /\ UNCHANGED <<content, files>>
        BY DEF WriteStatus, azure, sinks
  <1>3. Committed' = c /\ UNCHANGED <<Log, Stored>>
        BY <1>2 DEF Committed, Log, Stored, Copies
  <1>4. ASSUME NEW b \in Blobs PROVE Abstract!Covered(b, c[b])
        <2>1. /\ status[b].end \in Nat /\ status[b].end <= Len(content[b])
              /\ Len(content[b]) \in Nat /\ Len(content[b]) <= MaxRecords
              BY PositionFacts, CheckpointFacts, LogFacts DEF TypeInv, TypeOK
        <2>2. ASSUME NEW i \in 1..status[b].end, Log[b][i] PROVE Stored[b][i] > 0
              <3>1. i \in 1..Len(content[b]) /\ i \in 1..MaxRecords /\ i <= status[b].end
                    BY <2>1, Bounds
              <3>2. Wanted(b, i)
                    BY <2>2, <3>1, LogFacts DEF Wanted
              <3>3. Delivered(b, i)
                    BY <3>1, <3>2 DEF NothingMissed, Misses, Passed
              <3> QED BY <3>1, <3>3, StoredFacts DEF NsgToFiles
        <2>3. status[b].end <= Len(Log[b])
              BY <2>1, LogFacts
        <2> QED BY <2>2, <2>3, FilesArrive DEF Abstract!Covered
  <1> HIDE DEF c
  <1> QED BY <1>1, <1>3, <1>4, FilesArrive DEF Abstract!Commit

LEMMA StepAbstractFiles ==
  ASSUME NsgToFiles, TypeInv, Positions, Faithful, NothingMissed, StatusAdvancesDisk, Filed,
         [Next]_vars
  PROVE  [Abstract!Next]_(Abstract!vars)
  <1> USE DEF azure, sinks, job
  <1>1. ASSUME UNCHANGED <<content, files, disk>> PROVE UNCHANGED Abstract!vars
        BY <1>1, FilesArrive DEF Abstract!vars, Log, Committed, Stored, Copies
  <1>2. ASSUME NEW b \in Blobs, AppendRecord(b) PROVE Abstract!Next
        <2>1. UNCHANGED Stored
              BY <1>2, AppendLog DEF Stored, Copies
        <2> QED BY <1>2, <2>1, AppendLog, FilesArrive DEF Abstract!Next, Abstract!Write
  <1>3. CASE WriteFile
        <2>1. /\ pc = "send" /\ cur \in Blobs /\ UNCHANGED <<content, disk>>
              /\ \A f \in files :
                    f.name = FileName => f.events = {<<cur, Entry(k)>> : k \in Emitting}
              BY <1>3, FilesKept, NamesUnconfused, PageFacts
                 DEF WriteFile, Writing, NsgToFiles, NamesTell
        <2>2. CASE \E f \in files : f.name = FileName
              BY <1>1, <1>3, <2>1, <2>2, Overwrites
        <2>3. CASE \A f \in files : f.name # FileName
              BY <1>3, <2>1, <2>3, WriteDelivers DEF Abstract!Next
        <2> QED BY <2>2, <2>3
  <1>4. CASE WriteStatus
        BY <1>4, WriteCommitsFiles DEF Abstract!Next
  <1>5. CASE TruncateStatus
        <2>1. disk' = NoStatus /\ UNCHANGED <<content, files>>
              BY <1>5 DEF TruncateStatus
        <2>2. Abstract!Forget
              BY <2>1, FilesArrive DEF Abstract!Forget, NoStatus, NoEntry, Log, Committed,
                                       Stored, Copies
        <2> QED BY <2>2 DEF Abstract!Next
  <1>6. CASE Poll \/ ListBlobsFails \/ ReadStatusFails
        BY <1>1, <1>6 DEF Poll, ListBlobsFails, ReadStatusFails, StartJob
  <1>7. ASSUME NEW b \in Blobs, Load(b) \/ GetRangeFails(b) \/ LoadFallsShort(b) \/ TouchBlob(b)
        PROVE  UNCHANGED Abstract!vars
        BY <1>1, <1>7 DEF Load, LoadFallsShort, LoadBlobRange, LoadCutsRecord, LoadPastEnd,
                          GetRangeFails, TouchBlob
  <1>8. CASE SendEvent \/ SkipRecord \/ SendEventFails \/ FinishSyslog \/ WriteFileFails
        BY <1>1, <1>8 DEF SendEvent, SkipRecord, SendEventFails, FinishSyslog, WriteFileFails
  <1>9. CASE NothingToWrite \/ MarshalFails \/ OpenStatusFails \/ WriteStatusFails \/ Crash
          \/ Restart
        BY <1>1, <1>9 DEF NothingToWrite, MarshalFails, NotReported, OpenStatusFails,
                          WriteStatusFails, Crash, Restart
  <1>10. CASE UNCHANGED vars
        BY <1>1, <1>10 DEF vars
  <1> QED BY <1>2, <1>3, <1>4, <1>5, <1>6, <1>7, <1>8, <1>9, <1>10
          DEF Next, Process, Failure, Environment

\* The files keep the promise too, where no two records' events share a second
\* that is in a name: a record is in a file before a checkpoint covers it, stays
\* in one whatever is replaced, and a committed record never gets into a further
\* file.
THEOREM ImplementsFiles ==
  ASSUME NsgToFiles, "read" \notin FaultKinds
  PROVE  Spec => AtLeastOnceDelivery
  <1>1. Init => NothingMissed
        BY InitMisses DEF NothingMissed
  <1>2. TypeInv /\ Positions /\ Faithful /\ NothingMissed /\ [Next]_vars => NothingMissed'
        BY NextNothingMissed DEF NsgToFiles, Converting
  <1>3. Spec => []Positions /\ []Faithful
        BY PositionsInvariant, FaithfulInvariant DEF NsgToFiles
  <1>4. /\ TypeInv /\ Positions /\ Faithful /\ NothingMissed /\ StatusAdvancesDisk /\ Filed
        /\ [Next]_vars
        => [Abstract!Next]_(Abstract!vars)
        BY StepAbstractFiles
  <1> QED BY <1>1, <1>2, <1>3, <1>4, InitAbstract, TypeInvariant, StatusAhead,
             FiledInvariant, PTL DEF Spec, AtLeastOnceDelivery, Abstract!Spec

-----------------------------------------------------------------------------
(* The last record under the checkpoint, whatever the pages' entries alias.  *)

LastDelivered(n, b) == Wanted(b, n) => Delivered(b, n)

\* A page that was sent to its end has sent the record it ends with.
LastCoverage ==
  /\ \A b \in Blobs : LastDelivered(status[b].end, b) /\ LastDelivered(disk[b].end, b)
  /\ Sending /\ pos > PageSize => LastDelivered(Length(cur), cur)

LEMMA QuietLast ==
  ASSUME LastCoverage, UNCHANGED <<content, received, files>>, pc' # "send",
         status' \in {status, disk, NoStatus}, disk' \in {status, disk, NoStatus}
  PROVE  LastCoverage'
  <1>1. \A b \in Blobs, n \in Nat : LastDelivered(n, b)' <=> LastDelivered(n, b)
        BY DEF LastDelivered, Wanted, Delivered
  <1>2. \A b \in Blobs : LastDelivered(NoStatus[b].end, b)
        BY DEF LastDelivered, Wanted, NoStatus, NoEntry
  <1>3. \A b \in Blobs : LastDelivered(status'[b].end, b) /\ LastDelivered(disk'[b].end, b)
        BY <1>2 DEF LastCoverage
  <1>4. (\A b \in Blobs : LastDelivered(status[b].end, b) /\ LastDelivered(disk[b].end, b))'
        BY <1>3 DEF LastDelivered, Wanted, Delivered
  <1> QED BY <1>4 DEF LastCoverage, Sending

LEMMA LoadLast ==
  ASSUME TypeInv, LastCoverage, NEW b \in Blobs, LoadBlobRange(b)
  PROVE  LastCoverage'
  <1>1. /\ Start(b) < Length(b) /\ cur' = b /\ pos' = 1
        /\ UNCHANGED <<content, received, files, status, disk, logFiles>>
        BY DEF LoadBlobRange, azure, sinks
  <1>2. Start(b) \in Nat /\ Length(b) \in Nat
        BY DEF TypeInv, TypeOK, LogFileType, Start, Length
  <1>3. ~(pos' > PageSize')
        BY <1>1, <1>2 DEF PageSize, Start, Length
  <1>4. (\A c \in Blobs : LastDelivered(status[c].end, c) /\ LastDelivered(disk[c].end, c))'
        BY <1>1 DEF LastCoverage, LastDelivered, Wanted, Delivered
  <1> QED BY <1>3, <1>4 DEF LastCoverage

LEMMA AppendLast ==
  ASSUME TypeInv, Positions, LastCoverage, NEW b \in Blobs, AppendRecord(b)
  PROVE  LastCoverage'
  <1>1. UNCHANGED <<pc, status, logFiles, cur, pos, disk, received, files>>
        BY DEF AppendRecord, job, sinks
  <1>2. ASSUME NEW c \in Blobs, NEW n \in Nat, n <= Len(content[c]), LastDelivered(n, c)
        PROVE  LastDelivered(n, c)'
        <2>1. CASE n = 0
              BY <2>1 DEF LastDelivered, Wanted
        <2>2. CASE n # 0
              <3>1. n \in 1..Len(content[c]) /\ content'[c][n] = content[c][n]
                    BY <1>2, <2>2, AppendEffect
              <3> QED BY <1>1, <1>2, <3>1 DEF LastDelivered, Wanted, Delivered
        <2> QED BY <2>1, <2>2
  <1>3. (\A c \in Blobs : LastDelivered(status[c].end, c) /\ LastDelivered(disk[c].end, c))'
        <2>1. \A c \in Blobs : LastDelivered(status[c].end, c)' /\ LastDelivered(disk[c].end, c)'
              BY <1>1, <1>2, PositionFacts DEF LastCoverage, LastDelivered, Wanted, Delivered
        <2> QED BY <2>1
  <1>4. (Sending /\ pos > PageSize => LastDelivered(Length(cur), cur))'
        <2>1. ASSUME Sending, pos > PageSize PROVE LastDelivered(Length(cur), cur)'
              <3>1. cur \in Blobs /\ Length(cur) \in Nat /\ Length(cur) <= Len(content[cur])
                    BY <2>1, PageFacts DEF Sending
              <3>2. LastDelivered(Length(cur), cur)
                    BY <2>1 DEF LastCoverage
              <3> QED BY <1>1, <1>2, <3>1, <3>2 DEF LastDelivered, Wanted, Delivered, Length
        <2> QED BY <1>1, <2>1 DEF Sending, PageSize, Start, Length
  <1> QED BY <1>3, <1>4 DEF LastCoverage

LEMMA PageLast ==
  ASSUME TimeFirst, TypeInv, Positions, LastCoverage, SendEvent \/ SkipRecord
  PROVE  LastCoverage'
  <1>1. /\ Sending /\ pc = "send" /\ pos \in Entries /\ pos' = pos + 1
        /\ UNCHANGED <<content, pc, status, logFiles, cur, disk>>
        BY DEF SendEvent, SkipRecord, Sending, azure, sinks
  <1>2. /\ cur \in Blobs /\ Destination = "syslog" /\ PageSize \in Nat
        /\ Entry(PageSize) = Length(cur) /\ Length(cur) \in 1..MaxRecords
        BY <1>1, PageFacts, PositionFacts DEF Sending
  <1>3. ASSUME NEW b \in Blobs, NEW n \in Nat, n <= Len(content[b]), LastDelivered(n, b)
        PROVE  LastDelivered(n, b)'
        <2>1. Wanted(b, n)' => Wanted(b, n) /\ n \in 1..MaxRecords
              BY <1>1, <1>3, PositionFacts, Bounds DEF Wanted
        <2>2. n \in 1..MaxRecords /\ Delivered(b, n) => Delivered(b, n)'
              BY <1>2, SendKeeps DEF SkipRecord, sinks, Delivered
        <2> QED BY <1>3, <2>1, <2>2 DEF LastDelivered
  <1>4. \A b \in Blobs : LastDelivered(status[b].end, b)' /\ LastDelivered(disk[b].end, b)'
        BY <1>1, <1>3, PositionFacts DEF LastCoverage, LastDelivered, Wanted, Delivered
  <1>5. ASSUME pos' > PageSize PROVE LastDelivered(Length(cur), cur)'
        <2>1. pos = PageSize /\ Entry(pos) = Length(cur)
              BY <1>1, <1>2, <1>5 DEF Entries
        <2>2. Sound(status[cur], cur) /\ Ordered(content[cur])
              BY <1>2 DEF Positions
        <2>3. Wanted(cur, Length(cur)) => Emits(pos)
              BY <1>1, <2>1, <2>2, FilterPasses
        <2>4. SendEvent => received'[cur][Length(cur)] > 0
              BY <1>2, <2>1, SendKeeps
        <2>5. Wanted(cur, Length(cur)) => received'[cur][Length(cur)] > 0
              BY <2>3, <2>4 DEF SkipRecord
        <2> QED BY <1>1, <1>2, <2>5 DEF LastDelivered, Wanted, Delivered, Length
  <1> QED BY <1>1, <1>4, <1>5 DEF LastCoverage, PageSize, Start, Length,
                                  LastDelivered, Wanted, Delivered

LEMMA FinishLast ==
  ASSUME TypeInv, LastCoverage, FinishSyslog
  PROVE  LastCoverage'
  <1>1. /\ Sending /\ pc = "send" /\ pos > PageSize /\ RecordResult
        /\ UNCHANGED <<content, disk, received, files>>
        BY DEF FinishSyslog, Sending, azure, sinks
  <1>2. /\ pc' # "send" /\ cur \in Blobs /\ status'[cur].end = Length(cur)
        /\ \A b \in Blobs : b # cur => status'[b] = status[b]
        BY <1>1, RecordFacts
  <1>3. LastDelivered(Length(cur), cur)
        BY <1>1 DEF LastCoverage
  <1>4. \A b \in Blobs : LastDelivered(status'[b].end, b) /\ LastDelivered(disk[b].end, b)
        BY <1>2, <1>3 DEF LastCoverage
  <1>5. (\A b \in Blobs : LastDelivered(status[b].end, b) /\ LastDelivered(disk[b].end, b))'
        BY <1>1, <1>4 DEF LastDelivered, Wanted, Delivered
  <1> QED BY <1>2, <1>5 DEF LastCoverage, Sending

\* A step that changes nothing LastCoverage speaks of.
LEMMA SameLast ==
  ASSUME LastCoverage,
         UNCHANGED <<content, received, files, pc, status, disk, logFiles, cur, pos>>
  PROVE  LastCoverage'
  BY DEF LastCoverage, LastDelivered, Wanted, Delivered, Sending, PageSize, Start, Length

LEMMA NextLast ==
  ASSUME Destination = "syslog", TimeFirst, "send" \notin FaultKinds,
         TypeInv, Positions, LastCoverage, [Next]_vars
  PROVE  LastCoverage'
  <1> USE DEF azure, sinks, job
  <1>1. CASE Poll \/ ReadStatusFails \/ ListBlobsFails
        BY <1>1, QuietLast DEF Poll, ReadStatusFails, ListBlobsFails, StartJob
  <1>2. ASSUME NEW b \in Blobs, LoadBlobRange(b) PROVE LastCoverage'
        BY <1>2, LoadLast
  <1>3. ASSUME NEW b \in Blobs,
               LoadCutsRecord(b) \/ LoadPastEnd(b) \/ GetRangeFails(b) \/ LoadFallsShort(b)
        PROVE  LastCoverage'
        BY <1>3, QuietLast DEF LoadCutsRecord, LoadPastEnd, GetRangeFails, LoadFallsShort,
                               NextTask, Exit
  <1>4. CASE SendEvent \/ SkipRecord
        BY <1>4, PageLast
  <1>5. CASE FinishSyslog
        BY <1>5, FinishLast
  <1>6. ~(SendEventFails \/ WriteFile \/ WriteFileFails \/ NothingToWrite \/ MarshalFails)
        BY DEF SendEventFails, Fault, WriteFile, WriteFileFails, NothingToWrite, MarshalFails,
               NotReported, Writing
  <1>7. CASE TruncateStatus \/ WriteStatus \/ OpenStatusFails \/ WriteStatusFails
        BY <1>7, QuietLast DEF TruncateStatus, WriteStatus, OpenStatusFails, WriteStatusFails
  <1>8. CASE Crash \/ Restart
        BY <1>8, QuietLast DEF Crash, Restart, Exit
  <1>9. ASSUME NEW b \in Blobs, AppendRecord(b) PROVE LastCoverage'
        BY <1>9, AppendLast
  <1>10. ASSUME NEW b \in Blobs, TouchBlob(b) PROVE LastCoverage'
        BY <1>10, SameLast DEF TouchBlob
  <1>11. CASE UNCHANGED vars
        BY <1>11, SameLast DEF vars
  <1> QED BY <1>1, <1>2, <1>3, <1>4, <1>5, <1>6, <1>7, <1>8, <1>9, <1>10, <1>11
          DEF Next, Process, Failure, Environment, Load

LEMMA InitLast == ASSUME Init PROVE LastCoverage
  BY DEF Init, LastCoverage, LastDelivered, Wanted, Sending, NoStatus, NoEntry

\* Whatever the entries of a page alias (each its own record, or all the last
\* one), the record a checkpoint on disk ends with was delivered: the one thing
\* a page promises in every build, and what tells a page that was sent from one
\* that was not.
THEOREM LastRecord ==
  ASSUME Destination = "syslog", TimeFirst, OrderedTimes, "send" \notin FaultKinds
  PROVE  Spec => []LastRecordDelivered
  <1>1. Init => LastCoverage
        BY InitLast
  <1>2. TypeInv /\ Positions /\ LastCoverage /\ [Next]_vars => LastCoverage'
        BY NextLast
  <1>3. LastCoverage => LastRecordDelivered
        BY DEF LastCoverage, LastDelivered, LastRecordDelivered
  <1> QED BY <1>1, <1>2, <1>3, TypeInvariant, PositionsInvariant, PTL DEF Spec
=============================================================================
