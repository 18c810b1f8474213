-------------------------- MODULE BlobIngestProofs --------------------------
(* Theorems about BlobIngest, for every value of its constants. *)
EXTENDS BlobIngest, FiniteSetTheorems, TLAPS

-----------------------------------------------------------------------------
(* Type correctness, with the relation of tasks to listings and checkpoint. *)

TypeInv == TypeOK /\ Tasks

LEMMA Bounds ==
  /\ MaxRecords \in Nat /\ MaxTime \in Nat
  /\ MaxCrashes \in Nat /\ MaxFaults \in Nat /\ MaxCount \in Nat \ {0}
  BY BlobIngestAssumption

LEMMA RecordsFacts ==
  ASSUME NEW r \in Records
  PROVE  /\ r.time \in 1..MaxTime /\ r.flows \in BOOLEAN
         /\ r.flows => r.events \in Events[r.time]
  <1>1. CASE r \in [time : 1..MaxTime, flows : {FALSE}, events : {NoEvents}]
        BY <1>1
  <1>2. CASE \E t \in 1..MaxTime : r \in [time : {t}, flows : {TRUE}, events : Events[t]]
        BY <1>2
  <1> QED BY <1>1, <1>2 DEF Records

LEMMA InitType == Init => TypeInv
  <1> USE BlobIngestAssumption DEF Blobs
  <1> SUFFICES ASSUME Init PROVE TypeOK /\ Tasks
      BY DEF TypeInv
  <1> USE DEF Init, NoStatus, NoEntry, NoLogFiles, NoLogFile, NoBlob
  <1>1. TypeOK
        BY DEF TypeOK, CheckpointType, LogFileType
  <1>2. Tasks
        BY DEF Tasks
  <1> QED BY <1>1, <1>2

\* A blob whose records may be appended to keeps the records it has.
LEMMA AppendFacts ==
  ASSUME NEW S, NEW s \in Seq(S), NEW r \in S
  PROVE  /\ Append(s, r) \in Seq(S)
         /\ Len(s) \in Nat /\ Len(Append(s, r)) = Len(s) + 1
         /\ \A i \in 1..Len(s) : Append(s, r)[i] = s[i]
         /\ Append(s, r)[Len(s) + 1] = r
  OBVIOUS

LEMMA AppendType ==
  ASSUME TypeInv, NEW b \in Blobs, AppendRecord(b)
  PROVE  TypeInv'
  <1> DEFINE R == Records
  <1>1. PICK r \in R : content' = [content EXCEPT ![b] = Append(@, r)]
        BY DEF AppendRecord
  <1>2. /\ content \in [Blobs -> Seq(R)] /\ \A c \in Blobs : Len(content[c]) <= MaxRecords
        /\ stamp \in [Blobs -> Nat]
        BY DEF TypeInv, TypeOK
  <1> HIDE DEF R
  <1>a. \A c \in Blobs : content[c] \in Seq(R) /\ Len(content[c]) \in Nat
        BY <1>2
  <1>b. MaxRecords \in Nat
        BY BlobIngestAssumption
  <1>3. /\ content'[b] = Append(content[b], r)
        /\ Len(content'[b]) = Len(content[b]) + 1
        /\ content'[b] \in Seq(R)
        <2>1. content[b] \in Seq(R) /\ content'[b] = Append(content[b], r)
              BY <1>1, <1>2
        <2> QED BY <2>1, AppendFacts
  <1>4. \A c \in Blobs : c # b => content'[c] = content[c]
        BY <1>1, <1>2
  <1>5. Len(content[b]) < MaxRecords /\ UNCHANGED <<job, disk, sinks, crashes, faults>>
        BY DEF AppendRecord
  <1>6. content' \in [Blobs -> Seq(R)]
        BY <1>1, <1>2, <1>3, <1>4
  <1>7. \A c \in Blobs : Len(content'[c]) <= MaxRecords
        BY <1>2, <1>a, <1>3, <1>4, <1>5, <1>b
  <1>8. \A c \in Blobs : Len(content'[c]) >= Len(content[c])
        BY <1>a, <1>3, <1>4
  <1>9. stamp' = [stamp EXCEPT ![b] = @ + 1] \/ stamp' = stamp
        BY DEF AppendRecord
  <1>10. stamp' \in [Blobs -> Nat]
        BY <1>2, <1>9
  <1>11. TypeOK'
        BY <1>5, <1>6, <1>7, <1>10 DEF TypeInv, TypeOK, R, job, sinks
  <1>12. Tasks'
        BY <1>2, <1>5, <1>6, <1>8, SMTT(60) DEF TypeInv, TypeOK, Tasks, Start, Length,
                                                PageSize, LogFileType,
           job, sinks
  <1> QED BY <1>11, <1>12 DEF TypeInv

LEMMA TouchType ==
  ASSUME TypeInv, NEW b \in Blobs, TouchBlob(b)
  PROVE  TypeInv'
  <1>1. stamp' = [stamp EXCEPT ![b] = @ + 1] /\ UNCHANGED <<content, job, disk, sinks, crashes, faults>>
        BY DEF TouchBlob
  <1>2. stamp' \in [Blobs -> Nat]
        BY <1>1 DEF TypeInv, TypeOK
  <1> QED BY <1>1, <1>2 DEF TypeInv, TypeOK, Tasks, Start, Length, PageSize, job, sinks

LEMMA StartJobType ==
  ASSUME TypeInv, NEW loaded \in [Blobs -> CheckpointType], NEW listed \in SUBSET Blobs,
         StartJob(loaded, listed), faults' \in 0..MaxFaults
  PROVE  TypeInv'
  <1> DEFINE U == Unprocessed(listed, loaded)
  <1>1. U \subseteq Blobs
        BY DEF Unprocessed, Reached
  <1>2. /\ pc = "idle" /\ pc' = "run" /\ status' = loaded /\ todo' = U
        /\ logFiles' = [b \in Blobs |-> IF b \in U THEN LogFile(b, loaded) ELSE NoLogFile]
        /\ UNCHANGED <<azure, cur, pos, disk, sinks, crashes>>
        BY DEF StartJob
  <1> HIDE DEF U
  <1>3. \A b \in Blobs : Len(content[b]) \in 0..MaxRecords
        BY DEF TypeInv, TypeOK
  <1>4. \A b \in Blobs : /\ LogFile(b, loaded) \in LogFileType
                         /\ LogFile(b, loaded).start = loaded[b].end
                         /\ LogFile(b, loaded).length = Len(content[b])
                         /\ LogFile(b, loaded).lastRecord = loaded[b].lastRecord
        BY <1>3 DEF TypeInv, TypeOK, LogFile, LogFileType, CheckpointType
  <1>5. NoLogFile \in LogFileType
        BY BlobIngestAssumption DEF NoLogFile, LogFileType
  <1>6. logFiles' \in [Blobs -> LogFileType]
        BY <1>2, <1>4, <1>5
  <1>7. TypeOK'
        BY <1>1, <1>2, <1>6 DEF TypeInv, TypeOK, azure, sinks
  <1>8. Tasks'
        <2>1. \A b \in todo' : b \in Blobs /\ logFiles'[b] = LogFile(b, loaded)
              BY <1>1, <1>2
        <2>2. \A b \in todo' : Len(content[b]) <= Len(content[b])
              BY <1>3, <2>1
        <2>3. \A b \in todo' : LogFile(b, loaded).stamp > loaded[b].stamp
              BY <1>2 DEF LogFile, Unprocessed, U
        <2> QED BY <2>1, <2>2, <2>3, <1>2, <1>4 DEF Tasks, Start, Length, azure
  <1> QED BY <1>7, <1>8 DEF TypeInv

LEMMA NoStatusType == NoStatus \in [Blobs -> CheckpointType]
  BY BlobIngestAssumption DEF NoStatus, NoEntry, CheckpointType

LEMMA FaultType == ASSUME TypeInv, NEW kind, Fault(kind) PROVE faults' \in 0..MaxFaults
  BY BlobIngestAssumption DEF Fault, TypeInv, TypeOK

LEMMA ListedType == Listed \subseteq Blobs
  BY DEF Listed, Existing

LEMMA ExitType ==
  ASSUME TypeInv, Exit, UNCHANGED <<azure, disk, sinks>>,
         crashes' \in 0..MaxCrashes, faults' \in 0..MaxFaults
  PROVE  TypeInv'
  <1>1. logFiles' \in [Blobs -> LogFileType]
        BY BlobIngestAssumption DEF Exit, NoLogFiles, NoLogFile, LogFileType
  <1>2. TypeOK'
        <2>1. /\ content' \in [Blobs -> Seq(Records)]
              /\ \A b \in Blobs : Len(content'[b]) <= MaxRecords
              /\ stamp' \in [Blobs -> Nat]
              BY DEF TypeInv, TypeOK, azure
        <2>2. pc' \in {"down", "idle", "run", "send", "saving"} /\ pc' # "send" /\ todo' \subseteq Blobs /\ cur' = NoBlob
              BY DEF Exit
        <2>3. pos' \in 0..(MaxRecords + 1)
              BY Bounds DEF Exit
        <2>4. /\ disk' \in [Blobs -> CheckpointType] /\ status' \in [Blobs -> CheckpointType]
              BY NoStatusType DEF Exit, TypeInv, TypeOK
        <2>5. /\ received' \in [Blobs -> [1..MaxRecords -> 0..MaxCount]]
              /\ \A f \in files' : f.events \subseteq (Blobs \X (1..MaxRecords))
              BY DEF TypeInv, TypeOK, sinks
        <2> QED BY <1>1, <2>1, <2>2, <2>3, <2>4, <2>5 DEF TypeOK
  <1>3. Tasks'
        BY DEF Exit, Tasks
  <1> QED BY <1>2, <1>3 DEF TypeInv

\* The page being sent is within its blob, and so is the entry's record.
LEMMA PageFacts ==
  ASSUME TypeInv, pc = "send"
  PROVE  /\ cur \in todo /\ cur \in Blobs
         /\ Start(cur) \in Nat /\ Length(cur) \in 0..MaxRecords
         /\ Length(cur) <= Len(content[cur]) /\ Start(cur) < Length(cur)
         /\ PageSize \in Nat \ {0}
         /\ pos \in 1..(PageSize + 1)
         /\ \A k \in Entries : /\ Entry(k) \in 1..Length(cur)
                               /\ Entry(k) \in 1..Len(content[cur])
         /\ PageSize \in Entries /\ Entry(PageSize) = Length(cur)
         /\ content[cur][Length(cur)] \in Records
  <1>1. cur \in todo /\ cur \in Blobs /\ Len(content[cur]) \in 0..MaxRecords
        BY DEF TypeInv, TypeOK
  <1>2. logFiles[cur].start \in 0..MaxRecords /\ logFiles[cur].length \in 0..MaxRecords
        BY <1>1 DEF TypeInv, TypeOK, LogFileType
  <1>3. /\ Start(cur) < Length(cur) /\ pos \in 1..(PageSize + 1)
        /\ Length(cur) <= Len(content[cur])
        BY <1>1 DEF TypeInv, Tasks
  <1>4. Length(cur) \in 1..Len(content[cur])
        BY <1>1, <1>2, <1>3 DEF Length, Start
  <1> DEFINE R == Records
  <1>5. content[cur] \in Seq(R)
        BY <1>1 DEF TypeInv, TypeOK
  <1> HIDE DEF R
  <1>6. content[cur][Length(cur)] \in R
        BY <1>4, <1>5
  <1>7. PageSize \in Nat \ {0}
        BY <1>2, <1>3 DEF PageSize, Start, Length
  <1>8. \A k \in Entries : Entry(k) \in 1..Length(cur) /\ Entry(k) \in 1..Len(content[cur])
        BY <1>1, <1>2, <1>3, <1>7, SMTT(60) DEF PageSize, Entries, Entry, Start, Length
  <1>9. PageSize \in Entries /\ Entry(PageSize) = Length(cur)
        BY <1>2, <1>7 DEF PageSize, Entries, Entry, Start, Length
  <1> QED BY <1>1, <1>2, <1>3, <1>6, <1>7, <1>8, <1>9 DEF Start, Length, R

LEMMA RecordResultType ==
  ASSUME TypeInv, pc = "send", RecordResult,
         UNCHANGED <<azure, logFiles, disk, crashes>>, faults' \in 0..MaxFaults,
         received' = received, \A f \in files' : f.events \subseteq (Blobs \X (1..MaxRecords))
  PROVE  TypeInv'
  <1> DEFINE new == [stamp |-> logFiles[cur].stamp, end |-> Length(cur),
                     lastRecord |-> content[cur][Entry(PageSize)].time]
  <1>1. /\ status' = [status EXCEPT ![cur] = new] /\ todo' = todo \ {cur}
        /\ pc' = "run" /\ cur' = NoBlob /\ pos' = 0
        BY DEF RecordResult, Checkpoint
  <1>2. new.stamp \in Nat
        BY PageFacts DEF TypeInv, TypeOK, LogFileType
  <1>3. new.end \in 0..MaxRecords /\ new.lastRecord \in 0..MaxTime
        BY PageFacts, RecordsFacts, BlobIngestAssumption
  <1>4. new \in CheckpointType
        BY <1>2, <1>3 DEF CheckpointType
  <1> HIDE DEF new
  <1>5. status' \in [Blobs -> CheckpointType]
        BY <1>1, <1>4 DEF TypeInv, TypeOK
  <1>6. TypeOK'
        <2>1. /\ content' \in [Blobs -> Seq(Records)]
              /\ \A b \in Blobs : Len(content'[b]) <= MaxRecords
              /\ stamp' \in [Blobs -> Nat]
              BY DEF TypeInv, TypeOK, azure
        <2>2. /\ pc' \in {"down", "idle", "run", "send", "saving"} /\ pc' # "send"
              /\ todo' \subseteq Blobs /\ cur' = NoBlob
              BY <1>1 DEF TypeInv, TypeOK
        <2>3. pos' \in 0..(MaxRecords + 1)
              BY <1>1, Bounds
        <2>4. /\ disk' \in [Blobs -> CheckpointType] /\ logFiles' \in [Blobs -> LogFileType]
              /\ received' \in [Blobs -> [1..MaxRecords -> 0..MaxCount]]
              /\ crashes' \in 0..MaxCrashes
              BY DEF TypeInv, TypeOK
        <2> QED BY <1>5, <2>1, <2>2, <2>3, <2>4 DEF TypeOK
  <1>7. \A b \in todo' : status'[b] = status[b]
        BY <1>1 DEF TypeInv, TypeOK
  <1>8. Tasks'
        BY <1>1, <1>7 DEF TypeInv, Tasks, Start, Length, azure
  <1> QED BY <1>6, <1>8 DEF TypeInv

LEMMA LoadType ==
  ASSUME TypeInv, NEW b \in Blobs, Load(b)
  PROVE  TypeInv'
  <1>1. CASE LoadBlobRange(b)
        <2>1. /\ pc = "run" /\ b \in todo /\ Start(b) < Length(b)
              /\ pc' = "send" /\ cur' = b /\ pos' = 1
              /\ UNCHANGED <<content, stamp, status, logFiles, todo, disk, received, files,
                             crashes, faults>>
              BY <1>1 DEF LoadBlobRange, NextTask, azure, sinks
        <2>2. logFiles[b].start \in Nat /\ logFiles[b].length \in Nat
              BY DEF TypeInv, TypeOK, LogFileType
        <2>3. 1 \in 1..(PageSize' + 1)
              <3>1. PageSize' = logFiles[b].length - logFiles[b].start
                    BY <2>1 DEF PageSize, Start, Length
              <3>2. logFiles[b].length - logFiles[b].start > 0
                    BY <2>1, <2>2 DEF Start, Length
              <3> QED BY <2>2, <3>1, <3>2
        <2>4. TypeOK'
              <3>1. pc' \in {"down", "idle", "run", "send", "saving"} /\ cur' \in todo'
                    BY <2>1
              <3>2. pos' \in 0..(MaxRecords + 1)
                    BY <2>1, Bounds
              <3> QED BY <2>1, <3>1, <3>2 DEF TypeInv, TypeOK
        <2>5. Tasks'
              BY <2>1, <2>3 DEF TypeInv, Tasks, Start, Length
        <2> QED BY <2>4, <2>5 DEF TypeInv
  <1>2. CASE LoadCutsRecord(b)
        <2>1. /\ pc = "run" /\ todo' = todo \ {b}
              /\ UNCHANGED <<content, stamp, pc, status, logFiles, cur, pos, disk, received, files,
                             crashes, faults>>
              BY <1>2 DEF LoadCutsRecord, NextTask, azure, sinks
        <2>2. TypeOK'
              BY <2>1 DEF TypeInv, TypeOK
        <2>3. Tasks'
              BY <2>1 DEF TypeInv, Tasks, Start, Length
        <2> QED BY <2>2, <2>3 DEF TypeInv
  <1>3. CASE LoadPastEnd(b)
        BY <1>3, ExitType DEF LoadPastEnd, TypeInv, TypeOK
  <1> QED BY <1>1, <1>2, <1>3 DEF Load

LEMMA SendType ==
  ASSUME TypeInv, SendEvent \/ SkipRecord \/ SendEventFails
  PROVE  TypeInv'
  <1>1. /\ pc = "send" /\ pos \in Entries /\ pos' = pos + 1
        /\ UNCHANGED <<content, stamp, pc, status, logFiles, todo, cur, disk, files, crashes>>
        BY DEF SendEvent, SkipRecord, SendEventFails, Sending, azure, sinks
  <1>2. received' \in [Blobs -> [1..MaxRecords -> 0..MaxCount]]
        <2>1. CASE SendEvent
              <3>1. received' = [received EXCEPT ![cur][Entry(pos)] = Bumped(@)]
                    BY <2>1 DEF SendEvent
              <3>2. cur \in Blobs /\ Entry(pos) \in 1..MaxRecords
                    BY <1>1, PageFacts, Bounds
              <3>3. \A n \in 0..MaxCount : Bumped(n) \in 0..MaxCount
                    BY Bounds DEF Bumped
              <3> QED BY <3>1, <3>2, <3>3 DEF TypeInv, TypeOK
        <2> QED BY <2>1 DEF SkipRecord, SendEventFails, sinks, TypeInv, TypeOK
  <1>3. faults' \in 0..MaxFaults
        BY FaultType DEF SendEvent, SkipRecord, SendEventFails, TypeInv, TypeOK
  <1>4. pos' \in 1..(PageSize + 1) /\ pos' \in 0..(MaxRecords + 1)
        BY <1>1, PageFacts, Bounds DEF Entries, PageSize
  <1>5. TypeOK'
        BY <1>1, <1>2, <1>3, <1>4 DEF TypeInv, TypeOK
  <1>6. Tasks'
        BY <1>1, <1>4 DEF TypeInv, Tasks, PageSize, Start, Length
  <1> QED BY <1>5, <1>6 DEF TypeInv

LEMMA FinishType ==
  ASSUME TypeInv, FinishSyslog \/ WriteFile \/ WriteFileFails
  PROVE  TypeInv'
  <1>1. /\ pc = "send" /\ RecordResult
        /\ UNCHANGED <<azure, logFiles, disk, received, crashes>>
        BY DEF FinishSyslog, WriteFile, WriteFileFails, Sending, Writing, sinks
  <1>2. faults' \in 0..MaxFaults
        BY FaultType DEF FinishSyslog, WriteFile, WriteFileFails, TypeInv, TypeOK
  <1>3. \A f \in files' : f.events \subseteq (Blobs \X (1..MaxRecords))
        <2>1. CASE WriteFile
              <3>1. \A k \in Emitting : <<cur, Entry(k)>> \in Blobs \X (1..MaxRecords)
                    BY <1>1, PageFacts, Bounds DEF Emitting
              <3> DEFINE E == {<<cur, Entry(k)>> : k \in Emitting}
              <3>2. E \subseteq (Blobs \X (1..MaxRecords))
                    BY <3>1
              <3>3. files' = {f \in files : f.name # FileName}
                               \cup {[name |-> FileName, events |-> E]}
                    BY <2>1 DEF WriteFile
              <3> HIDE DEF E
              <3> QED BY <3>2, <3>3 DEF TypeInv, TypeOK
        <2> QED BY <2>1 DEF FinishSyslog, WriteFileFails, sinks, TypeInv, TypeOK
  <1> QED BY <1>1, <1>2, <1>3, RecordResultType

LEMMA NothingType ==
  ASSUME TypeInv, NothingToWrite \/ MarshalFails
  PROVE  TypeInv'
  <1>1. /\ todo' = todo \ {cur} /\ pc' = "run" /\ cur' = NoBlob /\ pos' = 0
        /\ UNCHANGED <<content, stamp, status, logFiles, disk, received, files, crashes, faults>>
        BY DEF NothingToWrite, MarshalFails, NotReported, azure, sinks
  <1>2. TypeOK'
        <2>1. pc' # "send" /\ pos' \in 0..(MaxRecords + 1) /\ todo' \subseteq Blobs
              BY <1>1, Bounds DEF TypeInv, TypeOK
        <2> QED BY <1>1, <2>1 DEF TypeInv, TypeOK
  <1>3. Tasks'
        BY <1>1 DEF TypeInv, Tasks, Start, Length
  <1> QED BY <1>2, <1>3 DEF TypeInv

LEMMA SaveType ==
  ASSUME TypeInv, TruncateStatus \/ WriteStatus \/ OpenStatusFails \/ WriteStatusFails
  PROVE  TypeInv'
  <1>1. /\ todo = {} /\ todo' = {} /\ pc' \in {"idle", "saving"}
        /\ UNCHANGED <<content, stamp, cur, pos, received, files, crashes>>
        BY DEF TruncateStatus, WriteStatus, OpenStatusFails, WriteStatusFails, azure, sinks,
               TypeInv, Tasks
  <1>2. disk' \in [Blobs -> CheckpointType] /\ status' \in [Blobs -> CheckpointType]
        BY NoStatusType DEF TruncateStatus, WriteStatus, OpenStatusFails, WriteStatusFails,
               TypeInv, TypeOK
  <1>3. NoLogFiles \in [Blobs -> LogFileType]
        BY BlobIngestAssumption DEF NoLogFiles, NoLogFile, LogFileType
  <1>4. logFiles' \in [Blobs -> LogFileType]
        BY <1>3 DEF TruncateStatus, WriteStatus, OpenStatusFails, WriteStatusFails,
               TypeInv, TypeOK
  <1>5. faults' \in 0..MaxFaults
        BY FaultType DEF TruncateStatus, WriteStatus, OpenStatusFails, WriteStatusFails,
               TypeInv, TypeOK
  <1>6. cur = NoBlob
        BY <1>1 DEF TypeInv, TypeOK
  <1>7. TypeOK'
        BY <1>1, <1>2, <1>4, <1>5, <1>6 DEF TypeInv, TypeOK
  <1>8. Tasks'
        BY <1>1 DEF Tasks
  <1> QED BY <1>7, <1>8 DEF TypeInv

LEMMA RestartType ==
  ASSUME TypeInv, Restart
  PROVE  TypeInv'
  BY DEF TypeInv, TypeOK, Tasks, Restart, azure, sinks, Start, Length, PageSize

LEMMA NextType == TypeInv /\ [Next]_vars => TypeInv'
  <1> SUFFICES ASSUME TypeInv, [Next]_vars PROVE TypeInv'
      OBVIOUS
  <1>1. CASE Poll
        BY <1>1, StartJobType, ListedType DEF Poll, TypeInv, TypeOK
  <1>2. CASE ReadStatusFails
        BY <1>2, StartJobType, ListedType, NoStatusType, FaultType DEF ReadStatusFails
  <1>3. CASE ListBlobsFails
        BY <1>3, StartJobType, FaultType DEF ListBlobsFails, TypeInv, TypeOK
  <1>4. ASSUME NEW b \in Blobs, GetRangeFails(b) PROVE TypeInv'
        BY <1>4, ExitType, FaultType DEF GetRangeFails, TypeInv, TypeOK
  <1>5. CASE Crash
        <2>1. crashes' \in 0..MaxCrashes
              BY <1>5, Bounds DEF Crash, TypeInv, TypeOK
        <2> QED BY <1>5, <2>1, ExitType DEF Crash, TypeInv, TypeOK
  <1>6. CASE UNCHANGED vars
        BY <1>6 DEF vars, TypeInv, TypeOK, Tasks, Start, Length, PageSize
  <1>7. ASSUME NEW b \in Blobs, LoadFallsShort(b) PROVE TypeInv'
        <2>1. /\ pc = "run" /\ todo' = todo \ {b}
              /\ UNCHANGED <<content, stamp, pc, status, logFiles, cur, pos, disk, received, files,
                             crashes>>
              BY <1>7 DEF LoadFallsShort, NextTask, azure, sinks
        <2>2. faults' \in 0..MaxFaults
              BY <1>7, FaultType DEF LoadFallsShort
        <2>3. TypeOK'
              BY <2>1, <2>2 DEF TypeInv, TypeOK
        <2>4. Tasks'
              BY <2>1 DEF TypeInv, Tasks, Start, Length
        <2> QED BY <2>3, <2>4 DEF TypeInv
  <1> QED BY <1>1, <1>2, <1>3, <1>4, <1>5, <1>6, <1>7, LoadType, SendType, FinishType,
             NothingType, SaveType, RestartType, AppendType, TouchType
          DEF Next, Process, Failure, Environment

\* Types, and tasks that match the listing they were made from.
LEMMA TypeInvariant == Spec => []TypeInv
  BY InitType, NextType, PTL DEF Spec

\* Type correctness: no step leaves the types, and the process holds a blob
\* exactly while it sends it, however jobs, crashes and fatal exits interleave.
THEOREM TypeCorrect == Spec => []TypeOK
  <1>1. TypeInv => TypeOK
        BY DEF TypeInv
  <1> QED BY <1>1, TypeInvariant, PTL

-----------------------------------------------------------------------------
(* No loss: the checkpoint covers only what was delivered.                 *)

Good(s) == \A b \in Blobs : Sound(s[b], b) /\ Covered(b, s[b].end)

LEMMA CheckpointFacts ==
  ASSUME TypeInv, NEW b \in Blobs
  PROVE  /\ status[b] \in CheckpointType /\ disk[b] \in CheckpointType
         /\ status[b].end \in Nat /\ status[b].stamp \in Nat
         /\ disk[b].end \in Nat /\ disk[b].stamp \in Nat
  <1>1. status[b] \in CheckpointType /\ disk[b] \in CheckpointType
        BY DEF TypeInv, TypeOK
  <1>2. \A e \in CheckpointType : e.end \in Nat /\ e.stamp \in Nat
        BY DEF CheckpointType
  <1> QED BY <1>1, <1>2

LEMMA GoodNoStatus == ASSUME TypeInv PROVE Good(NoStatus)
  <1>1. \A b \in Blobs : Len(content[b]) \in Nat
        BY DEF TypeInv, TypeOK
  <1> QED BY <1>1 DEF Good, Sound, Covered, NoStatus, NoEntry

LEMMA InitCoverage == ASSUME Init PROVE Coverage
  <1>1. TypeInv
        BY InitType
  <1>2. Good(status) /\ Good(disk)
        BY <1>1, GoodNoStatus DEF Init
  <1>3. \A b \in Blobs : Ordered(content[b])
        BY DEF Init, Ordered
  <1>4. ~Sending
        BY DEF Init, Sending
  <1> QED BY <1>2, <1>3, <1>4 DEF Good, Coverage

\* A step that neither writes to a blob nor delivers, and after which nothing
\* is being sent, only has to leave good checkpoints.
LEMMA QuietCoverage ==
  ASSUME TypeInv, Coverage, UNCHANGED <<content, received, files>>, pc' # "send",
         \/ status' \in {status, disk, NoStatus}
         \/ Good(status'),
         disk' \in {status, disk, NoStatus}
  PROVE  Coverage'
  <1>1. Good(status) /\ Good(disk) /\ Good(NoStatus)
        BY GoodNoStatus DEF Coverage, Good
  <1>2. Good(status') /\ Good(disk')
        BY <1>1
  <1>3. \A b \in Blobs : Sound(status'[b], b) /\ Sound(disk'[b], b)
        BY <1>2 DEF Good
  <1>4. (\A b \in Blobs : Sound(status[b], b) /\ Sound(disk[b], b))'
        BY <1>3 DEF Sound
  <1>5. \A b \in Blobs : Covered(b, status'[b].end) /\ Covered(b, disk'[b].end)
        BY <1>2 DEF Good
  <1>6. (\A b \in Blobs : Covered(b, status[b].end) /\ Covered(b, disk[b].end))'
        BY <1>5 DEF Covered, Wanted, Delivered
  <1>7. (\A b \in Blobs : Ordered(content[b]))'
        BY DEF Coverage, Ordered
  <1>8. ~Sending'
        BY DEF Sending
  <1> QED BY <1>4, <1>6, <1>7, <1>8 DEF Coverage

\* What AppendRecord does to the blobs, without its choice of record.
LEMMA AppendEffect ==
  ASSUME TypeInv, NEW b \in Blobs, AppendRecord(b)
  PROVE  \A c \in Blobs :
            /\ Len(content[c]) \in Nat /\ Len(content'[c]) \in Nat
            /\ Len(content[c]) <= Len(content'[c])
            /\ IF c = b THEN Len(content'[c]) = Len(content[c]) + 1
                        ELSE content'[c] = content[c]
            /\ \A i \in 1..Len(content[c]) : content'[c][i] = content[c][i]
            /\ OrderedTimes /\ Ordered(content[c]) => Ordered(content'[c])
  <1> DEFINE R == Records
  <1>1. PICK r \in R : /\ content' = [content EXCEPT ![b] = Append(@, r)]
                       /\ OrderedTimes =>
                             \A i \in 1..Len(content[b]) : content[b][i].time < r.time
        BY DEF AppendRecord
  <1>2. content \in [Blobs -> Seq(R)]
        BY DEF TypeInv, TypeOK
  <1>3. content'[b] = Append(content[b], r)
        BY <1>1, <1>2
  <1>4. \A c \in Blobs : c # b => content'[c] = content[c]
        BY <1>1, <1>2
  <1> HIDE DEF R
  <1>5. \A c \in Blobs : content[c] \in Seq(R) /\ Len(content[c]) \in Nat
        BY <1>2
  <1>6. /\ Len(content'[b]) = Len(content[b]) + 1
        /\ \A i \in 1..Len(content[b]) : content'[b][i] = content[b][i]
        /\ content'[b][Len(content[b]) + 1] = r
        BY <1>3, <1>5, AppendFacts
  <1>7. ASSUME OrderedTimes, Ordered(content[b]) PROVE Ordered(content'[b])
        <2> SUFFICES ASSUME NEW i \in 1..Len(content'[b]), NEW j \in 1..Len(content'[b]), i < j
                     PROVE  content'[b][i].time < content'[b][j].time
            BY DEF Ordered
        <2>1. i \in 1..Len(content[b])
              BY <1>5, <1>6
        <2>2. CASE j \in 1..Len(content[b])
              BY <1>6, <1>7, <2>1, <2>2 DEF Ordered
        <2>3. CASE j = Len(content[b]) + 1
              BY <1>1, <1>6, <1>7, <2>1, <2>3
        <2> QED BY <1>5, <1>6, <2>2, <2>3
  <1>8. ASSUME NEW c \in Blobs
        PROVE  /\ Len(content[c]) \in Nat /\ Len(content'[c]) \in Nat
               /\ Len(content[c]) <= Len(content'[c])
               /\ IF c = b THEN Len(content'[c]) = Len(content[c]) + 1
                           ELSE content'[c] = content[c]
               /\ \A i \in 1..Len(content[c]) : content'[c][i] = content[c][i]
               /\ OrderedTimes /\ Ordered(content[c]) => Ordered(content'[c])
        <2>1. CASE c = b
              BY <1>5, <1>6, <1>7, <2>1
        <2>2. CASE c # b
              BY <1>4, <1>5, <2>2
        <2> QED BY <2>1, <2>2
  <1> QED BY <1>8

\* Coverage of a prefix survives what Azure appends behind it.
LEMMA CoveredByPrefix ==
  ASSUME TypeInv, NEW b \in Blobs, AppendRecord(b), NEW c \in Blobs, NEW n \in Nat,
         n <= Len(content[c]), Covered(c, n)
  PROVE  \A i \in 1..n : Wanted(c, i)' => Delivered(c, i)'
  <1>1. UNCHANGED <<received, files>>
        BY DEF AppendRecord, sinks
  <1>2. \A i \in 1..n : i \in 1..Len(content[c]) /\ content'[c][i] = content[c][i]
        BY AppendEffect
  <1>3. \A i \in 1..n : Wanted(c, i)' => Wanted(c, i)
        BY <1>2 DEF Wanted
  <1> QED BY <1>1, <1>3 DEF Covered, Delivered

LEMMA AppendCoverage ==
  ASSUME TypeInv, Coverage, OrderedTimes, NEW b \in Blobs, AppendRecord(b)
  PROVE  Coverage'
  <1>1. UNCHANGED <<pc, status, logFiles, todo, cur, pos, disk>>
        BY DEF AppendRecord, job
  <1>2. \A c \in Blobs : /\ status[c].end \in Nat /\ disk[c].end \in Nat
                         /\ Len(content[c]) \in Nat
                         /\ status[c].end <= Len(content[c])
                         /\ disk[c].end <= Len(content[c])
        <2>1. \A c \in Blobs : status[c].end \in Nat /\ disk[c].end \in Nat
              BY CheckpointFacts
        <2>2. \A c \in Blobs : Len(content[c]) \in Nat
              BY AppendEffect
        <2>3. \A c \in Blobs : Sound(status[c], c) /\ Sound(disk[c], c)
              BY DEF Coverage
        <2> QED BY <2>1, <2>2, <2>3 DEF Sound
  <1>3. ASSUME NEW c \in Blobs PROVE Ordered(content'[c])
        BY AppendEffect DEF Coverage
  <1>4. ASSUME NEW c \in Blobs PROVE Sound(status[c], c)' /\ Sound(disk[c], c)'
        <2>1. \A e \in {status[c], disk[c]} : e.end # 0 => content'[c][e.end] = content[c][e.end]
              BY <1>2, AppendEffect
        <2>2. Len(content'[c]) \in Nat /\ Len(content[c]) <= Len(content'[c])
              BY AppendEffect
        <2> QED BY <1>1, <1>2, <2>1, <2>2 DEF Coverage, Sound
  <1>5. ASSUME NEW c \in Blobs
        PROVE  Covered(c, status[c].end)' /\ Covered(c, disk[c].end)'
        <2>1. Covered(c, status[c].end) /\ Covered(c, disk[c].end)
              BY DEF Coverage
        <2>2. /\ \A i \in 1..status[c].end : Wanted(c, i)' => Delivered(c, i)'
              /\ \A i \in 1..disk[c].end : Wanted(c, i)' => Delivered(c, i)'
              BY <1>2, <2>1, CoveredByPrefix
        <2> QED BY <1>1, <2>2 DEF Covered
  <1>6. ASSUME Sending' PROVE Covered(cur, Start(cur) + pos - 1)'
        <2>1. Sending
              BY <1>1, <1>6 DEF Sending
        <2>2. cur \in Blobs /\ Start(cur) + pos - 1 \in Nat
              /\ Start(cur) + pos - 1 <= Len(content[cur])
              BY <1>2, <2>1, PageFacts DEF Sending, PageSize
        <2>3. Covered(cur, Start(cur) + pos - 1)
              BY <2>1 DEF Coverage
        <2> QED BY <1>1, <2>2, <2>3, CoveredByPrefix DEF Covered, Start
  <1> QED BY <1>3, <1>4, <1>5, <1>6 DEF Coverage

LEMMA LoadCoverage ==
  ASSUME TypeInv, Coverage, NEW b \in Blobs, LoadBlobRange(b)
  PROVE  Coverage'
  <1>1. /\ b \in todo /\ cur' = b /\ pos' = 1
        /\ UNCHANGED <<content, status, disk, received, files, logFiles>>
        BY DEF LoadBlobRange, NextTask, azure, sinks
  <1>2. /\ (\A c \in Blobs : Ordered(content[c]))'
        /\ (\A c \in Blobs : Sound(status[c], c) /\ Sound(disk[c], c))'
        /\ (\A c \in Blobs : Covered(c, status[c].end) /\ Covered(c, disk[c].end))'
        BY <1>1 DEF Coverage, Ordered, Sound, Covered, Wanted, Delivered
  <1>3. logFiles[b].start = status[b].end /\ status[b].end \in Nat
        BY <1>1, CheckpointFacts DEF TypeInv, Tasks, Start
  <1>4. Covered(b, status[b].end)
        BY DEF Coverage
  <1>5. logFiles[b].start + 1 - 1 = status[b].end
        BY <1>3
  <1>6. Covered(b, logFiles[b].start + 1 - 1)
        BY <1>4, <1>5
  <1>7. Covered(cur, Start(cur) + pos - 1)'
        BY <1>1, <1>6 DEF Covered, Start, Wanted, Delivered
  <1> QED BY <1>2, <1>7 DEF Coverage

\* Where records come in the order of their times, and each page from where the
\* checkpoint ends, the filter on the last processed record drops nothing: an
\* entry yields events exactly when the record it points to does.
LEMMA FilterPasses ==
  ASSUME TypeInv, TimeFirst, pc = "send", NEW k \in Entries,
         Sound(status[cur], cur), Ordered(content[cur])
  PROVE  Wanted(cur, Entry(k)) <=> Emits(k)
  <1> DEFINE i == Entry(k)
  <1>1. i \in 1..Len(content[cur]) /\ cur \in todo /\ cur \in Blobs
        BY PageFacts
  <1>2. ~HeadLost(i)
        BY DEF HeadLost
  <1>3. /\ Start(cur) = status[cur].end /\ status[cur].end \in Nat
        /\ logFiles[cur].lastRecord = status[cur].lastRecord
        BY <1>1, CheckpointFacts DEF TypeInv, Tasks
  <1>4. i > Start(cur)
        BY PageFacts DEF Entries, Entry
  <1>5. content[cur][i].time \in Nat /\ content[cur][i].time >= 1
        <2> DEFINE R == Records
        <2>1. content[cur] \in Seq(R)
              BY <1>1 DEF TypeInv, TypeOK
        <2>2. \A r \in R : r.time \in Nat /\ r.time >= 1
              BY RecordsFacts, Bounds
        <2> HIDE DEF R
        <2>3. content[cur][i] \in R
              BY <1>1, <2>1
        <2> QED BY <2>2, <2>3
  <1>6. content[cur][i].time > logFiles[cur].lastRecord
        <2>1. CASE status[cur].end = 0
              BY <1>3, <1>5, <2>1 DEF Sound
        <2>2. CASE status[cur].end # 0
              <3>1. status[cur].end \in 1..Len(content[cur]) /\ status[cur].end < i
                    BY <1>1, <1>3, <1>4, <2>2
              <3>2. content[cur][status[cur].end].time < content[cur][i].time
                    BY <1>1, <3>1 DEF Ordered
              <3> QED BY <1>3, <2>2, <3>2 DEF Sound
        <2> QED BY <2>1, <2>2
  <1> QED BY <1>1, <1>2, <1>6 DEF Emits, Wanted

LEMMA EmitsWanted ==
  ASSUME TypeInv, Coverage, NsgToSyslog, pc = "send", NEW k \in Entries
  PROVE  /\ Entry(k) = Start(cur) + k
         /\ Wanted(cur, Start(cur) + k) => Emits(k)
  <1>1. Entry(k) = Start(cur) + k /\ cur \in Blobs
        BY PageFacts DEF NsgToSyslog, Entry
  <1> QED BY <1>1, FilterPasses DEF NsgToSyslog, Coverage

LEMMA SendCoverage ==
  ASSUME TypeInv, Coverage, NsgToSyslog, SendEvent \/ SkipRecord
  PROVE  Coverage'
  <1> DEFINE n == Start(cur) + pos
  <1>1. /\ pc = "send" /\ pos \in Entries /\ pos' = pos + 1
        /\ UNCHANGED <<content, pc, status, logFiles, todo, cur, disk, files>>
        BY DEF SendEvent, SkipRecord, Sending, azure, sinks
  <1>2. cur \in Blobs /\ Start(cur) \in Nat /\ pos \in Nat /\ pos >= 1
        /\ Entry(pos) = n /\ n \in 1..MaxRecords
        BY <1>1, PageFacts, EmitsWanted, Bounds
  <1>3. received \in [Blobs -> [1..MaxRecords -> 0..MaxCount]]
        BY DEF TypeInv, TypeOK
  <1>4. SendEvent => received' = [received EXCEPT ![cur][n] = Bumped(@)]
        BY <1>2 DEF SendEvent
  <1>5. \A m \in 0..MaxCount : Bumped(m) > 0 /\ Bumped(m) >= m
        BY Bounds DEF Bumped
  <1>6. SendEvent => received'[cur][n] > 0
        <2>1. received[cur][n] \in 0..MaxCount
              BY <1>2, <1>3
        <2>2. SendEvent => received'[cur][n] = Bumped(received[cur][n])
              BY <1>2, <1>3, <1>4
        <2> QED BY <1>5, <2>1, <2>2
  <1>7. ASSUME NEW b \in Blobs, NEW i \in 1..MaxRecords, received[b][i] > 0
        PROVE  received'[b][i] > 0
        <2>1. CASE SendEvent
              <3>1. \/ b = cur /\ i = n /\ received'[b][i] = Bumped(received[b][i])
                    \/ received'[b][i] = received[b][i]
                    BY <1>2, <1>3, <1>4, <2>1, ZenonT(60)
              <3>2. received[b][i] \in 0..MaxCount
                    BY <1>3
              <3> QED BY <1>5, <1>7, <3>1, <3>2
        <2>2. CASE SkipRecord
              BY <1>7, <2>2 DEF SkipRecord, sinks
        <2> QED BY <2>1, <2>2
  <1>8. \A b \in Blobs : \A i \in 1..Len(content[b]) : i \in 1..MaxRecords
        BY Bounds DEF TypeInv, TypeOK
  <1>9. ASSUME NEW b \in Blobs, NEW i \in Int, Wanted(b, i), Delivered(b, i)
        PROVE  received'[b][i] > 0
        BY <1>7, <1>8, <1>9 DEF Delivered, Wanted, NsgToSyslog
  <1>10. \A b \in Blobs, i \in Int : Wanted(b, i)' <=> Wanted(b, i)
        BY <1>1 DEF Wanted
  <1>11. (\A b \in Blobs : Covered(b, status[b].end) /\ Covered(b, disk[b].end))'
        BY <1>1, <1>9, <1>10 DEF Coverage, Covered, Delivered, NsgToSyslog
  <1>12. Covered(cur, Start(cur) + pos - 1)'
        <2>1. Covered(cur, Start(cur) + pos - 1)
              BY <1>1 DEF Coverage, Sending, NsgToSyslog
        <2>2. Wanted(cur, n) => received'[cur][n] > 0
              <3>1. CASE SendEvent
                    BY <1>6, <3>1
              <3>2. CASE SkipRecord
                    BY <1>1, <3>2, EmitsWanted DEF SkipRecord
              <3> QED BY <3>1, <3>2
        <2>3. \A i \in 1..(Start(cur) + pos' - 1) : i = n \/ i \in 1..(Start(cur) + pos - 1)
              BY <1>1, <1>2
        <2>4. \A i \in 1..(Start(cur) + pos' - 1) : Wanted(cur, i) => received'[cur][i] > 0
              BY <1>2, <1>9, <2>1, <2>2, <2>3 DEF Covered
        <2> QED BY <1>1, <1>2, <1>10, <2>4 DEF Covered, Start, Delivered, NsgToSyslog
  <1> QED BY <1>1, <1>11, <1>12 DEF Coverage, Ordered, Sound

LEMMA FinishCoverage ==
  ASSUME TypeInv, Coverage, FinishSyslog
  PROVE  Coverage'
  <1> DEFINE new == [stamp |-> logFiles[cur].stamp, end |-> Length(cur),
                     lastRecord |-> content[cur][Entry(PageSize)].time]
  <1>1. /\ pc = "send" /\ Sending /\ pos > PageSize /\ pc' = "run"
        /\ status' = [status EXCEPT ![cur] = new]
        /\ UNCHANGED <<content, received, files, disk>>
        BY DEF FinishSyslog, RecordResult, Checkpoint, Sending, azure, sinks
  <1>2. /\ cur \in Blobs /\ Length(cur) \in 1..Len(content[cur])
        /\ Entry(PageSize) = Length(cur) /\ Start(cur) + pos - 1 = Length(cur)
        BY <1>1, PageFacts DEF PageSize
  <1>3. Sound(new, cur)
        BY <1>2 DEF Sound
  <1>4. Covered(cur, new.end)
        BY <1>1, <1>2 DEF Coverage
  <1> HIDE DEF new
  <1>5. \A b \in Blobs : status'[b] = IF b = cur THEN new ELSE status[b]
        BY <1>1 DEF TypeInv, TypeOK
  <1>6. Good(status')
        BY <1>3, <1>4, <1>5 DEF Good, Coverage
  <1> QED BY <1>1, <1>6, QuietCoverage

LEMMA NextCoverage ==
  ASSUME NsgToSyslog, TypeInv, Coverage, [Next]_vars
  PROVE  Coverage'
  <1> USE DEF azure, sinks, job
  <1>1. CASE Poll
        BY <1>1, QuietCoverage DEF Poll, StartJob
  <1>2. CASE ReadStatusFails
        BY <1>2, QuietCoverage DEF ReadStatusFails, StartJob
  <1>3. CASE ListBlobsFails
        BY <1>3, QuietCoverage DEF ListBlobsFails, StartJob
  <1>4. ASSUME NEW b \in Blobs, Load(b) \/ GetRangeFails(b) \/ LoadFallsShort(b) PROVE Coverage'
        <2>1. CASE LoadBlobRange(b)
              BY <2>1, LoadCoverage
        <2>2. CASE LoadCutsRecord(b)
              BY <2>2, QuietCoverage DEF LoadCutsRecord, NextTask
        <2>3. CASE LoadPastEnd(b)
              BY <2>3, QuietCoverage DEF LoadPastEnd, Exit
        <2>4. CASE GetRangeFails(b)
              BY <2>4, QuietCoverage DEF GetRangeFails, Exit
        <2>5. CASE LoadFallsShort(b)
              BY <2>5, QuietCoverage DEF LoadFallsShort, NextTask
        <2> QED BY <1>4, <2>1, <2>2, <2>3, <2>4, <2>5 DEF Load
  <1>5. CASE SendEvent \/ SkipRecord
        BY <1>5, SendCoverage
  <1>6. CASE FinishSyslog
        BY <1>6, FinishCoverage
  <1>7. ~(SendEventFails \/ WriteFile \/ WriteFileFails \/ NothingToWrite \/ MarshalFails)
        BY DEF NsgToSyslog, SendEventFails, WriteFile, WriteFileFails, NothingToWrite,
               MarshalFails, NotReported, Writing, Fault
  <1>8. CASE TruncateStatus \/ WriteStatus \/ OpenStatusFails \/ WriteStatusFails
        BY <1>8, QuietCoverage DEF TruncateStatus, WriteStatus, OpenStatusFails, WriteStatusFails
  <1>9. CASE Crash \/ Restart
        BY <1>9, QuietCoverage DEF Crash, Restart, Exit
  <1>10. ASSUME NEW b \in Blobs, AppendRecord(b) PROVE Coverage'
        BY <1>10, AppendCoverage DEF NsgToSyslog
  <1>11. ASSUME NEW b \in Blobs, TouchBlob(b) PROVE Coverage'
        BY <1>11 DEF TouchBlob, Coverage, Ordered, Sound, Covered, Wanted, Delivered, Sending,
                     Start
  <1>12. CASE UNCHANGED vars
        BY <1>12 DEF vars, Coverage, Ordered, Sound, Covered, Wanted, Delivered, Sending, Start
  <1> QED BY <1>1, <1>2, <1>3, <1>4, <1>5, <1>6, <1>7, <1>8, <1>9, <1>10, <1>11, <1>12
          DEF Next, Process, Failure, Environment

LEMMA CoverageInvariant == ASSUME NsgToSyslog PROVE Spec => []Coverage
  <1>1. Init => Coverage
        BY InitCoverage
  <1>2. TypeInv /\ Coverage /\ [Next]_vars => Coverage'
        BY NextCoverage
  <1> QED BY <1>1, <1>2, TypeInvariant, PTL DEF Spec

\* NSG logs sent to syslog: the checkpoint on disk never covers a record that
\* was not delivered, in any interleaving of Azure's appends with the job,
\* through crashes, failed calls and torn checkpoints.
THEOREM NoLoss == ASSUME NsgToSyslog PROVE Spec => []CheckpointDelivered
  <1>1. Coverage => CheckpointDelivered
        BY DEF Coverage, Covered, CheckpointDelivered
  <1> QED BY <1>1, CoverageInvariant, PTL

-----------------------------------------------------------------------------
(* A running job is never behind the checkpoint on disk.                   *)

\* A finished page moves its blob's checkpoint forward.
LEMMA RecordAdvances ==
  ASSUME TypeInv, pc = "send", RecordResult, NEW b \in Blobs
  PROVE  status'[b].end >= status[b].end /\ status'[b].stamp >= status[b].stamp
  <1>1. /\ cur \in Blobs /\ Length(cur) \in Nat /\ Start(cur) < Length(cur)
        /\ Start(cur) = status[cur].end
        /\ logFiles[cur].stamp > status[cur].stamp
        BY PageFacts DEF TypeInv, Tasks
  <1>2. /\ status[b].end \in Nat /\ status[b].stamp \in Nat /\ logFiles[cur].stamp \in Nat
        BY <1>1, CheckpointFacts DEF TypeInv, TypeOK, LogFileType
  <1>3. status'[cur].end = Length(cur) /\ status'[cur].stamp = logFiles[cur].stamp
        BY <1>1 DEF RecordResult, Checkpoint, TypeInv, TypeOK
  <1>4. b # cur => status'[b] = status[b]
        BY DEF RecordResult, Checkpoint, TypeInv, TypeOK
  <1> QED BY <1>1, <1>2, <1>3, <1>4

LEMMA NextAdvances ==
  ASSUME "read" \notin FaultKinds, TypeInv, StatusAdvancesDisk, [Next]_vars
  PROVE  StatusAdvancesDisk'
  <1> USE DEF azure, sinks, job
  <1>1. CASE Poll \/ ListBlobsFails
        <2>1. status' = disk /\ disk' = disk
              BY <1>1 DEF Poll, ListBlobsFails, StartJob
        <2> QED BY <2>1, CheckpointFacts DEF StatusAdvancesDisk, Advances
  <1>2. ~ReadStatusFails
        BY DEF ReadStatusFails, Fault
  <1>3. CASE FinishSyslog \/ WriteFile \/ WriteFileFails
        <2>1. pc = "send" /\ RecordResult /\ disk' = disk
              BY <1>3 DEF FinishSyslog, WriteFile, WriteFileFails, Sending, Writing
        <2>2. ASSUME NEW b \in Blobs
              PROVE  /\ status[b].end >= disk[b].end /\ status[b].stamp >= disk[b].stamp
                     /\ status[b].end \in Nat /\ status[b].stamp \in Nat
                     /\ disk[b].end \in Nat /\ disk[b].stamp \in Nat
              BY <2>1, CheckpointFacts DEF StatusAdvancesDisk, Advances
        <2>3. ASSUME NEW b \in Blobs
              PROVE  status'[b].end \in Nat /\ status'[b].stamp \in Nat
              <3>1. TypeInv'
                    BY NextType
              <3>2. status'[b] \in CheckpointType
                    BY <3>1 DEF TypeInv, TypeOK, CheckpointType
              <3> QED BY <3>2 DEF CheckpointType
        <2>4. ASSUME NEW b \in Blobs
              PROVE  status'[b].end >= disk[b].end /\ status'[b].stamp >= disk[b].stamp
              BY <2>1, <2>2, <2>3, RecordAdvances
        <2> QED BY <2>1, <2>4 DEF StatusAdvancesDisk, Advances
  <1>4. ASSUME pc' \in {"run", "send"} => pc \in {"run", "send"},
               UNCHANGED <<status, disk>>
        PROVE  StatusAdvancesDisk'
        BY <1>4 DEF StatusAdvancesDisk, Advances
  <1>5. CASE SendEvent \/ SkipRecord \/ SendEventFails \/ NothingToWrite \/ MarshalFails
        BY <1>4, <1>5 DEF SendEvent, SkipRecord, SendEventFails, NothingToWrite, MarshalFails,
                          NotReported, Sending, Writing
  <1>6. ASSUME NEW b \in Blobs, LoadBlobRange(b) \/ LoadCutsRecord(b) \/ LoadFallsShort(b)
        PROVE  StatusAdvancesDisk'
        BY <1>4, <1>6 DEF LoadBlobRange, LoadCutsRecord, LoadFallsShort, NextTask
  <1>7. ASSUME pc' \notin {"run", "send"} PROVE StatusAdvancesDisk'
        BY <1>7 DEF StatusAdvancesDisk
  <1>8. ASSUME NEW b \in Blobs, LoadPastEnd(b) \/ GetRangeFails(b) PROVE StatusAdvancesDisk'
        BY <1>7, <1>8 DEF LoadPastEnd, GetRangeFails, Exit
  <1>9. CASE TruncateStatus \/ WriteStatus \/ OpenStatusFails \/ WriteStatusFails \/ Crash
          \/ Restart
        BY <1>7, <1>9 DEF TruncateStatus, WriteStatus, OpenStatusFails, WriteStatusFails,
                          Crash, Restart, Exit
  <1>10. ASSUME NEW b \in Blobs, AppendRecord(b) \/ TouchBlob(b) PROVE StatusAdvancesDisk'
        BY <1>4, <1>10 DEF AppendRecord, TouchBlob
  <1>11. CASE UNCHANGED vars
        BY <1>4, <1>11 DEF vars
  <1> QED BY <1>1, <1>2, <1>3, <1>5, <1>6, <1>8, <1>9, <1>10, <1>11
          DEF Next, Process, Failure, Environment, Load

\* While a job runs it never falls behind the saved checkpoint, so the save at
\* its end moves no blob back, unless the checkpoint could not be read.
THEOREM StatusAhead == ASSUME "read" \notin FaultKinds PROVE Spec => []StatusAdvancesDisk
  <1>1. Init => StatusAdvancesDisk
        BY DEF Init, StatusAdvancesDisk
  <1>2. TypeInv /\ StatusAdvancesDisk /\ [Next]_vars => StatusAdvancesDisk'
        BY NextAdvances
  <1> QED BY <1>1, <1>2, TypeInvariant, PTL DEF Spec

-----------------------------------------------------------------------------
(* Duplicates are paid for by crashes and failed calls.                    *)

LEMMA StampFacts ==
  ASSUME TypeInv, NEW b \in Blobs
  PROVE  /\ stamp[b] \in Nat /\ Len(content[b]) \in Nat
         /\ logFiles[b].stamp \in Nat /\ logFiles[b].length \in Nat /\ logFiles[b].start \in Nat
  <1>1. stamp[b] \in Nat /\ Len(content[b]) \in Nat /\ logFiles[b] \in LogFileType
        BY DEF TypeInv, TypeOK
  <1>2. \A f \in LogFileType : f.stamp \in Nat /\ f.length \in Nat /\ f.start \in Nat
        BY DEF LogFileType
  <1> QED BY <1>1, <1>2

LEMMA InitGrowth == ASSUME Init PROVE Growth
  <1>1. \A b \in Blobs : stamp[b] = 0 /\ Len(content[b]) = 0
        BY DEF Init
  <1> QED BY <1>1 DEF Init, Growth, Lag, NoStatus, NoEntry

\* A step that changes no blob and starts no task.
LEMMA QuietGrowth ==
  ASSUME TypeInv, Growth, UNCHANGED <<content, stamp>>,
         todo' = {} \/ (todo' \subseteq todo /\ UNCHANGED <<logFiles, status>>),
         status' \in {status, disk, NoStatus}, disk' \in {status, disk, NoStatus}
  PROVE  Growth'
  <1>1. \A b \in Blobs : NoStatus[b] = NoEntry
        BY DEF NoStatus
  <1>2. \A b \in Blobs : Lag(NoEntry, b) /\ Lag(status'[b], b) /\ Lag(disk'[b], b)
        BY <1>1 DEF Growth
  <1>3. (\A b \in Blobs : Lag(NoEntry, b) /\ Lag(status[b], b) /\ Lag(disk[b], b))'
        BY <1>2 DEF Lag, NoEntry
  <1>4. (\A b \in todo :
            /\ Lag([stamp |-> logFiles[b].stamp, end |-> Length(b)], b)
            /\ logFiles[b].stamp - status[b].stamp <= Length(b) - status[b].end)'
        BY DEF Growth, Lag, Length
  <1> QED BY <1>3, <1>4 DEF Growth

LEMMA StartJobGrowth ==
  ASSUME TypeInv, Growth, NEW loaded \in {disk, NoStatus}, NEW listed \in SUBSET Blobs,
         StartJob(loaded, listed)
  PROVE  Growth'
  <1>1. /\ status' = loaded /\ todo' \subseteq Blobs
        /\ content' = content /\ stamp' = stamp /\ disk' = disk
        /\ \A b \in todo' : logFiles'[b] = LogFile(b, loaded)
        BY DEF StartJob, azure, Unprocessed, Reached
  <1>2. \A b \in Blobs : Lag(NoEntry, b) /\ Lag(loaded[b], b) /\ Lag(disk[b], b)
        BY DEF Growth, NoStatus
  <1>3. (\A b \in Blobs : Lag(NoEntry, b) /\ Lag(status[b], b) /\ Lag(disk[b], b))'
        BY <1>1, <1>2 DEF Lag, NoEntry
  <1>4. ASSUME NEW b \in todo'
        PROVE  /\ stamp'[b] - logFiles'[b].stamp <= Len(content'[b]) - logFiles'[b].length
               /\ logFiles'[b].stamp - status'[b].stamp <= logFiles'[b].length - status'[b].end
        <2>1. logFiles'[b].stamp = stamp[b] /\ logFiles'[b].length = Len(content[b])
              <3>1. logFiles'[b] = LogFile(b, loaded)
                    BY <1>1
              <3> QED BY <3>1 DEF LogFile
        <2>2. stamp[b] \in Nat /\ Len(content[b]) \in Nat /\ Lag(loaded[b], b)
              BY <1>1, <1>2, StampFacts
        <2>3. stamp[b] - loaded[b].stamp <= Len(content[b]) - loaded[b].end
              BY <2>2 DEF Lag
        <2>4. stamp[b] - stamp[b] = 0 /\ Len(content[b]) - Len(content[b]) = 0
              BY <2>2
        <2> QED BY <1>1, <2>1, <2>3, <2>4
  <1> QED BY <1>3, <1>4 DEF Growth, Lag, Length

\* The arithmetic of AppendRecord, away from records and sequences.
LEMMA AppendArithmetic ==
  ASSUME NEW s \in Nat, NEW l \in Nat, NEW s1, NEW l1,
         (s1 = s /\ l1 = l) \/ (s1 \in {s, s + 1} /\ l1 = l + 1)
  PROVE  s1 - s <= l1 - l /\ s1 \in Nat /\ l1 \in Nat
  OBVIOUS

LEMMA AzureGrowth ==
  ASSUME TypeInv, Growth, MaxTouches = 0, NEW b \in Blobs, AppendRecord(b) \/ TouchBlob(b)
  PROVE  Growth'
  <1>1. UNCHANGED <<status, logFiles, todo, disk>>
        BY DEF AppendRecord, TouchBlob, job
  <1>2. \A c \in Blobs : stamp'[c] - stamp[c] <= Len(content'[c]) - Len(content[c])
                         /\ stamp'[c] \in Nat /\ Len(content'[c]) \in Nat
        <2>1. CASE AppendRecord(b)
              <3>2. /\ Len(content'[b]) = Len(content[b]) + 1
                    /\ \A c \in Blobs : c # b => Len(content'[c]) = Len(content[c])
                    BY <2>1, AppendEffect
              <3>3. \A c \in Blobs : stamp[c] \in Nat /\ Len(content[c]) \in Nat
                    BY StampFacts
              <3>4. stamp' = [stamp EXCEPT ![b] = @ + 1] \/ stamp' = stamp
                    BY <2>1 DEF AppendRecord
              <3>5. \A c \in Blobs : c # b => stamp'[c] = stamp[c]
                    BY <3>4 DEF TypeInv, TypeOK
              <3>6. stamp'[b] \in {stamp[b], stamp[b] + 1}
                    BY <3>4 DEF TypeInv, TypeOK
              <3>7. ASSUME NEW c \in Blobs
                    PROVE  stamp'[c] - stamp[c] <= Len(content'[c]) - Len(content[c])
                           /\ stamp'[c] \in Nat /\ Len(content'[c]) \in Nat
                    <4>1. CASE c = b
                          BY <3>2, <3>3, <3>6, <4>1, AppendArithmetic
                    <4>2. CASE c # b
                          BY <3>2, <3>3, <3>5, <4>2, AppendArithmetic
                    <4> QED BY <4>1, <4>2
              <3> QED BY <3>7
        <2>2. ~TouchBlob(b)
              BY DEF TouchBlob
        <2> QED BY <2>1, <2>2
  <1>3. \A c \in Blobs : /\ stamp[c] \in Nat /\ Len(content[c]) \in Nat
                         /\ status[c].stamp \in Nat /\ status[c].end \in Nat
                         /\ disk[c].stamp \in Nat /\ disk[c].end \in Nat
                         /\ logFiles[c].stamp \in Nat /\ logFiles[c].length \in Nat
        BY StampFacts, CheckpointFacts
  <1>4. ASSUME NEW c \in Blobs, NEW m \in Nat, NEW n \in Nat, stamp[c] - m <= Len(content[c]) - n
        PROVE  stamp'[c] - m <= Len(content'[c]) - n
        <2>1. /\ stamp'[c] - stamp[c] <= Len(content'[c]) - Len(content[c])
              /\ stamp'[c] \in Nat /\ Len(content'[c]) \in Nat
              BY <1>2
        <2>2. stamp[c] \in Nat /\ Len(content[c]) \in Nat
              BY <1>3
        <2> DEFINE s == stamp[c]
        <2> DEFINE l == Len(content[c])
        <2> DEFINE s1 == stamp'[c]
        <2> DEFINE l1 == Len(content'[c])
        <2>3. /\ s - m <= l - n /\ s1 - s <= l1 - l
              /\ s \in Nat /\ l \in Nat /\ s1 \in Nat /\ l1 \in Nat
              BY <1>4, <2>1, <2>2
        <2> HIDE DEF s, l, s1, l1
        <2>4. s1 - m <= l1 - n
              BY <2>3
        <2> QED BY <2>4 DEF s, l, s1, l1
  <1>5. (\A c \in Blobs : Lag(NoEntry, c) /\ Lag(status[c], c) /\ Lag(disk[c], c))'
        BY <1>1, <1>3, <1>4 DEF Growth, Lag, NoEntry
  <1>6. (\A c \in todo :
            /\ Lag([stamp |-> logFiles[c].stamp, end |-> Length(c)], c)
            /\ logFiles[c].stamp - status[c].stamp <= Length(c) - status[c].end)'
        <2>1. \A c \in todo : c \in Blobs
              BY DEF TypeInv, TypeOK
        <2> QED BY <1>1, <1>3, <1>4, <2>1 DEF Growth, Lag, Length
  <1> QED BY <1>5, <1>6 DEF Growth

LEMMA RecordGrowth ==
  ASSUME TypeInv, Growth, pc = "send", RecordResult, UNCHANGED <<content, stamp, logFiles, disk>>
  PROVE  Growth'
  <1> DEFINE new == [stamp |-> logFiles[cur].stamp, end |-> Length(cur),
                     lastRecord |-> content[cur][Entry(PageSize)].time]
  <1>1. cur \in todo /\ todo' \subseteq todo /\ \A b \in Blobs : status'[b] = IF b = cur THEN new ELSE status[b]
        BY PageFacts DEF RecordResult, Checkpoint, TypeInv, TypeOK
  <1>2. Lag(new, cur)
        BY <1>1 DEF Growth, Lag
  <1>3. \A b \in Blobs : Lag(NoEntry, b) /\ Lag(status'[b], b) /\ Lag(disk[b], b)
        BY <1>1, <1>2 DEF Growth
  <1>4. (\A b \in Blobs : Lag(NoEntry, b) /\ Lag(status[b], b) /\ Lag(disk[b], b))'
        BY <1>3 DEF Lag, NoEntry
  <1>5. \A b \in todo' : b \in todo /\ status'[b] = status[b]
        BY <1>1 DEF RecordResult, Checkpoint, TypeInv, TypeOK
  <1>6. (\A b \in todo :
            /\ Lag([stamp |-> logFiles[b].stamp, end |-> Length(b)], b)
            /\ logFiles[b].stamp - status[b].stamp <= Length(b) - status[b].end)'
        BY <1>5 DEF Growth, Lag, Length
  <1> QED BY <1>4, <1>6 DEF Growth

LEMMA NextGrowth ==
  ASSUME MaxTouches = 0, TypeInv, Growth, [Next]_vars
  PROVE  Growth'
  <1> USE DEF azure, sinks, job
  <1>1. CASE Poll \/ ReadStatusFails \/ ListBlobsFails
        BY <1>1, StartJobGrowth, ListedType DEF Poll, ReadStatusFails, ListBlobsFails
  <1>2. CASE FinishSyslog \/ WriteFile \/ WriteFileFails
        BY <1>2, RecordGrowth DEF FinishSyslog, WriteFile, WriteFileFails, Sending, Writing
  <1>3. CASE SendEvent \/ SkipRecord \/ SendEventFails \/ NothingToWrite \/ MarshalFails
        BY <1>3, QuietGrowth DEF SendEvent, SkipRecord, SendEventFails, NothingToWrite,
                                 MarshalFails, NotReported
  <1>4. ASSUME NEW b \in Blobs, Load(b) \/ GetRangeFails(b) \/ LoadFallsShort(b) PROVE Growth'
        BY <1>4, QuietGrowth DEF Load, LoadFallsShort, LoadBlobRange, LoadCutsRecord,
                                 LoadPastEnd, GetRangeFails, Exit
  <1>5. CASE TruncateStatus \/ WriteStatus \/ OpenStatusFails \/ WriteStatusFails
        <2>1. todo' = {}
              BY <1>5 DEF TruncateStatus, WriteStatus, OpenStatusFails, WriteStatusFails,
                          TypeInv, Tasks
        <2> QED BY <1>5, <2>1, QuietGrowth DEF TruncateStatus, WriteStatus, OpenStatusFails,
                                               WriteStatusFails
  <1>6. CASE Crash \/ Restart \/ UNCHANGED vars
        BY <1>6, QuietGrowth DEF Crash, Restart, Exit, vars
  <1> QED BY <1>1, <1>2, <1>3, <1>4, <1>5, <1>6, AzureGrowth DEF Next, Process, Failure,
                                                                 Environment

\* Where a blob's task is open there is something to read, so LoadPastEnd,
\* the exit that no bound counts, cannot happen.
LEMMA NeverPastEnd ==
  ASSUME TypeInv, Growth, NEW b \in Blobs
  PROVE  ~LoadPastEnd(b)
  <1> SUFFICES ASSUME b \in todo, Start(b) >= Len(content[b]) PROVE FALSE
      BY DEF LoadPastEnd, NextTask
  <1>1. /\ Start(b) = status[b].end /\ logFiles[b].stamp > status[b].stamp
        /\ Length(b) <= Len(content[b])
        BY DEF TypeInv, Tasks
  <1>2. logFiles[b].stamp - status[b].stamp <= Length(b) - status[b].end
        BY DEF Growth
  <1> DEFINE l == Len(content[b])
  <1>3. /\ l \in Nat /\ Length(b) \in Nat /\ status[b].end \in Nat /\ Length(b) <= l
        /\ status[b].stamp \in Nat /\ logFiles[b].stamp \in Nat /\ status[b].end >= l
        BY <1>1, StampFacts, CheckpointFacts DEF Length
  <1> HIDE DEF l
  <1> QED BY <1>1, <1>2, <1>3

LEMMA CountFacts ==
  ASSUME TypeInv
  PROVE  /\ crashes \in Nat /\ faults \in Nat
         /\ \A b \in Blobs, i \in 1..MaxRecords : received[b][i] \in Nat
  BY Bounds DEF TypeInv, TypeOK

\* A step that delivers nothing keeps Redelivery if it makes no record pending,
\* or if it is itself a crash or a failure.
LEMMA QuietRedelivery ==
  ASSUME TypeInv, Redelivery, received' = received,
         \/ /\ crashes' = crashes /\ faults' \in {faults, faults + 1}
            /\ \A b \in Blobs, i \in 1..MaxRecords : Pending(b, i)' => Pending(b, i)
         \/ crashes' = crashes /\ faults' = faults + 1
         \/ crashes' = crashes + 1 /\ faults' = faults
  PROVE  Redelivery'
  <1>1. /\ crashes \in Nat /\ faults \in Nat
        /\ \A b \in Blobs, i \in 1..MaxRecords : received[b][i] \in Nat
        BY CountFacts
  <1>2. \A b \in Blobs, i \in 1..MaxRecords :
           /\ received[b][i] <= 1 + crashes + faults
           /\ Pending(b, i) => received[b][i] <= crashes + faults
        BY DEF Redelivery, DuplicatesBounded
  <1>3. crashes' + faults' \in Nat /\ crashes' + faults' >= crashes + faults
        BY <1>1
  <1>4. ASSUME NEW b \in Blobs, NEW i \in 1..MaxRecords
        PROVE  /\ received'[b][i] <= 1 + crashes' + faults'
               /\ Pending(b, i)' => received'[b][i] <= crashes' + faults'
        <2>1. CASE /\ crashes' = crashes /\ faults' \in {faults, faults + 1}
                   /\ \A c \in Blobs, j \in 1..MaxRecords : Pending(c, j)' => Pending(c, j)
              BY <1>1, <1>2, <2>1
        <2>2. CASE \/ crashes' = crashes /\ faults' = faults + 1
                   \/ crashes' = crashes + 1 /\ faults' = faults
              BY <1>1, <1>2, <2>2
        <2> QED BY <2>1, <2>2
  <1> QED BY <1>4 DEF Redelivery, DuplicatesBounded

LEMMA SendRedelivery ==
  ASSUME PerIteration, TypeInv, Redelivery, SendEvent
  PROVE  Redelivery'
  <1> DEFINE n == Start(cur) + pos
  <1>1. /\ pc = "send" /\ pc' = "send" /\ pos \in Entries /\ pos' = pos + 1
        /\ UNCHANGED <<status, logFiles, cur, disk, crashes, faults>>
        /\ received' = [received EXCEPT ![cur][Entry(pos)] = Bumped(@)]
        BY DEF SendEvent, Sending
  <1>2. cur \in Blobs /\ Start(cur) \in Nat /\ pos \in Nat /\ Entry(pos) = n /\ n \in 1..MaxRecords
        BY <1>1, PageFacts, Bounds DEF Entry
  <1>3. Pending(cur, n) /\ \A b \in Blobs, i \in 1..MaxRecords :
           Pending(b, i)' => Pending(b, i) /\ ~(b = cur /\ i = n)
        BY <1>1, <1>2 DEF Pending, Start
  <1>4. received \in [Blobs -> [1..MaxRecords -> 0..MaxCount]]
        BY DEF TypeInv, TypeOK
  <1>5. \A m \in Nat : Bumped(m) <= m + 1
        BY DEF Bumped
  <1>6. ASSUME NEW b \in Blobs, NEW i \in 1..MaxRecords
        PROVE  received'[b][i] = IF b = cur /\ i = n THEN Bumped(received[b][i]) ELSE received[b][i]
        BY <1>1, <1>2, <1>4
  <1>7. /\ crashes \in Nat /\ faults \in Nat
        /\ \A b \in Blobs, i \in 1..MaxRecords : received[b][i] \in Nat
        BY CountFacts
  <1>8. \A m \in Nat : Bumped(m) \in Nat
        BY Bounds DEF Bumped
  <1>9. ASSUME NEW b \in Blobs, NEW i \in 1..MaxRecords
        PROVE  /\ received'[b][i] <= 1 + crashes + faults
               /\ Pending(b, i)' => received'[b][i] <= crashes + faults
        <2>1. CASE b = cur /\ i = n
              <3>1. received[b][i] <= crashes + faults
                    BY <1>2, <1>3, <2>1 DEF Redelivery
              <3> QED BY <1>3, <1>5, <1>6, <1>7, <1>8, <2>1, <3>1
        <2>2. CASE ~(b = cur /\ i = n)
              BY <1>3, <1>6, <2>2 DEF Redelivery, DuplicatesBounded
        <2> QED BY <2>1, <2>2
  <1> QED BY <1>1, <1>9 DEF Redelivery, DuplicatesBounded

LEMMA NextRedelivery ==
  ASSUME Destination = "syslog", PerIteration, TypeInv, Growth, Redelivery, [Next]_vars
  PROVE  Redelivery'
  <1> USE DEF azure, sinks, job
  <1>1. CASE SendEvent
        BY <1>1, SendRedelivery
  <1>2. CASE Poll \/ ListBlobsFails
        BY <1>2, QuietRedelivery DEF Poll, ListBlobsFails, Fault, StartJob, Pending
  <1>3. CASE ReadStatusFails \/ OpenStatusFails \/ WriteStatusFails
        BY <1>3, QuietRedelivery DEF ReadStatusFails, StartJob, OpenStatusFails,
                                     WriteStatusFails, Fault
  <1>4. CASE Crash
        BY <1>4, QuietRedelivery DEF Crash
  <1>5. ASSUME NEW b \in Blobs, GetRangeFails(b) PROVE Redelivery'
        BY <1>5, QuietRedelivery DEF GetRangeFails, Fault
  <1>6. ASSUME NEW b \in Blobs, LoadCutsRecord(b) PROVE Redelivery'
        BY <1>6, QuietRedelivery DEF LoadCutsRecord, NextTask, Pending
  <1>7. ASSUME NEW b \in Blobs, LoadBlobRange(b) PROVE Redelivery'
        <2>1. /\ pc = "run" /\ pc' = "send" /\ cur' = b /\ pos' = 1 /\ b \in todo
              /\ UNCHANGED <<status, logFiles, received, crashes, faults>>
              BY <1>7 DEF LoadBlobRange, NextTask
        <2>2. logFiles[b].start = status[b].end /\ status[b].end \in Nat
              BY <2>1, CheckpointFacts DEF TypeInv, Tasks, Start
        <2>3. \A c \in Blobs, i \in 1..MaxRecords : Pending(c, i)' => Pending(c, i)
              BY <2>1, <2>2 DEF Pending, Start
        <2> QED BY <2>1, <2>3, QuietRedelivery
  <1>8. CASE SkipRecord \/ SendEventFails
        <2>1. /\ pc = "send" /\ pos' = pos + 1 /\ received' = received /\ crashes' = crashes
              /\ faults' \in {faults, faults + 1}
              /\ UNCHANGED <<pc, status, logFiles, cur>>
              BY <1>8 DEF SkipRecord, SendEventFails, Fault, Sending
        <2>2. cur \in Blobs /\ Start(cur) \in Nat /\ pos \in Nat
              BY <2>1, PageFacts
        <2>3. \A c \in Blobs, i \in 1..MaxRecords : Pending(c, i)' => Pending(c, i)
              BY <2>1, <2>2 DEF Pending, Start
        <2> QED BY <2>1, <2>3, QuietRedelivery
  <1>9. CASE FinishSyslog
        <2>1. /\ pc = "send" /\ pc' = "run" /\ pos > PageSize /\ RecordResult
              /\ UNCHANGED <<received, crashes, faults>>
              BY <1>9 DEF FinishSyslog, Sending, RecordResult, Checkpoint
        <2>2. cur \in Blobs /\ Start(cur) + pos = Length(cur) + 1 /\ Length(cur) \in Nat
              BY <2>1, PageFacts DEF PageSize
        <2>3. status'[cur].end = Length(cur) /\ \A c \in Blobs : c # cur => status'[c] = status[c]
              BY <2>1, <2>2 DEF RecordResult, Checkpoint, TypeInv, TypeOK
        <2>4. \A c \in Blobs, i \in 1..MaxRecords : Pending(c, i)' => Pending(c, i)
              BY <2>1, <2>2, <2>3 DEF Pending
        <2> QED BY <2>1, <2>4, QuietRedelivery
  <1>10. ~(WriteFile \/ WriteFileFails \/ NothingToWrite \/ MarshalFails)
        BY DEF WriteFile, WriteFileFails, NothingToWrite, MarshalFails, NotReported, Writing
  <1>11. CASE TruncateStatus \/ WriteStatus \/ Restart
        BY <1>11, QuietRedelivery DEF TruncateStatus, WriteStatus, Restart, Pending
  <1>12. ASSUME NEW b \in Blobs, AppendRecord(b) \/ TouchBlob(b) PROVE Redelivery'
        BY <1>12, QuietRedelivery DEF AppendRecord, TouchBlob, Pending, Start
  <1>13. CASE UNCHANGED vars
        BY <1>13, QuietRedelivery DEF vars, Pending, Start
  <1>14. ASSUME NEW b \in Blobs, LoadFallsShort(b) PROVE Redelivery'
        BY <1>14, QuietRedelivery DEF LoadFallsShort, NextTask, Fault, Pending
  <1> QED BY <1>1, <1>2, <1>3, <1>4, <1>5, <1>6, <1>7, <1>8, <1>9, <1>10, <1>11, <1>12, <1>13,
             <1>14, NeverPastEnd DEF Next, Process, Failure, Environment, Load

LEMMA InitRedelivery == ASSUME Init PROVE Redelivery
  BY DEF Init, Redelivery, DuplicatesBounded

\* While nobody touches a blob, a build with fresh range variables sends a record to
\* the syslog server once, and once more for each crash and each failed call at
\* most: no interleaving of Azure with the job, and no
\* sequence of polls, delivers a record twice for any other reason.
THEOREM Duplicates ==
  ASSUME Destination = "syslog", PerIteration, MaxTouches = 0
  PROVE  Spec => []DuplicatesBounded
  <1>1. Init => Growth /\ Redelivery
        BY InitGrowth, InitRedelivery
  <1>2. TypeInv /\ Growth /\ Redelivery /\ [Next]_vars => Growth' /\ Redelivery'
        BY NextGrowth, NextRedelivery
  <1>3. Redelivery => DuplicatesBounded
        BY DEF Redelivery
  <1> QED BY <1>1, <1>2, <1>3, TypeInvariant, PTL DEF Spec

-----------------------------------------------------------------------------
(* BlobIngest implements AtLeastOnce.                                      *)

LEMMA InitAbstract == Init => Abstract!Init
  <1> SUFFICES ASSUME Init PROVE Abstract!Init
      OBVIOUS
  <1>1. \A b \in Blobs : [i \in 1..Len(content[b]) |-> content[b][i].flows] = <<>>
        BY DEF Init
  <1>2. \A b \in Blobs : disk[b].end = 0
        BY DEF Init, NoStatus, NoEntry
  <1>3. Arrivals = [b \in Blobs |-> [i \in 1..MaxRecords |-> 0]]
        <2>1. ASSUME NEW b \in Blobs, NEW i \in 1..MaxRecords PROVE Stored[b][i] = 0
              <3>1. Cardinality(Copies(b, i)) = 0
                    BY FS_EmptySet DEF Init, Copies
              <3> QED BY <3>1, Bounds DEF Stored
        <2>2. \A b \in Blobs : Stored[b] = [i \in 1..MaxRecords |-> Stored[b][i]]
              BY DEF Stored
        <2>3. Stored = [b \in Blobs |-> Stored[b]]
              BY DEF Stored
        <2>4. Stored = [b \in Blobs |-> [i \in 1..MaxRecords |-> 0]]
              BY <2>1, <2>2, <2>3
        <2> QED BY <2>4 DEF Arrivals, Init
  <1> QED BY <1>1, <1>2, <1>3 DEF Abstract!Init, Log, Committed

LEMMA EventsArrive ==
  ASSUME NsgToSyslog
  PROVE  Arrivals = received /\ Arrivals' = received'
  BY DEF Arrivals, NsgToSyslog

LEMMA LogFacts ==
  ASSUME TypeInv
  PROVE  \A b \in Blobs : /\ Log[b] \in Seq(BOOLEAN)
                          /\ Len(Log[b]) = Len(content[b]) /\ Len(content[b]) \in Nat
                          /\ \A i \in 1..Len(content[b]) : Log[b][i] = content[b][i].flows
  <1> SUFFICES ASSUME NEW b \in Blobs
               PROVE  /\ Log[b] \in Seq(BOOLEAN)
                      /\ Len(Log[b]) = Len(content[b]) /\ Len(content[b]) \in Nat
                      /\ \A i \in 1..Len(content[b]) : Log[b][i] = content[b][i].flows
      OBVIOUS
  <1> DEFINE R == Records
  <1>1. content[b] \in Seq(R)
        BY DEF TypeInv, TypeOK
  <1>2. \A r \in R : r.flows \in BOOLEAN
        BY RecordsFacts
  <1> HIDE DEF R
  <1>3. Len(content[b]) \in Nat /\ \A i \in 1..Len(content[b]) : content[b][i].flows \in BOOLEAN
        BY <1>1, <1>2
  <1>4. Log[b] = [i \in 1..Len(content[b]) |-> content[b][i].flows]
        BY DEF Log
  <1> QED BY <1>3, <1>4

LEMMA AppendLog ==
  ASSUME TypeInv, NEW b \in Blobs, AppendRecord(b)
  PROVE  /\ \E f \in BOOLEAN : Log' = [Log EXCEPT ![b] = Append(@, f)]
         /\ Len(Log[b]) < MaxRecords
         /\ UNCHANGED <<received, files, Committed>>
  <1> DEFINE R == Records
  <1>1. PICK r \in R : content' = [content EXCEPT ![b] = Append(@, r)]
        BY DEF AppendRecord
  <1> DEFINE f == r.flows
  <1>2. content \in [Blobs -> Seq(R)] /\ r \in R /\ f \in BOOLEAN
        BY RecordsFacts DEF TypeInv, TypeOK
  <1> HIDE DEF R
  <1>3. content[b] \in Seq(R) /\ content'[b] = Append(content[b], r)
        BY <1>1, <1>2
  <1>4. /\ Len(content[b]) \in Nat /\ Len(content'[b]) = Len(content[b]) + 1
        /\ \A i \in 1..Len(content[b]) : content'[b][i] = content[b][i]
        /\ content'[b][Len(content[b]) + 1] = r
        BY <1>2, <1>3, AppendFacts
  <1> DEFINE old == [i \in 1..Len(content[b]) |-> content[b][i].flows]
             new == [i \in 1..Len(content'[b]) |-> content'[b][i].flows]
  <1>5. new = Append(old, f)
        <2>1. old \in Seq(BOOLEAN) /\ Len(old) = Len(content[b])
              BY LogFacts DEF Log
        <2>2. /\ Append(old, f) = [i \in 1..(Len(old) + 1) |-> Append(old, f)[i]]
              /\ \A i \in 1..Len(old) : Append(old, f)[i] = old[i]
              /\ Append(old, f)[Len(old) + 1] = f
              BY <2>1
        <2>3. \A i \in 1..(Len(content[b]) + 1) : new[i] = Append(old, f)[i]
              BY <1>2, <1>4, <2>1, <2>2
        <2> QED BY <1>4, <2>1, <2>2, <2>3
  <1> HIDE DEF old, new
  <1>6. Log' = [Log EXCEPT ![b] = Append(@, f)]
        <2>1. Log[b] = old /\ Log'[b] = new
              BY DEF Log, old, new
        <2>2. \A c \in Blobs : c # b => content'[c] = content[c]
              BY <1>1, <1>2
        <2>3. \A c \in Blobs : c # b => Log'[c] = Log[c]
              BY <2>2 DEF Log
        <2>4. Log = [c \in Blobs |-> Log[c]] /\ Log' = [c \in Blobs |-> Log'[c]]
              BY DEF Log
        <2> QED BY <1>5, <2>1, <2>3, <2>4
  <1>7. Len(Log[b]) < MaxRecords
        BY LogFacts DEF AppendRecord
  <1>8. UNCHANGED <<received, files, Committed>>
        BY DEF AppendRecord, sinks, Committed
  <1> QED BY <1>2, <1>6, <1>7, <1>8

LEMMA SendDelivers ==
  ASSUME NsgToSyslog, TypeInv, Coverage, StatusAdvancesDisk, SendEvent
  PROVE  \E b \in Blobs : \E sent \in SUBSET (1..MaxRecords) : Abstract!Deliver(b, sent)
  <1> DEFINE n == Start(cur) + pos
  <1>1. /\ pc = "send" /\ pos \in Entries /\ Emits(pos)
        /\ UNCHANGED <<content, disk>>
        /\ received' = [received EXCEPT ![cur][Entry(pos)] = Bumped(@)]
        BY DEF SendEvent, Sending, azure
  <1>2. /\ cur \in Blobs /\ Entry(pos) = n /\ n \in 1..MaxRecords /\ n \in 1..Len(content[cur])
        /\ pos >= 1 /\ pos \in Nat
        BY <1>1, PageFacts, EmitsWanted, Bounds
  <1>3. Start(cur) = status[cur].end /\ status[cur].end >= disk[cur].end
        BY <1>1, <1>2, PageFacts DEF TypeInv, Tasks, StatusAdvancesDisk, Advances
  <1>4. n > Committed[cur]
        BY <1>2, <1>3, CheckpointFacts DEF Committed
  <1>5. Log[cur][n]
        BY <1>1, <1>2, LogFacts DEF Emits
  <1>6. n \in 1..Len(Log[cur])
        BY <1>2, LogFacts
  <1> DEFINE row == received[cur]
             now == [i \in 1..MaxRecords |->
                       IF i \in {n} THEN Abstract!Counted(row[i] + 1) ELSE row[i]]
  <1>7. received' = [received EXCEPT ![cur] = now]
        <2>1. row \in [1..MaxRecords -> 0..MaxCount]
              BY <1>2 DEF TypeInv, TypeOK
        <2>2. received' = [received EXCEPT ![cur] = [row EXCEPT ![n] = Bumped(row[n])]]
              BY <1>1, <1>2, <2>1 DEF TypeInv, TypeOK
        <2> HIDE DEF n, row
        <2>3. Bumped(row[n]) = Abstract!Counted(row[n] + 1)
              <3>1. row[n] \in 0..MaxCount
                    BY <1>2, <2>1
              <3> QED BY <3>1, Bounds DEF Bumped, Abstract!Counted
        <2>4. [row EXCEPT ![n] = Bumped(row[n])] = now
              BY <1>2, <2>1, <2>3
        <2> QED BY <2>2, <2>4
  <1>8. UNCHANGED <<Log, Committed>>
        BY <1>1 DEF Log, Committed
  <1>9. Abstract!Deliver(cur, {n})
        BY <1>4, <1>5, <1>6, <1>7, <1>8, EventsArrive DEF Abstract!Deliver
  <1>10. {n} \in SUBSET (1..MaxRecords)
        BY <1>2
  <1> QED BY <1>2, <1>9, <1>10

LEMMA WriteCommits ==
  ASSUME NsgToSyslog, TypeInv, Coverage, WriteStatus
  PROVE  Abstract!Commit
  <1> DEFINE c == [b \in Blobs |-> status[b].end]
  <1>1. c \in [Blobs -> 0..MaxRecords]
        <2>1. \A b \in Blobs : status[b].end \in 0..MaxRecords
              BY CheckpointFacts DEF CheckpointType
        <2> QED BY <2>1
  <1>2. disk' = status /\ UNCHANGED <<content, received>>
        BY DEF WriteStatus, azure, sinks
  <1>3. Committed' = c
        BY <1>2 DEF Committed
  <1>4. ASSUME NEW b \in Blobs PROVE Abstract!Covered(b, c[b])
        <2>1. status[b].end \in Nat /\ status[b].end <= Len(content[b]) /\ Len(content[b]) \in Nat
              BY CheckpointFacts, LogFacts DEF Coverage, Sound
        <2>2. \A i \in 1..status[b].end : i \in 1..Len(content[b])
              BY <2>1
        <2>3. \A i \in 1..status[b].end : Log[b][i] => received[b][i] > 0
              BY <2>2, LogFacts DEF Coverage, Covered, Wanted, Delivered, NsgToSyslog
        <2>4. status[b].end <= Len(Log[b])
              BY <2>1, LogFacts
        <2> QED BY <2>3, <2>4, EventsArrive DEF Abstract!Covered, Log
  <1>5. UNCHANGED <<Log, received>>
        BY <1>2 DEF Log
  <1> HIDE DEF c
  <1> QED BY <1>1, <1>3, <1>4, <1>5, EventsArrive DEF Abstract!Commit, Log, Committed

LEMMA StepAbstract ==
  ASSUME NsgToSyslog, TypeInv, Coverage, StatusAdvancesDisk, [Next]_vars
  PROVE  [Abstract!Next]_(Abstract!vars)
  <1> USE DEF azure, sinks, job
  <1>1. ASSUME UNCHANGED <<content, received, disk>> PROVE UNCHANGED Abstract!vars
        BY <1>1, EventsArrive DEF Abstract!vars, Log, Committed
  <1>2. ASSUME NEW b \in Blobs, AppendRecord(b) PROVE Abstract!Next
        BY <1>2, AppendLog, EventsArrive DEF Abstract!Next, Abstract!Write
  <1>3. CASE SendEvent
        BY <1>3, SendDelivers DEF Abstract!Next
  <1>4. CASE WriteStatus
        BY <1>4, WriteCommits DEF Abstract!Next
  <1>5. CASE TruncateStatus
        <2>1. disk' = NoStatus /\ UNCHANGED <<content, received>>
              BY <1>5 DEF TruncateStatus
        <2>2. Abstract!Forget
              BY <2>1, EventsArrive DEF Abstract!Forget, NoStatus, NoEntry, Log, Committed
        <2> QED BY <2>2 DEF Abstract!Next
  <1>6. CASE Poll \/ ListBlobsFails \/ ReadStatusFails
        BY <1>1, <1>6 DEF Poll, ListBlobsFails, ReadStatusFails, StartJob
  <1>7. ASSUME NEW b \in Blobs, Load(b) \/ GetRangeFails(b) \/ LoadFallsShort(b) \/ TouchBlob(b)
        PROVE  UNCHANGED Abstract!vars
        BY <1>1, <1>7 DEF Load, LoadFallsShort, LoadBlobRange, LoadCutsRecord, LoadPastEnd,
                          GetRangeFails, TouchBlob
  <1>8. CASE SkipRecord \/ SendEventFails \/ FinishSyslog \/ WriteFileFails
          \/ NothingToWrite \/ MarshalFails
        BY <1>1, <1>8 DEF SkipRecord, SendEventFails, FinishSyslog, WriteFileFails,
                          NothingToWrite, MarshalFails, NotReported
  <1>9. CASE OpenStatusFails \/ WriteStatusFails \/ Crash \/ Restart \/ WriteFile
        BY <1>1, <1>9 DEF OpenStatusFails, WriteStatusFails, Crash, Restart, WriteFile
  <1>10. CASE UNCHANGED vars
        BY <1>1, <1>10 DEF vars
  <1> QED BY <1>2, <1>3, <1>4, <1>5, <1>6, <1>7, <1>8, <1>9, <1>10
          DEF Next, Process, Failure, Environment

\* NSG logs sent to syslog, with a checkpoint that can be read: the process
\* delivers at least once, commits only what it delivered, and delivers nothing
\* again that is committed.
THEOREM Implements ==
  ASSUME NsgToSyslog, "read" \notin FaultKinds
  PROVE  Spec => AtLeastOnceDelivery
  <1>1. TypeInv /\ Coverage /\ StatusAdvancesDisk /\ [Next]_vars => [Abstract!Next]_(Abstract!vars)
        BY StepAbstract
  <1> QED BY <1>1, InitAbstract, TypeInvariant, CoverageInvariant, StatusAhead, PTL
          DEF Spec, AtLeastOnceDelivery, Abstract!Spec
=============================================================================
