----------------------------- MODULE BlobIngest -----------------------------
(***************************************************************************)
(* One nsg-parser process that polls an Azure container, reads what was    *)
(* appended to each log blob since the last run, hands the events to its   *)
(* destination and saves a checkpoint (the ProcessStatus file).            *)
(*                                                                         *)
(* The environment is Azure, which appends records to blobs between any    *)
(* two steps of the process, and whatever stops the process: a crash, the  *)
(* service manager, or the program's own Fatalf.  parser/client.go,        *)
(* parser/job.go, the *_log_file.go files, parser/file_client.go and the   *)
(* syslog client of parser/cef.go are modelled; the goroutines inside one  *)
(* job run are in JobRun, which justifies handling one blob at a time here.*)
(*                                                                         *)
(* Abstractions.  A byte offset of a blob is the number of records that    *)
(* end before it.  A record carries its time, whether it yields events, and *)
(* of the times of its events what a file's name and json.Marshal depend   *)
(* on; the events of one record are sent as one.  LastModified is compared *)
(* only between versions of one blob, so it is a counter of each blob that *)
(* moves when a modification falls in a later second.  A checkpoint that   *)
(* is missing, torn or has no entry for a blob is read the same way by     *)
(* LoadUnprocessedLogFiles as an all-zero entry, and is written so.        *)
(***************************************************************************)
EXTENDS Integers, Sequences, FiniteSets

CONSTANTS
    NBlobs,        \* blobs are 1..NBlobs in the order of the listing
    MaxRecords,    \* bound: records of one blob
    MaxTime,       \* bound: record times
    MaxTouches,    \* bound: modifications of a blob that append nothing
    MaxCrashes,    \* bound: crashes
    MaxFaults,     \* bound: failed calls
    MaxCount,      \* bound: `received` counts no further than this
    Destination,   \* "syslog" or "file": the parser client of the job
    PerIteration,  \* the build's range variable is fresh in each iteration
    TimeFirst,     \* "time" is the first key of a record in the blob
    OrderedTimes,  \* a record is later than those before it in its blob
    SameSecond,    \* a blob may be modified twice in one second
    FaultKinds,    \* the calls that may fail
    BeginHour,     \* begin_time of the configuration
    LogHour,       \* hour in each blob's name
    LogName,       \* what a destination file's name keeps of the blob's name
    Misnamed,      \* blobs whose name the resource regexp does not match
    ListLimit,     \* blobs in one page of a listing
    Events         \* what the events of a record of a time may be

Blobs == 1..NBlobs

\* Of the events of a record: the time in seconds of the first and of the last,
\* which is a tuple's and not the record's, and whether json can write them all.
EventTimes == [first : Int, last : Int, json : BOOLEAN]

ASSUME BlobIngestAssumption ==
    /\ NBlobs \in Nat
    /\ MaxRecords \in Nat /\ MaxTime \in Nat /\ MaxTouches \in Nat
    /\ MaxCrashes \in Nat /\ MaxFaults \in Nat
    /\ MaxCount \in Nat \ {0}
    /\ Destination \in {"syslog", "file"}
    /\ PerIteration \in BOOLEAN /\ TimeFirst \in BOOLEAN
    /\ OrderedTimes \in BOOLEAN /\ SameSecond \in BOOLEAN
    /\ FaultKinds \subseteq {"read", "list", "get", "send", "write", "save"}
    /\ BeginHour \in Nat /\ LogHour \in [Blobs -> Nat]
    /\ DOMAIN LogName = Blobs
    /\ Misnamed \subseteq Blobs
    /\ ListLimit \in Nat
    /\ DOMAIN Events = 1..MaxTime
    /\ \A t \in 1..MaxTime : Events[t] \subseteq EventTimes

VARIABLES
    content,   \* Azure: the records of each blob
    stamp,     \* Azure: LastModified of each blob
    pc,        \* where the process is: down, idle, run, send, saving
    status,    \* job.ProcessStatus
    logFiles,  \* job.LogFiles, by blob
    todo,      \* the blobs whose task has not finished
    cur,       \* the blob being processed
    pos,       \* the next entry of its page
    disk,      \* the status file
    received,  \* how often each record reached the syslog server
    files,     \* the destination files: name and events
    crashes, faults

azure == <<content, stamp>>
job   == <<pc, status, logFiles, todo, cur, pos>>
sinks == <<received, files>>
vars  == <<content, stamp, pc, status, logFiles, todo, cur, pos, disk,
           received, files, crashes, faults>>

NoBlob     == 0
NoEntry    == [stamp |-> 0, end |-> 0, lastRecord |-> 0]
NoStatus   == [b \in Blobs |-> NoEntry]
NoLogFile  == [stamp |-> 0, length |-> 0, start |-> 0, lastRecord |-> 0]
NoLogFiles == [b \in Blobs |-> NoLogFile]

Init ==
    /\ content = [b \in Blobs |-> <<>>] /\ stamp = [b \in Blobs |-> 0]
    /\ pc = "idle" /\ status = NoStatus
    /\ logFiles = NoLogFiles /\ todo = {} /\ cur = NoBlob /\ pos = 0
    /\ disk = NoStatus
    /\ received = [b \in Blobs |-> [i \in 1..MaxRecords |-> 0]] /\ files = {}
    /\ crashes = 0 /\ faults = 0

-----------------------------------------------------------------------------
(* Azure *)

NoEvents == [first |-> 0, last |-> 0, json |-> TRUE]

Records ==
    [time : 1..MaxTime, flows : {FALSE}, events : {NoEvents}]
      \cup UNION {[time : {t}, flows : {TRUE}, events : Events[t]] : t \in 1..MaxTime}

AppendRecord(b) ==
    /\ Len(content[b]) < MaxRecords
    /\ \E r \in Records :
          /\ OrderedTimes =>
                \A i \in 1..Len(content[b]) : content[b][i].time < r.time
          /\ content' = [content EXCEPT ![b] = Append(@, r)]
    /\ \/ stamp' = [stamp EXCEPT ![b] = @ + 1]
       \/ SameSecond /\ stamp[b] > 0 /\ UNCHANGED stamp
    /\ UNCHANGED <<job, disk, sinks, crashes, faults>>

\* The blob's properties or metadata are set, or it is written anew unchanged.
TouchBlob(b) ==
    /\ MaxTouches > 0 /\ content[b] # <<>>
    /\ stamp[b] < Len(content[b]) + MaxTouches
    /\ stamp' = [stamp EXCEPT ![b] = @ + 1]
    /\ UNCHANGED <<content, job, disk, sinks, crashes, faults>>

-----------------------------------------------------------------------------
(* A poll: ProcessBlobsAfter makes a job, reads the checkpoint and lists   *)
(* the container.                                                          *)

Fault(kind) ==
    /\ kind \in FaultKinds /\ faults < MaxFaults
    /\ faults' = faults + 1

Existing == {b \in Blobs : content[b] # <<>>}

\* GetBlobsByPrefix keeps the first page of the listing.
Listed ==
    {b \in Existing : Cardinality({c \in Existing : c < b}) < ListLimit}

\* The loop over the listing returns at the first misnamed blob.
Reached(listed) ==
    {b \in listed : \A c \in listed \cap Misnamed : b < c}

Unprocessed(listed, loaded) ==
    {b \in Reached(listed) : /\ LogHour[b] > BeginHour
                             /\ stamp[b] > loaded[b].stamp}

\* (Mutant: the blob's entry is found, but its range and time not restored.)
FreshLogFile(b, loaded) ==
    [stamp |-> stamp[b], length |-> Len(content[b]), start |-> 0,
     lastRecord |-> 0]

LogFile(b, loaded) ==
    [stamp |-> stamp[b], length |-> Len(content[b]),
     start |-> loaded[b].end, lastRecord |-> loaded[b].lastRecord]

StartJob(loaded, listed) ==
    /\ pc = "idle" /\ pc' = "run"
    /\ status' = loaded
    /\ todo' = Unprocessed(listed, loaded)
    /\ logFiles' = [b \in Blobs |-> IF b \in Unprocessed(listed, loaded)
                                      THEN LogFile(b, loaded) ELSE NoLogFile]
    /\ UNCHANGED <<azure, cur, pos, disk, sinks, crashes>>

Poll == StartJob(disk, Listed) /\ UNCHANGED faults

\* ReadProcessStatus takes every read error for a missing file.
ReadStatusFails == Fault("read") /\ StartJob(NoStatus, Listed)

\* (Mutant: the error path also drops the status that was loaded.)
ListBlobsForgets == Fault("list") /\ StartJob(NoStatus, {})

\* RunJob drops the error of LoadUnprocessedLogFiles and runs an empty job.
ListBlobsFails == Fault("list") /\ StartJob(disk, {})

-----------------------------------------------------------------------------
(* The process ends: its memory is gone, the disk stays.                   *)

Exit ==
    /\ pc' = "down"
    /\ status' = NoStatus /\ logFiles' = NoLogFiles /\ todo' = {}
    /\ cur' = NoBlob /\ pos' = 0

Crash ==
    /\ pc # "down" /\ crashes < MaxCrashes
    /\ crashes' = crashes + 1
    /\ Exit
    /\ UNCHANGED <<azure, disk, sinks, faults>>

Restart ==
    /\ pc = "down" /\ pc' = "idle"
    /\ UNCHANGED <<azure, status, logFiles, todo, cur, pos, disk, sinks,
                   crashes, faults>>

-----------------------------------------------------------------------------
(* A task: the page of one blob is loaded and its entries converted.       *)

\* (Mutant: a task is run whether or not it ran before.)
NextTaskAgain(b) ==
    /\ pc = "run" /\ todo # {}
    /\ \A c \in todo : b <= c

NextTask(b) ==
    /\ pc = "run" /\ b \in todo
    /\ \A c \in todo : b <= c

Start(b)  == logFiles[b].start
Length(b) == logFiles[b].length

\* The page of a blob that has not changed since the listing.
LoadBlobRange(b) ==
    /\ NextTask(b)
    /\ Start(b) < Len(content[b]) /\ Len(content[b]) = Length(b)
    /\ pc' = "send" /\ cur' = b /\ pos' = 1
    /\ UNCHANGED <<azure, status, logFiles, todo, disk, sinks, crashes, faults>>

\* The blob grew since the listing: the range cuts a record, the page is no
\* JSON, and the task ends with an error that Run only logs.
LoadCutsRecord(b) ==
    /\ NextTask(b) /\ Length(b) < Len(content[b])
    /\ todo' = todo \ {b}
    /\ UNCHANGED <<azure, pc, status, logFiles, cur, pos, disk, sinks,
                   crashes, faults>>

\* The range starts past the blob's end, Azure answers 416, Fatalf exits.
LoadPastEnd(b) ==
    /\ NextTask(b) /\ Start(b) >= Len(content[b])
    /\ Exit
    /\ UNCHANGED <<azure, disk, sinks, crashes, faults>>

\* Any other error of GetRange ends in the same Fatalf.
GetRangeFails(b) ==
    /\ NextTask(b) /\ Fault("get")
    /\ Exit
    /\ UNCHANGED <<azure, disk, sinks, crashes>>

\* The body of the answer ends early.  ReadAll's error is overwritten, but what
\* was read is no JSON, and the task ends with an error.
LoadFallsShort(b) ==
    /\ NextTask(b) /\ Start(b) < Len(content[b]) /\ Fault("get")
    /\ todo' = todo \ {b}
    /\ UNCHANGED <<azure, pc, status, logFiles, cur, pos, disk, sinks, crashes>>

PageSize == Length(cur) - Start(cur)
Entries  == 1..PageSize

\* GetRecords: the record that entry k of the page points to.
Entry(k) == IF PerIteration THEN Start(cur) + k ELSE Length(cur)

\* The page is cut at its first "time", so that record loses the keys before.
HeadLost(i) == ~TimeFirst /\ i = Start(cur) + 1

\* GetCEFList: entry k yields events.
Emits(k) == LET record == content[cur][Entry(k)]
            IN  /\ record.flows /\ ~HeadLost(Entry(k))
                /\ record.time > logFiles[cur].lastRecord

\* (Mutants: the blob's length, or its LastModified, is read again when the page
\* has been sent, not taken from the listing.)
CheckpointGrown ==
    [stamp |-> logFiles[cur].stamp, end |-> Len(content[cur]),
     lastRecord |-> content[cur][Entry(PageSize)].time]

CheckpointRestamped ==
    [stamp |-> stamp[cur], end |-> Length(cur),
     lastRecord |-> content[cur][Entry(PageSize)].time]

\* createProcessStatusFromLogfile, as the clients leave the log file.
Checkpoint ==
    [stamp |-> logFiles[cur].stamp, end |-> Length(cur),
     lastRecord |-> content[cur][Entry(PageSize)].time]

\* The client reports the blob and the sink stores its new checkpoint.
RecordResult ==
    /\ status' = [status EXCEPT ![cur] = Checkpoint]
    /\ todo' = todo \ {cur}
    /\ pc' = "run" /\ cur' = NoBlob /\ pos' = 0

-----------------------------------------------------------------------------
(* CEFSyslogClient.ProcessAzureLogFile                                     *)

Sending == pc = "send" /\ Destination = "syslog"

Bumped(n) == IF n < MaxCount THEN n + 1 ELSE n

SendEvent ==
    /\ Sending /\ pos \in Entries /\ Emits(pos)
    /\ received' = [received EXCEPT ![cur][Entry(pos)] = Bumped(@)]
    /\ pos' = pos + 1
    /\ UNCHANGED <<azure, pc, status, logFiles, todo, cur, disk, files,
                   crashes, faults>>

\* SendEvent drops the writer's error.
SendEventFails ==
    /\ Sending /\ pos \in Entries /\ Emits(pos)
    /\ Fault("send")
    /\ pos' = pos + 1
    /\ UNCHANGED <<azure, pc, status, logFiles, todo, cur, disk, sinks, crashes>>

SkipRecord ==
    /\ Sending /\ pos \in Entries /\ ~Emits(pos)
    /\ pos' = pos + 1
    /\ UNCHANGED <<azure, pc, status, logFiles, todo, cur, disk, sinks,
                   crashes, faults>>

FinishSyslog ==
    /\ Sending /\ pos > PageSize
    /\ RecordResult
    /\ UNCHANGED <<azure, logFiles, disk, sinks, crashes, faults>>

-----------------------------------------------------------------------------
(* FileClient.ProcessAzureLogFile                                          *)

Writing  == pc = "send" /\ Destination = "file"
Emitting == {k \in Entries : Emits(k)}

EventsOf(k) == content[cur][Entry(k)].events

\* The times in a name are those of the first and the last event of the page.
FileName ==
    [log   |-> LogName[cur],
     start |-> EventsOf(CHOOSE k \in Emitting : \A l \in Emitting : k <= l).first,
     end   |-> EventsOf(CHOOSE k \in Emitting : \A l \in Emitting : l <= k).last]

Marshalled == \A k \in Emitting : EventsOf(k).json

\* ioutil.WriteFile replaces a file of the same name.
WriteFile ==
    /\ Writing /\ Emitting # {} /\ Marshalled
    /\ files' = {f \in files : f.name # FileName}
                  \cup {[name   |-> FileName,
                         events |-> {<<cur, Entry(k)>> : k \in Emitting}]}
    /\ RecordResult
    /\ UNCHANGED <<azure, logFiles, disk, received, crashes, faults>>

\* The error of WriteFile is overwritten before anything reads it.
WriteFileFails ==
    /\ Writing /\ Emitting # {} /\ Marshalled
    /\ Fault("write")
    /\ RecordResult
    /\ UNCHANGED <<azure, logFiles, disk, sinks, crashes>>

\* The client returns before it reports the blob.
NotReported ==
    /\ todo' = todo \ {cur}
    /\ pc' = "run" /\ cur' = NoBlob /\ pos' = 0
    /\ UNCHANGED <<azure, status, logFiles, disk, sinks, crashes, faults>>

NothingToWrite == Writing /\ Emitting = {} /\ NotReported

\* json.Marshal refuses the time of an event (a year beyond 9999).
MarshalFails == Writing /\ ~Marshalled /\ NotReported

-----------------------------------------------------------------------------
(* Complete: SaveProcessStatus truncates the status file and then writes   *)
(* it, LoadProcessStatus reads it back.                                    *)

TruncateStatus ==
    /\ pc = "run" /\ todo = {}
    /\ disk' = NoStatus /\ pc' = "saving"
    /\ UNCHANGED <<azure, status, logFiles, todo, cur, pos, sinks, crashes,
                   faults>>

WriteStatus ==
    /\ pc = "saving" /\ pc' = "idle"
    /\ disk' = status
    /\ logFiles' = NoLogFiles
    /\ UNCHANGED <<azure, status, todo, cur, pos, sinks, crashes, faults>>

\* The status file cannot be opened; the old one is read back, unless it is
\* torn.
OpenStatusFails ==
    /\ pc = "run" /\ todo = {} /\ pc' = "idle"
    /\ Fault("save")
    /\ \/ status' = disk
       \/ disk = NoStatus /\ UNCHANGED status
    /\ logFiles' = NoLogFiles
    /\ UNCHANGED <<azure, todo, cur, pos, disk, sinks, crashes>>

\* The write fails, the file stays torn and is not read back.
WriteStatusFails ==
    /\ pc = "saving" /\ pc' = "idle"
    /\ Fault("save")
    /\ logFiles' = NoLogFiles
    /\ UNCHANGED <<azure, status, todo, cur, pos, disk, sinks, crashes>>

-----------------------------------------------------------------------------
Load(b) == LoadBlobRange(b) \/ LoadCutsRecord(b) \/ LoadPastEnd(b)

\* What a task does for the file destination, unless it ends the process.
FileTask(b) ==
    \/ LoadBlobRange(b) \/ LoadCutsRecord(b) \/ LoadFallsShort(b)
    \/ WriteFile \/ NothingToWrite \/ MarshalFails

Process ==
    \/ Poll \/ \E b \in Blobs : Load(b)
    \/ SendEvent \/ SkipRecord \/ FinishSyslog
    \/ WriteFile \/ NothingToWrite \/ MarshalFails
    \/ TruncateStatus \/ WriteStatus

Failure ==
    \/ ReadStatusFails \/ ListBlobsFails
    \/ \E b \in Blobs : GetRangeFails(b) \/ LoadFallsShort(b)
    \/ SendEventFails \/ WriteFileFails \/ OpenStatusFails \/ WriteStatusFails

Environment == \E b \in Blobs : AppendRecord(b) \/ TouchBlob(b)

Next == Process \/ Failure \/ Crash \/ Restart \/ Environment

Spec == Init /\ [][Next]_vars

\* A started process keeps running, and somebody restarts a stopped one.
Fairness == WF_vars(Process) /\ WF_vars(Restart)

FairSpec == Spec /\ Fairness

-----------------------------------------------------------------------------
(* Properties *)

CheckpointType ==
    [stamp : Nat, end : 0..MaxRecords, lastRecord : 0..MaxTime]
LogFileType ==
    [stamp : Nat, length : 0..MaxRecords, start : 0..MaxRecords,
     lastRecord : 0..MaxTime]

\* Every variable has its type, and the process holds a blob, and a position
\* in its page, exactly while it sends.
TypeOK ==
    /\ content \in [Blobs -> Seq(Records)]
    /\ \A b \in Blobs : Len(content[b]) <= MaxRecords
    /\ stamp \in [Blobs -> Nat]
    /\ pc \in {"down", "idle", "run", "send", "saving"}
    /\ status \in [Blobs -> CheckpointType]
    /\ disk \in [Blobs -> CheckpointType]
    /\ logFiles \in [Blobs -> LogFileType]
    /\ todo \subseteq Blobs
    /\ IF pc = "send" THEN cur \in todo ELSE cur = NoBlob
    /\ pos \in 0..(MaxRecords + 1)
    /\ received \in [Blobs -> [1..MaxRecords -> 0..MaxCount]]
    /\ \A f \in files : f.events \subseteq (Blobs \X (1..MaxRecords))
    /\ crashes \in 0..MaxCrashes /\ faults \in 0..MaxFaults

Wanted(b, i) == i \in 1..Len(content[b]) /\ content[b][i].flows

Delivered(b, i) ==
    IF Destination = "syslog" THEN received[b][i] > 0
                              ELSE \E f \in files : <<b, i>> \in f.events

\* No loss: the checkpoint on disk never covers a record of the blob whose
\* events have not reached the destination; whatever is not delivered yet is
\* read again after a crash (LoadUnprocessedLogFiles, getUnprocessedBlobRange).
CheckpointDelivered ==
    \A b \in Blobs : \A i \in 1..disk[b].end :
        Wanted(b, i) => Delivered(b, i)

\* What the pages promise when entries alias the last record: the last record
\* under the checkpoint, if it has events, was delivered.
LastRecordDelivered ==
    \A b \in Blobs :
        LET i == disk[b].end IN Wanted(b, i) => Delivered(b, i)

\* Duplicates have a cause: a record reaches the syslog server at most once
\* more than the process crashed and its calls failed.  So it is while nobody
\* touches a blob and pages do not alias: the request past the end of a touched
\* blob ends the process, which is neither a crash nor a failed call, and all
\* that the job has sent is sent again by every later one.
DuplicatesBounded ==
    \A b \in Blobs, i \in 1..MaxRecords :
        received[b][i] <= 1 + crashes + faults

Lost == {r \in Blobs \X (1..MaxRecords) :
            /\ r[2] <= disk[r[1]].end
            /\ Wanted(r[1], r[2]) /\ ~Delivered(r[1], r[2])}

\* Two records of the blob have their first or their last event in one second,
\* as all those without a readable time have: two of its pages may get the same
\* name, and the second file replaces the first.
Confused(b) ==
    \E i, j \in 1..Len(content[b]) :
        /\ i # j /\ Wanted(b, i) /\ Wanted(b, j)
        /\ \/ content[b][i].events.first = content[b][j].events.first
           \/ content[b][i].events.last = content[b][j].events.last

\* Losses have a cause: each record the checkpoint covers without its events
\* having reached the syslog server, and each blob of which this is true of the
\* files though its files cannot replace each other, is a failed call.  A job
\* that fails, a crash or a torn status file costs repetitions, never records.
LossesCounted ==
    Cardinality(IF Destination = "syslog" THEN Lost
                ELSE {r[1] : r \in Lost} \ {b \in Blobs : Confused(b)})
        <= faults

\* The files a record is in.
Copies(b, i) == {f \in files : <<b, i>> \in f.events}

\* The files repeat a record only for a cause: each copy after the first needs
\* a crash or a failed call that made the process read the page again (a run
\* that repeats a page exactly overwrites its file).  Of touched blobs it is not
\* claimed.
FileCopiesBounded ==
    \A b \in Blobs, i \in 1..MaxRecords :
        Cardinality(Copies(b, i)) <= 1 + crashes + faults

\* A job works from a checkpoint at least as advanced as the one on disk, and
\* never moves the disk backwards except through an empty file: a save writes
\* for each blob what was there before or something later.  Only where the
\* status file can always be read: an error is taken for an empty file, and
\* "read" is not among the failures of the run.
Advances(new, old) ==
    \A b \in Blobs : new[b].end >= old[b].end /\ new[b].stamp >= old[b].stamp

StatusAdvancesDisk == pc \in {"run", "send"} => Advances(status, disk)

\* Where at-least-once delivery is claimed: a syslog destination, a build whose
\* range variable is fresh, NSG records (their time comes first, and later
\* records are later), and a writer that reports no event sent that was not.
NsgToSyslog ==
    /\ Destination = "syslog" /\ PerIteration /\ TimeFirst /\ OrderedTimes
    /\ "send" \notin FaultKinds

\* The name of a file tells its blob ...
LogNamesTell == \A b, c \in Blobs : LogName[b] = LogName[c] => b = c

\* ... and its two times tell which records.
NamesTell ==
    /\ LogNamesTell
    /\ \A t, u \in 1..MaxTime : t # u =>
          \A e \in Events[t], f \in Events[u] : e.first # f.first /\ e.last # f.last

\* Where it is claimed of files: the same logs, in files whose names tell them
\* apart, and no file reported that was not written.
NsgToFiles ==
    /\ Destination = "file" /\ PerIteration /\ TimeFirst /\ OrderedTimes
    /\ NamesTell /\ "write" \notin FaultKinds

\* A record is in the files as often as there are files that hold it: a page
\* read again, and no longer, does not arrive again, it replaces its file.
Stored == [b \in Blobs |-> [i \in 1..MaxRecords |->
              LET n == Cardinality(Copies(b, i))
              IN  IF n < MaxCount THEN n ELSE MaxCount]]

\* The pipeline as seen by whoever stores the events: records are written,
\* arrive at least once, and a prefix that arrived is committed; a committed
\* record never arrives again.
Log       == [b \in Blobs |-> [i \in 1..Len(content[b]) |-> content[b][i].flows]]
Committed == [b \in Blobs |-> disk[b].end]
Arrivals  == IF Destination = "syslog" THEN received ELSE Stored

Abstract == INSTANCE AtLeastOnce WITH
                Logs <- Blobs, log <- Log, received <- Arrivals, committed <- Committed

\* The promise, of the destination at hand: a record's events have arrived
\* before a checkpoint covers it, what arrived stays, and no checkpoint's record
\* arrives again.  A job that cannot read the status file would send such a
\* record again: as above, that failure is left out.
AtLeastOnceDelivery == Abstract!Spec

\* Blobs the listing always reaches, of an hour the configuration asks for.
Served(b) ==
    /\ LogHour[b] > BeginHour /\ b <= ListLimit
    /\ \A c \in Misnamed : b < c

\* Every record that yields events, in a blob the job may take, reaches the
\* destination in the end, whatever crashes and failures come in between.
EventuallyDelivered ==
    \A b \in {c \in Blobs : Served(c)} : \A i \in 1..MaxRecords :
        Wanted(b, i) ~> Delivered(b, i)

\* A record of the blob has an event that json.Marshal refuses.
Unmarshalable(b) ==
    \E i \in 1..Len(content[b]) : Wanted(b, i) /\ ~content[b][i].events.json

\* The same with a destination that may fail without the client's notice: every
\* such record gets under the checkpoint on disk, unless its blob comes to hold
\* one that no page can be written with.
EventuallyProcessed ==
    \A b \in {c \in Blobs : Served(c)} : \A i \in 1..MaxRecords :
        Wanted(b, i) ~> (i <= disk[b].end \/ Unmarshalable(b))

-----------------------------------------------------------------------------
(* The inductive invariants behind these properties.                       *)

\* Tasks exist only while the job runs, each for the checkpoint the job has,
\* and a page that is being sent is a non-empty part of its blob.
Tasks ==
    /\ pc \notin {"run", "send"} => todo = {}
    /\ \A b \in todo : /\ Start(b) = status[b].end
                       /\ logFiles[b].lastRecord = status[b].lastRecord
                       /\ logFiles[b].stamp > status[b].stamp
                       /\ Length(b) <= Len(content[b])
    /\ pc = "send" => Start(cur) < Length(cur) /\ pos \in 1..(PageSize + 1)

\* A checkpoint is a position of its blob and the time of the record there.
Sound(entry, b) ==
    /\ entry.end <= Len(content[b])
    /\ entry.lastRecord =
         IF entry.end = 0 THEN 0 ELSE content[b][entry.end].time

Ordered(records) ==
    \A i, j \in 1..Len(records) : i < j => records[i].time < records[j].time

Covered(b, n) == \A i \in 1..n : Wanted(b, i) => Delivered(b, i)

\* Both checkpoints cover only what was delivered, and so does the sent part
\* of the current page.
Coverage ==
    /\ \A b \in Blobs : Ordered(content[b])
    /\ \A b \in Blobs : Sound(status[b], b) /\ Sound(disk[b], b)
    /\ \A b \in Blobs : Covered(b, status[b].end) /\ Covered(b, disk[b].end)
    /\ Sending => Covered(cur, Start(cur) + pos - 1)

\* What the process sends next, if nothing fails: the records after the
\* checkpoint it works from.
Pending(b, i) ==
    CASE pc \in {"down", "idle"}   -> i > disk[b].end
      [] pc \in {"run", "saving"}  -> i > status[b].end
      [] pc = "send" -> IF b = cur THEN i >= Start(b) + pos
                                   ELSE i > status[b].end

\* Since a checkpoint was taken, a blob was not given more LastModifieds than
\* records; so a job that finds it modified finds a record to read.
Lag(entry, b) == stamp[b] - entry.stamp <= Len(content[b]) - entry.end

Growth ==
    /\ \A b \in Blobs :
          Lag(NoEntry, b) /\ Lag(status[b], b) /\ Lag(disk[b], b)
    /\ \A b \in todo :
          /\ Lag([stamp |-> logFiles[b].stamp, end |-> Length(b)], b)
          /\ logFiles[b].stamp - status[b].stamp <= Length(b) - status[b].end

\* A record still to be sent has used no delivery that failures do not excuse.
Redelivery ==
    /\ DuplicatesBounded
    /\ \A b \in Blobs, i \in 1..MaxRecords :
          Pending(b, i) => received[b][i] <= crashes + faults
=============================================================================
