# nsg-parser, specified

This directory models nsg-parser in TLA+: a Go process that polls an Azure
container of network logs, turns what was appended to each log blob into CEF
events, sends them to a syslog server or writes them to files, and keeps a
checkpoint on disk. TLC checks the models on small instances; TLAPS proves the
most important results for all values of the constants. `PROJECT.json` lists the
runs, the source lines every definition stands for, the hazards and the theorems.

## 1. The system

| Part | State it keeps | Operations |
|---|---|---|
| Azure (external) | blobs, their content and LastModified | appends records, changes metadata, lists, serves ranges |
| Poll loop, `cmd/process_commands.go`, `parser/client.go` | `RegisteredJobs` | make a job, read the checkpoint, list the container, run the job, sleep, again |
| Job, `parser/job.go` | `ProcessStatus` (one checkpoint per blob), `LogFiles`, `Tasks` | select modified blobs, one task each, run, save and read back the status file |
| Log files, `parser/*_log_file.go` | the listing's length and LastModified, the last range and record time | compute the unread range, load it as a page, give its records |
| Records, `parser/*_record.go` | the parsed JSON | filter by time, convert to CEF events |
| Clients, `parser/cef.go`, `parser/file_client.go` | the syslog writer; the data directory | load a page, convert, send or write, report the log file |
| Pool, `pool/pool.go` | tasks channel, WaitGroup | hand tasks to workers, wait |
| Syslog writer, `vendor/.../srslog` | the connection | format and write a message, after an error dial and write once more |
| Status endpoint, `parser/serve.go` | none of its own | marshal all jobs for `/status` |
| Command line, service, `cmd/` | configuration, the clients, the daemon flag | set-up by two commands, then the poll loop |

How they interact. The poll loop is one goroutine. `RunJob` reads the status
file, lists the container, and calls `Job.Run`, which starts a sink goroutine
and a pool of one worker. The worker calls the client for one blob at a time;
the client sends finished log files on the unbuffered `ResultsChan`; the sink
writes their checkpoints into `ProcessStatus`; when all tasks have returned,
`Run` closes the channel, waits for the sink and saves the map. The HTTP server,
when asked for, reads the registered jobs and their status maps from goroutines
of its own, without a lock. Azure changes the blobs at any moment; the syslog
server and the connection to it come and go.

What is hard here:

* a blob grows, or is touched, between the listing, the ranged read and the save;
* the process dies between sending and saving, or between truncating the status
  file and writing it; `Fatalf` in a page load ends it as abruptly as a crash;
* errors are dropped: of the listing, of the status file, of a file write, of a
  syslog send, of the Azure client's making, of a page cut short in transit;
* what start-up could not do is passed over: a data path that cannot be made, a
  configuration file that is not found, an Azure client without an account;
* a file is named for the seconds of its events, so that two pages may get one name;
* the time filter, the cut at the first `"time"` and the address of a range
  variable decide which records of a page survive;
* three unbuffered channels and a WaitGroup tie the goroutines of a run;
* a write on a dead connection succeeds, or fails with half a message sent, and
  is then repeated on a new connection;
* status requests read maps that are being written and exchanged.

What makes each part correct: a checkpoint covers only what was delivered and
never moves back while a job runs (job, log files, clients); duplicates and
losses have a crash or a failure as their cause (clients); every record is
delivered in the end (poll loop); a run saves exactly the results of its tasks,
sends on no closed channel, and ends (job, pool); a page is whole or not there
(log files); a message arrives at most once and readable (syslog writer); a poll
begins only with the clients it needs, and a status request neither shows less than
what was saved nor costs it (command line, endpoint). `hazards` in `PROJECT.json`
names the line where each could go wrong.

## 2. The modules

### BlobIngest: the process against Azure, the disk and the destination

The core. One action per step that can be interleaved or interrupted:

| Actions | Code |
|---|---|
| `AppendRecord`, `TouchBlob` | Azure |
| `Poll`, `ReadStatusFails`, `ListBlobsFails` | `ProcessBlobsAfter`, `RunJob` up to `Run`; reading the status file and one listing |
| `LoadBlobRange`, `LoadCutsRecord`, `LoadPastEnd`, `GetRangeFails`, `LoadFallsShort` | `getUnprocessedBlobRange` and `LoadBlobRange` for the next task, by what became of the blob since the listing, and of the answer on its way |
| `SendEvent`, `SendEventFails`, `SkipRecord`, `FinishSyslog` | `CEFSyslogClient.ProcessAzureLogFile` and the sink |
| `WriteFile`, `WriteFileFails`, `NothingToWrite`, `MarshalFails` | `FileClient.ProcessAzureLogFile` and the sink |
| `TruncateStatus`, `WriteStatus`, `OpenStatusFails`, `WriteStatusFails` | `Complete`: `ioutil.WriteFile` truncates, then writes; then the file is read back |
| `Crash`, `Restart` | anything that stops the process, and whoever starts it |

`status` is `job.ProcessStatus`, `disk` the status file, `logFiles` the job's log
files with what they took from the listing and the checkpoint, `todo` the tasks
not yet run, `cur` and `pos` the page being sent. `received` and `files` are what
reached the destination.

Abstractions. Offsets count records: the byte offset of a checkpoint is always
the length of the blob at some listing, so it is the end of a record. A ranged
read is an inclusive HTTP range, so a blob that grew is cut inside its next
record and is no JSON; a blob that did not grow has nothing at its end and
Azure answers 416. A record carries its time and whether it has events; its
events go out as one. Of their times, which are the tuples' and not the record's
(and 0 where a tuple's cannot be read), a record has the first and the last, for the
name of a file, and whether `json.Marshal` takes them all. `Events` says which such
times the records of a time may have. LastModified is compared only between versions of one
blob, so each blob counts its own seconds; `SameSecond` allows a modification
that does not move it. A missing, torn or partial status file and an all-zero
entry are read alike and are one value. The goroutines of a job run are one
sequential process here, which is what `JobRun` shows of a pool of one worker.

Constants that describe a build, a container or a configuration, not a bound:
`Destination`; `PerIteration` (Go 1.22 and later give each iteration of a range
loop its own variable, `GetRecords` takes its address; the README's build is
go1.8.3); `TimeFirst` and `OrderedTimes` (true of the NSG samples in `testdata`,
false of the application gateway samples); `SameSecond`; `BeginHour`, `LogHour`,
`LogName`, `Misnamed`, `ListLimit`, `Events`.

### AtLeastOnce: what the pipeline promises

Logs grow, records are delivered perhaps more than once, a checkpoint commits
what was delivered and may be forgotten, nothing committed is delivered again
while the commitment stands. Records are delivered one by one, as messages are, or
many at once, as a file has them. `BlobIngest` maps its blobs to logs and `disk` to
`committed`; everything else of it is hidden. What has arrived (`Arrivals`) is, for
syslog, how often the server received a record, and for files in how many of them it
is. A page that is read again, and has not grown, replaces its file and delivers
nothing; one that has grown is another file, and delivers its records again.

### JobRun and TaskRound: the goroutines of a run

`JobRun` has one action per channel operation, WaitGroup operation and map
access of the main goroutine (`Pool.Run`, then `Job.Run` to the end), of each
worker and of the sink. A send and its receive on an unbuffered channel are one
step. `TaskRound` is what a caller may rely on: every task ends once, then one
status with exactly the results is saved. The pool is modelled for any number of
workers, since `pool.NewPool` takes any; `Job.Run` asks for one.

### BlobPage and CefRecord: from a blob to events

`BlobPage` has the text of a blob as tokens, the byte range a task asks for, the
inclusive range Azure answers with, and the cut at the first `"time"`.
`CefRecord` loads a page with it (`LoadPage`, or `LoadFails` when the blob has
grown or the answer ends early), and then has the loop both clients run over
`GetRecords()`, and `GetCEFList` of the three kinds of record. `BlobIngest` takes
of this only how many records a page has and whether a record yields events, and
`PageLoaded` is what entitles it to: a page is all that lies between checkpoint
and listing, or nothing, and only the first record of a gateway page loses its
operation (`HeadLost`). `SkipRecord` (no conversion for the operation, or too
old), `ConvertGateway` (one event, or a panic), and for flow records one action
per step of the three loops: `EnterFlows`, `NextFlow`, `NextSubFlow`,
`ShortTuple`, `ConvertTuple`, `TuplePanics`, `ReturnEvents`. A failed type
assertion is `Panic`: the deferred recover makes the function return nil results,
which costs the record's events, those converted before included.

A JSON value is kept only as "there, with the asserted type" or not, a tuple as
one of four kinds, an event as its place of origin and whether its time could be
read. The extensions of an event copy fields and are left out. `Converted`
compares with a definition that has no loops: a flow record yields an event for
every tuple that is not short, unless anything in it would panic. It is
parameterised by the set of logs; those of `MCCefRecord` have up to two flows
with two tuples each, a flow with two sub-flows beside a smaller one, or two
records, so that every early end meets something before it and after it.

### FileTask: why one may stand for the other

The two views of a page are joined by a refinement. `FileTask` gives the variables
of `BlobIngest` in terms of those of `CefRecord`, for one blob and the file
destination, and `IsFileTask` says that each step of `CefRecord` is a step of
`BlobIngest`'s `FileTask`, or one that `BlobIngest` does not see: loading a page is
`LoadBlobRange`, a load that fails `LoadCutsRecord` or `LoadFallsShort`, finishing
`WriteFile`, `NothingToWrite` or `MarshalFails`, and all the loops in between are
stutters. So `BlobIngest` is right about which tasks end the process, which records
of a page give events (its filter by time, its `HeadLost`), what is in the file, and
that its name has the times of the first and the last event. Those come from two
constants: `Number`, the seconds a tuple begins with or those of a gateway record, and
`Misread`, what `ParseInt` returns beside its error (0 for what is no number, a limit
for one too large), whose error the code adds to a list nobody reads. `Writable` is
what `json.Marshal` takes, the years up to 9999. `CefRecord` knows of each event
whether its time was read (`dated`), and `FileTask` that it is so exactly for the
tuples that are sound (`Dated`). The records with events that `WriteFile` takes
from a page are those that `SendEvent` goes through one by one: both clients have
the same loop (cef.go:204, file_client.go:25).

### CefText and SyslogWriter: an event on its way to the server

`CefText` is the text of an event and what srslog and the program's formatter
make of it, over tokens: `SyslogText`, `ExtensionText`, `formatValue`,
`CEFSyslogFormatter` with its expression, which takes the last `|CEF` of the
first line. Beside it stands a reader of such messages, the reference for
`Intact`. An event without a time goes out with that of its writing, and such a
message keeps its newline, which the reader takes for the end of the message. No
conversion makes such an event (an unreadable time is the epoch), but `SendEvent`
would take it, and one of the runs' events is of that kind.

`SyslogWriter` sends the events of a page with it. `pc` is where the call of
`SendEvent` is in `writeAndRetry`: first `write`, after an error `connect`, then
the second write, whose error nobody reads. `conn` is what `w.conn` is worth:
`broken` is the state in which the peer is gone and a write still succeeds;
`Notice` is the kernel finding out. `WritePartly` breaks the connection under a
write that has sent a part. UDP loses and reorders, TCP keeps the order and loses
what is under way when it breaks. This is what lies behind `SendEvent` and
`SendEventFails` of `BlobIngest`; one broken connection may cost several events,
each of which counts there as one failed send.

### ProcessCmd: start-up, poll loop and status endpoint

From the command line to the end of the process: the `PersistentPreRun` of the
two commands, `run` of the service, `initClient` (whose error is only logged),
the destination, the HTTP goroutine, and the loop. `setUp` is what the root command
has really set up: the program's log; a configuration file, if one was found; the
data path, unless it was missing and could not be made. Two of its errors are fatal (a
file given with `--config` that cannot be read, a data path that makes no pattern for
the log's names), the others are passed over, and the process polls without a
configuration file or without a data path, in which it then finds and saves no
status. Of a poll the steps are kept
that write what the status handler reads, or the status file: `RegisterJob` in two
steps, the load, the sink's store in two steps, truncate, write, read back. The
handler reads step by step: the registered job, the keys of its map, each entry.
Go's runtime *may* abort the process when such a read meets a write (`Aborts`),
and need not, so both are there. An entry of a map is the number of the poll that
made it, so that older is smaller.

## 3. The runs

| Run | Question | Bounds |
|---|---|---|
| `syslog` | Is nothing lost, is the promise kept, is every record sent in the end, with NSG logs to syslog? | 2 blobs of 2 records, one crash, one failed listing, read or save |
| `faults` | Do duplicates and losses have a cause? | 2 blobs of 2 records, one crash, two failures of any kind, two changes in a second |
| `files` | The same of files, and is every record processed? | 2 blobs of 2 records, the second misnamed; event times that cross a second, are unreadable, or are refused by json; one crash, two failures, writes among them |
| `aliased` | What is left of the guarantee in the README's build? | 2 blobs of 2 records, touches, two changes in a second, one crash |
| `cef_record` | Is a page whole or not there, does it give the events it should, and only malformed records none? Is it all one task of `BlobIngest`? | logs of 1 or 2 unread records, up to 2 flows, sub-flows and tuples, grown or cut short |
| `job_run` | Is a run free of deadlock, panic and race, and complete? | 4 tasks, 2 workers |
| `syslog_writer` | Does the retry repeat or lose, and can the server read what arrives? | 4 events, or one of 7 shapes of events; 3 breaks |
| `process_cmd` | What does a poll find set up, is a daemon persistent, a status answer up to date and a status request harmless? | 2 blobs, 2 polls, one request after another; every configuration without the status server, and with it those that lack configuration file and data path together or have both |

Why these bounds are enough to be interesting: two blobs let a fatal read of one
throw away the progress of the other; two records let a page start in the middle
of a blob, and a blob grow between listing, read and save; one crash can hit any
step, the torn status file included; two failures can follow each other, and can
meet the crash. `MaxCount` is above what `received` can reach where it matters, so the
cap hides nothing. In `files` the event times let two pages of a blob get one name,
and be kept apart, and let a page be held back by json; with `begin_time` at hour 0 no
run leaves out a blob for its hour, a one-line comparison. Four tasks and two workers let a worker hold the channel
while the other is dispatched to, waits or is done. Three breaks let a connection
die under the first write, under the second, and once more in a later call. Two
polls let a request that began in one poll end in the next, with another job
registered in between, and two blobs let it read one entry before and one after
the exchange of the map. The status server, whose requests make most of the states,
reads nothing of the configuration. A status file read or written with an error ends the
promise of `NeverBehind`, not the run.

The runs named `claim_...` each check a sentence of the repository that the code
does not keep; TLC's trace shows how.

| Run | What the repository says | What happens |
|---|---|---|
| `claim_aliased` | the sample's events are all counted (common_test.go:43) | in a go1.8.3 build all entries of a page are its last record |
| `claim_tracks_changes` | README.md:25, keeping track of changes | a change in the second of the listing is not seen |
| `claim_restartable` | README.md:27, interrupted and restarted at any time | a blob modified but not grown ends every run |
| `claim_framed` | srslog/writer.go:172, a message ends in a newline | the formatter's expression drops it, and over TCP messages run together |

Two more things the code does are known and not runs of their own: a crash before
the save sends events again, though README.md:113 says they are sent once only
(`DuplicatesBounded` says how often at most), and the first record of every
gateway page yields no event (`PageLoaded` says so).

Fairness. `WF_vars(Process)`: the poll loop is a `for` without exit in daemon
mode and every call in it returns or fails. `WF_vars(Restart)`: a service
manager, or a scheduled start, brings a dead process back. Nothing is assumed of
Azure or of failures, which are bounded. In `JobRun` each goroutine has weak
fairness: the Go scheduler runs every goroutine that can run. In `ProcessCmd` the
main goroutine, the worker and the sink have it for the same reason, the handler
and the server do not need it. In `SyslogWriter` a call goes on until it returns,
and TCP carries what is on an open connection; `Recovers` speaks of a server that
stays and of a connection that is known to be broken, since nothing makes a
writer notice earlier.

`job_run`, `cef_record`, `syslog_writer` and `process_cmd` turn deadlock checking
off because a finished run, page, sequence of calls or process has no step left;
`Terminates`, `Recovers` and `KeepsPolling` say more than the absence of deadlock.
The other runs check deadlock: the poll loop never stops.

## 4. The proofs

`BlobIngestProofs`, for every number of blobs, records, crashes and failures:

* `TypeCorrect`: types, and the task held while sending. Inductive with `Tasks`,
  which ties each pending task to the checkpoint the job loaded.
* `NoLoss`: `CheckpointDelivered` under `NsgToSyslog` (syslog, fresh range
  variables, time first, ordered times, no silently lost send). The inductive
  invariant is `Coverage`. That the disk covers only what was delivered is not
  inductive alone: the disk comes from `status`, `status` from a finished page,
  and a page is known delivered only through the part of it already sent, and
  only because the records before it were covered and no record of it can be
  filtered, which needs `Sound` (a checkpoint holds the time of its last record)
  and `Ordered`.
* `StatusAhead`: `StatusAdvancesDisk` if no read of the checkpoint fails; an error
  there is taken for an empty file, and the `syslog` run leaves it out, too.
* `Duplicates`: `DuplicatesBounded` for syslog, fresh range variables and blobs
  nobody touches. A touched blob is asked for past its end, which ends the process
  without a crash or a failed call, and what the job sent before is sent again by
  each later one. Inductive with `Growth` (a blob has no more LastModifieds than
  records since any checkpoint, so a modified blob has something to read, and
  the fatal read past its end cannot happen) and `Redelivery` (a record still to
  be sent has used no delivery that a failure does not excuse).
* `Implements`: every step of `BlobIngest` is a step of `AtLeastOnce` or a
  stutter, from `Coverage` and `StatusAdvancesDisk`, so again if no read of the
  checkpoint fails.

`AtLeastOnceProofs`: `CommittedDelivered`, so the promise itself is safe.

`JobRunProofs`, for any number of tasks and any finite set of workers: all safety
properties of `JobRun` and the refinement. The inductive invariant `Inv` says

* `Assigned`: a task has at most one worker, and is open until that worker has an
  outcome for it;
* `Counted`: the WaitGroup is the number of `Unfinished` tasks, those not yet
  dispatched or still held by a worker. Counting tasks and not workers makes the
  count the cardinality of a subset of `1..NTasks`, which a dispatch leaves alone
  and a `Done` makes smaller by one element;
* `Phases`: what the line the main goroutine has reached says of the others: past
  `Wait` nobody holds a task, past `close` the sink can end, past the receive on
  `DoneChan` it has;
* `Stored`: results are in the map or in the sink's hand.

`TypeCorrect`, `SendsOnOpen`, `RaceFree` and `Saved` follow at once; `TasksInOrder`
needs that the open tasks before a worker's own map injectively to the other
workers; `Completes` shows each step to be one of `TaskRound` or a stutter.

`ProcessCmdProofs`, for any set of blobs, polls and configurations: all safety
properties of `ProcessCmd`.

* `Ready` needs only `Prepared`: what start-up has done by each line of main. It says
  what a poll can count on: log, given configuration file, Azure client, client of
  the destination. A data path, or a configuration file that was only searched for,
  is not among it.
* `AbortsKeepDisk` needs only `SinkActive`: the sink writes while tasks run or main
  waits for it, so never while main saves.
* `TypeCorrect` adds `Numbered`, the number of the poll and of the registered job
  at each line.
* `AnswersKeepUp` is `NeverBehind`. While the file is truncated the disk has
  nothing, so what a request was promised is compared with `Base`: what the disk
  has, or is about to have. As long as nothing fails `Base` only rises, the
  registered job is not behind it (`JobAhead`), and neither a request nor what it
  has read is ahead of it (`RequestAhead`). `KeepsUp` says what a step may do to
  the maps: raise one, or exchange it for the disk's. `Bounded` is needed for the
  sink, whose new entry has to be the latest.

`BlobIngestFileProofs`, for the file destination:

* `FileCopies`: `FileCopiesBounded` for blobs nobody touches, in any build and
  whatever the files are called. Inductive with `Growth` and `Rewriting`: a record
  that is still to be written is in no more files than crashes and failed calls
  excuse.
* `Positions` and `Faithful`, which the next module needs: a checkpoint holds the
  time of its last record and blobs are in time order; and a file holds all the
  records with events from one record of a blob to another, and has in its name the
  first event's time of the one and the last event's time of the other. Where such
  times tell the records apart, that is why replacing a file loses nothing.

`BlobIngestLossProofs`, for both destinations:

* `Losses`: `LossesCounted` under `Converting` (fresh range variables, time first,
  ordered times) and, for files, `LogNamesTell`: blobs have names of their own. The
  inductive invariant is `MissingCounted`. It counts not what the disk covers but
  what neither the running job nor one that starts from the disk will ever send
  (`Misses`), and of a step it must be shown that it adds to that set only when it
  is itself a failed send or write. With files the unit is the blob: one failed
  write costs all that its file was to hold. `Confused` blobs are left out: two of
  their records have their first or their last event in one second, as all records
  have whose tuples begin with no number, and one page's file may replace another's
  with no failed call.
* `NoLossFiles`: `CheckpointDelivered` for files whose writes succeed and whose names
  tell the records in them (`NamesTell`: no two records have their first event, or
  their last, in one second), from `Positions` and `Faithful`.
* `ImplementsFiles`: `AtLeastOnceDelivery` under the same assumptions (`NsgToFiles`)
  and a checkpoint that can be read: with files, too, every step is one of
  `AtLeastOnce` or a stutter. The `syslog` run checks the property for the other
  destination; it passes with `Destination = "file"` in its configuration as well. To
  replace a file must not take a record out of it: `Faithful` says that the old file
  of that name holds every record between two, `NamesTell` that they are the two that
  the new one begins and ends with. And
  a record that is committed must not get into a further file: a task reads behind
  the checkpoint that the job loaded, and the disk is not ahead of that while a task
  runs.
* `LastRecord`: `LastRecordDelivered` for syslog in any build, the aliased one of
  the README included. Inductive with `LastCoverage`, which says the same of the
  job's status and of a page sent to its end.

`SyslogWriterProofs`, for any pages and any number of breaks: `TypeCorrect`, and
`OnceEach` (`ArrivedOnce`). The inductive part, `Once`, needs that nothing of the
present call has gone out whole while it may still be repeated, and for TCP that
what has arrived is ahead of what is under way.

The same module proves `ReadsBack` (`Intact`), for values of any length. It needs
nothing of the writer but the types, and all of the text:

* `FlattenOne` says what `FlattenSeq`, a recursive function, makes of a list with one
  element more. It and `ByAppend`, induction on the length of a sequence, are
  proved from the least counterexample (`Least`), since an induction theorem that
  takes an operator cannot be used.
* `EscapedValue`: what `FormatValue` writes, `Unescape` takes back; each sign in it has
  a backslash before it, and it has no newline and no `|CEF` that the value did not
  have. By induction on the value; the induction needs the last token of both
  (`EscapedMore`).
* `ExtensionIs`: the text of the keys, after the trim, in their order, for each of the
  four cases of missing values.
* `OneBehaved`, `TwoBehaved`: in such a text only the signs behind the keys are without
  a backslash, and no line ends. So the formatter's expression matches in one place
  (`LineIs`), and the reader finds every value (`OneRead`, `TwoRead`).

`CefRecordProofs`, for any set of logs and any times of tuples: any number of records before, in and behind
the page, an answer cut anywhere, any nesting of flows, sub-flows and tuples.

* `PageWhole`: `PageLoaded`. The times of the payload are at every third token
  (`TimesFacts`), the payload ends a blob only if nothing was appended and nothing
  is lost (`PayloadEnds`), and then the parser finds the records in order
  (`UnmarshalFacts`).
* `TypeCorrect`, inductive with `PageLoaded` and `InPage`.
* `TuplesAccounted`: `Accounted`. `Loops` says of the cursor that it is inside the
  record, that nothing up to it panics, and that list and counter are a `Tally` of
  the tuples up to it. `PassFlow`, `PassSubFlow` and `PassTuple` say which tuples a
  step of the loops passes: none, none and one.
* `RecordsConverted`: `Converted`. A record adds the set of its sources, at once and
  behind all others (`Advance`); a panic means that something in the record is not
  sane (`LoopsPanic`), the end of the loops that all of it is (`AtEnd`).
* `TaskImplemented`: `IsFileTask`, from `PageLoaded` and `Converted`. The records that
  give an event are those that `BlobIngest` emits (`GivingIs`), the first and the last
  event of the page are of the first and the last such record (`CollectedGiving`,
  by `Monotone`), by `PlaceOrder` the first and the last of that record, and by
  `CollectedTimes` the file has their times in its name and json takes it if it takes
  all of them. Two invariants are new: `Begun`, a page under way was whole, and
  `Stamped`, an event's time was read if its tuple has one.

So every safety property that a passing run checks, each refinement included, is
proved under the assumptions named above. Only model-checked are all liveness
(`EventuallyDelivered`, `EventuallyProcessed`, `Terminates`, `Recovers`,
`KeepsPolling`), which the prover does not do under fairness, and the claims, which
TLC refutes.

The proofs about texts use a set `Token`, all strings and the tokens of the code: the
provers take a quoted token to be different from any other, but do not know that it
is an element of STRING.

Outside `OrderedTimes` the code does lose records: one no later than the last of
the page before is filtered (`event_record.go:99`). The gateway samples are not in
time order, so `NoLoss` is a statement about NSG logs only. And outside `NamesTell` the
code does lose files: flow records of one second, or without readable times, share
names, so `NoLossFiles` is a statement about logs whose flows advance from record to
record.

## 5. Not modelled

* `formatMac` and the fields an event copies: a loop over one string that its
  test covers, and assignments.
* The values of options. What was seen on the way is in the hazards: `prefix` is
  read and never used, `poll_interval`'s flag is not bound, the error of an
  unparseable `begin_time` is overwritten.
* Time: how long a poll sleeps, rotation of the program's log.
* Installing and removing the service, the version and test commands.
* The vendored SDK, seen only as the environment.
* A listing of more than one page beyond `ListLimit`, and blobs whose tuples have
  a format other than the one `TupleKinds` distinguishes.

What could follow: `IsFileTask` for the syslog destination, where the one write of a
file is a loop of sends, and a proof that what `BlobIngest` counts per event as a
failed send covers every loss that `SyslogWriter` has per broken connection.

## 6. Running

    tlc -workers 2 -config BlobIngestSyslog.cfg MCBlobIngest.tla
    tlc -workers 2 -config CefRecord.cfg MCCefRecord.tla
    tlc -workers 2 -config JobRun.cfg JobRun.tla
    tlc -workers 2 -config SyslogWriter.cfg MCSyslogWriter.tla
    tlc -workers 2 -config ProcessCmd.cfg MCProcessCmd.tla
    tlapm BlobIngestProofs.tla
    tlapm BlobIngestFileProofs.tla
    tlapm BlobIngestLossProofs.tla
    tlapm CefRecordProofs.tla
    tlapm SyslogWriterProofs.tla
    tlapm JobRunProofs.tla
    tlapm ProcessCmdProofs.tla
    tlapm AtLeastOnceProofs.tla
