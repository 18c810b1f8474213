----------------------------- MODULE ProcessCmd -----------------------------
(***************************************************************************)
(* The process from its command line to its end (cmd/): start-up with its  *)
(* fatal errors and the ones it passes over, the poll loop, and the status *)
(* endpoint (parser/serve.go), whose handler reads the registered jobs and *)
(* their status maps without a lock while the loop and the sink write.     *)
(*                                                                         *)
(* Abstractions.  Of a poll the steps are kept that touch what the handler *)
(* reads, or the status file; JobRun and BlobIngest have the others.  An   *)
(* entry of a status map is the number of the poll that made it, the first *)
(* ones those of an earlier process.  A status file is such a map, or torn.*)
(* Go's runtime may end the process when a map is read while it is being   *)
(* written; it does not have to.                                           *)
(***************************************************************************)
EXTENDS Integers, FiniteSets

CONSTANTS
    Blobs,     \* the log blobs
    MaxPolls,  \* bound: polls of a daemon
    Settings   \* the configurations that are tried

Configurations ==
    [command     : {"process", "service run"},
     daemon      : BOOLEAN,
     destination : {"file", "syslog", "other"},
     serveHttp   : BOOLEAN,
     configFile  : {"read", "none", "unreadable"},   \* unreadable: given with --config
     dataPath    : {"there", "missing", "no pattern"},  \* "" is there: "."
     account     : {"valid", "invalid"}]

ASSUME ProcessCmdAssumption == MaxPolls \in Nat \ {0} /\ Settings \subseteq Configurations

VARIABLES
    config,
    pc,          \* the main goroutine
    setUp,       \* what the root command has set up
    daemon,      \* the global variable
    client,      \* nsgAzureClient: "unset", "zero" after an error, "ready"
    destinations,\* the initialised ones of fileClient and syslogClient
    http,        \* the status server: "off", "starting", "on"
    polls,       \* how many polls have begun
    registered,  \* the job in RegisteredJobs, by the number of its poll
    status,      \* ProcessStatus of each job
    loaded,      \* the jobs that have been through LoadProcessStatus
    todo,        \* the blobs whose task has not ended
    storing,     \* the blobs whose entry the sink is writing: none or one
    disk,        \* the status file
    failed,      \* a read or a write of the status file has failed
    request      \* the request to the status endpoint

start  == <<config, setUp, daemon, client, destinations>>
jobs   == <<polls, registered, status, loaded>>
worker == <<todo, storing>>
file   == <<disk, failed>>
vars   == <<config, pc, setUp, daemon, client, destinations, http, polls,
            registered, status, loaded, todo, storing, disk, failed, request>>

Jobs   == 1..MaxPolls
NoJob  == 0
Absent == 0
Entries == 0..(MaxPolls + 1)   \* 0: absent, 1: of an earlier process
Maps   == [Blobs -> Entries]
Empty  == [b \in Blobs |-> Absent]
Torn   == [torn |-> TRUE]
File(map) == [torn |-> FALSE, map |-> map]

\* What ReadProcessStatus makes of the file; a torn one is an error.
OnDisk == IF disk = Torn THEN Empty ELSE disk.map

NoRequest == [at |-> "idle"]

SetUps == {"configuration", "data path", "log"}

Init ==
    /\ config \in Settings
    /\ pc = "preRun" /\ setUp = {} /\ daemon = config.daemon
    /\ client = "unset" /\ destinations = {} /\ http = "off"
    /\ polls = 0 /\ registered = NoJob /\ loaded = {}
    /\ status = [j \in Jobs |-> Empty]
    /\ todo = {} /\ storing = {}
    /\ disk \in {Torn} \cup {File(map) : map \in [Blobs -> {Absent, 1}]}
    /\ config.dataPath = "missing" => disk = File(Empty)
    /\ failed = FALSE
    /\ request = NoRequest

-----------------------------------------------------------------------------
(* Start-up *)

Goes(to) == pc' = to /\ UNCHANGED <<http, jobs, worker, file, request>>

\* Fatal: a file given with --config that cannot be read.
InitViperFails ==
    /\ config.configFile = "unreadable" /\ pc' = "fatal"
    /\ UNCHANGED setUp

\* initViper, initDataPath and initLogging.  Without --config a search that finds
\* no file is only logged; the error of making the data path is dropped; a data
\* path with a stray % in it makes no pattern for the log's names, which is fatal.
RootPreRun ==
    \/ InitViperFails
    \/ /\ config.configFile # "unreadable"
       /\ \E made \in SUBSET {"data path"} :
             /\ config.dataPath # "missing" => made # {}
             /\ setUp' = made
                  \cup {x \in {"configuration"} : config.configFile = "read"}
                  \cup {x \in {"log"} : config.dataPath # "no pattern"}
       /\ pc' = IF config.dataPath = "no pattern" THEN "fatal"
                ELSE IF config.command = "process" THEN "initClient" ELSE "serviceRun"

\* (Mutant: the command's own PersistentPreRun hides the root command's.)
OwnPreRun ==
    /\ pc = "preRun"
    /\ IF config.command = "process" THEN RootPreRun
       ELSE pc' = "serviceRun" /\ UNCHANGED setUp
    /\ UNCHANGED <<config, daemon, client, destinations, http, jobs, worker, file, request>>

\* That of the service command calls the root command's.
PersistentPreRun ==
    /\ pc = "preRun"
    /\ RootPreRun
    /\ UNCHANGED <<config, daemon, client, destinations, http, jobs, worker, file, request>>

\* NewAzureClient's error is only logged, and its zero client taken.
NewClient == client' = IF config.account = "valid" THEN "ready" ELSE "zero"

\* (Mutant: the flag is left as it was given.)
ServiceRunOnce ==
    /\ pc = "serviceRun" /\ Goes("initClient")
    /\ NewClient /\ destinations' = destinations \cup {"file"}
    /\ UNCHANGED <<config, setUp, daemon>>

\* The service makes both clients, and leaves the rest to the process command.
ServiceRun ==
    /\ pc = "serviceRun" /\ Goes("initClient")
    /\ NewClient /\ destinations' = destinations \cup {"file"}
    /\ daemon' = TRUE
    /\ UNCHANGED <<config, setUp>>

InitClient ==
    /\ pc = "initClient" /\ Goes("initDestination")
    /\ NewClient
    /\ UNCHANGED <<config, setUp, daemon, destinations>>

InitDestination ==
    /\ pc = "initDestination" /\ config.destination # "other"
    /\ Goes("startHttp")
    /\ destinations' = destinations \cup {config.destination}
    /\ UNCHANGED <<config, setUp, daemon, client>>

\* No such destination, or no syslog server to dial.
InitDestinationFails ==
    /\ pc = "initDestination" /\ config.destination # "file"
    /\ Goes("fatal")
    /\ UNCHANGED start

\* serve_http starts a goroutine; an error of the server goes to nobody.
StartHttp ==
    /\ pc = "startHttp" /\ pc' = "register"
    /\ http' = IF config.serveHttp THEN "starting" ELSE http
    /\ UNCHANGED <<start, jobs, worker, file, request>>

Alive == pc \notin {"ended", "fatal", "aborted"}

ListenAndServe ==
    /\ Alive /\ http = "starting" /\ http' \in {"on", "off"}
    /\ UNCHANGED <<start, pc, jobs, worker, file, request>>

-----------------------------------------------------------------------------
(* A poll: ProcessBlobsAfter, RunJob, Run and Complete                     *)

Polling == UNCHANGED <<start, http, request>>

Job == polls   \* the job of the present poll

\* The map of a zero client is nil, and an assignment to it a panic.
RegisterJobPanics ==
    /\ pc = "register" /\ client = "zero" /\ Goes("fatal")
    /\ UNCHANGED start

\* The write to RegisteredJobs begins, and ends.
RegisterJob ==
    /\ pc = "register" /\ client = "ready" /\ polls < MaxPolls
    /\ pc' = "registering" /\ polls' = polls + 1
    /\ Polling /\ UNCHANGED <<registered, status, loaded, worker, file>>

JobRegistered ==
    /\ pc = "registering" /\ pc' = "load"
    /\ registered' = Job
    /\ Polling /\ UNCHANGED <<polls, status, loaded, worker, file>>

\* The job's empty map is replaced by the file's, if that is one.  The listing
\* then gives the tasks.
LoadProcessStatus ==
    /\ pc = "load" /\ pc' = "run"
    /\ status' = [status EXCEPT ![Job] = OnDisk]
    /\ loaded' = loaded \cup {Job}
    /\ todo' \in SUBSET Blobs
    /\ Polling /\ UNCHANGED <<polls, registered, storing, file>>

\* The task's result goes to the sink, which begins to write the map.
TaskReports ==
    /\ pc = "run" /\ storing = {}
    /\ \E b \in todo : todo' = todo \ {b} /\ storing' = {b}
    /\ Polling /\ UNCHANGED <<pc, jobs, file>>

TaskHasNoResult ==
    /\ pc = "run"
    /\ \E b \in todo : todo' = todo \ {b}
    /\ Polling /\ UNCHANGED <<pc, jobs, storing, file>>

\* LoadBlobRange's Fatalf.
TaskExits ==
    /\ pc = "run" /\ todo # {} /\ Goes("fatal")
    /\ UNCHANGED start

SinkStores ==
    /\ Alive /\ storing # {} /\ storing' = {}
    /\ status' = [status EXCEPT ![Job] =
                    [b \in Blobs |-> IF b \in storing THEN Job + 1 ELSE @[b]]]
    /\ Polling /\ UNCHANGED <<pc, polls, registered, loaded, todo, file>>

TasksEnd ==
    /\ pc = "run" /\ todo = {} /\ Goes("awaitDone")
    /\ UNCHANGED start

\* (Mutant: Run does not wait for the sink.)
AwaitNothing ==
    /\ pc = "awaitDone" /\ Goes("truncate")
    /\ UNCHANGED start

AwaitDone ==
    /\ pc = "awaitDone" /\ storing = {} /\ Goes("truncate")
    /\ UNCHANGED start

\* ioutil.WriteFile opens and truncates the file, and then writes it.  Where there
\* is no data path it opens nothing, and no file is found.
TruncateStatus ==
    /\ pc = "truncate" /\ "data path" \in setUp /\ pc' = "write"
    /\ disk' = Torn
    /\ Polling /\ UNCHANGED <<jobs, worker, failed>>

WriteStatus ==
    /\ pc = "write" /\ pc' = "reload"
    /\ disk' = File(status[Job])
    /\ Polling /\ UNCHANGED <<jobs, worker, failed>>

\* The errors of both go to nobody.
OpenFails ==
    /\ pc = "truncate" /\ Goes("reload")
    /\ UNCHANGED start

WriteFails ==
    /\ pc = "write" /\ pc' = "reload"
    /\ failed' = TRUE
    /\ Polling /\ UNCHANGED <<jobs, worker, disk>>

\* (Mutant: the map is made anew, and filled later.)
ReloadEmpty ==
    /\ pc = "reload" /\ pc' = "sleep"
    /\ status' = [status EXCEPT ![Job] = Empty]
    /\ Polling /\ UNCHANGED <<polls, registered, loaded, worker, file>>

\* Complete reads the file back; after an error the job keeps its map.
Reload ==
    /\ pc = "reload" /\ pc' = "sleep"
    /\ status' = IF disk = Torn THEN status ELSE [status EXCEPT ![Job] = disk.map]
    /\ Polling /\ UNCHANGED <<polls, registered, loaded, worker, file>>

\* An error of reading the file, for the job or for Complete, is taken for a
\* file that is not there.
ReadFails ==
    /\ \/ pc = "load" /\ pc' = "run" /\ todo' \in SUBSET Blobs
       \/ pc = "reload" /\ pc' = "sleep" /\ UNCHANGED todo
    /\ failed' = TRUE
    /\ status' = [status EXCEPT ![Job] = Empty]
    /\ loaded' = loaded \cup {Job}
    /\ Polling /\ UNCHANGED <<polls, registered, storing, disk>>

\* A process that is no daemon ends after its first poll, and the server with it.
Sleep ==
    /\ pc = "sleep" /\ (daemon => polls < MaxPolls)
    /\ Goes(IF daemon THEN "register" ELSE "ended")
    /\ UNCHANGED start

-----------------------------------------------------------------------------
(* GetProcessStatus: json.Marshal of the jobs, read by read                *)

Handling == UNCHANGED <<start, http, jobs, worker, file>>

Aborts == pc' = "aborted" /\ UNCHANGED request

\* floor: what the disk had when the request came in.
Request ==
    /\ Alive /\ http = "on" /\ request.at \in {"idle", "answered", "failed"}
    /\ request' = [at |-> "registry", floor |-> OnDisk]
    /\ Handling /\ UNCHANGED pc

ReadRegistry ==
    /\ Alive /\ request.at = "registry"
    /\ \/ /\ request' = [at |-> "keys", floor |-> request.floor, job |-> registered]
          /\ UNCHANGED pc
       \/ pc = "registering" /\ Aborts
    /\ Handling

Written(job) == storing # {} /\ job = Job

\* MapKeys of the job's map.
ReadKeys ==
    /\ Alive /\ request.at = "keys" /\ request.job # NoJob
    /\ \/ /\ request' = [at |-> "entries", floor |-> request.floor,
                         job |-> request.job,
                         restored |-> request.job \in loaded,
                         keys |-> {b \in Blobs : status[request.job][b] # Absent},
                         answer |-> Empty]
          /\ UNCHANGED pc
       \/ Written(request.job) /\ Aborts
    /\ Handling

\* MapIndex looks the key up in the map that the job has by now; if that lacks
\* it, Marshal fails.
ReadEntry ==
    /\ Alive /\ request.at = "entries"
    /\ \E b \in request.keys :
          \/ /\ status[request.job][b] # Absent
             /\ request' = [request EXCEPT !.keys = @ \ {b},
                                           !.answer[b] = status[request.job][b]]
             /\ UNCHANGED pc
          \/ /\ status[request.job][b] = Absent
             /\ request' = [at |-> "failed"]
             /\ UNCHANGED pc
          \/ Written(request.job) /\ Aborts
    /\ Handling

\* Without a job there is nothing to marshal.
Answer ==
    /\ Alive
    /\ \/ /\ request.at = "keys" /\ request.job = NoJob
          /\ request' = [at |-> "answered", restored |-> FALSE]
       \/ /\ request.at = "entries" /\ request.keys = {}
          /\ request' = [at |-> "answered", restored |-> request.restored,
                         floor |-> request.floor, answer |-> request.answer]
    /\ Handling /\ UNCHANGED pc

-----------------------------------------------------------------------------
StartUp ==
    \/ PersistentPreRun \/ ServiceRun \/ InitClient
    \/ InitDestination \/ InitDestinationFails \/ StartHttp

Poll ==
    \/ RegisterJob \/ RegisterJobPanics \/ JobRegistered \/ LoadProcessStatus
    \/ TasksEnd \/ AwaitDone \/ TruncateStatus \/ WriteStatus \/ Reload \/ Sleep

Task == TaskReports \/ TaskHasNoResult \/ TaskExits

Handler == Request \/ ReadRegistry \/ ReadKeys \/ ReadEntry \/ Answer

Next ==
    \/ StartUp \/ Poll \/ OpenFails \/ WriteFails \/ ReadFails
    \/ Task \/ SinkStores
    \/ ListenAndServe \/ Handler

\* The Go scheduler runs main, worker and sink; every call of theirs returns.
Spec == Init /\ [][Next]_vars
          /\ WF_vars(StartUp \/ Poll \/ OpenFails) /\ WF_vars(Task) /\ WF_vars(SinkStores)

-----------------------------------------------------------------------------
(* Properties *)

RequestType ==
    {NoRequest, [at |-> "failed"], [at |-> "answered", restored |-> FALSE]}
      \cup [at : {"registry"}, floor : Maps]
      \cup [at : {"keys"}, floor : Maps, job : Jobs \cup {NoJob}]
      \cup [at : {"entries"}, floor : Maps, job : Jobs, restored : BOOLEAN,
            keys : SUBSET Blobs, answer : Maps]
      \cup [at : {"answered"}, floor : Maps, restored : BOOLEAN, answer : Maps]

\* Every variable has its type, and the sink writes only while a job runs.
TypeOK ==
    /\ config \in Configurations /\ setUp \subseteq SetUps /\ daemon \in BOOLEAN
    /\ pc \in {"preRun", "serviceRun", "initClient", "initDestination", "startHttp",
               "register", "registering", "load", "run", "awaitDone", "truncate",
               "write", "reload", "sleep", "ended", "fatal", "aborted"}
    /\ client \in {"unset", "zero", "ready"}
    /\ destinations \subseteq {"file", "syslog"}
    /\ http \in {"off", "starting", "on"}
    /\ polls \in 0..MaxPolls /\ registered \in 0..polls /\ loaded \subseteq 1..registered
    /\ status \in [Jobs -> Maps]
    /\ todo \subseteq Blobs /\ storing \subseteq Blobs
    /\ Cardinality(storing) <= 1
    /\ storing # {} => pc \in {"run", "awaitDone", "fatal", "aborted"}
    /\ disk = Torn \/ disk \in [torn : {FALSE}, map : Maps]
    /\ failed \in BOOLEAN
    /\ request \in RequestType

\* A poll gets to the container only in a process that logs, has read the file it
\* was given with --config, if one was, and has an Azure client and the client of
\* its destination, whichever command started it.  It may do so without any
\* configuration file, and without its data path: the code drops these errors.
ReadyToPoll ==
    pc \in {"load", "run", "awaitDone", "truncate", "write", "reload", "sleep"} =>
        /\ "log" \in setUp
        /\ "configuration" \in setUp \/ config.configFile = "none"
        /\ client = "ready" /\ config.destination \in destinations

\* As long as the status file can be read and written, an answer about a job
\* that has loaded its status shows no blob behind what was on disk when the
\* request came in, though it is read while the maps are exchanged and the file
\* is written.
NeverBehind ==
    request.at = "answered" /\ request.restored /\ ~failed =>
        \A b \in Blobs : request.answer[b] >= request.floor[b]

\* A status request that ends the process does not do so while the status file
\* is truncated: what was saved is there for the next process.
AbortKeepsDisk ==
    [][pc' = "aborted" /\ pc # "aborted" => pc # "write"]_vars

\* A daemon, and a service whatever its flags, goes on polling unless something
\* fatal happens; any other process polls once and ends.
KeepsPolling ==
    pc = "preRun" ~>
        \/ pc \in {"fatal", "aborted"}
        \/ /\ polls = (IF config.daemon \/ config.command = "service run"
                         THEN MaxPolls ELSE 1)
           /\ pc \in {"sleep", "ended"}
=============================================================================
