-------------------------- MODULE ProcessCmdProofs --------------------------
(* Theorems about ProcessCmd, for any set of blobs and number of polls: a   *)
(* poll is set up, an abort keeps the status file, the variables keep     *)
(* their types, and no status answer is behind the disk.                    *)
EXTENDS ProcessCmd, FiniteSetTheorems, TLAPS

-----------------------------------------------------------------------------
(* What a poll finds set up                                                 *)

\* What start-up has done by the time main is at a place, whichever command
\* started it.
Prepared ==
  /\ config \in Configurations
  /\ pc \notin {"preRun", "fatal", "aborted"} =>
        "log" \in setUp /\ ("configuration" \in setUp \/ config.configFile = "none")
  /\ pc \in {"initDestination", "startHttp", "register", "registering"} =>
        client \in {"zero", "ready"}
  /\ pc \in {"startHttp", "register", "registering", "load", "run", "awaitDone",
             "truncate", "write", "reload", "sleep"} =>
        config.destination \in destinations
  /\ pc \in {"registering", "load", "run", "awaitDone", "truncate", "write",
             "reload", "sleep"} => client = "ready"

LEMMA StartUpPrepared == ASSUME Prepared, StartUp PROVE Prepared'
  <1>1. CASE PersistentPreRun
        <2>1. /\ config' = config /\ config.configFile \in {"read", "none", "unreadable"}
              /\ pc' \in {"fatal", "initClient", "serviceRun"}
              BY <1>1 DEF Prepared, Configurations, PersistentPreRun, RootPreRun,
                 InitViperFails
        <2>2. pc' # "fatal" =>
                 "log" \in setUp' /\ ("configuration" \in setUp' \/ config.configFile = "none")
              BY <1>1, <2>1 DEF PersistentPreRun, RootPreRun, InitViperFails
        <2> QED BY <2>1, <2>2 DEF Prepared
  <1>2. CASE ServiceRun
        BY <1>2 DEF Prepared, ServiceRun, Goes
  <1>3. CASE InitClient
        BY <1>3 DEF Prepared, InitClient, NewClient, Goes
  <1>4. CASE InitDestination
        BY <1>4 DEF Prepared, InitDestination, Goes
  <1>5. CASE InitDestinationFails
        BY <1>5 DEF Prepared, InitDestinationFails, Goes, start
  <1>6. CASE StartHttp
        BY <1>6 DEF Prepared, StartHttp, start
  <1> QED BY <1>1, <1>2, <1>3, <1>4, <1>5, <1>6 DEF StartUp

LEMMA PollPrepared ==
  ASSUME Prepared, Poll \/ OpenFails \/ WriteFails \/ ReadFails PROVE Prepared'
  BY DEF Prepared, Poll, OpenFails, WriteFails, ReadFails, RegisterJob,
         RegisterJobPanics, JobRegistered, LoadProcessStatus, TasksEnd, AwaitDone,
         TruncateStatus, WriteStatus, Reload, Sleep, Goes, Polling, start

LEMMA OthersPrepared ==
  ASSUME Prepared, Task \/ SinkStores \/ ListenAndServe \/ Handler PROVE Prepared'
  BY DEF Prepared, Task, TaskReports, TaskHasNoResult, TaskExits, SinkStores,
         ListenAndServe, Handler, Request, ReadRegistry, ReadKeys, ReadEntry, Answer,
         Aborts, Handling, Goes, Polling, Alive, start

LEMMA NextPrepared == ASSUME Prepared, [Next]_vars PROVE Prepared'
  <1>1. CASE UNCHANGED vars
        BY <1>1 DEF Prepared, vars
  <1> QED BY <1>1, StartUpPrepared, PollPrepared, OthersPrepared DEF Next

\* Whichever command started it, a poll gets to the container only with the log, the
\* configuration file that was given, the Azure client and that of the destination.
THEOREM Ready == Spec => []ReadyToPoll
  <1>1. Init => Prepared
        BY ProcessCmdAssumption DEF Init, Prepared
  <1>2. Prepared => ReadyToPoll
        BY DEF Prepared, ReadyToPoll
  <1> QED BY <1>1, <1>2, NextPrepared, PTL DEF Spec

-----------------------------------------------------------------------------
(* An abort keeps the status file                                           *)

\* The sink writes only while tasks run or main waits for it.
SinkActive ==
  storing # {} => pc \in {"run", "awaitDone", "fatal", "aborted"}

LEMMA NextSinkActive == ASSUME SinkActive, [Next]_vars PROVE SinkActive'
  <1> USE DEF SinkActive
  <1>1. CASE StartUp
        BY <1>1 DEF StartUp, PersistentPreRun, RootPreRun, InitViperFails,
           ServiceRun, InitClient,
           InitDestination, InitDestinationFails, StartHttp, Goes, worker
  <1>2. CASE Poll \/ OpenFails \/ WriteFails \/ ReadFails
        BY <1>2 DEF Poll, OpenFails, WriteFails, ReadFails, RegisterJob,
           RegisterJobPanics, JobRegistered, LoadProcessStatus, TasksEnd, AwaitDone,
           TruncateStatus, WriteStatus, Reload, Sleep, Goes, worker
  <1>3. CASE Task \/ SinkStores \/ ListenAndServe
        BY <1>3 DEF Task, TaskReports, TaskHasNoResult, TaskExits, SinkStores,
           ListenAndServe, Goes, worker
  <1>4. CASE Handler
        BY <1>4 DEF Handler, Request, ReadRegistry, ReadKeys, ReadEntry, Answer,
           Aborts, Handling, worker
  <1>5. CASE UNCHANGED vars
        BY <1>5 DEF vars
  <1> QED BY <1>1, <1>2, <1>3, <1>4, <1>5 DEF Next

\* The runtime aborts the process only over a map that is being written, and
\* none is while the status file is truncated.
LEMMA AbortStep ==
  ASSUME SinkActive, [Next]_vars, pc' = "aborted", pc # "aborted" PROVE pc # "write"
  <1>1. CASE Handler
        BY <1>1 DEF SinkActive, Handler, Request, ReadRegistry, ReadKeys, ReadEntry,
           Answer, Written, Alive
  <1>2. CASE Next /\ ~Handler
        BY <1>2 DEF Next, StartUp, PersistentPreRun, RootPreRun, InitViperFails,
           ServiceRun, InitClient,
           InitDestination, InitDestinationFails, StartHttp, Poll, OpenFails,
           WriteFails, ReadFails, RegisterJob, RegisterJobPanics, JobRegistered,
           LoadProcessStatus, TasksEnd, AwaitDone, TruncateStatus, WriteStatus, Reload,
           Sleep, Task, TaskReports, TaskHasNoResult, TaskExits, SinkStores,
           ListenAndServe, Goes
  <1> QED BY <1>1, <1>2 DEF vars

\* A status request that ends the process leaves the status file as it was
\* saved, for any number of blobs and polls.
THEOREM AbortsKeepDisk == Spec => AbortKeepsDisk
  <1>1. Init => SinkActive
        BY DEF Init, SinkActive
  <1>2. SinkActive /\ [Next]_vars => [pc' = "aborted" /\ pc # "aborted" => pc # "write"]_vars
        BY AbortStep
  <1> QED BY <1>1, <1>2, NextSinkActive, PTL DEF Spec, AbortKeepsDisk

-----------------------------------------------------------------------------
(* Type correctness                                                         *)

\* The number of a poll, and what becomes of its job on the way.
Numbered ==
  /\ pc = "registering" => registered = polls - 1
  /\ pc \notin {"registering", "fatal", "aborted"} => registered = polls
  /\ pc \in {"registering", "load", "run", "awaitDone", "truncate", "write",
             "reload", "sleep"} => polls \in Jobs
  /\ pc \in {"run", "awaitDone", "truncate", "write", "reload", "sleep"} =>
        polls \in loaded

TypeInv == TypeOK /\ Numbered

LEMMA MapFacts == Empty \in Maps /\ (disk = Torn \/ disk.map \in Maps => OnDisk \in Maps)
  BY ProcessCmdAssumption DEF Empty, Maps, Entries, Absent, OnDisk

LEMMA InitType == Init => TypeInv
  <1> SUFFICES ASSUME Init PROVE TypeInv
      OBVIOUS
  <1> USE ProcessCmdAssumption DEF Init
  <1>1. status \in [Jobs -> Maps]
        BY MapFacts
  <1>2. disk = Torn \/ disk \in [torn : {FALSE}, map : Maps]
        <2>1. [Blobs -> {Absent, 1}] \subseteq Maps
              BY DEF Maps, Entries, Absent
        <2>2. CASE disk = Torn
              BY <2>2
        <2>3. CASE disk \in {File(map) : map \in [Blobs -> {Absent, 1}]}
              <3>1. PICK map \in [Blobs -> {Absent, 1}] : disk = File(map)
                    BY <2>3
              <3> QED BY <2>1, <3>1 DEF File
        <2> QED BY <2>2, <2>3
  <1>3. Cardinality(storing) <= 1
        BY FS_EmptySet
  <1>4. request \in RequestType
        BY DEF RequestType
  <1>5. config.daemon \in BOOLEAN
        BY DEF Configurations
  <1>6. TypeOK
        <2>1. polls \in 0..MaxPolls /\ registered \in 0..polls /\ loaded \subseteq 1..registered
              BY DEF NoJob
        <2> QED BY <1>1, <1>2, <1>3, <1>4, <1>5, <2>1 DEF TypeOK
  <1>7. Numbered
        BY DEF Numbered, NoJob
  <1> QED BY <1>6, <1>7 DEF TypeInv

LEMMA StartUpType == ASSUME TypeInv, StartUp PROVE TypeInv'
  <1> USE DEF TypeInv
  <1>1. UNCHANGED <<jobs, worker, file, request>>
        BY DEF StartUp, PersistentPreRun, ServiceRun, InitClient, InitDestination,
               InitDestinationFails, StartHttp, Goes
  <1>2. /\ pc \in {"preRun", "serviceRun", "initClient", "initDestination", "startHttp"}
        /\ pc' \in {"serviceRun", "initClient", "initDestination", "startHttp",
                    "register", "fatal"}
        BY DEF StartUp, PersistentPreRun, RootPreRun, InitViperFails, ServiceRun, InitClient,
               InitDestination, InitDestinationFails, StartHttp, Goes
  <1>3. /\ config' = config /\ http' \in {"off", "starting", "on"}
        /\ setUp' \subseteq SetUps /\ daemon' \in BOOLEAN
        /\ client' \in {"unset", "zero", "ready"}
        /\ destinations' \subseteq {"file", "syslog"}
        <2> USE DEF TypeOK
        <2>1. CASE PersistentPreRun
              BY <2>1 DEF PersistentPreRun, RootPreRun, InitViperFails, SetUps
        <2>2. CASE ServiceRun
              BY <2>2 DEF ServiceRun, NewClient, Goes
        <2>3. CASE InitClient
              BY <2>3 DEF InitClient, NewClient, Goes
        <2>4. CASE InitDestination
              <3>1. config.destination \in {"file", "syslog"}
                    BY <2>4 DEF InitDestination, Configurations
              <3> QED BY <2>4, <3>1 DEF InitDestination, Goes
        <2>5. CASE InitDestinationFails
              BY <2>5 DEF InitDestinationFails, start, Goes
        <2>6. CASE StartHttp
              BY <2>6 DEF StartHttp, start
        <2> QED BY <2>1, <2>2, <2>3, <2>4, <2>5, <2>6 DEF StartUp
  <1>4. storing = {}
        BY <1>2 DEF TypeOK
  <1> QED BY <1>1, <1>2, <1>3, <1>4 DEF TypeOK, Numbered, jobs, worker, file, Jobs, Maps

\* What a step of a poll leaves alone.
LEMMA PollFrame ==
  ASSUME TypeInv, Poll \/ Task \/ SinkStores \/ OpenFails \/ WriteFails \/ ReadFails
  PROVE  UNCHANGED <<start, http, request>>
  BY DEF Poll, Task, OpenFails, WriteFails, ReadFails, RegisterJob,
         RegisterJobPanics, JobRegistered, LoadProcessStatus, TasksEnd, AwaitDone,
         TruncateStatus, WriteStatus, Reload, Sleep, TaskReports, TaskHasNoResult,
         TaskExits, SinkStores, Goes, Polling

Places ==
  {"preRun", "serviceRun", "initClient", "initDestination", "startHttp", "register",
   "registering", "load", "run", "awaitDone", "truncate", "write", "reload", "sleep",
   "ended", "fatal", "aborted"}

\* A step that leaves the configuration, the jobs, the worker and the file alone.
LEMMA FrameType ==
  ASSUME TypeOK, UNCHANGED <<start, jobs, worker, file>>,
         http' \in {"off", "starting", "on"}, request' \in RequestType, pc' \in Places,
         storing # {} => pc' \in {"run", "awaitDone", "fatal", "aborted"}
  PROVE  TypeOK'
  <1>1. /\ UNCHANGED <<config, setUp, daemon, client, destinations>>
        /\ UNCHANGED <<polls, registered, status, loaded, todo, storing, disk, failed>>
        BY DEF start, jobs, worker, file
  <1>2. /\ config' \in Configurations /\ setUp' \subseteq SetUps /\ daemon' \in BOOLEAN
        /\ client' \in {"unset", "zero", "ready"}
        /\ destinations' \subseteq {"file", "syslog"}
        BY <1>1 DEF TypeOK
  <1>3. /\ polls' \in 0..MaxPolls /\ registered' \in 0..polls'
        /\ loaded' \subseteq 1..registered' /\ status' \in [Jobs -> Maps]
        BY <1>1 DEF TypeOK
  <1>4. todo' \subseteq Blobs /\ storing' \subseteq Blobs /\ Cardinality(storing') <= 1
        BY <1>1 DEF TypeOK
  <1>5. (disk' = Torn \/ disk' \in [torn : {FALSE}, map : Maps]) /\ failed' \in BOOLEAN
        BY <1>1 DEF TypeOK
  <1>6. storing' # {} => pc' \in {"run", "awaitDone", "fatal", "aborted"}
        BY <1>1
  <1> HIDE DEF Configurations, Jobs, Maps, RequestType
  <1> QED BY <1>2, <1>3, <1>4, <1>5, <1>6 DEF TypeOK, Places

LEMMA PollType ==
  ASSUME TypeInv, Poll \/ OpenFails \/ WriteFails \/ ReadFails PROVE TypeInv'
  <1> USE ProcessCmdAssumption DEF TypeInv, TypeOK, Job
  <1>1. UNCHANGED <<start, http, request>>
        BY PollFrame
  <1>2. OnDisk \in Maps /\ Empty \in Maps
        BY MapFacts
  <1>3. CASE RegisterJobPanics \/ TasksEnd \/ AwaitDone \/ OpenFails \/ Sleep
        <2>1. UNCHANGED <<start, jobs, worker, file, http>>
              BY <1>1, <1>3 DEF RegisterJobPanics, TasksEnd, AwaitDone, OpenFails, Sleep,
                 Goes
        <2>2. pc' \in Places
                /\ (storing # {} => pc' \in {"run", "awaitDone", "fatal", "aborted"})
              BY <1>3 DEF RegisterJobPanics, TasksEnd, AwaitDone, OpenFails, Sleep, Goes,
                 Places
        <2>3. http' \in {"off", "starting", "on"} /\ request' \in RequestType
              BY <1>1
        <2>4. TypeOK
              OBVIOUS
        <2>5. TypeOK'
              <3> HIDE DEF TypeOK, TypeInv
              <3> QED BY <2>1, <2>2, <2>3, <2>4, FrameType
        <2>6. Numbered'
              BY <1>3, <2>1 DEF RegisterJobPanics, TasksEnd, AwaitDone, OpenFails, Sleep,
                 Goes, Numbered, jobs
        <2> QED BY <2>5, <2>6
  <1>4. CASE RegisterJob
        <2>1. polls' \in Jobs /\ polls' \in 0..MaxPolls /\ registered \in 0..polls'
                /\ registered = polls' - 1
              BY <1>4 DEF RegisterJob, Jobs, Numbered
        <2> QED BY <1>1, <1>4, <2>1 DEF RegisterJob, start, worker, file, Numbered
  <1>5. CASE JobRegistered
        <2>1. registered' = polls /\ registered' \in 0..polls /\ loaded \subseteq 1..registered'
              BY <1>5 DEF JobRegistered, Numbered
        <2> QED BY <1>1, <1>5, <2>1 DEF JobRegistered, start, worker, file, Numbered
  <1>6. CASE LoadProcessStatus
        <2>1. loaded' \subseteq 1..registered /\ polls \in loaded'
              BY <1>6 DEF LoadProcessStatus, Numbered, Jobs
        <2>2. status' \in [Jobs -> Maps]
              BY <1>2, <1>6 DEF LoadProcessStatus
        <2>3. todo' \subseteq Blobs
              BY <1>6 DEF LoadProcessStatus
        <2> QED BY <1>1, <1>6, <2>1, <2>2, <2>3 DEF LoadProcessStatus, start, file, Numbered
  <1>7. CASE TruncateStatus
        BY <1>1, <1>7 DEF TruncateStatus, start, jobs, worker, Numbered
  <1>8. CASE WriteStatus
        BY <1>1, <1>8 DEF WriteStatus, File, start, jobs, worker, Numbered
  <1>9. CASE WriteFails
        BY <1>1, <1>9 DEF WriteFails, start, jobs, worker, Numbered
  <1>10. CASE Reload
        BY <1>1, <1>2, <1>10 DEF Reload, start, worker, file, Numbered
  <1>11. CASE ReadFails
        <2>1. pc \in {"load", "reload"} /\ pc' = (IF pc = "load" THEN "run" ELSE "sleep")
              BY <1>11 DEF ReadFails
        <2>2. loaded' \subseteq 1..registered /\ polls \in loaded'
              BY <1>11, <2>1 DEF ReadFails, Numbered, Jobs
        <2>3. status' \in [Jobs -> Maps]
              BY <1>2, <1>11 DEF ReadFails
        <2>4. todo' \subseteq Blobs
              BY <1>11 DEF ReadFails
        <2> QED BY <1>1, <1>11, <2>1, <2>2, <2>3, <2>4 DEF ReadFails, start, Numbered
  <1> QED BY <1>3, <1>4, <1>5, <1>6, <1>7, <1>8, <1>9, <1>10, <1>11 DEF Poll

LEMMA TaskType == ASSUME TypeInv, Task \/ SinkStores PROVE TypeInv'
  <1> USE ProcessCmdAssumption DEF TypeInv, TypeOK, Job
  <1>1. UNCHANGED <<start, http, request>>
        BY PollFrame
  <1>2. CASE TaskReports
        <2>1. storing' \subseteq Blobs /\ todo' \subseteq Blobs /\ Cardinality(storing') <= 1
              <3>1. PICK b \in todo : todo' = todo \ {b} /\ storing' = {b}
                    BY <1>2 DEF TaskReports
              <3>2. Cardinality(storing') = 1
                    BY <3>1, FS_Singleton
              <3> QED BY <3>1, <3>2
        <2> QED BY <1>1, <1>2, <2>1 DEF TaskReports, start, jobs, file, Numbered
  <1>3. CASE TaskHasNoResult
        BY <1>1, <1>3 DEF TaskHasNoResult, start, jobs, file, Numbered
  <1>4. CASE TaskExits
        BY <1>1, <1>4 DEF TaskExits, Goes, start, jobs, worker, file, Numbered
  <1>5. CASE SinkStores
        <2>1. polls + 1 \in Entries
              BY DEF Entries
        <2>2. status' \in [Jobs -> Maps]
              BY <1>5, <2>1 DEF SinkStores, Maps
        <2>3. Cardinality(storing') <= 1
              BY <1>5, FS_EmptySet DEF SinkStores
        <2> QED BY <1>1, <1>5, <2>2, <2>3 DEF SinkStores, start, file, Numbered
  <1> QED BY <1>2, <1>3, <1>4, <1>5 DEF Task

-----------------------------------------------------------------------------
(* The request, by where it is *)

LEMMA RequestKinds ==
  ASSUME request \in RequestType
  PROVE  /\ request.at \in {"idle", "registry", "keys", "entries", "answered", "failed"}
         /\ request.at \in {"registry", "keys", "entries"} => request.floor \in Maps
         /\ request.at = "keys" => request.job \in Jobs \cup {NoJob}
         /\ request.at = "entries" =>
               request \in [at : {"entries"}, floor : Maps, job : Jobs,
                            restored : BOOLEAN, keys : SUBSET Blobs, answer : Maps]
         /\ request.at = "answered" => request.restored \in BOOLEAN
         /\ request.at = "answered" /\ request.restored =>
               request.floor \in Maps /\ request.answer \in Maps
  <1>1. CASE request = NoRequest
        BY <1>1 DEF NoRequest
  <1>6. CASE request = [at |-> "failed"]
        BY <1>6
  <1>7. CASE request = [at |-> "answered", restored |-> FALSE]
        BY <1>7
  <1>2. CASE request \in [at : {"registry"}, floor : Maps]
        BY <1>2
  <1>3. CASE request \in [at : {"keys"}, floor : Maps, job : Jobs \cup {NoJob}]
        BY <1>3
  <1>4. CASE request \in [at : {"entries"}, floor : Maps, job : Jobs, restored : BOOLEAN,
                          keys : SUBSET Blobs, answer : Maps]
        BY <1>4
  <1>5. CASE request \in [at : {"answered"}, floor : Maps, restored : BOOLEAN, answer : Maps]
        BY <1>5
  <1> QED BY <1>1, <1>2, <1>3, <1>4, <1>5, <1>6, <1>7 DEF RequestType

LEMMA HandlerType == ASSUME TypeInv, Handler \/ ListenAndServe PROVE TypeInv'
  <1> USE DEF TypeInv
  <1>1. CASE ListenAndServe
        <2>1. TypeOK'
              BY <1>1, ZenonT(60) DEF ListenAndServe, TypeOK, start, jobs, worker, file
        <2>2. Numbered'
              BY <1>1 DEF ListenAndServe, Numbered, jobs
        <2> QED BY <2>1, <2>2
  <1>2. CASE Handler
    <2>1. UNCHANGED <<start, http, jobs, worker, file>> /\ pc' \in {pc, "aborted"}
          BY <1>2 DEF Handler, Request, ReadRegistry, ReadKeys, ReadEntry, Answer,
             Aborts, Handling
    <2>2. request' \in RequestType
      <3>1. CASE UNCHANGED request
            BY <3>1 DEF TypeOK, RequestType, Maps, Entries, Jobs, NoRequest, NoJob
      <3>2. CASE Request
            BY <3>2, MapFacts DEF Request, RequestType, TypeOK
      <3>3. CASE ReadRegistry
            <4>1. registered \in Jobs \cup {NoJob}
                  BY ProcessCmdAssumption DEF TypeOK, Jobs, NoJob
            <4> QED BY <3>1, <3>3, <4>1, RequestKinds DEF ReadRegistry, Aborts, RequestType, TypeOK
      <3>4. CASE ReadKeys /\ ~UNCHANGED request
            <4>1. request.floor \in Maps /\ request.job \in Jobs /\ Empty \in Maps
                  BY <3>4, RequestKinds, MapFacts DEF ReadKeys, TypeOK
            <4>  DEFINE restored == request.job \in loaded
                         keys == {b \in Blobs : status[request.job][b] # Absent}
            <4>3. request' = [at |-> "entries", floor |-> request.floor, job |-> request.job,
                              restored |-> restored, keys |-> keys, answer |-> Empty]
                  BY <3>4 DEF ReadKeys, Aborts
            <4>4. restored \in BOOLEAN /\ keys \in SUBSET Blobs
                  OBVIOUS
            <4> HIDE DEF restored, keys
            <4>5. request' \in [at : {"entries"}, floor : Maps, job : Jobs,
                                restored : BOOLEAN, keys : SUBSET Blobs, answer : Maps]
                  BY <4>1, <4>3, <4>4
            <4> QED BY <4>5 DEF RequestType
      <3>5. CASE ReadEntry /\ ~UNCHANGED request
            <4>1. CASE request' = [at |-> "failed"]
                  BY <4>1 DEF RequestType
            <4>2. CASE request' # [at |-> "failed"]
                  <5>1. PICK b \in request.keys :
                           request' = [request EXCEPT !.keys = @ \ {b},
                                          !.answer[b] = status[request.job][b]]
                        BY <3>5, <4>2 DEF ReadEntry, Aborts
                  <5>2. request \in [at : {"entries"}, floor : Maps, job : Jobs,
                                     restored : BOOLEAN, keys : SUBSET Blobs,
                                     answer : Maps]
                        BY <3>5, RequestKinds DEF ReadEntry, TypeOK
                  <5>3. b \in Blobs /\ status[request.job][b] \in Entries
                        BY <5>1, <5>2 DEF TypeOK, Maps
                  <5>4. request' \in [at : {"entries"}, floor : Maps, job : Jobs,
                                      restored : BOOLEAN, keys : SUBSET Blobs,
                                      answer : Maps]
                        BY <5>1, <5>2, <5>3 DEF Maps
                  <5> QED BY <5>4 DEF RequestType
            <4> QED BY <4>1, <4>2
      <3>6. CASE Answer
            BY <3>6, RequestKinds DEF Answer, RequestType, TypeOK
      <3> QED BY <1>2, <3>1, <3>2, <3>3, <3>4, <3>5, <3>6 DEF Handler
    <2>3. TypeOK'
          <3>1. /\ http' \in {"off", "starting", "on"} /\ pc \in Places
                /\ storing # {} => pc \in {"run", "awaitDone", "fatal", "aborted"}
                BY <2>1 DEF TypeOK, Places
          <3>2. pc' \in Places
                /\ (storing # {} => pc' \in {"run", "awaitDone", "fatal", "aborted"})
                BY <2>1, <3>1 DEF Places
          <3> QED BY <2>1, <2>2, <3>1, <3>2, FrameType
    <2>4. Numbered'
          BY <2>1 DEF Numbered, jobs, Jobs
    <2> QED BY <2>3, <2>4
  <1> QED BY <1>1, <1>2

LEMMA NextType == ASSUME TypeInv, [Next]_vars PROVE TypeInv'
  <1>1. CASE UNCHANGED vars
        <2>1. TypeOK'
              BY <1>1, ZenonT(60) DEF vars, TypeInv, TypeOK
        <2>2. Numbered'
              BY <1>1 DEF vars, TypeInv, Numbered
        <2> QED BY <2>1, <2>2 DEF TypeInv
  <1> QED BY <1>1, StartUpType, PollType, TaskType, HandlerType DEF Next

\* The variables keep their types; the sink stores only while a job runs, and
\* one entry at a time.
THEOREM TypeCorrect == Spec => []TypeOK
  <1>1. TypeInv => TypeOK
        BY DEF TypeInv
  <1> QED BY <1>1, InitType, NextType, PTL DEF Spec

-----------------------------------------------------------------------------
(* No answer is behind the disk                                             *)

AtLeast(map, floor) == \A b \in Blobs : map[b] >= floor[b]

\* What the disk has, or is about to have.
Base == IF pc = "write" THEN status[Job] ELSE OnDisk

\* No entry is of a later poll.
Bounded ==
  /\ \A j \in Jobs, b \in Blobs : status[j][b] <= polls + 1
  /\ \A b \in Blobs : OnDisk[b] <= polls + 1

Truncated == pc = "write" => disk = Torn

\* The registered job is not behind the disk once it has loaded its status.
JobAhead == registered \in loaded => AtLeast(status[registered], Base)

\* The disk does not fall behind a request; neither does the job it looks at, nor
\* what it has read of it.
RequestAhead ==
  /\ request.at \in {"registry", "keys", "entries"} => AtLeast(Base, request.floor)
  /\ request.at = "keys" /\ request.job \in loaded =>
        AtLeast(status[request.job], request.floor)
  /\ request.at = "entries" /\ request.restored =>
        /\ request.job \in loaded
        /\ AtLeast(status[request.job], request.floor)
        /\ \A b \in Blobs \ request.keys : request.answer[b] >= request.floor[b]
  /\ request.at = "answered" /\ request.restored =>
        AtLeast(request.answer, request.floor)

Ahead == Bounded /\ Truncated /\ (~failed => JobAhead /\ RequestAhead)

\* The steps that touch the maps, the file or the registry.
Changes ==
  \/ RegisterJob \/ JobRegistered \/ LoadProcessStatus \/ SinkStores
  \/ TruncateStatus \/ WriteStatus \/ Reload \/ WriteFails \/ ReadFails

LEMMA StepKinds ==
  ASSUME SinkActive, [Next]_vars
  PROVE  \/ Changes /\ UNCHANGED request
         \/ UNCHANGED <<jobs, file>> /\ (pc' = "write" <=> pc = "write")
              /\ (UNCHANGED request \/ Handler)
  <1>1. CASE StartUp \/ ListenAndServe
        BY <1>1 DEF StartUp, PersistentPreRun, RootPreRun, InitViperFails,
           ServiceRun, InitClient,
           InitDestination, InitDestinationFails, StartHttp, ListenAndServe, Goes
  <1>2. CASE Changes
        BY <1>2 DEF Changes, RegisterJob, JobRegistered, LoadProcessStatus, SinkStores,
           TruncateStatus, WriteStatus, Reload, WriteFails, ReadFails, Polling
  <1>3. CASE (Poll \/ OpenFails \/ Task) /\ ~Changes
        BY <1>3 DEF Changes, Poll, OpenFails, Task, RegisterJobPanics, TasksEnd,
           AwaitDone, Sleep, TaskReports, TaskHasNoResult, TaskExits, Goes, Polling,
           jobs, file
  <1>4. CASE Handler
        BY <1>4 DEF Handler, Request, ReadRegistry, ReadKeys, ReadEntry, Answer,
           Aborts, Handling, Written, SinkActive, Alive
  <1>5. CASE UNCHANGED vars
        BY <1>5 DEF vars, jobs, file
  <1> QED BY <1>1, <1>2, <1>3, <1>4, <1>5 DEF Next, Changes

LEMMA AtLeastFacts ==
  /\ \A m \in Maps : AtLeast(m, m)
  /\ \A m \in Maps, n \in Maps, o \in Maps :
        AtLeast(m, n) /\ AtLeast(n, o) => AtLeast(m, o)
  /\ \A m \in Maps : AtLeast(m, Empty)
  BY ProcessCmdAssumption DEF AtLeast, Maps, Entries, Empty, Absent

LEMMA BaseType ==
  ASSUME TypeInv
  PROVE  OnDisk \in Maps /\ Base \in Maps /\ (pc = "write" => Job = registered)
  <1>1. OnDisk \in Maps
        BY MapFacts DEF TypeInv, TypeOK
  <1>2. CASE pc = "write"
        BY <1>1, <1>2 DEF Base, TypeInv, TypeOK, Numbered, Job
  <1>3. CASE pc # "write"
        BY <1>1, <1>3 DEF Base
  <1> QED BY <1>1, <1>2, <1>3

\* A job that has loaded its status keeps up with the disk it was loaded from.
KeepsUp ==
  \A j \in loaded' :
     \/ j \in loaded /\ AtLeast(status'[j], status[j])
     \/ AtLeast(status'[j], Base)

LEMMA RequestKeepsUp ==
  ASSUME TypeInv, TypeInv', RequestAhead, UNCHANGED request,
         loaded \subseteq loaded', AtLeast(Base', Base), KeepsUp
  PROVE  RequestAhead'
  <1>1. /\ request.at \in {"registry", "keys", "entries"} => request.floor \in Maps
        /\ request.at \in {"keys", "entries"} => request.job \in Jobs \cup {NoJob}
        BY RequestKinds DEF TypeInv, TypeOK
  <1>2. Base \in Maps /\ Base' \in Maps
        <2>1. Base \in Maps /\ Empty \in Maps
              BY BaseType, MapFacts
        <2>2. OnDisk' \in Maps
              BY <2>1 DEF TypeInv, TypeOK, OnDisk
        <2>3. pc' = "write" => status[Job]' \in Maps
              BY DEF TypeInv, TypeOK, Numbered, Job
        <2> QED BY <2>1, <2>2, <2>3 DEF Base
  <1>3. ASSUME request.at \in {"registry", "keys", "entries"}
        PROVE  AtLeast(Base', request.floor)
        BY <1>1, <1>2, <1>3, AtLeastFacts DEF RequestAhead
  <1>4. loaded' \subseteq Jobs /\ \A j \in Jobs : status[j] \in Maps /\ status'[j] \in Maps
        BY ProcessCmdAssumption DEF TypeInv, TypeOK, Jobs
  <1>5. ASSUME request.at \in {"keys", "entries"}, request.job \in loaded',
               request.job \in loaded => AtLeast(status[request.job], request.floor)
        PROVE  AtLeast(status'[request.job], request.floor)
        <2>1. AtLeast(Base, request.floor)
              BY <1>5 DEF RequestAhead
        <2>2. CASE request.job \in loaded /\ AtLeast(status'[request.job], status[request.job])
              BY <1>1, <1>4, <1>5, <2>2, AtLeastFacts
        <2>3. CASE AtLeast(status'[request.job], Base)
              BY <1>1, <1>2, <1>4, <1>5, <2>1, <2>3, AtLeastFacts
        <2> QED BY <1>5, <2>2, <2>3 DEF KeepsUp
  <1> QED BY <1>3, <1>5 DEF RequestAhead

LEMMA BoundedStep ==
  ASSUME TypeInv, TypeInv', Bounded, Changes PROVE Bounded'
  <1> USE DEF Bounded
  <1>1. polls \in Nat /\ polls' \in Nat
        BY ProcessCmdAssumption DEF TypeInv, TypeOK
  <1>2. \A b \in Blobs : Empty[b] <= polls + 1
        BY <1>1 DEF Empty, Absent
  <1>3. \A j \in Jobs, b \in Blobs : status[j][b] \in Nat /\ OnDisk[b] \in Nat
        <2>1. OnDisk \in Maps /\ status \in [Jobs -> Maps]
              BY BaseType DEF TypeInv, TypeOK
        <2> QED BY <2>1, ProcessCmdAssumption DEF Maps, Entries
  <1>4. status \in [Jobs -> Maps]
        BY DEF TypeInv, TypeOK
  <1>5. CASE RegisterJob
        <2>1. polls' = polls + 1
              BY <1>5 DEF RegisterJob
        <2>2. status' = status /\ OnDisk' = OnDisk
              BY <1>5 DEF RegisterJob, OnDisk, file
        <2>3. ASSUME NEW n \in Nat, n <= polls + 1 PROVE n <= polls' + 1
              <3> HIDE DEF Bounded
              <3> QED BY <1>1, <2>1, <2>3
        <2>4. ASSUME NEW j \in Jobs, NEW b \in Blobs
              PROVE  status'[j][b] <= polls' + 1 /\ OnDisk'[b] <= polls' + 1
              BY <1>3, <2>2, <2>3
        <2>5. 1 \in Jobs
              BY ProcessCmdAssumption DEF Jobs
        <2> QED BY <2>4, <2>5
  <1>6. CASE JobRegistered
        BY <1>6 DEF JobRegistered, OnDisk, file
  <1>7. CASE LoadProcessStatus
        BY <1>4, <1>7 DEF LoadProcessStatus, OnDisk, file
  <1>8. CASE SinkStores
        BY <1>1, <1>4, <1>8 DEF SinkStores, OnDisk, file, Job
  <1>9. CASE TruncateStatus
        BY <1>2, <1>9 DEF TruncateStatus, OnDisk, jobs
  <1>10. CASE WriteStatus
        <2>1. Job \in Jobs
              BY <1>10 DEF WriteStatus, TypeInv, Numbered, Job
        <2> QED BY <1>2, <1>10, <2>1 DEF WriteStatus, OnDisk, File, Torn, jobs
  <1>11. CASE Reload
        BY <1>4, <1>11 DEF Reload, OnDisk, file
  <1>12. CASE WriteFails
        BY <1>12 DEF WriteFails, OnDisk, jobs
  <1>13. CASE ReadFails
        BY <1>2, <1>4, <1>13 DEF ReadFails, OnDisk
  <1> QED BY <1>5, <1>6, <1>7, <1>8, <1>9, <1>10, <1>11, <1>12, <1>13 DEF Changes

LEMMA ChangeKeepsUp ==
  ASSUME TypeInv, TypeInv', SinkActive, Bounded, JobAhead, Changes, ~failed'
  PROVE  /\ loaded \subseteq loaded' /\ AtLeast(Base', Base)
         /\ KeepsUp /\ JobAhead'
  <1>1. /\ loaded \subseteq 1..registered /\ loaded' \subseteq Jobs
        /\ registered \in 0..polls /\ polls \in 0..MaxPolls
        /\ status \in [Jobs -> Maps] /\ \A j \in Jobs : AtLeast(status[j], status[j])
        BY ProcessCmdAssumption, AtLeastFacts DEF TypeInv, TypeOK, Jobs
  <1>2. OnDisk \in Maps /\ Base \in Maps /\ AtLeast(Base, Base) /\ AtLeast(OnDisk, OnDisk)
        BY BaseType, AtLeastFacts
  <1>3. CASE RegisterJob
        <2>1. status' = status /\ loaded' = loaded /\ registered' = registered /\ Base' = Base
              BY <1>3 DEF RegisterJob, file, OnDisk, Base
        <2> QED BY <1>1, <1>2, <2>1 DEF KeepsUp, JobAhead
  <1>4. CASE JobRegistered
        <2>1. status' = status /\ loaded' = loaded /\ Base' = Base
              BY <1>4 DEF JobRegistered, file, OnDisk, Base
        <2>2. registered' \notin loaded'
              <3>1. registered' = polls /\ registered = polls - 1
                    BY <1>4 DEF JobRegistered, TypeInv, Numbered, Job
              <3> QED BY <1>1, <2>1, <3>1
        <2> QED BY <1>1, <1>2, <2>1, <2>2 DEF KeepsUp, JobAhead
  <1>5. CASE LoadProcessStatus
        <2>1. loaded' = loaded \cup {Job} /\ Base' = OnDisk /\ Base = OnDisk
              BY <1>5 DEF LoadProcessStatus, file, OnDisk, Base
        <2>2. registered' = Job /\ Job \in Jobs
              BY <1>5 DEF LoadProcessStatus, TypeInv, Numbered, Job
        <2>3. status'[Job] = OnDisk /\ \A j \in Jobs \ {Job} : status'[j] = status[j]
              BY <1>1, <1>5, <2>2 DEF LoadProcessStatus
        <2> QED BY <1>1, <1>2, <2>1, <2>2, <2>3 DEF KeepsUp, JobAhead
  <1>6. CASE SinkStores
        <2>1. loaded' = loaded /\ registered' = registered /\ Base' = Base
              BY <1>6 DEF SinkStores, SinkActive, file, OnDisk, Base
        <2>2. \A j \in Jobs : AtLeast(status'[j], status[j])
              <3> SUFFICES ASSUME NEW j \in Jobs, NEW b \in Blobs
                           PROVE  status'[j][b] >= status[j][b]
                  BY DEF AtLeast
              <3>1. status[j][b] \in Nat /\ polls \in Nat /\ status[j][b] <= polls + 1
                    BY <1>1, ProcessCmdAssumption DEF Maps, Entries, Bounded
              <3>2. status'[j][b] = status[j][b] \/ status'[j][b] = polls + 1
                    BY <1>1, <1>6 DEF SinkStores, Job
              <3> QED BY <3>1, <3>2
        <2>3. registered \in loaded => AtLeast(status'[registered], Base)
              <3>1. status' \in [Jobs -> Maps]
                    BY DEF TypeInv, TypeOK
              <3> QED BY <1>1, <1>2, <2>1, <2>2, <3>1, AtLeastFacts DEF JobAhead
        <2> QED BY <1>1, <1>2, <2>1, <2>2, <2>3 DEF KeepsUp, JobAhead
  <1>7. CASE TruncateStatus
        <2>1. status' = status /\ loaded' = loaded /\ registered' = registered
                /\ Base' = status[Job] /\ Base = OnDisk
              BY <1>7 DEF TruncateStatus, jobs, OnDisk, Base, Job
        <2>2. registered = Job /\ Job \in loaded
              BY <1>7 DEF TruncateStatus, TypeInv, Numbered, Job
        <2> QED BY <1>1, <2>1, <2>2 DEF KeepsUp, JobAhead
  <1>8. CASE WriteStatus
        <2>1. status' = status /\ loaded' = loaded /\ registered' = registered
                /\ Base = status[Job] /\ Base' = status[Job]
              BY <1>8 DEF WriteStatus, jobs, File, Torn, OnDisk, Base
        <2> QED BY <1>1, <1>2, <2>1 DEF KeepsUp, JobAhead
  <1>9. CASE Reload
        <2>1. loaded' = loaded /\ registered' = registered
                /\ Base' = OnDisk /\ Base = OnDisk
              BY <1>9 DEF Reload, file, OnDisk, Base
        <2>2. registered = Job /\ Job \in Jobs
              BY <1>9 DEF Reload, TypeInv, Numbered, Job
        <2>3. \/ status' = status
              \/ status'[Job] = OnDisk /\ \A j \in Jobs \ {Job} : status'[j] = status[j]
              BY <1>1, <1>9, <2>2 DEF Reload, OnDisk
        <2> QED BY <1>1, <1>2, <2>1, <2>2, <2>3 DEF KeepsUp, JobAhead
  <1>10. ~WriteFails /\ ~ReadFails
        BY DEF WriteFails, ReadFails
  <1> QED BY <1>3, <1>4, <1>5, <1>6, <1>7, <1>8, <1>9, <1>10 DEF Changes

\* The handler keeps what it has read, and reads of a job only what it has.
LEMMA HandlerAhead ==
  ASSUME TypeInv, Truncated, JobAhead, RequestAhead, Handler, Base' = Base, UNCHANGED jobs
  PROVE  RequestAhead'
  <1> USE DEF jobs
  <1>1. status' = status /\ loaded' = loaded /\ registered' = registered
        OBVIOUS
  <1>2. /\ OnDisk \in Maps /\ Base \in Maps /\ AtLeast(OnDisk, OnDisk)
        /\ AtLeast(OnDisk, Empty)
        BY BaseType, AtLeastFacts
  <1>3. CASE UNCHANGED request
        BY <1>1, <1>3 DEF RequestAhead
  <1>4. CASE Request
        <2>1. AtLeast(Base, OnDisk)
              <3>1. CASE pc = "write"
                    BY <1>2, <3>1, AtLeastFacts DEF Truncated, OnDisk
              <3>2. CASE pc # "write"
                    BY <1>2, <3>2 DEF Base
              <3> QED BY <3>1, <3>2
        <2>2. request' = [at |-> "registry", floor |-> OnDisk]
              BY <1>4 DEF Request
        <2> QED BY <2>1, <2>2 DEF RequestAhead
  <1>5. CASE ReadRegistry /\ ~UNCHANGED request
        <2>1. /\ request.at = "registry"
              /\ request' = [at |-> "keys", floor |-> request.floor, job |-> registered]
              BY <1>5 DEF ReadRegistry, Aborts
        <2>2. AtLeast(Base, request.floor) /\ request.floor \in Maps
              BY <2>1, RequestKinds DEF RequestAhead, TypeInv, TypeOK
        <2>3. registered \in loaded => AtLeast(status[registered], request.floor)
              <3> SUFFICES ASSUME registered \in loaded
                           PROVE  AtLeast(status[registered], request.floor)
                  OBVIOUS
              <3>1. status[registered] \in Maps
                    BY ProcessCmdAssumption DEF TypeInv, TypeOK, Jobs
              <3> QED BY <1>2, <2>2, <3>1, AtLeastFacts DEF JobAhead
        <2> QED BY <1>1, <2>1, <2>2, <2>3 DEF RequestAhead
  <1>6. CASE ReadKeys /\ ~UNCHANGED request
        <2> DEFINE keys == {b \in Blobs : status[request.job][b] # Absent}
        <2>1. /\ request.at = "keys"
              /\ request' = [at |-> "entries", floor |-> request.floor, job |-> request.job,
                             restored |-> request.job \in loaded, keys |-> keys,
                             answer |-> Empty]
              BY <1>6 DEF ReadKeys, Aborts
        <2>2. ASSUME request.job \in loaded, NEW b \in Blobs \ keys
              PROVE  Empty[b] >= request.floor[b]
              <3>1. status[request.job][b] >= request.floor[b]
                    BY <2>1, <2>2 DEF RequestAhead, AtLeast
              <3> QED BY <2>2, <3>1 DEF Empty
        <2> HIDE DEF keys
        <2> QED BY <1>1, <2>1, <2>2 DEF RequestAhead
  <1>7. CASE ReadEntry /\ ~UNCHANGED request /\ request' # [at |-> "failed"]
        <2>1. PICK b \in request.keys :
                 request' = [request EXCEPT !.keys = @ \ {b},
                                            !.answer[b] = status[request.job][b]]
              BY <1>7 DEF ReadEntry, Aborts
        <2>2. request \in [at : {"entries"}, floor : Maps, job : Jobs, restored : BOOLEAN,
                           keys : SUBSET Blobs, answer : Maps]
              BY <1>7, RequestKinds DEF ReadEntry, TypeInv, TypeOK
        <2>3. /\ request'.at = "entries" /\ request'.floor = request.floor
              /\ request'.job = request.job /\ request'.restored = request.restored
              /\ request'.keys = request.keys \ {b}
              /\ request'.answer =
                    [request.answer EXCEPT ![b] = status[request.job][b]]
              BY <2>1, <2>2
        <2>4. request.restored =>
                 \A c \in Blobs \ request'.keys : request'.answer[c] >= request.floor[c]
              BY <2>2, <2>3 DEF RequestAhead, AtLeast, Maps
        <2> QED BY <1>1, <2>2, <2>3, <2>4 DEF RequestAhead
  <1>8. CASE ReadEntry /\ request' = [at |-> "failed"]
        BY <1>8 DEF RequestAhead
  <1>9. CASE Answer
        <2>1. CASE request' = [at |-> "answered", restored |-> FALSE]
              BY <2>1 DEF RequestAhead
        <2>2. CASE /\ request.at = "entries" /\ request.keys = {}
                   /\ request' = [at |-> "answered", restored |-> request.restored,
                                  floor |-> request.floor, answer |-> request.answer]
              BY <2>2 DEF RequestAhead, AtLeast
        <2> QED BY <1>9, <2>1, <2>2 DEF Answer
  <1> QED BY <1>3, <1>4, <1>5, <1>6, <1>7, <1>8, <1>9 DEF Handler

LEMMA InitAhead == Init => Ahead
  <1> SUFFICES ASSUME Init PROVE Ahead
      OBVIOUS
  <1>1. Bounded
        <2>1. \A b \in Blobs : OnDisk[b] \in {Absent, 1}
              <3>1. CASE disk = Torn
                    BY <3>1 DEF OnDisk, Empty
              <3>2. CASE disk # Torn
                    <4>1. PICK map \in [Blobs -> {Absent, 1}] : disk = File(map)
                          BY <3>2 DEF Init
                    <4> QED BY <3>2, <4>1 DEF OnDisk, File
              <3> QED BY <3>1, <3>2
        <2> QED BY <2>1 DEF Init, Bounded, Empty, Absent
  <1>2. Truncated /\ JobAhead /\ RequestAhead
        BY DEF Init, Truncated, JobAhead, RequestAhead, NoRequest
  <1> QED BY <1>1, <1>2 DEF Ahead

LEMMA NextAhead ==
  ASSUME TypeInv, TypeInv', SinkActive, Ahead, [Next]_vars PROVE Ahead'
  <1>1. CASE Changes /\ UNCHANGED request
        <2>1. Bounded'
              BY <1>1, BoundedStep DEF Ahead
        <2>2. ASSUME ~failed' PROVE JobAhead' /\ RequestAhead'
              <3>1. ~failed
                    BY <1>1, <2>2 DEF Changes, RegisterJob, JobRegistered, SinkStores,
                       LoadProcessStatus, TruncateStatus, WriteStatus, Reload, WriteFails,
                       ReadFails, file
              <3>2. Bounded /\ JobAhead /\ RequestAhead
                    BY <3>1 DEF Ahead
              <3>3. loaded \subseteq loaded' /\ AtLeast(Base', Base) /\ KeepsUp /\ JobAhead'
                    BY <1>1, <2>2, <3>2, ChangeKeepsUp
              <3> QED BY <1>1, <3>2, <3>3, RequestKeepsUp
        <2>3. Truncated'
              BY <1>1 DEF Ahead, Truncated, SinkActive, Changes, RegisterJob,
                 JobRegistered, LoadProcessStatus, SinkStores, TruncateStatus,
                 WriteStatus, Reload, WriteFails, ReadFails
        <2> QED BY <2>1, <2>2, <2>3 DEF Ahead
  <1>2. CASE /\ UNCHANGED <<jobs, file>> /\ (pc' = "write" <=> pc = "write")
             /\ UNCHANGED request \/ Handler
        <2>1. UNCHANGED <<polls, registered, status, loaded, failed, OnDisk>>
              BY <1>2 DEF jobs, file, OnDisk
        <2>2. Base' = Base
              BY <1>2, <2>1 DEF Base, Job
        <2>3. Bounded' /\ Truncated' /\ (JobAhead => JobAhead')
              BY <1>2, <2>1, <2>2 DEF Ahead, Bounded, Truncated, JobAhead, file
        <2>4. JobAhead /\ RequestAhead => RequestAhead'
              <3>1. CASE UNCHANGED request
                    BY <2>1, <2>2, <3>1 DEF RequestAhead
              <3> QED BY <1>2, <2>2, <3>1, HandlerAhead DEF Ahead
        <2> QED BY <2>1, <2>3, <2>4 DEF Ahead
  <1> QED BY <1>1, <1>2, StepKinds

\* As long as the status file can be read and written, no answer about a job that
\* has loaded its status is behind the disk of the time of the request.
THEOREM AnswersKeepUp == Spec => []NeverBehind
  <1>1. Init => SinkActive
        BY DEF Init, SinkActive
  <1>2. Ahead => NeverBehind
        BY DEF Ahead, RequestAhead, AtLeast, NeverBehind
  <1> QED BY <1>1, <1>2, InitType, NextType, NextSinkActive, InitAhead, NextAhead, PTL
      DEF Spec
=============================================================================
