------------------------------- MODULE JobRun -------------------------------
(***************************************************************************)
(* The goroutines of one Job.Run (parser/job.go, pool/pool.go): the main   *)
(* goroutine hands tasks to the pool's workers over an unbuffered channel, *)
(* each task may send its log file on the unbuffered ResultsChan, and the  *)
(* sink stores what it receives in the job's ProcessStatus map.  The main  *)
(* goroutine waits for the tasks, closes ResultsChan, waits for the sink   *)
(* and saves the map.                                                      *)
(*                                                                         *)
(* A send on an unbuffered channel and its receive are one step.  What a   *)
(* task does (a page of a blob, in BlobIngest) is abstracted to whether it *)
(* ends with a result; a task that never returns is left out.              *)
(***************************************************************************)
EXTENDS Integers, FiniteSets

CONSTANTS
    NTasks,   \* tasks are 1..NTasks in the order of job.LogFiles
    Workers   \* the workers of the pool; Run asks for one

ASSUME JobRunAssumption == NTasks \in Nat /\ IsFiniteSet(Workers)

Tasks  == 1..NTasks
NoTask == 0

VARIABLES
    main,           \* what the main goroutine does next
    next,           \* the next task to dispatch
    wg,             \* the pool's WaitGroup
    tasksClosed, resultsClosed,
    worker, task,   \* what each worker does, and its task
    outcome,        \* what the body of each task ended with
    sink, held,     \* what the sink does, and the log file it holds
    status,         \* job.ProcessStatus: the tasks with an entry
    saves           \* the statuses written to the status file

vars == <<main, next, wg, tasksClosed, resultsClosed, worker, task, outcome,
          sink, held, status, saves>>

Round == INSTANCE TaskRound WITH
            ended   <- {t \in Tasks : outcome[t] # "open"},
            results <- {t \in Tasks : outcome[t] = "result"}

Init ==
    /\ main = "add" /\ next = 1 /\ wg = 0
    /\ tasksClosed = FALSE /\ resultsClosed = FALSE
    /\ worker = [w \in Workers |-> "receive"]
    /\ task = [w \in Workers |-> NoTask]
    /\ outcome = [t \in Tasks |-> "open"]
    /\ sink = "receive" /\ held = NoTask
    /\ status = {} /\ saves = {}

-----------------------------------------------------------------------------
(* The main goroutine: Pool.Run, then the rest of Job.Run.                 *)

\* (Mutant: one task too few is counted.)
AddTasksShort ==
    /\ main = "add" /\ main' = "dispatch"
    /\ wg' = wg + NTasks - 1
    /\ UNCHANGED <<next, tasksClosed, resultsClosed, worker, task, outcome,
                   sink, held, status, saves>>

AddTasks ==
    /\ main = "add" /\ main' = "dispatch"
    /\ wg' = wg + NTasks
    /\ UNCHANGED <<next, tasksClosed, resultsClosed, worker, task, outcome,
                   sink, held, status, saves>>

\* (Mutant: the tasks are taken from the end of the list.)
DispatchLast(w) ==
    /\ main = "dispatch" /\ next \in Tasks
    /\ worker[w] = "receive"
    /\ worker' = [worker EXCEPT ![w] = "run"]
    /\ task' = [task EXCEPT ![w] = NTasks + 1 - next]
    /\ next' = next + 1
    /\ UNCHANGED <<main, wg, tasksClosed, resultsClosed, outcome, sink, held,
                   status, saves>>

Dispatch(w) ==
    /\ main = "dispatch" /\ next \in Tasks
    /\ worker[w] = "receive"
    /\ worker' = [worker EXCEPT ![w] = "run"]
    /\ task' = [task EXCEPT ![w] = next]
    /\ next' = next + 1
    /\ UNCHANGED <<main, wg, tasksClosed, resultsClosed, outcome, sink, held,
                   status, saves>>

CloseTasks ==
    /\ main = "dispatch" /\ next \notin Tasks
    /\ tasksClosed' = TRUE /\ main' = "wait"
    /\ UNCHANGED <<next, wg, resultsClosed, worker, task, outcome, sink, held,
                   status, saves>>

\* (Mutant: Pool.Run returns without waiting.)
WaitNot ==
    /\ main = "wait" /\ main' = "close"
    /\ UNCHANGED <<next, wg, tasksClosed, resultsClosed, worker, task, outcome,
                   sink, held, status, saves>>

Wait ==
    /\ main = "wait" /\ wg = 0
    /\ main' = "close"
    /\ UNCHANGED <<next, wg, tasksClosed, resultsClosed, worker, task, outcome,
                   sink, held, status, saves>>

CloseResults ==
    /\ main = "close" /\ main' = "await"
    /\ resultsClosed' = TRUE
    /\ UNCHANGED <<next, wg, tasksClosed, worker, task, outcome, sink, held,
                   status, saves>>

\* (Mutant: Run does not wait for the sink.)
AwaitNothing ==
    /\ main = "await" /\ main' = "complete"
    /\ UNCHANGED <<next, wg, tasksClosed, resultsClosed, worker, task, outcome,
                   sink, held, status, saves>>

\* <-DoneChan meets the sink's send.
AwaitDone ==
    /\ main = "await" /\ sink = "signal"
    /\ main' = "complete" /\ sink' = "exited"
    /\ UNCHANGED <<next, wg, tasksClosed, resultsClosed, worker, task, outcome,
                   held, status, saves>>

\* The deferred Complete.
Complete ==
    /\ main = "complete" /\ main' = "finished"
    /\ saves' = {status}
    /\ UNCHANGED <<next, wg, tasksClosed, resultsClosed, worker, task, outcome,
                   sink, held, status>>

-----------------------------------------------------------------------------
(* A worker: Pool.work and Task.Run.                                       *)

\* The task returns an error or nothing to record ...
TaskEnds(w) ==
    /\ worker[w] = "run"
    /\ worker' = [worker EXCEPT ![w] = "done"]
    /\ outcome' = [outcome EXCEPT ![task[w]] = "nothing"]
    /\ UNCHANGED <<main, next, wg, tasksClosed, resultsClosed, task, sink, held,
                   status, saves>>

\* ... or has a log file to send.
TaskReports(w) ==
    /\ worker[w] = "run"
    /\ worker' = [worker EXCEPT ![w] = "send"]
    /\ UNCHANGED <<main, next, wg, tasksClosed, resultsClosed, task, outcome,
                   sink, held, status, saves>>

\* (A send on a closed channel would panic: NoSendOnClosed.)
SendResult(w) ==
    /\ worker[w] = "send" /\ sink = "receive" /\ ~resultsClosed
    /\ worker' = [worker EXCEPT ![w] = "done"]
    /\ outcome' = [outcome EXCEPT ![task[w]] = "result"]
    /\ sink' = "store" /\ held' = task[w]
    /\ UNCHANGED <<main, next, wg, tasksClosed, resultsClosed, task, status, saves>>

DoneTask(w) ==
    /\ worker[w] = "done"
    /\ wg' = wg - 1
    /\ worker' = [worker EXCEPT ![w] = "receive"]
    /\ task' = [task EXCEPT ![w] = NoTask]
    /\ UNCHANGED <<main, next, tasksClosed, resultsClosed, outcome, sink, held,
                   status, saves>>

WorkerExits(w) ==
    /\ worker[w] = "receive" /\ tasksClosed
    /\ worker' = [worker EXCEPT ![w] = "exited"]
    /\ UNCHANGED <<main, next, wg, tasksClosed, resultsClosed, task, outcome,
                   sink, held, status, saves>>

-----------------------------------------------------------------------------
(* The sink: Job.logFileSink.                                              *)

StoreStatus ==
    /\ sink = "store" /\ sink' = "receive"
    /\ status' = status \cup {held} /\ held' = NoTask
    /\ UNCHANGED <<main, next, wg, tasksClosed, resultsClosed, worker, task,
                   outcome, saves>>

\* (Mutant: the sink returns without the signal on DoneChan.)
SinkReturns ==
    /\ sink = "receive" /\ resultsClosed
    /\ sink' = "exited"
    /\ UNCHANGED <<main, next, wg, tasksClosed, resultsClosed, worker, task,
                   outcome, held, status, saves>>

SinkSeesClose ==
    /\ sink = "receive" /\ resultsClosed
    /\ sink' = "signal"
    /\ UNCHANGED <<main, next, wg, tasksClosed, resultsClosed, worker, task,
                   outcome, held, status, saves>>

-----------------------------------------------------------------------------
Main == AddTasks \/ CloseTasks \/ Wait \/ CloseResults \/ AwaitDone \/ Complete

Work(w) ==
    \/ Dispatch(w) \/ TaskEnds(w) \/ TaskReports(w) \/ SendResult(w)
    \/ DoneTask(w) \/ WorkerExits(w)

Sink == StoreStatus \/ SinkSeesClose

Next == Main \/ Sink \/ \E w \in Workers : Work(w)

Spec == Init /\ [][Next]_vars

\* The Go scheduler runs every goroutine that can run.
Fairness == WF_vars(Main) /\ WF_vars(Sink) /\ \A w \in Workers : WF_vars(Work(w))

FairSpec == Spec /\ Fairness

-----------------------------------------------------------------------------
(* Properties *)

\* Every variable has its type; a worker has a task exactly while it runs,
\* sends or reports it.
TypeOK ==
    /\ main \in {"add", "dispatch", "wait", "close", "await", "complete",
                 "finished"}
    /\ next \in 1..(NTasks + 1) /\ wg \in 0..NTasks
    /\ tasksClosed \in BOOLEAN /\ resultsClosed \in BOOLEAN
    /\ worker \in [Workers -> {"receive", "run", "send", "done", "exited"}]
    /\ task \in [Workers -> Tasks \cup {NoTask}]
    /\ \A w \in Workers :
          IF worker[w] \in {"run", "send", "done"} THEN task[w] \in Tasks
                                                   ELSE task[w] = NoTask
    /\ outcome \in [Tasks -> {"open", "nothing", "result"}]
    /\ sink \in {"receive", "store", "signal", "exited"}
    /\ IF sink = "store" THEN held \in Tasks ELSE held = NoTask
    /\ status \subseteq Tasks
    /\ saves \subseteq SUBSET Tasks

\* No task is about to send its log file on a closed ResultsChan, which would
\* panic: Run closes it only when every task has returned.
NoSendOnClosed == resultsClosed => \A w \in Workers : worker[w] # "send"

\* Go aborts a process that reads a map while another goroutine writes it:
\* the map is saved only when the sink can no longer store.
NoMapRace == main = "complete" => sink # "store"

\* When the job is complete, the saved status is that of the tasks that sent a
\* log file, none lost and none invented; every task has ended.
SavedResults ==
    main = "finished" =>
        /\ \A t \in Tasks : outcome[t] # "open"
        /\ saves = {{t \in Tasks : outcome[t] = "result"}}

\* Blobs are taken in the order of the listing: a task runs only when all but
\* Cardinality(Workers) - 1 of those before it have ended; with the one worker
\* of Job.Run, when all have.
InOrder ==
    \A w \in Workers : worker[w] \in {"run", "send"} =>
        Cardinality({t \in 1..(task[w] - 1) : outcome[t] = "open"})
            < Cardinality(Workers)

\* The goroutines of a run, whatever their schedule, do what TaskRound says.
RoundCompleted == Round!Spec

\* Every run ends: no goroutine waits for one that waits for it, and nothing
\* is left behind.
Terminates ==
    <>(main = "finished" /\ sink = "exited"
        /\ \A w \in Workers : worker[w] = "exited")
=============================================================================
