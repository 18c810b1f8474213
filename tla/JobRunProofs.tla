---------------------------- MODULE JobRunProofs ----------------------------
(* Theorems about JobRun, for any number of tasks and any set of workers.  *)
EXTENDS JobRun, FiniteSetTheorems, TLAPS

-----------------------------------------------------------------------------
(* The invariant                                                           *)

Holds(w)   == worker[w] \in {"run", "send", "done"}
Working(w) == worker[w] \in {"run", "send"}

\* A task has at most one worker, and is open until that has an outcome for it.
Assigned ==
  /\ \A w \in Workers : Holds(w) => task[w] < next
  /\ \A v, w \in Workers : Holds(v) /\ Holds(w) /\ task[v] = task[w] => v = w
  /\ \A t \in Tasks :
        outcome[t] = "open" <=>
          (t >= next \/ \E w \in Workers : Working(w) /\ task[w] = t)

\* The tasks that Done has not been called for.
Unfinished ==
  {t \in Tasks : t >= next \/ \E w \in Workers : Holds(w) /\ task[w] = t}

Counted ==
  IF main = "add" THEN next = 1 /\ \A w \in Workers : ~Holds(w)
                  ELSE wg = Cardinality(Unfinished)

\* What holds from which line of the main goroutine on.
Phases ==
  /\ main = "add" => wg = 0
  /\ main \notin {"add", "dispatch"} => next = NTasks + 1
  /\ main \in {"close", "await", "complete", "finished"} =>
        \A w \in Workers : ~Holds(w)
  /\ resultsClosed <=> main \in {"await", "complete", "finished"}
  /\ sink = "exited" <=> main \in {"complete", "finished"}
  /\ sink = "signal" => resultsClosed

\* No result is lost between a task and the file.
Stored ==
  /\ {t \in Tasks : outcome[t] = "result"}
       = status \cup (IF sink = "store" THEN {held} ELSE {})
  /\ saves = IF main = "finished" THEN {status} ELSE {}

Inv == TypeOK /\ Assigned /\ Counted /\ Phases /\ Stored

LEMMA FiniteUnfinished == IsFiniteSet(Unfinished)
  <1>1. IsFiniteSet(Tasks)
        BY JobRunAssumption, FS_Interval DEF Tasks
  <1>2. Unfinished \in SUBSET Tasks
        BY DEF Unfinished
  <1> QED BY <1>1, <1>2, FS_Subset

LEMMA InitInv == Init => Inv
  <1> SUFFICES ASSUME Init PROVE Inv
      OBVIOUS
  <1> USE JobRunAssumption DEF Init, Tasks, NoTask, Holds, Working
  <1>1. TypeOK
        <2>1. next \in 1..(NTasks + 1) /\ wg \in 0..NTasks
              OBVIOUS
        <2>2. /\ worker \in [Workers -> {"receive", "run", "send", "done", "exited"}]
              /\ task \in [Workers -> Tasks \cup {NoTask}]
              /\ outcome \in [Tasks -> {"open", "nothing", "result"}]
              OBVIOUS
        <2>3. \A w \in Workers : ~Holds(w) /\ task[w] = NoTask
              OBVIOUS
        <2> QED BY <2>1, <2>2, <2>3 DEF TypeOK
  <1>2. Assigned
        <2>1. \A w \in Workers : ~Holds(w) /\ ~Working(w)
              OBVIOUS
        <2>2. \A t \in Tasks : outcome[t] = "open" /\ t >= next
              OBVIOUS
        <2> QED BY <2>1, <2>2 DEF Assigned
  <1>3. Counted
        BY DEF Counted
  <1>4. Phases /\ Stored
        BY DEF Phases, Stored
  <1> QED BY <1>1, <1>2, <1>3, <1>4 DEF Inv

-----------------------------------------------------------------------------
(* The main goroutine                                                      *)

\* Where workers, tasks and their outcomes stay, so does what they owe.
LEMMA SameTasks ==
  ASSUME Assigned, UNCHANGED <<next, worker, task, outcome>>
  PROVE  Assigned' /\ Unfinished' = Unfinished
  BY DEF Assigned, Unfinished, Holds, Working

LEMMA AddTasksInv == ASSUME Inv, AddTasks PROVE Inv'
  <1> USE JobRunAssumption DEF AddTasks, Inv
  <1>1. TypeOK'
        BY DEF TypeOK, Phases
  <1>2. Assigned' /\ Unfinished' = Unfinished
        BY SameTasks
  <1>3. Unfinished = 1..NTasks
        BY DEF Counted, Unfinished, Tasks
  <1>4. Counted'
        BY <1>2, <1>3, FS_Interval DEF Counted, Phases
  <1>5. Phases' /\ Stored'
        BY DEF Phases, Stored, Holds
  <1> QED BY <1>1, <1>2, <1>4, <1>5

LEMMA CloseTasksInv == ASSUME Inv, CloseTasks PROVE Inv'
  <1> USE JobRunAssumption DEF CloseTasks, Inv
  <1>1. TypeOK'
        BY DEF TypeOK
  <1>2. Assigned' /\ Counted'
        BY SameTasks DEF Counted
  <1>3. Phases' /\ Stored'
        BY DEF Phases, Stored, Holds, TypeOK, Tasks
  <1> QED BY <1>1, <1>2, <1>3

\* When the WaitGroup is at zero, no worker has a task.
LEMMA WaitInv == ASSUME Inv, Wait PROVE Inv'
  <1> USE JobRunAssumption DEF Wait, Inv
  <1>1. TypeOK'
        BY DEF TypeOK
  <1>2. Assigned' /\ Counted'
        BY SameTasks DEF Counted
  <1>3. Unfinished = {}
        BY FiniteUnfinished, FS_EmptySet DEF Counted
  <1>4. \A w \in Workers : ~Holds(w)
        BY <1>3 DEF Unfinished, Holds, TypeOK
  <1>5. Phases' /\ Stored'
        BY <1>4 DEF Phases, Stored, Holds
  <1> QED BY <1>1, <1>2, <1>5

LEMMA CloseResultsInv == ASSUME Inv, CloseResults PROVE Inv'
  <1> USE DEF CloseResults, Inv
  <1>1. TypeOK'
        BY DEF TypeOK
  <1>2. Assigned' /\ Counted'
        BY SameTasks DEF Counted
  <1>3. Phases' /\ Stored'
        BY DEF Phases, Stored, Holds
  <1> QED BY <1>1, <1>2, <1>3

LEMMA AwaitDoneInv == ASSUME Inv, AwaitDone PROVE Inv'
  <1> USE DEF AwaitDone, Inv
  <1>1. TypeOK'
        BY DEF TypeOK
  <1>2. Assigned' /\ Counted'
        BY SameTasks DEF Counted
  <1>3. Phases' /\ Stored'
        BY DEF Phases, Stored, Holds
  <1> QED BY <1>1, <1>2, <1>3

LEMMA CompleteInv == ASSUME Inv, Complete PROVE Inv'
  <1> USE DEF Complete, Inv
  <1>1. TypeOK'
        BY DEF TypeOK
  <1>2. Assigned' /\ Counted'
        BY SameTasks DEF Counted
  <1>3. Phases' /\ Stored'
        BY DEF Phases, Stored, Holds
  <1> QED BY <1>1, <1>2, <1>3

-----------------------------------------------------------------------------
(* A worker                                                                *)

LEMMA DispatchInv == ASSUME Inv, NEW w \in Workers, Dispatch(w) PROVE Inv'
  <1> USE DEF Dispatch, Inv
  <1>1. TypeOK'
        BY JobRunAssumption DEF TypeOK, Tasks, NoTask
  <1>2. /\ next \in Nat /\ next' = next + 1 /\ task'[w] = next
        /\ ~Holds(w) /\ Holds(w)' /\ Working(w)'
        BY DEF TypeOK, Holds, Working
  <1>3. \A v \in Workers : v # w =>
           task'[v] = task[v] /\ (Holds(v)' <=> Holds(v)) /\ (Working(v)' <=> Working(v))
        BY DEF TypeOK, Holds, Working
  <1>4. \A v \in Workers : Holds(v) => task[v] \in Tasks /\ task[v] < next
        BY DEF Assigned, TypeOK, Holds
  <1>5. Tasks \subseteq Nat /\ outcome' = outcome
        BY DEF Tasks
  <1>6. \A t \in Tasks : t >= next <=> t >= next + 1 \/ t = next
        BY <1>2, <1>5
  <1>7. Assigned'
        <2>1. ASSUME NEW v \in Workers, Holds(v)' PROVE task'[v] < next'
              <3>1. CASE v = w
                    BY <1>2, <3>1
              <3>2. CASE v # w
                    <4>1. task'[v] = task[v] /\ task[v] \in Nat /\ task[v] < next
                          BY <1>3, <1>4, <1>5, <2>1, <3>2
                    <4> QED BY <1>2, <4>1
              <3> QED BY <3>1, <3>2
        <2>2. \A u, v \in Workers : Holds(u)' /\ Holds(v)' /\ task'[u] = task'[v] => u = v
              BY <1>2, <1>3, <1>4, <1>5 DEF Assigned
        <2>3. \A v \in Workers : Working(v) => v # w
              BY <1>2 DEF Holds, Working
        <2>4. ASSUME NEW t \in Tasks
              PROVE  outcome'[t] = "open" <=>
                       (t >= next' \/ \E v \in Workers : Working(v)' /\ task'[v] = t)
              BY <1>2, <1>3, <1>5, <1>6, <2>3 DEF Assigned
        <2> QED BY <2>1, <2>2, <2>4 DEF Assigned
  <1>8. Unfinished' = Unfinished
        <2>1. Tasks' = Tasks
              BY DEF Tasks
        <2> QED BY <1>2, <1>3, <1>6, <2>1 DEF Unfinished
  <1>9. Counted' /\ Phases'
        BY <1>8 DEF Counted, Phases
  <1>10. Stored'
        BY DEF Stored
  <1> QED BY <1>1, <1>7, <1>9, <1>10

LEMMA TaskEndsInv == ASSUME Inv, NEW w \in Workers, TaskEnds(w) PROVE Inv'
  <1> USE DEF TaskEnds, Inv
  <1>1. TypeOK'
        BY DEF TypeOK
  <1>2. Assigned'
        BY DEF Assigned, TypeOK, Holds, Working, Tasks
  <1>3. Unfinished' = Unfinished
        BY DEF Unfinished, TypeOK, Holds
  <1>4. Counted' /\ Phases'
        BY <1>3 DEF Counted, Phases, TypeOK, Holds
  <1>5. outcome[task[w]] = "open" /\ task[w] \in Tasks
        BY DEF Assigned, TypeOK, Working
  <1>6. Stored'
        BY <1>5 DEF Stored, TypeOK
  <1> QED BY <1>1, <1>2, <1>4, <1>6

LEMMA TaskReportsInv == ASSUME Inv, NEW w \in Workers, TaskReports(w) PROVE Inv'
  <1> USE DEF TaskReports, Inv
  <1>1. TypeOK'
        BY DEF TypeOK
  <1>2. Assigned'
        BY DEF Assigned, TypeOK, Holds, Working
  <1>3. Unfinished' = Unfinished
        BY DEF Unfinished, TypeOK, Holds
  <1>4. Counted' /\ Phases' /\ Stored'
        BY <1>3 DEF Counted, Phases, Stored, TypeOK, Holds
  <1> QED BY <1>1, <1>2, <1>4

LEMMA SendResultInv == ASSUME Inv, NEW w \in Workers, SendResult(w) PROVE Inv'
  <1> USE DEF SendResult, Inv
  <1>1. TypeOK'
        BY DEF TypeOK
  <1>2. Assigned'
        BY DEF Assigned, TypeOK, Holds, Working, Tasks
  <1>3. Unfinished' = Unfinished
        BY DEF Unfinished, TypeOK, Holds
  <1>4. Counted' /\ Phases'
        BY <1>3 DEF Counted, Phases, TypeOK, Holds
  <1>5. outcome[task[w]] = "open" /\ task[w] \in Tasks
        BY DEF Assigned, TypeOK, Working
  <1>6. Stored'
        BY <1>5 DEF Stored, TypeOK
  <1> QED BY <1>1, <1>2, <1>4, <1>6

\* Done takes the worker's own task off the count, and no other's.
LEMMA DoneTaskInv == ASSUME Inv, NEW w \in Workers, DoneTask(w) PROVE Inv'
  <1> USE JobRunAssumption DEF DoneTask, Inv
  <1>1. main # "add" /\ task[w] \in Unfinished
        BY DEF Counted, Unfinished, TypeOK, Holds
  <1>2. Unfinished' = Unfinished \ {task[w]}
        <2>1. task[w] \in Nat /\ task[w] < next /\ Holds(w) /\ ~Holds(w)'
              BY DEF Assigned, TypeOK, Holds, Tasks
        <2>2. \A v \in Workers : v # w =>
                 task'[v] = task[v] /\ (Holds(v)' <=> Holds(v))
                   /\ (Holds(v) => task[v] # task[w])
              BY <2>1 DEF Assigned, TypeOK, Holds
        <2>3. \A t \in Tasks : t >= next => t # task[w]
              BY <2>1 DEF TypeOK, Tasks
        <2> QED BY <2>1, <2>2, <2>3 DEF Unfinished, Tasks
  <1>3. IsFiniteSet(Unfinished)
        BY FiniteUnfinished
  <1>4. /\ Cardinality(Unfinished') = Cardinality(Unfinished) - 1
        /\ Cardinality(Unfinished') \in Nat
        BY <1>1, <1>2, <1>3, FS_RemoveElement, FS_CardinalityType
  <1>5. Counted' /\ wg' \in 0..NTasks
        BY <1>1, <1>4 DEF Counted, TypeOK
  <1>6. TypeOK'
        BY <1>5 DEF TypeOK
  <1>7. Assigned'
        BY DEF Assigned, TypeOK, Holds, Working
  <1>8. Phases' /\ Stored'
        BY <1>1 DEF Phases, Stored, TypeOK, Holds
  <1> QED BY <1>5, <1>6, <1>7, <1>8

LEMMA WorkerExitsInv == ASSUME Inv, NEW w \in Workers, WorkerExits(w) PROVE Inv'
  <1> USE DEF WorkerExits, Inv
  <1>1. TypeOK'
        BY DEF TypeOK
  <1>2. Assigned'
        BY DEF Assigned, TypeOK, Holds, Working
  <1>3. Unfinished' = Unfinished
        BY DEF Unfinished, TypeOK, Holds
  <1>4. Counted' /\ Phases' /\ Stored'
        BY <1>3 DEF Counted, Phases, Stored, TypeOK, Holds
  <1> QED BY <1>1, <1>2, <1>4

-----------------------------------------------------------------------------
(* The sink                                                                *)

LEMMA SinkInv == ASSUME Inv, Sink PROVE Inv'
  <1> USE DEF Inv
  <1>1. CASE StoreStatus
        <2> USE <1>1 DEF StoreStatus
        <2>1. TypeOK'
              BY DEF TypeOK
        <2>2. Assigned' /\ Counted'
              BY SameTasks DEF Counted, Holds
        <2>3. main # "finished" /\ Phases'
              BY DEF Phases, Holds
        <2>4. Stored'
              BY <2>3 DEF Stored
        <2> QED BY <2>1, <2>2, <2>3, <2>4
  <1>2. CASE SinkSeesClose
        <2> USE <1>2 DEF SinkSeesClose
        <2>1. TypeOK'
              BY DEF TypeOK
        <2>2. Assigned' /\ Counted'
              BY SameTasks DEF Counted, Holds
        <2>3. Phases' /\ Stored'
              BY DEF Phases, Stored, Holds
        <2> QED BY <2>1, <2>2, <2>3
  <1> QED BY <1>1, <1>2 DEF Sink

-----------------------------------------------------------------------------
LEMMA NextInv == ASSUME Inv, [Next]_vars PROVE Inv'
  <1>1. CASE Main
        BY <1>1, AddTasksInv, CloseTasksInv, WaitInv, CloseResultsInv, AwaitDoneInv,
           CompleteInv DEF Main
  <1>2. CASE Sink
        BY <1>2, SinkInv
  <1>3. ASSUME NEW w \in Workers, Work(w) PROVE Inv'
        BY <1>3, DispatchInv, TaskEndsInv, TaskReportsInv, SendResultInv, DoneTaskInv,
           WorkerExitsInv DEF Work
  <1>4. CASE UNCHANGED vars
        BY <1>4 DEF vars, Inv, TypeOK, Assigned, Counted, Unfinished, Phases, Stored,
                    Holds, Working
  <1> QED BY <1>1, <1>2, <1>3, <1>4 DEF Next

LEMMA Invariant == Spec => []Inv
  BY InitInv, NextInv, PTL DEF Spec

-----------------------------------------------------------------------------
(* The theorems                                                            *)

\* The variables of a run keep their types; the WaitGroup never gets below zero,
\* which would panic.
THEOREM TypeCorrect == Spec => []TypeOK
  <1>1. Inv => TypeOK
        BY DEF Inv
  <1> QED BY <1>1, Invariant, PTL

\* No worker can send on the closed ResultsChan: it is closed at a count of
\* zero, and a worker that has a task is counted.
THEOREM SendsOnOpen == Spec => []NoSendOnClosed
  <1>1. Inv => NoSendOnClosed
        BY DEF Inv, Phases, Holds, NoSendOnClosed
  <1> QED BY <1>1, Invariant, PTL

\* The map is saved only after the sink's last write to it.
THEOREM RaceFree == Spec => []NoMapRace
  <1>1. Inv => NoMapRace
        BY DEF Inv, Phases, NoMapRace
  <1> QED BY <1>1, Invariant, PTL

\* The status saved at the end of a run is that of the tasks that sent a result,
\* and all tasks have ended.
THEOREM Saved == Spec => []SavedResults
  <1>1. Inv => SavedResults
        <2> SUFFICES ASSUME Inv, main = "finished" PROVE SavedResults
            BY DEF SavedResults
        <2>1. \A t \in Tasks : outcome[t] # "open"
              BY JobRunAssumption DEF Inv, Assigned, Phases, Holds, Working, Tasks
        <2>2. saves = {{t \in Tasks : outcome[t] = "result"}}
              BY DEF Inv, Stored, Phases
        <2> QED BY <2>1, <2>2 DEF SavedResults
  <1> QED BY <1>1, Invariant, PTL

-----------------------------------------------------------------------------
(* The order of the tasks                                                  *)

\* Of the open tasks before a worker's own, each has another worker.
LEMMA Ordered ==
  ASSUME Inv, NEW w \in Workers, Working(w)
  PROVE  Cardinality({t \in 1..(task[w] - 1) : outcome[t] = "open"})
           < Cardinality(Workers)
  <1> DEFINE Earlier == {t \in 1..(task[w] - 1) : outcome[t] = "open"}
             Others  == Workers \ {w}
             WorkerOf(t) == CHOOSE v \in Workers : Working(v) /\ task[v] = t
             f == [t \in Earlier |-> WorkerOf(t)]
  <1> USE DEF Inv
  <1>1. task[w] \in Tasks /\ task[w] < next /\ Tasks \subseteq Nat
        BY DEF Assigned, TypeOK, Holds, Working, Tasks
  <1>2. ASSUME NEW t \in Earlier
        PROVE  /\ WorkerOf(t) \in Others
               /\ task[WorkerOf(t)] = t
        <2>1. t \in Tasks /\ t # task[w] /\ ~(t >= next)
              BY <1>1, JobRunAssumption DEF TypeOK, Tasks
        <2>2. \E v \in Workers : Working(v) /\ task[v] = t
              BY <2>1 DEF Assigned
        <2>3. WorkerOf(t) \in Workers /\ task[WorkerOf(t)] = t
              BY <2>2
        <2> QED BY <2>1, <2>3
  <1>3. f \in Injection(Earlier, Others)
        <2>1. f \in [Earlier -> Others]
              BY <1>2
        <2>2. \A s, t \in Earlier : f[s] = f[t] => s = t
              BY <1>2
        <2> HIDE DEF f
        <2> QED BY <2>1, <2>2 DEF Injection, IsInjective
  <1>4. /\ IsFiniteSet(Others) /\ Cardinality(Others) = Cardinality(Workers) - 1
        /\ Cardinality(Workers) \in Nat
        BY JobRunAssumption, FS_RemoveElement, FS_CardinalityType
  <1>5. IsFiniteSet(Earlier) /\ Cardinality(Earlier) <= Cardinality(Others)
        <2> HIDE DEF f, Earlier, Others
        <2> QED BY <1>3, <1>4, FS_Injection
  <1>6. Cardinality(Earlier) \in Nat
        BY <1>5, FS_CardinalityType
  <1> QED BY <1>4, <1>5, <1>6

\* A task runs only when all but Cardinality(Workers) - 1 of those before it
\* have ended: with one worker, in the order of the listing.
THEOREM TasksInOrder == Spec => []InOrder
  <1>1. Inv => InOrder
        BY Ordered DEF InOrder, Working
  <1> QED BY <1>1, Invariant, PTL

-----------------------------------------------------------------------------
(* JobRun implements TaskRound                                             *)

LEMMA InitRound == Init => Round!Init
  BY DEF Init, Round!Init, Tasks

LEMMA EndsTask ==
  ASSUME Inv, NEW w \in Workers, Working(w), saves' = saves,
         NEW o \in {"nothing", "result"}, outcome' = [outcome EXCEPT ![task[w]] = o]
  PROVE  Round!End(task[w])
  <1> DEFINE ended == {t \in Tasks : outcome[t] # "open"}
             results == {t \in Tasks : outcome[t] = "result"}
  <1> USE DEF Inv
  <1>1. task[w] \in Tasks /\ outcome[task[w]] = "open"
        BY DEF Assigned, TypeOK, Working
  <1>2. saves = {}
        BY DEF Stored, Phases, Holds, Working
  <1>3. \A t \in Tasks : outcome'[t] = IF t = task[w] THEN o ELSE outcome[t]
        BY <1>1 DEF TypeOK
  <1>4. Tasks' = Tasks
        BY DEF Tasks
  <1>5. ended' = ended \cup {task[w]}
        BY <1>1, <1>3, <1>4
  <1>6. results' \in {results, results \cup {task[w]}}
        BY <1>1, <1>3, <1>4
  <1> QED BY <1>1, <1>2, <1>5, <1>6 DEF Round!End

LEMMA StepRound == ASSUME Inv, Inv', [Next]_vars PROVE [Round!Next]_(Round!vars)
  <1>1. CASE Complete
        <2>1. \A t \in Tasks : outcome[t] # "open"
              BY <1>1, JobRunAssumption DEF Complete, Inv, Assigned, Phases, Holds, Working, Tasks
        <2>2. saves = {} /\ status = {t \in Tasks : outcome[t] = "result"}
              BY <1>1 DEF Complete, Inv, Stored, Phases
        <2>3. Round!Save
              BY <1>1, <2>1, <2>2 DEF Complete, Round!Save, Tasks
        <2> QED BY <2>3 DEF Round!Next
  <1>2. ASSUME NEW w \in Workers, TaskEnds(w) \/ SendResult(w)
        PROVE  Round!Next
        <2>1. Working(w) /\ saves' = saves /\ task[w] \in Tasks
              BY <1>2 DEF TaskEnds, SendResult, Working, Inv, TypeOK
        <2>2. Round!End(task[w])
              BY <1>2, <2>1, EndsTask DEF TaskEnds, SendResult
        <2>3. \E t \in Tasks : Round!End(t)
              BY <2>1, <2>2, Zenon DEF Round!End
        <2> QED BY <2>3 DEF Round!Next
  <1>3. ASSUME UNCHANGED <<outcome, saves>>
        PROVE  UNCHANGED Round!vars
        BY <1>3 DEF Round!vars, Tasks
  <1> QED BY <1>1, <1>2, <1>3 DEF Next, Main, Sink, Work, AddTasks, CloseTasks, Wait,
             CloseResults, AwaitDone, Dispatch, TaskReports, DoneTask, WorkerExits,
             StoreStatus, SinkSeesClose, vars

\* The goroutines of a run, whatever their schedule, end each task once and then
\* save exactly the results.
THEOREM Completes == Spec => RoundCompleted
  <1>1. Inv /\ Inv' /\ [Next]_vars => [Round!Next]_(Round!vars)
        BY StepRound
  <1> QED BY <1>1, InitRound, Invariant, PTL DEF Spec, RoundCompleted, Round!Spec
=============================================================================
