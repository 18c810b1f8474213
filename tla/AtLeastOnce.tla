---------------------------- MODULE AtLeastOnce ----------------------------
(***************************************************************************)
(* What the blob pipeline promises, without jobs, listings or files: each  *)
(* log grows, its records are delivered in any order and perhaps again,    *)
(* and a checkpoint is committed only over what was delivered and is never *)
(* delivered again while it stands.  The checkpoint may be forgotten, and  *)
(* everything below it may then be delivered once more.                    *)
(***************************************************************************)
EXTENDS Integers, Sequences

CONSTANTS Logs, MaxRecords, MaxCount

\* What BlobIngestAssumption says of these bounds.
Bounded == MaxRecords \in Nat /\ MaxCount \in Nat \ {0}

VARIABLES
    log,       \* for each log, which of its records have events
    received,  \* how often each record was delivered, up to MaxCount
    committed  \* how many records of each log the checkpoint covers

vars == <<log, received, committed>>

Init ==
    /\ log = [l \in Logs |-> <<>>]
    /\ received = [l \in Logs |-> [i \in 1..MaxRecords |-> 0]]
    /\ committed = [l \in Logs |-> 0]

Write(l) ==
    /\ Len(log[l]) < MaxRecords
    /\ \E flows \in BOOLEAN : log' = [log EXCEPT ![l] = Append(@, flows)]
    /\ UNCHANGED <<received, committed>>

\* How often a record counts as delivered that was delivered n times.
Counted(n) == IF n < MaxCount THEN n ELSE MaxCount

\* The records of one message, or of one file.
Deliver(l, sent) ==
    /\ sent \subseteq 1..Len(log[l])
    /\ \A i \in sent : i > committed[l] /\ log[l][i]
    /\ received' = [received EXCEPT
                        ![l] = [i \in 1..MaxRecords |->
                                   IF i \in sent THEN Counted(@[i] + 1) ELSE @[i]]]
    /\ UNCHANGED <<log, committed>>

Covered(l, n) ==
    /\ n <= Len(log[l])
    /\ \A i \in 1..n : log[l][i] => received[l][i] > 0

Commit ==
    /\ \E c \in [Logs -> 0..MaxRecords] :
          /\ \A l \in Logs : Covered(l, c[l])
          /\ committed' = c
    /\ UNCHANGED <<log, received>>

Forget ==
    /\ committed' = [l \in Logs |-> 0]
    /\ UNCHANGED <<log, received>>

Next ==
    \/ \E l \in Logs : Write(l) \/ \E sent \in SUBSET (1..MaxRecords) : Deliver(l, sent)
    \/ Commit \/ Forget

Spec == Init /\ [][Next]_vars

\* Whatever is committed was delivered.
Safe == \A l \in Logs : Covered(l, committed[l])
=============================================================================
