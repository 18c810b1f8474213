----------------------------- MODULE TaskRound -----------------------------
(***************************************************************************)
(* What one run of a job promises to the rest of the program: every task   *)
(* ends once, with a result or without, and the status saved at the end is *)
(* that of exactly the tasks that ended with a result.                     *)
(***************************************************************************)
CONSTANT Tasks

VARIABLES
    ended,    \* the tasks that ended
    results,  \* those that ended with a result
    saves     \* the statuses saved: none, then the one of this run

vars == <<ended, results, saves>>

Init == ended = {} /\ results = {} /\ saves = {}

End(t) ==
    /\ t \in Tasks \ ended /\ saves = {}
    /\ ended' = ended \cup {t}
    /\ results' \in {results, results \cup {t}}
    /\ UNCHANGED saves

Save ==
    /\ ended = Tasks /\ saves = {}
    /\ saves' = {results}
    /\ UNCHANGED <<ended, results>>

Next == (\E t \in Tasks : End(t)) \/ Save

Spec == Init /\ [][Next]_vars
=============================================================================
