---------------------------- MODULE MCBlobIngest ----------------------------
(* Instances of BlobIngest for TLC, and what the repository's documents and *)
(* tests say of the program where the code does otherwise.                  *)
EXTENDS BlobIngest

\* Each blob is the log of an hour of its own.
MCLogHour == [b \in Blobs |-> b]
MCLogName == [b \in Blobs |-> b]

Within(first, last) == [first |-> first, last |-> last, json |-> TRUE]

\* One event in the second of its record.
MCEvents == [t \in 1..MaxTime |-> {Within(t, t)}]

\* Two events that cross into the next second, events without a readable time,
\* or one of a time that json refuses.
MCMixedEvents ==
    [t \in 1..MaxTime |->
        {Within(2 * t, 2 * t + 1), Within(0, 0), [Within(2 * t, 99) EXCEPT !.json = FALSE]}]

-----------------------------------------------------------------------------
(* Claims                                                                  *)

\* common_test.go:43 and common_appgw_test.go:32 count the events of a sample
\* file: no record that has events is passed over.  So of
\* every page that is sent, each record with events is converted.
AllConverted ==
    pc = "send" =>
        \A i \in (Start(cur) + 1)..Length(cur) :
            Wanted(cur, i) => \E k \in Entries : Entry(k) = i /\ Emits(k)

\* README.md:25 "Processing status is persisted to disk, keeping track of
\* changes.": what is appended to a blob gets processed.
TracksChanges ==
    \A b \in Blobs : \A i \in 1..MaxRecords : Wanted(b, i) ~> Delivered(b, i)

\* README.md:27 "Processing can be interrupted and restarted at any time.":
\* once restarted, the process gets through a job some day.
Restartable == (pc = "down") ~> (pc = "saving")
=============================================================================
