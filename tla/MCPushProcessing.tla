-------------------------- MODULE MCPushProcessing --------------------------
(* Instances of PushProcessing for TLC. *)
EXTENDS PushProcessing, TLC

CONSTANTS
    d1, d2, v1, v2,  \* members of Docs and Versions
    FirstBatch       \* a batch of Batches already processed, in Warm

\* Batches are interchangeable, and so are processors: nothing orders their names.
Interchangeable == Permutations(Batches \ {FirstBatch}) \cup Permutations(Procs)

Up(d, v) == [doc |-> d, ver |-> v]
Del(d)   == [doc |-> d, ver |-> Absent]

\* An upsert and a delete of two documents, both of one document, and two upserts
\* of one document.
Varied == {<<Up(d1, v2), Del(d2)>>, <<Up(d2, v1), Del(d2)>>, <<Up(d1, v1), Up(d1, v2)>>}

\* Batches each of which deletes what another upserts, and one with nothing valid.
Crossing == {<<Up(d1, v2), Del(d2)>>, <<Up(d2, v2), Del(d1)>>, <<Up(d1, v1), Del(d1)>>, <<>>}

\* FirstBatch, processed undisturbed, has filled both documents.
WarmInit ==
    /\ queue = <<FirstBatch>>
    /\ events = [b \in Batches |-> IF b = FirstBatch THEN <<Up(d1, v1), Up(d2, v1)>> ELSE <<>>]
    /\ status = [b \in Batches |-> IF b = FirstBatch THEN "PROCESSED" ELSE "NONE"]
    /\ ownRun = {}
    /\ recordState = [d \in Docs |-> v1]
    /\ index = [d \in Docs |-> [ver |-> v1, by |-> FirstBatch, late |-> FALSE]]
    /\ late = {}
    /\ pc = [p \in Procs |-> "idle"]
    /\ asked = [p \in Procs |-> NoBatch]
    /\ job = [p \in Procs |-> NoBatch]
    /\ unsent = [p \in Procs |-> {}]
    /\ rowSeen = [p \in Procs |-> NothingSeen]
    /\ gone = [p \in Procs |-> {}]
    /\ purged = [p \in Procs |-> {}]
WarmSpec == WarmInit /\ [][Next]_vars
=============================================================================
