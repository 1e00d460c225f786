--------------------------- MODULE PushProcessing ---------------------------
(***************************************************************************)
(* One rest_push connector: the batches the push endpoint has queued and   *)
(* the processors (calls of run_connector) that take them to the           *)
(* datastore and to record_state.                                          *)
(*                                                                         *)
(* A processor reads the oldest PENDING batch, or the one --push-run-id     *)
(* names, without claiming it; imports its upserts, sends its deletes, and  *)
(* in one transaction applies both to record_state and marks the batch      *)
(* PROCESSED.  Whatever goes wrong before leaves the batch PENDING.  The    *)
(* batch and its events are taken as read at one moment: a processor        *)
(* overtaken between the two queries finds no event and does nothing.       *)
(*                                                                         *)
(* Batches are created in the order they become visible (one API process,   *)
(* as deployed), and the connector has its checkpoint row, which a push     *)
(* run only writes back.  A version stands for a checksum.                  *)
(***************************************************************************)
EXTENDS Naturals, Sequences

CONSTANTS
    Docs,      \* document ids
    Versions,  \* contents a document may have
    Absent,    \* the document is not there; in an event, a DELETE
    Batches,   \* batch ids: push_batches.run_id
    NoBatch,   \* no batch
    Payloads,  \* sequences of events [doc, ver] a batch may carry
    Procs,     \* processors that may be at work at the same time
    Targets    \* batches some operator may name with --push-run-id

Contents == Versions \cup {Absent}

ASSUME PushAssumption ==
    /\ Absent \notin Versions
    /\ NoBatch \notin Batches
    /\ Payloads \subseteq Seq([doc : Docs, ver : Contents])
    /\ Targets \subseteq Batches

VARIABLES
    queue,        \* the batches by created_at
    events,       \* table push_events: payload per batch
    status,       \* table push_batches: status per batch
    ownRun,       \* table run_state: batches whose id is the id of a run
    recordState,  \* table record_state: checksum per document
    index,        \* datastore: content per document, the batch that wrote it last,
                  \* and whether an operation that nobody awaited did
    late,         \* datastore: batches of which an operation nobody awaits is running
    pc,           \* where each processor is in run_connector
    asked,        \* local: push_run_id
    job,          \* local: push_batch_id
    unsent,       \* local: deletes not yet sent to the datastore
    rowSeen,      \* transaction: checksums of the rows apply_record_state loaded
    gone,         \* transaction: rows it loaded that another commit has removed since
    purged        \* transaction: documents whose rows its DELETE removed and locked

queueVars == <<queue, events>>
tableVars == <<status, recordState>>
indexVars == <<index, late>>
txVars    == <<rowSeen, gone, purged>>
vars == <<queueVars, tableVars, ownRun, indexVars, pc, asked, job, unsent, txVars>>

NothingSeen == [d \in Docs |-> Absent]

TypeOK ==
    /\ queue \in Seq(Batches)
    /\ events \in [Batches -> Payloads \cup {<<>>}]
    /\ status \in [Batches -> {"NONE", "PENDING", "PROCESSED"}]
    /\ ownRun \in SUBSET Batches
    /\ recordState \in [Docs -> Contents]
    /\ index \in [Docs -> [ver : Contents, by : Batches \cup {NoBatch}, late : BOOLEAN]]
    /\ late \in SUBSET Batches
    /\ pc \in [Procs -> {"idle", "consume", "import", "wait", "landed", "delete", "purge",
                         "flush"}]
    /\ asked \in [Procs -> Targets \cup {NoBatch}]
    /\ job \in [Procs -> Batches \cup {NoBatch}]
    /\ unsent \in [Procs -> SUBSET Docs]
    /\ rowSeen \in [Procs -> [Docs -> Contents]]
    /\ gone \in [Procs -> SUBSET Docs]
    /\ purged \in [Procs -> SUBSET Docs]

Init ==
    /\ queue = <<>>
    /\ events = [b \in Batches |-> <<>>]
    /\ status = [b \in Batches |-> "NONE"]
    /\ ownRun = {}
    /\ recordState = [d \in Docs |-> Absent]
    /\ index = [d \in Docs |-> [ver |-> Absent, by |-> NoBatch, late |-> FALSE]]
    /\ late = {}
    /\ pc = [p \in Procs |-> "idle"]
    /\ asked = [p \in Procs |-> NoBatch]
    /\ job = [p \in Procs |-> NoBatch]
    /\ unsent = [p \in Procs |-> {}]
    /\ rowSeen = [p \in Procs |-> NothingSeen]
    /\ gone = [p \in Procs |-> {}]
    /\ purged = [p \in Procs |-> {}]

Goto(p, label) == pc' = [pc EXCEPT ![p] = label]

\* _split_push_docs: contents batch b upserts d with, and documents it deletes.
Upserts(b, d) == {v \in Versions : \E i \in DOMAIN events[b] :
                                       events[b][i] = [doc |-> d, ver |-> v]}
Deletes(b)    == {d \in Docs : \E i \in DOMAIN events[b] :
                                   events[b][i] = [doc |-> d, ver |-> Absent]}

-----------------------------------------------------------------------------
(* The queue and the processors.                                           *)

\* push_events commits the batch with its events.
Push(b, es) ==
    /\ status[b] = "NONE"
    /\ queue' = Append(queue, b)
    /\ events' = [events EXCEPT ![b] = es]
    /\ status' = [status EXCEPT ![b] = "PENDING"]
    /\ UNCHANGED <<ownRun, recordState, indexVars, pc, asked, job, unsent, txVars>>

\* A scheduled run, under a new run id.
StartRun(p) ==
    /\ pc[p] = "idle"
    /\ Goto(p, "consume")
    /\ UNCHANGED <<queueVars, tableVars, ownRun, indexVars, asked, job, unsent, txVars>>

\* A run with --push-run-id b takes b for its own run id.  _start_run inserts it,
\* before the try block: the second run of that name dies there.
StartTargeted(p, b) ==
    /\ pc[p] = "idle"
    /\ b \notin ownRun
    /\ ownRun' = ownRun \cup {b}
    /\ asked' = [asked EXCEPT ![p] = b]
    /\ Goto(p, "consume")
    /\ UNCHANGED <<queueVars, tableVars, indexVars, job, unsent, txVars>>

\* The call ends, in success or failure; its transaction is over.
Leave(p) ==
    /\ Goto(p, "idle")
    /\ asked' = [asked EXCEPT ![p] = NoBatch]
    /\ job' = [job EXCEPT ![p] = NoBatch]
    /\ unsent' = [unsent EXCEPT ![p] = {}]

Rollback(p) ==
    /\ rowSeen' = [rowSeen EXCEPT ![p] = NothingSeen]
    /\ gone' = [gone EXCEPT ![p] = {}]
    /\ purged' = [purged EXCEPT ![p] = {}]

\* Mutant: the status is not asked for.
SelectedAnyStatus(p) == {i \in DOMAIN queue : asked[p] \in {NoBatch, queue[i]}}

\* The rows the query of _consume_push_batch selects.
Selected(p) ==
    {i \in DOMAIN queue : status[queue[i]] = "PENDING" /\ asked[p] \in {NoBatch, queue[i]}}

ConsumeNothing(p) ==
    /\ pc[p] = "consume"
    /\ Selected(p) = {}
    /\ Leave(p)
    /\ UNCHANGED <<queueVars, tableVars, ownRun, indexVars, txVars>>

\* Mutant: ORDER BY created_at DESC.
FirstDescending(rows, i) == i \in rows /\ \A j \in rows : j <= i

\* ORDER BY created_at, first().
First(rows, i) == i \in rows /\ \A j \in rows : i <= j

Consume(p) ==
    /\ pc[p] = "consume"
    /\ \E i \in Selected(p) :
          /\ First(Selected(p), i)
          /\ job' = [job EXCEPT ![p] = queue[i]]
          /\ unsent' = [unsent EXCEPT ![p] = Deletes(queue[i])]
    /\ Goto(p, "import")
    /\ UNCHANGED <<queueVars, tableVars, ownRun, indexVars, asked, txVars>>

-----------------------------------------------------------------------------
(* The ingestion.                                                          *)

\* The POST of the upserts file, answered with the name of an operation, as the API
\* promises (an import without a name would not be waited for).
ImportDocuments(p) ==
    /\ pc[p] = "import"
    /\ Goto(p, "wait")
    /\ UNCHANGED <<queueVars, tableVars, ownRun, indexVars, asked, job, unsent, txVars>>

\* The POST is carried out but its answer lost; _request posts again.  (Bound: at
\* most one operation nobody awaits per batch at a time.)
LoseReply(p) ==
    /\ pc[p] = "import"
    /\ job[p] \notin late
    /\ late' = late \cup {job[p]}
    /\ UNCHANGED <<queueVars, tableVars, ownRun, index, pc, asked, job, unsent, txVars>>

\* What an import may make of batch b: of two upserts of one document, either.
Files(b) ==
    {f \in [Docs -> Contents] : \A d \in Docs : IF Upserts(b, d) = {} THEN f[d] = Absent
                                                ELSE f[d] \in Upserts(b, d)}

\* Documents ds of an import of batch b reach the index, incrementally.
Lands(b, ds, unawaited) ==
    \E f \in Files(b) :
        index' = [d \in Docs |-> IF d \in ds /\ f[d] # Absent
                                 THEN [ver |-> f[d], by |-> b, late |-> unawaited]
                                 ELSE index[d]]

OperationDone(p) ==
    /\ pc[p] = "wait"
    /\ Lands(job[p], Docs, FALSE)
    /\ Goto(p, "landed")
    /\ UNCHANGED <<queueVars, tableVars, ownRun, late, asked, job, unsent, txVars>>

\* The operation ends in error after some of its documents; _wait_for_operation
\* raises when it polls next.
OperationError(p) ==
    /\ pc[p] = "wait"
    /\ \E ds \in SUBSET Docs : Lands(job[p], ds, FALSE)
    /\ Leave(p)
    /\ UNCHANGED <<queueVars, tableVars, ownRun, late, txVars>>

\* An operation nobody awaits ends, however late.
LateLands(b) ==
    /\ b \in late
    /\ \E ds \in SUBSET Docs : Lands(b, ds, TRUE)
    /\ late' = late \ {b}
    /\ UNCHANGED <<queueVars, tableVars, ownRun, pc, asked, job, unsent, txVars>>

\* Mutant: the run goes on as soon as the operation has a name.
ImportNotAwaited(p) ==
    /\ pc[p] = "wait"
    /\ late' = late \cup {job[p]}
    /\ Goto(p, "delete")
    /\ UNCHANGED <<queueVars, tableVars, ownRun, index, asked, job, unsent, txVars>>

ImportDone(p) ==
    /\ pc[p] = "landed"
    /\ Goto(p, "delete")
    /\ UNCHANGED <<queueVars, tableVars, ownRun, indexVars, asked, job, unsent, txVars>>

DeleteDocument(p, d) ==
    /\ pc[p] = "delete"
    /\ d \in unsent[p]
    /\ index' = [index EXCEPT ![d] = [ver |-> Absent, by |-> job[p], late |-> FALSE]]
    /\ unsent' = [unsent EXCEPT ![p] = @ \ {d}]
    /\ UNCHANGED <<queueVars, tableVars, ownRun, late, pc, asked, job, txVars>>

-----------------------------------------------------------------------------
(* The transaction.                                                        *)

\* apply_record_state loads the rows of the connector.
SelectRows(p) ==
    /\ pc[p] = "delete"
    /\ unsent[p] = {}
    /\ rowSeen' = [rowSeen EXCEPT ![p] = recordState]
    /\ Goto(p, "purge")
    /\ UNCHANGED <<queueVars, tableVars, ownRun, indexVars, asked, job, unsent, gone, purged>>

\* A transaction waits for rows another has removed and not yet committed.
Waits(p, q) ==
    /\ p # q
    /\ \/ pc[p] = "purge" /\ Deletes(job[p]) \cap purged[q] # {}
       \/ pc[p] = "flush" /\ \E d \in purged[q] : Upserts(job[p], d) # {}
Blocked(p) == \E q \in Procs : Waits(p, q)

\* Its DELETE statement, before the flush: it meets no row this run will insert.
PurgeRows(p) ==
    /\ pc[p] = "purge"
    /\ ~Blocked(p)
    /\ purged' = [purged EXCEPT ![p] = {d \in Deletes(job[p]) : recordState[d] # Absent}]
    /\ Goto(p, "flush")
    /\ UNCHANGED <<queueVars, tableVars, ownRun, indexVars, asked, job, unsent, rowSeen,
                   gone>>

\* At the flush an upsert inserts a row if none was loaded; otherwise it updates
\* the one loaded, which a DELETE of the same document has taken out of the session.
Inserts(p, d) == Upserts(job[p], d) # {} /\ rowSeen[p][d] = Absent
Updates(p, d) ==
    Upserts(job[p], d) # {} /\ rowSeen[p][d] # Absent /\ d \notin Deletes(job[p])

\* Batch b upserts d twice.
Repeats(b, d) ==
    \E i, j \in DOMAIN events[b] :
        /\ i # j
        /\ events[b][i].doc = d /\ events[b][i].ver # Absent
        /\ events[b][j].doc = d /\ events[b][j].ver # Absent

\* The flush violates the unique constraint, or misses the row it updates.
Conflict(p) ==
    \E d \in Docs :
        \/ Inserts(p, d) /\ (Repeats(job[p], d) \/ (recordState[d] # Absent /\ d \notin purged[p]))
        \/ Updates(p, d) /\ d \in gone[p]

\* What the row of d may be after the commit.  An update does not write the checksum
\* that was loaded, but leaves the row with the one it has by now.
RowsAfter(p, d) ==
    IF Inserts(p, d) THEN Upserts(job[p], d)
    ELSE IF Updates(p, d)
    THEN {IF v = rowSeen[p][d] THEN recordState[d] ELSE v : v \in Upserts(job[p], d)}
    ELSE IF d \in purged[p] THEN {Absent} ELSE {recordState[d]}

\* Mutant: the batch is given the status of a run.
StatusAfterSuccess(p) == [status EXCEPT ![job[p]] = "SUCCESS"]
\* Mutant: the batch is marked in a session that is not committed.
StatusAfterLost(p) == status
\* _mark_push_batch_processed.
StatusAfter(p) == [status EXCEPT ![job[p]] = "PROCESSED"]

\* The one commit of record_state, checkpoint and batch.  Rows it removed are gone
\* for those who loaded them.  (_set_run_success afterwards concerns no batch.)
Commit(p) ==
    /\ pc[p] = "flush"
    /\ ~Blocked(p)
    /\ ~Conflict(p)
    /\ recordState' \in [Docs -> Contents]
    /\ \A d \in Docs : recordState'[d] \in RowsAfter(p, d)
    /\ status' = StatusAfter(p)
    /\ rowSeen' = [rowSeen EXCEPT ![p] = NothingSeen]
    /\ gone' = [q \in Procs |->
                   IF q = p THEN {} ELSE gone[q] \cup {d \in purged[p] : rowSeen[q][d] # Absent}]
    /\ purged' = [purged EXCEPT ![p] = {}]
    /\ Leave(p)
    /\ UNCHANGED <<queueVars, ownRun, indexVars>>

CommitFails(p) ==
    /\ pc[p] = "flush"
    /\ ~Blocked(p)
    /\ Conflict(p)
    /\ Leave(p)
    /\ Rollback(p)
    /\ UNCHANGED <<queueVars, tableVars, ownRun, indexVars>>

\* Two transactions wait for each other and the database aborts one.
DeadlockVictim(p) ==
    /\ \E q \in Procs : Waits(p, q) /\ Waits(q, p)
    /\ Leave(p)
    /\ Rollback(p)
    /\ UNCHANGED <<queueVars, tableVars, ownRun, indexVars>>

\* An exception or the end of the process: the operation a run was waiting for
\* goes on without it.
Stop(p) ==
    /\ pc[p] # "idle"
    /\ late' = IF pc[p] = "wait" THEN late \cup {job[p]} ELSE late
    /\ Leave(p)
    /\ Rollback(p)
    /\ UNCHANGED <<queueVars, tableVars, ownRun, index>>

-----------------------------------------------------------------------------
Step(p) ==
    \/ ConsumeNothing(p)
    \/ Consume(p)
    \/ ImportDocuments(p)
    \/ OperationDone(p)
    \/ ImportDone(p)
    \/ \E d \in Docs : DeleteDocument(p, d)
    \/ SelectRows(p)
    \/ PurgeRows(p)
    \/ Commit(p)
    \/ CommitFails(p)
    \/ DeadlockVictim(p)

\* What the environment does to a run.
Disturb(p) == LoseReply(p) \/ OperationError(p) \/ Stop(p)

Next ==
    \/ \E b \in Batches, es \in Payloads : Push(b, es)
    \/ \E p \in Procs : StartRun(p) \/ Step(p) \/ Disturb(p)
    \/ \E p \in Procs, b \in Targets : StartTargeted(p, b)
    \/ \E b \in Batches : LateLands(b)

Spec == Init /\ [][Next]_vars

\* The scheduler keeps starting runs, a run keeps executing, and from some moment
\* on nothing but its own steps happens to a run (some of which, a query without
\* rows or a conflict, end it just as a disturbance does).
FairSpec ==
    /\ Spec
    /\ \A p \in Procs : WF_vars(StartRun(p)) /\ WF_vars(Step(p))
    /\ <>[][\A p \in Procs : Disturb(p) => Step(p)]_vars

-----------------------------------------------------------------------------
(* Properties.                                                             *)

Processed == {b \in Batches : status[b] = "PROCESSED"}

Log == INSTANCE DeltaLog WITH log <- queue, applied <- Processed, mirror <- recordState

\* One processor and no --push-run-id: record_state is what the delta log promises.
\* Every batch marked PROCESSED changed it once, whole, and after all older ones,
\* whatever failed or was retried before.
ImplementsDeltaLog == Log!Spec

\* Even with several processors at once, a batch overtakes one accepted before it
\* only if some run named it: scheduled runs mark batches in order, and a batch that
\* fails holds up those behind it.
ProcessedInOrder ==
    \A i, j \in DOMAIN queue : /\ i < j
                               /\ status[queue[j]] = "PROCESSED"
                               /\ queue[j] \notin ownRun
                               => status[queue[i]] = "PROCESSED"

Names(b, d) == Upserts(b, d) # {} \/ d \in Deletes(b)

\* The batch that some run is or will be working on next.
NextUp(b) == \E i \in DOMAIN queue :
              /\ queue[i] = b /\ status[b] = "PENDING"
              /\ \A j \in 1..(i - 1) : status[queue[j]] # "PENDING"

\* b is the youngest processed batch that names d.
LastNaming(b, d) ==
    /\ Names(b, d)
    /\ \E i \in DOMAIN queue :
          /\ queue[i] = b /\ status[b] = "PROCESSED"
          /\ \A j \in DOMAIN queue :
                status[queue[j]] = "PROCESSED" /\ Names(queue[j], d) => j <= i

\* The datastore has of d what batch b sent last, deletes after upserts; and so has
\* record_state when b has but one kind of event for d.
HasSent(b, d) ==
    /\ IF d \in Deletes(b) THEN index[d].ver = Absent ELSE index[d].ver \in Upserts(b, d)
    /\ Upserts(b, d) = {} \/ (d \notin Deletes(b) /\ ~Repeats(b, d))
          => recordState[d] = index[d].ver

\* One processor and no --push-run-id: a document the datastore holds was last
\* written by the youngest processed batch that names it, as that batch said, or by
\* the batch whose turn it is, or by an import whose answer was lost.
DatastoreFollowsLog ==
    \A d \in Docs :
        LET b == index[d].by
        IN  \/ index[d].late
            \/ b # NoBatch /\ NextUp(b)
            \/ b # NoBatch /\ LastNaming(b, d) /\ HasSent(b, d)
            \/ b = NoBatch /\ \A c \in Processed : ~Names(c, d)

\* Any number of processors, targeted runs included: a row of record_state holds
\* what some processed batch upserts, and a document without a row that some
\* processed batch upserts is one that some processed batch deletes.  Nothing that
\* was rolled back shows, and no row is lost between two transactions.
RowsComeFromProcessed ==
    \A d \in Docs :
        IF recordState[d] = Absent
        THEN (\E b \in Processed : Upserts(b, d) # {}) => \E b \in Processed : d \in Deletes(b)
        ELSE \E b \in Processed : recordState[d] \in Upserts(b, d)

\* One processor: however often runs were disturbed before, every accepted batch is
\* processed in the end, unless a batch that upserts some document twice is next.
EveryBatchProcessed ==
    \A b \in Batches : status[b] = "PENDING" ~>
        \/ status[b] = "PROCESSED"
        \/ \E c \in Batches : NextUp(c) /\ \E d \in Docs : Repeats(c, d)

\* "No sustained push backlog growth": again and again nothing is waiting.
BacklogDrains == []<>(\A b \in Batches : status[b] # "PENDING")

\* "--push-run-id (optional, process existing queued push run)": a queued batch that
\* no run is working on can be processed by its id.
QueuedRunIsProcessable ==
    \A b \in Targets : /\ status[b] = "PENDING"
                       /\ \A p \in Procs : asked[p] # b
                       => b \notin ownRun
=============================================================================
