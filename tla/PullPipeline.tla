---------------------------- MODULE PullPipeline ----------------------------
(***************************************************************************)
(* One pull connector (sql_pull, rest_pull or file_pull with ndjson output *)
(* and ingestion enabled) and the runs of run_connector that serve it.     *)
(*                                                                         *)
(* A run reads the checkpoint, extracts the source, diffs the extraction   *)
(* against record_state, imports the upserts into the Discovery Engine     *)
(* datastore, sends the deletes one by one, and only then writes           *)
(* record_state and the checkpoint in one database transaction.  The       *)
(* datastore is outside that transaction: a run that fails or dies between *)
(* the import and the commit leaves the datastore ahead of record_state.   *)
(*                                                                         *)
(* The source yields at most one row per document id.  A checksum stands   *)
(* for the content it hashes.                                              *)
(***************************************************************************)
EXTENDS Naturals, FiniteSets

CONSTANTS
    Docs,          \* document ids of the connector
    Versions,      \* contents a document may have, one checksum each
    Absent,        \* the document is not there
    Runs,          \* run ids
    NoRun,         \* no run
    DeletePolicy,  \* spec.reconciliation.deletePolicy
    Incremental,   \* the source honours the watermark it is sent
    Overlap,       \* the scheduler lets two runs of the connector overlap
    MaxChanges     \* bound on the changes of the source

ASSUME PullAssumption ==
    /\ Absent \notin Versions
    /\ NoRun \notin Runs
    /\ DeletePolicy \in {"auto_delete_missing", "soft_delete_only", "never_delete"}
    /\ Incremental \in BOOLEAN
    /\ Overlap \in BOOLEAN
    /\ MaxChanges \in Nat

VARIABLES
    source,       \* the source system: per document its content and update stamp
    clock,        \* stamp of the latest change of the source
    recordState,  \* table record_state: checksum, inserting run, last_seen_run_id
    checkpoint,   \* row of connector_checkpoints: inserting run and watermark
    committed,    \* observation: runs whose data transaction committed
    checksumBy,   \* observation: the run that wrote each row's checksum, or removed the row
    runState,     \* table run_state: status per run
    index,        \* datastore: content per document, the run that wrote it last, and
                  \* whether an operation that nobody awaited did
    operations,   \* datastore: the import operation each run awaits
    orphans,      \* datastore: what an operation whose name was lost is to import
    pc,           \* where each run is in run_connector
    watermark,    \* local: checkpoint read, then the watermark to be stored
    pulled,       \* local: normalized documents of the extraction
    upserts,      \* local: ids to import
    deletes,      \* local: ids to delete
    unsent,       \* local: deletes not yet sent to the datastore
    rowSeen,      \* transaction: row of each document as apply_record_state loaded it
    ckptSeen,     \* transaction: the checkpoint as _set_checkpoint loaded it
    purged        \* transaction: documents whose rows its DELETE removed and locked

sourceVars == <<source, clock>>
storeVars  == <<recordState, checkpoint, committed, checksumBy>>
indexVars  == <<index, operations, orphans>>
diffVars   == <<upserts, deletes, unsent>>
txVars     == <<rowSeen, ckptSeen, purged>>
localVars  == <<watermark, pulled, diffVars, txVars>>
vars == <<sourceVars, storeVars, runState, indexVars, pc, localVars>>

Contents == Versions \cup {Absent}
Writers  == Runs \cup {NoRun}

NoRow     == [sum |-> Absent, row |-> NoRun, seen |-> NoRun]
NoCheckpoint == [row |-> NoRun, mark |-> 0]
NoContent == [d \in Docs |-> Absent]
NoRows    == [d \in Docs |-> [sum |-> Absent, row |-> NoRun]]

Running == {"checkpoint", "extract", "diff", "import", "wait", "delete",
            "purge", "flush", "report", "failing"}
Ended   == {"succeeded", "failed", "crashed"}
InTry   == Running \ {"failing"}

Active == {r \in Runs : pc[r] \in Running}

TypeOK ==
    /\ source \in [Docs -> [ver : Contents, stamp : Nat]]
    /\ clock \in Nat
    /\ recordState \in [Docs -> [sum : Contents, row : Writers, seen : Writers]]
    /\ checkpoint \in [row : Writers, mark : Nat]
    /\ committed \in SUBSET Runs
    /\ checksumBy \in [Docs -> Writers]
    /\ runState \in [Runs -> {"NONE", "RUNNING", "SUCCESS", "FAILED"}]
    /\ index \in [Docs -> [ver : Contents, by : Writers, late : BOOLEAN]]
    /\ operations \in [Runs -> [state : {"none", "running", "done", "error"},
                                docs : [Docs -> Contents]]]
    /\ orphans \in [Runs -> [Docs -> Contents]]
    /\ pc \in [Runs -> {"new"} \cup Running \cup Ended]
    /\ watermark \in [Runs -> Nat]
    /\ pulled \in [Runs -> [Docs -> Contents]]
    /\ upserts \in [Runs -> SUBSET Docs]
    /\ deletes \in [Runs -> SUBSET Docs]
    /\ unsent \in [Runs -> SUBSET Docs]
    /\ rowSeen \in [Runs -> [Docs -> [sum : Contents, row : Writers]]]
    /\ ckptSeen \in [Runs -> [row : Writers, mark : Nat]]
    /\ purged \in [Runs -> SUBSET Docs]

Init ==
    /\ source = [d \in Docs |-> [ver |-> Absent, stamp |-> 0]]
    /\ clock = 0
    /\ recordState = [d \in Docs |-> NoRow]
    /\ checkpoint = NoCheckpoint
    /\ committed = {}
    /\ checksumBy = [d \in Docs |-> NoRun]
    /\ runState = [r \in Runs |-> "NONE"]
    /\ index = [d \in Docs |-> [ver |-> Absent, by |-> NoRun, late |-> FALSE]]
    /\ operations = [r \in Runs |-> [state |-> "none", docs |-> NoContent]]
    /\ orphans = [r \in Runs |-> NoContent]
    /\ pc = [r \in Runs |-> "new"]
    /\ watermark = [r \in Runs |-> 0]
    /\ pulled = [r \in Runs |-> NoContent]
    /\ upserts = [r \in Runs |-> {}]
    /\ deletes = [r \in Runs |-> {}]
    /\ unsent = [r \in Runs |-> {}]
    /\ rowSeen = [r \in Runs |-> NoRows]
    /\ ckptSeen = [r \in Runs |-> NoCheckpoint]
    /\ purged = [r \in Runs |-> {}]

Goto(r, label) == pc' = [pc EXCEPT ![r] = label]

-----------------------------------------------------------------------------
(* The source system.                                                      *)

\* A row is inserted, changed, changed back or removed.
SourceChange(d, v) ==
    /\ clock < MaxChanges
    /\ v # source[d].ver
    /\ clock' = clock + 1
    /\ source' = [source EXCEPT ![d] = [ver |-> v, stamp |-> clock + 1]]
    /\ UNCHANGED <<storeVars, runState, indexVars, pc, localVars>>

-----------------------------------------------------------------------------
(* The run.                                                                *)

\* _start_run inserts and commits the run_state row before anything else.  A
\* CronJob with concurrencyPolicy Forbid starts no run while one is active;
\* Studio's run-now and the Kestra flow do not ask.
StartRun(r) ==
    /\ pc[r] = "new"
    /\ Overlap \/ Active = {}
    /\ runState' = [runState EXCEPT ![r] = "RUNNING"]
    /\ Goto(r, "checkpoint")
    /\ UNCHANGED <<sourceVars, storeVars, indexVars, localVars>>

GetCheckpoint(r) ==
    /\ pc[r] = "checkpoint"
    /\ watermark' = [watermark EXCEPT ![r] = checkpoint.mark]
    /\ Goto(r, "extract")
    /\ UNCHANGED <<sourceVars, storeVars, runState, indexVars, pulled, diffVars, txVars>>

\* The rows a query, or a REST endpoint sent the watermark, answers with.
Returned(since) ==
    {d \in Docs : /\ source[d].ver # Absent
                  /\ Incremental => source[d].stamp > since}

\* _max_watermark: the greatest stamp among the rows, the old one without rows.
IsMaxWatermark(mark, ds, fallback) ==
    IF ds = {} THEN mark = fallback
               ELSE /\ \E d \in ds : mark = source[d].stamp
                    /\ \A d \in ds : source[d].stamp <= mark

Extract(r) ==
    /\ pc[r] = "extract"
    /\ LET ds == Returned(watermark[r])
       IN  /\ pulled' = [pulled EXCEPT ![r] =
                            [d \in Docs |-> IF d \in ds THEN source[d].ver ELSE Absent]]
           /\ \E mark \in {source[d].stamp : d \in Docs} \cup {watermark[r]} :
                 /\ IsMaxWatermark(mark, ds, watermark[r])
                 /\ watermark' = [watermark EXCEPT ![r] = mark]
    /\ Goto(r, "diff")
    /\ UNCHANGED <<sourceVars, storeVars, runState, indexVars, diffVars, txVars>>

\* compute_diffs: new or changed documents, and, unless the policy is
\* never_delete, the known documents the extraction lacks.

\* Mutant: known documents are never compared.
ChangedNewOnly(docs) == {d \in Docs : docs[d] # Absent /\ recordState[d].sum = Absent}
Changed(docs) == {d \in Docs : docs[d] # Absent /\ recordState[d].sum # docs[d]}

\* Mutant: the deletes of auto_delete_missing are forgotten.
MissingNever(docs) == {}
Missing(docs) ==
    IF DeletePolicy \in {"auto_delete_missing", "soft_delete_only"}
    THEN {d \in Docs : recordState[d].sum # Absent /\ docs[d] = Absent}
    ELSE {}

ComputeDiffs(r) ==
    /\ pc[r] = "diff"
    /\ upserts' = [upserts EXCEPT ![r] = Changed(pulled[r])]
    /\ deletes' = [deletes EXCEPT ![r] = Missing(pulled[r])]
    /\ unsent' = [unsent EXCEPT ![r] = Missing(pulled[r])]
    /\ Goto(r, "import")
    /\ UNCHANGED <<sourceVars, storeVars, runState, indexVars, watermark, pulled, txVars>>

\* The upserts file as published.
UpsertsFile(r) == [d \in Docs |-> IF d \in upserts[r] THEN pulled[r][d] ELSE Absent]

\* import_documents posts the published upserts file; the datastore answers
\* with the name of a long-running operation.  (An answer without a name would not be
\* waited for: the API promises one.)
ImportDocuments(r) ==
    /\ pc[r] = "import"
    /\ operations' = [operations EXCEPT ![r] = [state |-> "running", docs |-> UpsertsFile(r)]]
    /\ Goto(r, "wait")
    /\ UNCHANGED <<sourceVars, storeVars, runState, index, orphans, localVars>>

\* The datastore accepts the request but its answer is lost: _request times out
\* and posts again, and nobody will wait for the first operation.  (Bound: one
\* such operation of a run at a time; the others would import the same.)
LoseReply(r) ==
    /\ pc[r] = "import"
    /\ orphans[r] = NoContent
    /\ orphans' = [orphans EXCEPT ![r] = UpsertsFile(r)]
    /\ UNCHANGED <<sourceVars, storeVars, runState, index, operations, pc, localVars>>

\* Mutant: the run goes on as soon as the operation has a name.
ImportNotAwaited(r) ==
    /\ pc[r] = "wait"
    /\ Goto(r, "delete")
    /\ UNCHANGED <<sourceVars, storeVars, runState, indexVars, localVars>>

\* _wait_for_operation sees the operation done without an error.
ImportDone(r) ==
    /\ pc[r] = "wait"
    /\ operations[r].state = "done"
    /\ Goto(r, "delete")
    /\ UNCHANGED <<sourceVars, storeVars, runState, indexVars, localVars>>

\* One DELETE request of delete_documents; a document already gone answers
\* 404, which counts as deleted.
DeleteDocument(r, d) ==
    /\ pc[r] = "delete"
    /\ d \in unsent[r]
    /\ index' = [index EXCEPT ![d] = [ver |-> Absent, by |-> r, late |-> FALSE]]
    /\ unsent' = [unsent EXCEPT ![r] = @ \ {d}]
    /\ UNCHANGED <<sourceVars, storeVars, runState, operations, orphans, pc, watermark,
                   pulled, upserts, deletes, txVars>>

\* apply_record_state loads the rows afresh, to decide between update and insert and
\* as what the session will compare the attributes it is given with.
SelectRows(r) ==
    /\ pc[r] = "delete"
    /\ unsent[r] = {}
    /\ rowSeen' = [rowSeen EXCEPT ![r] =
                      [d \in Docs |-> [sum |-> recordState[d].sum, row |-> recordState[d].row]]]
    /\ Goto(r, "purge")
    /\ UNCHANGED <<sourceVars, storeVars, runState, indexVars, watermark, pulled, diffVars,
                   ckptSeen, purged>>

\* A transaction waits for the row locks another holds on rows it deleted.
Waits(r, s) ==
    /\ r # s
    /\ \/ pc[r] = "purge" /\ deletes[r] \cap purged[s] # {}
       \/ pc[r] = "flush" /\ upserts[r] \cap purged[s] # {}
Blocked(r) == \E s \in Runs : Waits(r, s)

\* apply_record_state's DELETE statement runs at once and locks what it removes
\* (the inserts and updates wait for the flush: the sessions do not autoflush).
\* Then _set_checkpoint loads the checkpoint row.
PurgeRows(r) ==
    /\ pc[r] = "purge"
    /\ ~Blocked(r)
    /\ purged' = [purged EXCEPT ![r] = {d \in deletes[r] : recordState[d].sum # Absent}]
    /\ ckptSeen' = [ckptSeen EXCEPT ![r] = checkpoint]
    /\ Goto(r, "flush")
    /\ UNCHANGED <<sourceVars, storeVars, runState, indexVars, watermark, pulled, diffVars,
                   rowSeen>>

\* An insert meets a row another run inserted meanwhile (unique constraint), an
\* update finds its row gone (StaleDataError), or the checkpoint row exists now.
Conflict(r) ==
    \/ \E d \in upserts[r] : recordState[d].row # rowSeen[r][d].row
    \/ ckptSeen[r].row # checkpoint.row

\* The flush names the columns whose value differs from the one loaded.  A row that
\* was loaded with the checksum extracted, since another run recorded the same content
\* after this run's diff, has its last_seen_run_id updated and its checksum left to
\* whoever writes it.
WritesChecksum(r, d) == d \in upserts[r] /\ rowSeen[r][d].sum # pulled[r][d]

\* Mutant: the update of a known row leaves its checksum alone.
RowAfterStaleSum(r, d) ==
    IF d \in upserts[r]
    THEN [sum  |-> IF rowSeen[r][d].row = NoRun THEN pulled[r][d] ELSE recordState[d].sum,
          row  |-> IF rowSeen[r][d].row = NoRun THEN r ELSE rowSeen[r][d].row,
          seen |-> r]
    ELSE IF d \in purged[r] THEN NoRow ELSE recordState[d]

RowAfter(r, d) ==
    IF d \in upserts[r]
    THEN [sum  |-> IF WritesChecksum(r, d) THEN pulled[r][d] ELSE recordState[d].sum,
          row  |-> IF rowSeen[r][d].row = NoRun THEN r ELSE rowSeen[r][d].row,
          seen |-> r]
    ELSE IF d \in purged[r] THEN NoRow ELSE recordState[d]

\* Mutant: the watermark is the time of the commit, not the newest row extracted.
CheckpointAfterNow(r) ==
    [row |-> IF ckptSeen[r].row = NoRun THEN r ELSE checkpoint.row, mark |-> clock]

\* Nor is a watermark written that is the one loaded (a new row starts without).
CheckpointAfter(r) ==
    [row  |-> IF ckptSeen[r].row = NoRun THEN r ELSE checkpoint.row,
     mark |-> IF ckptSeen[r].mark = watermark[r] THEN checkpoint.mark ELSE watermark[r]]

\* session.commit(): flush and commit record_state and the checkpoint together.
Commit(r) ==
    /\ pc[r] = "flush"
    /\ ~Blocked(r)
    /\ ~Conflict(r)
    /\ recordState' = [d \in Docs |-> RowAfter(r, d)]
    /\ checkpoint' = CheckpointAfter(r)
    /\ committed' = committed \cup {r}
    /\ checksumBy' = [d \in Docs |-> IF WritesChecksum(r, d) \/ d \in purged[r]
                                     THEN r ELSE checksumBy[d]]
    /\ purged' = [purged EXCEPT ![r] = {}]
    /\ Goto(r, "report")
    /\ UNCHANGED <<sourceVars, runState, indexVars, watermark, pulled, diffVars, rowSeen,
                   ckptSeen>>

\* The locals of run_connector die with the call, the transaction rolls back.
Forget(r) ==
    /\ watermark' = [watermark EXCEPT ![r] = 0]
    /\ pulled' = [pulled EXCEPT ![r] = NoContent]
    /\ upserts' = [upserts EXCEPT ![r] = {}]
    /\ deletes' = [deletes EXCEPT ![r] = {}]
    /\ unsent' = [unsent EXCEPT ![r] = {}]
    /\ rowSeen' = [rowSeen EXCEPT ![r] = NoRows]
    /\ ckptSeen' = [ckptSeen EXCEPT ![r] = NoCheckpoint]
    /\ purged' = [purged EXCEPT ![r] = {}]

\* _set_run_success, in a session of its own after the commit.
SetRunSuccess(r) ==
    /\ pc[r] = "report"
    /\ runState' = [runState EXCEPT ![r] = "SUCCESS"]
    /\ Goto(r, "succeeded")
    /\ Forget(r)
    /\ UNCHANGED <<sourceVars, storeVars, indexVars>>

\* An exception leaves the try block and the session closes.
Abandon(r) ==
    /\ Goto(r, "failing")
    /\ Forget(r)
    /\ UNCHANGED <<sourceVars, storeVars, runState, indexVars>>

\* Whatever the try block calls may raise: the source, the normalizer, the
\* object store, a Gemini request, the database.
Raise(r) == pc[r] \in InTry /\ Abandon(r)

\* The operation failed, polling it failed, or 600 seconds passed; in the last
\* two cases it may still finish later.
ImportFails(r) ==
    /\ pc[r] = "wait"
    /\ operations[r].state # "done"
    /\ Abandon(r)

\* The flush raises IntegrityError or StaleDataError.
CommitFails(r) ==
    /\ pc[r] = "flush"
    /\ ~Blocked(r)
    /\ Conflict(r)
    /\ Abandon(r)

\* Mutant: the failed run's status is never committed.
SetRunFailureLost(r) ==
    /\ pc[r] = "failing"
    /\ Goto(r, "failed")
    /\ UNCHANGED <<sourceVars, storeVars, runState, indexVars, localVars>>

\* Mutant: the exception class is stored as the status.
SetRunFailureWrongStatus(r) ==
    /\ pc[r] = "failing"
    /\ runState' = [runState EXCEPT ![r] = "RuntimeError"]
    /\ Goto(r, "failed")
    /\ UNCHANGED <<sourceVars, storeVars, indexVars, localVars>>

\* _set_run_failure, in a session of its own.
SetRunFailure(r) ==
    /\ pc[r] = "failing"
    /\ runState' = [runState EXCEPT ![r] = "FAILED"]
    /\ Goto(r, "failed")
    /\ UNCHANGED <<sourceVars, storeVars, indexVars, localVars>>

\* The process dies, or _set_run_failure itself raises: nothing marks the run.
Crash(r) ==
    /\ pc[r] \in Running
    /\ Goto(r, "crashed")
    /\ Forget(r)
    /\ UNCHANGED <<sourceVars, storeVars, runState, indexVars>>

-----------------------------------------------------------------------------
(* The datastore and the database server.                                  *)

\* The datastore carries out documents ds of an import, incrementally: other
\* documents stay.
Imported(r, docs, ds, late) ==
    [d \in Docs |-> IF d \in ds /\ docs[d] # Absent
                    THEN [ver |-> docs[d], by |-> r, late |-> late]
                    ELSE index[d]]

\* The operation finishes, whether or not its run still waits for it.
OperationDone(r) ==
    /\ operations[r].state = "running"
    /\ index' = Imported(r, operations[r].docs, Docs, FALSE)
    /\ operations' = [operations EXCEPT ![r] = [state |-> "done", docs |-> NoContent]]
    /\ UNCHANGED <<sourceVars, storeVars, runState, orphans, pc, localVars>>

\* The operation ends in error after some of its documents.
OperationError(r) ==
    /\ operations[r].state = "running"
    /\ \E ds \in SUBSET Docs : index' = Imported(r, operations[r].docs, ds, FALSE)
    /\ operations' = [operations EXCEPT ![r] = [state |-> "error", docs |-> NoContent]]
    /\ UNCHANGED <<sourceVars, storeVars, runState, orphans, pc, localVars>>

\* The operation nobody awaits ends, after some or all of its documents, perhaps
\* long after its run has committed.
OrphanEnds(r) ==
    /\ orphans[r] # NoContent
    /\ \E ds \in SUBSET Docs : index' = Imported(r, orphans[r], ds, TRUE)
    /\ orphans' = [orphans EXCEPT ![r] = NoContent]
    /\ UNCHANGED <<sourceVars, storeVars, runState, operations, pc, localVars>>

\* The database aborts a transaction that is part of a cycle of lock waits.
DeadlockVictim(r) ==
    /\ \E s \in Runs : Waits(r, s) /\ Waits(s, r)
    /\ Abandon(r)

-----------------------------------------------------------------------------
Step(r) ==
    \/ GetCheckpoint(r)
    \/ Extract(r)
    \/ ComputeDiffs(r)
    \/ ImportDocuments(r)
    \/ ImportDone(r)
    \/ \E d \in Docs : DeleteDocument(r, d)
    \/ SelectRows(r)
    \/ PurgeRows(r)
    \/ Commit(r)
    \/ SetRunSuccess(r)
    \/ ImportFails(r)
    \/ CommitFails(r)
    \/ DeadlockVictim(r)
    \/ SetRunFailure(r)

Next ==
    \/ \E d \in Docs, v \in Contents : SourceChange(d, v)
    \/ \E r \in Runs : StartRun(r) \/ Step(r) \/ LoseReply(r) \/ Raise(r) \/ Crash(r)
    \/ \E r \in Runs : OperationDone(r) \/ OperationError(r) \/ OrphanEnds(r)

Spec == Init /\ [][Next]_vars

\* A run that has begun keeps executing: each of its steps is program code, a
\* bounded wait or the database's answer.  Nothing is assumed of the source, of
\* the scheduler or of the datastore's operations.
FairSpec == Spec /\ \A r \in Runs : WF_vars(Step(r))

-----------------------------------------------------------------------------
(* Properties.                                                             *)

\* The datastore's copy was last written by a run that has not committed, or by an
\* import whose answer was lost.
Unconfirmed(d) == index[d].by \in Runs \ committed \/ index[d].late

\* With runs that never overlap, the datastore holds a content other than the
\* one record_state remembers only where a run that did not commit, or an import
\* request that was retried, wrote last: whatever mixture of failures, crashes,
\* late imports and source changes led here, what a committed run deleted and
\* what it awaited is in the datastore as it recorded it.  (pipeline.py imports
\* and deletes first, commits record_state last.)
DatastoreAgrees ==
    \A d \in Docs : index[d].ver # recordState[d].sum => Unconfirmed(d)

\* Even when runs overlap, a document whose datastore copy and whose checksum in
\* record_state were last written by the same run is the same in both.  (A run imports
\* and records one and the same extraction.)  The row's last_seen_run_id does not tell
\* which run that is: see WritesChecksum.
LastWriterAgrees ==
    \A d \in Docs : /\ index[d].by # NoRun
                    /\ index[d].by = checksumBy[d]
                    => index[d].ver = recordState[d].sum

\* With runs that never overlap, a source change at or below the stored watermark
\* is in record_state: an incremental source, which will not send it again, has
\* nothing that was skipped.  (Checkpoint and record_state advance in one
\* transaction, after the ingestion.)
CheckpointCovers ==
    \A d \in Docs : /\ source[d].ver # Absent
                    /\ source[d].stamp <= checkpoint.mark
                    => recordState[d].sum = source[d].ver

\* A run commits, and is reported as successful, only after its import operation
\* finished without an error; so a failed ingestion leaves record_state and the
\* checkpoint to the runs before it.
IngestedBeforeCommit ==
    /\ \A r \in committed : operations[r].state = "done"
    /\ \A r \in Runs : runState[r] = "SUCCESS" => r \in committed

\* With runs that never overlap, the commit of a run leaves record_state equal to
\* what the run extracted; with never_delete, documents it did not extract stay.
CommitReconciles ==
    [][\A r \in committed' \ committed : \A d \in Docs :
          recordState'[d].sum =
              IF pulled[r][d] = Absent /\ DeletePolicy = "never_delete"
              THEN recordState[d].sum ELSE pulled[r][d]]_vars

\* Under soft_delete_only no document that the datastore holds disappears from it
\* ("mark-only semantics for integrations that avoid hard deletes").
SoftDeleteKeepsDocuments ==
    [][DeletePolicy = "soft_delete_only" =>
          \A d \in Docs : index[d].ver # Absent => index'[d].ver # Absent]_vars

\* A run recorded as RUNNING ends as SUCCESS or FAILED unless its process died:
\* overlapping transactions that wait for each other's row locks are resolved.
RunEnds ==
    \A r \in Runs : runState[r] = "RUNNING" ~>
                        (runState[r] \in {"SUCCESS", "FAILED"} \/ pc[r] = "crashed")
=============================================================================
