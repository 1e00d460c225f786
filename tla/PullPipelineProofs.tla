------------------------- MODULE PullPipelineProofs -------------------------
(***************************************************************************)
(* Theorems about PullPipeline, for every set of documents, contents and   *)
(* runs, every delete policy and every bound.                              *)
(***************************************************************************)
EXTENDS PullPipeline, TLAPS

LEMMA TypeInit == Init => TypeOK
  BY PullAssumption DEF Init, TypeOK, Contents, Writers, NoRow, NoContent, NoRows, NoCheckpoint, Running, Ended

\* Leaving the try block and dying keep the types.
LEMMA TypeForget ==
  ASSUME TypeOK, NEW r \in Runs, NEW label \in {"failing", "succeeded", "crashed"},
         Goto(r, label), Forget(r), UNCHANGED <<sourceVars, storeVars, indexVars>>,
         runState' \in [Runs -> {"NONE", "RUNNING", "SUCCESS", "FAILED"}]
  PROVE  TypeOK'
  BY PullAssumption
  DEF TypeOK, Goto, Forget, sourceVars, storeVars, indexVars, NoContent, NoRows, NoCheckpoint, Contents,
      Writers, Running, Ended

LEMMA TypeNext == TypeOK /\ [Next]_vars => TypeOK'
<1> SUFFICES ASSUME TypeOK, [Next]_vars PROVE TypeOK'
    OBVIOUS
<1> USE PullAssumption
<1>1. ASSUME NEW d \in Docs, NEW v \in Contents, SourceChange(d, v) PROVE TypeOK'
    BY <1>1 DEF TypeOK, SourceChange, storeVars, indexVars, localVars, diffVars, txVars
<1>2. ASSUME NEW r \in Runs, StartRun(r) PROVE TypeOK'
    BY <1>2 DEF TypeOK, StartRun, Goto, sourceVars, storeVars, indexVars, localVars, diffVars,
        txVars, Running
<1>3. ASSUME NEW r \in Runs, GetCheckpoint(r) PROVE TypeOK'
    BY <1>3 DEF TypeOK, GetCheckpoint, Goto, sourceVars, storeVars, indexVars, diffVars, txVars,
        Running
<1>4. ASSUME NEW r \in Runs, Extract(r) PROVE TypeOK'
  <2> DEFINE ds == Returned(watermark[r])
             docs == [d \in Docs |-> IF d \in ds THEN source[d].ver ELSE Absent]
  <2>1. docs \in [Docs -> Contents]
      BY DEF TypeOK, Contents
  <2>2. PICK mark \in {source[d].stamp : d \in Docs} \cup {watermark[r]} :
            watermark' = [watermark EXCEPT ![r] = mark]
      BY <1>4 DEF Extract
  <2>3. mark \in Nat
      BY DEF TypeOK
  <2>4. watermark' \in [Runs -> Nat]
      BY <2>2, <2>3 DEF TypeOK
  <2>5. pulled' \in [Runs -> [Docs -> Contents]]
      BY <1>4, <2>1 DEF TypeOK, Extract
  <2>6. QED
      BY <1>4, <2>4, <2>5 DEF TypeOK, Extract, Goto, sourceVars, storeVars, indexVars, diffVars,
          txVars, Running
<1>5. ASSUME NEW r \in Runs, ComputeDiffs(r) PROVE TypeOK'
  <2>1. Changed(pulled[r]) \in SUBSET Docs /\ Missing(pulled[r]) \in SUBSET Docs
      BY DEF Changed, Missing
  <2>2. QED
      BY <1>5, <2>1 DEF TypeOK, ComputeDiffs, Goto, sourceVars, storeVars, indexVars, txVars,
          Running
<1>6. ASSUME NEW r \in Runs, ImportDocuments(r) \/ LoseReply(r) PROVE TypeOK'
  <2>1. UpsertsFile(r) \in [Docs -> Contents]
      BY DEF TypeOK, Contents, UpsertsFile
  <2>2. CASE ImportDocuments(r)
      BY <2>1, <2>2 DEF TypeOK, ImportDocuments, Goto, sourceVars, storeVars, localVars, diffVars,
          txVars, Running
  <2>3. CASE LoseReply(r)
      BY <2>1, <2>3 DEF TypeOK, LoseReply, sourceVars, storeVars, localVars, diffVars, txVars
  <2>4. QED
      BY <1>6, <2>2, <2>3
<1>7. ASSUME NEW r \in Runs, ImportDone(r) PROVE TypeOK'
    BY <1>7 DEF TypeOK, ImportDone, Goto, sourceVars, storeVars, indexVars, localVars, diffVars,
        txVars, Running
<1>8. ASSUME NEW r \in Runs, NEW d \in Docs, DeleteDocument(r, d) PROVE TypeOK'
    BY <1>8 DEF TypeOK, DeleteDocument, sourceVars, storeVars, txVars, Contents, Writers
<1>9. ASSUME NEW r \in Runs, SelectRows(r) PROVE TypeOK'
    BY <1>9 DEF TypeOK, SelectRows, Goto, sourceVars, storeVars, indexVars, diffVars, Running
<1>10. ASSUME NEW r \in Runs, PurgeRows(r) PROVE TypeOK'
  <2>1. {d \in deletes[r] : recordState[d].sum # Absent} \in SUBSET Docs
      BY DEF TypeOK
  <2>2. QED
      BY <1>10, <2>1 DEF TypeOK, PurgeRows, Goto, sourceVars, storeVars, indexVars, diffVars,
          Running
<1>11. ASSUME NEW r \in Runs, Commit(r) PROVE TypeOK'
  <2>1. \A d \in Docs : RowAfter(r, d) \in [sum : Contents, row : Writers, seen : Writers]
      BY DEF TypeOK, RowAfter, NoRow, Contents, Writers
  <2>2. CheckpointAfter(r) \in [row : Writers, mark : Nat]
      BY DEF TypeOK, CheckpointAfter, Writers
  <2>3. checksumBy' \in [Docs -> Writers]
      BY <1>11 DEF TypeOK, Commit, Writers
  <2>4. QED
      BY <1>11, <2>1, <2>2, <2>3 DEF TypeOK, Commit, Goto, sourceVars, indexVars, diffVars, Running
<1>12. ASSUME NEW r \in Runs, SetRunSuccess(r) PROVE TypeOK'
    BY <1>12, TypeForget DEF SetRunSuccess, TypeOK
<1>13. ASSUME NEW r \in Runs, Abandon(r) PROVE TypeOK'
    BY <1>13, TypeForget DEF Abandon, TypeOK
<1>14. ASSUME NEW r \in Runs, SetRunFailure(r) PROVE TypeOK'
    BY <1>14 DEF TypeOK, SetRunFailure, Goto, sourceVars, storeVars, indexVars, localVars,
        diffVars, txVars, Running, Ended
<1>15. ASSUME NEW r \in Runs, Crash(r) PROVE TypeOK'
    BY <1>15, TypeForget DEF Crash, TypeOK
<1>16. ASSUME NEW r \in Runs, OperationDone(r) \/ OperationError(r) \/ OrphanEnds(r)
       PROVE  TypeOK'
  <2>1. \A docs \in [Docs -> Contents], ds \in SUBSET Docs, late \in BOOLEAN :
            Imported(r, docs, ds, late) \in [Docs -> [ver : Contents, by : Writers, late : BOOLEAN]]
      BY DEF TypeOK, Imported, Writers
  <2>2. NoContent \in [Docs -> Contents]
      BY DEF NoContent, Contents
  <2>3. CASE OperationDone(r) \/ OperationError(r)
    <3>0. operations[r].docs \in [Docs -> Contents] /\ TRUE \in BOOLEAN /\ FALSE \in BOOLEAN
        BY DEF TypeOK
    <3>a. PICK ds \in SUBSET Docs : index' = Imported(r, operations[r].docs, ds, FALSE)
        BY <2>3 DEF OperationDone, OperationError
    <3>1. index' \in [Docs -> [ver : Contents, by : Writers, late : BOOLEAN]]
        BY <2>1, <3>0, <3>a
    <3>2. \E end \in {"done", "error"} :
              operations' = [operations EXCEPT ![r] = [state |-> end, docs |-> NoContent]]
        BY <2>3 DEF OperationDone, OperationError
    <3>3. operations' \in [Runs -> [state : {"none", "running", "done", "error"},
                                    docs : [Docs -> Contents]]]
        BY <2>2, <3>2 DEF TypeOK
    <3>4. QED
        BY <2>3, <3>1, <3>3 DEF TypeOK, OperationDone, OperationError, sourceVars, storeVars,
            localVars, diffVars, txVars
  <2>4. CASE OrphanEnds(r)
    <3>0. orphans[r] \in [Docs -> Contents] /\ TRUE \in BOOLEAN
        BY DEF TypeOK
    <3>a. PICK ds \in SUBSET Docs : index' = Imported(r, orphans[r], ds, TRUE)
        BY <2>4 DEF OrphanEnds
    <3>1. index' \in [Docs -> [ver : Contents, by : Writers, late : BOOLEAN]]
        BY <2>1, <3>0, <3>a
    <3>2. orphans' \in [Runs -> [Docs -> Contents]]
        BY <2>2, <2>4 DEF TypeOK, OrphanEnds
    <3>3. QED
        BY <2>4, <3>1, <3>2 DEF TypeOK, OrphanEnds, sourceVars, storeVars, localVars, diffVars,
            txVars
  <2>5. QED
      BY <1>16, <2>3, <2>4
<1>17. CASE UNCHANGED vars
    BY <1>17 DEF TypeOK, vars, sourceVars, storeVars, indexVars, localVars, diffVars, txVars
<1>18. QED
    BY <1>1, <1>2, <1>3, <1>4, <1>5, <1>6, <1>7, <1>8, <1>9, <1>10, <1>11, <1>12, <1>13, <1>14,
       <1>15, <1>16, <1>17
    DEF Next, Step, Raise, ImportFails, CommitFails, DeadlockVictim

\* Every reachable state is well typed: tables, datastore, operations and the
\* locals of every run.
THEOREM TypeCorrect == Spec => []TypeOK
  BY TypeInit, TypeNext, PTL DEF Spec

-----------------------------------------------------------------------------
(***************************************************************************)
(* What each run has done by each point of run_connector, whatever other   *)
(* runs do meanwhile.                                                      *)
(***************************************************************************)

\* Before the diff is there, and between the diff and the commit.
Early == {"new", "checkpoint", "extract", "diff"}
Late  == {"import", "wait", "delete", "purge", "flush"}

\* How far the import operation, the commit and the status are.
StageOf(r) ==
    /\ pc[r] \in {"new", "checkpoint", "extract", "diff", "import"}
          => operations[r].state = "none" /\ r \notin committed
    /\ pc[r] = "wait" => r \notin committed
    /\ pc[r] \in {"delete", "purge", "flush"}
          => operations[r].state = "done" /\ r \notin committed
    /\ pc[r] \in {"report", "succeeded"} => r \in committed
    /\ r \in committed => operations[r].state = "done"
    /\ runState[r] = "SUCCESS" => r \in committed

\* Upserts and deletes come from one extraction, and the import carries the former.
PlanOf(r) ==
    /\ pc[r] \in Early => upserts[r] = {} /\ deletes[r] = {}
    /\ \A d \in upserts[r] : pulled[r][d] # Absent
    /\ \A d \in deletes[r] : pulled[r][d] = Absent
    /\ unsent[r] \subseteq deletes[r]
    /\ purged[r] \subseteq deletes[r]
    /\ pc[r] = "wait" /\ operations[r].state = "running"
          => \A d \in Docs : operations[r].docs[d] = IF d \in upserts[r] THEN pulled[r][d]
                                                                         ELSE Absent

\* What a run wrote to the datastore is what it extracted.
WroteOf(r) ==
    \A d \in Docs : index[d].by = r =>
        /\ pc[r] \notin Early
        /\ pc[r] \in Late => index[d].ver = pulled[r][d] /\ d \in upserts[r] \cup deletes[r]

\* What an import whose answer was lost may still write is what its run extracted,
\* and what the run recorded where it did.
OrphanOf(r) ==
    \A d \in Docs : orphans[r][d] # Absent =>
        /\ pc[r] \notin Early
        /\ pc[r] \in Late => orphans[r][d] = pulled[r][d] /\ d \in upserts[r]
        /\ checksumBy[d] = r => recordState[d].sum = orphans[r][d]

StoredByCommitted == \A d \in Docs : checksumBy[d] \in committed \cup {NoRun}

WriterInv ==
    /\ TypeOK
    /\ \A r \in Runs : StageOf(r) /\ PlanOf(r) /\ WroteOf(r) /\ OrphanOf(r)
    /\ StoredByCommitted
    /\ LastWriterAgrees

LEMMA WriterInit == Init => WriterInv
  BY TypeInit, PullAssumption
  DEF Init, WriterInv, StageOf, PlanOf, WroteOf, OrphanOf, StoredByCommitted, LastWriterAgrees, NoRow,
      NoContent, NoRows, Early

\* A run that gives up touches neither the tables nor the datastore.
LEMMA WriterForget ==
  ASSUME WriterInv, TypeOK', NEW r \in Runs, NEW label \in {"failing", "crashed"},
         Goto(r, label), Forget(r), UNCHANGED <<sourceVars, storeVars, runState, indexVars>>
  PROVE  WriterInv'
<1>1. \A s \in Runs : (StageOf(s))'
    BY DEF WriterInv, TypeOK, Goto, StageOf, storeVars, indexVars
<1>2. \A s \in Runs : (PlanOf(s))'
    BY DEF WriterInv, TypeOK, Goto, Forget, PlanOf, indexVars
<1>3. \A s \in Runs : (WroteOf(s))' /\ (OrphanOf(s))'
    BY DEF WriterInv, TypeOK, Goto, Forget, WroteOf, OrphanOf, indexVars, storeVars, Early, Late
<1>4. QED
    BY <1>1, <1>2, <1>3 DEF WriterInv, StoredByCommitted, LastWriterAgrees, storeVars, indexVars

LEMMA WriterAbandon ==
  ASSUME WriterInv, TypeOK', NEW r \in Runs, Abandon(r) \/ Crash(r)
  PROVE  WriterInv'
  BY WriterForget DEF Abandon, Crash

\* A document the import of run r writes becomes what r extracted.
LEMMA WriterOperation ==
  ASSUME WriterInv, TypeOK', NEW r \in Runs, OperationDone(r) \/ OperationError(r)
  PROVE  WriterInv'
<1> USE DEF WriterInv
<1>1. PICK ds \in SUBSET Docs, end \in {"done", "error"} :
          /\ operations[r].state = "running"
          /\ index' = Imported(r, operations[r].docs, ds, FALSE)
          /\ operations' = [operations EXCEPT ![r] = [state |-> end, docs |-> NoContent]]
          /\ UNCHANGED <<sourceVars, storeVars, runState, orphans, pc, localVars>>
    BY DEF OperationDone, OperationError
<1>2. r \notin committed /\ pc[r] \notin Early
    BY <1>1 DEF StageOf, Early
<1>3. \A s \in Runs : (StageOf(s))'
    BY <1>1, <1>2 DEF TypeOK, StageOf, storeVars
<1>4. \A s \in Runs : (PlanOf(s))'
    BY <1>1 DEF TypeOK, PlanOf, localVars, diffVars, txVars
<1>5. \A s \in Runs : (WroteOf(s))'
  <2>1. SUFFICES ASSUME NEW s \in Runs, NEW d \in Docs, index'[d].by = s
                 PROVE  /\ pc[s] \notin Early
                        /\ pc[s] \in Late
                              => index'[d].ver = pulled[s][d] /\ d \in upserts[s] \cup deletes[s]
      BY <1>1 DEF WroteOf, localVars, diffVars
  <2>2. CASE d \in ds /\ operations[r].docs[d] # Absent
    <3>1. s = r /\ index'[d].ver = operations[r].docs[d]
        BY <1>1, <2>1, <2>2 DEF Imported
    <3>2. pc[r] \notin {"import", "delete", "purge", "flush"}
        BY <1>1 DEF StageOf
    <3>3. QED
        BY <1>1, <1>2, <2>2, <3>1, <3>2 DEF TypeOK, PlanOf, Late
  <2>3. CASE ~(d \in ds /\ operations[r].docs[d] # Absent)
    <3>1. index'[d] = index[d]
        BY <1>1, <2>3 DEF Imported
    <3>2. WroteOf(s)
        OBVIOUS
    <3>3. QED
        BY <2>1, <3>1, <3>2 DEF WroteOf
  <2>4. QED
      BY <2>2, <2>3
<1>6. StoredByCommitted' /\ \A s \in Runs : (OrphanOf(s))'
    BY <1>1 DEF StoredByCommitted, OrphanOf, storeVars, localVars, diffVars
<1>7. LastWriterAgrees'
    BY <1>1, <1>2, PullAssumption
    DEF LastWriterAgrees, StoredByCommitted, Imported, storeVars
<1>8. QED
    BY <1>3, <1>4, <1>5, <1>6, <1>7

\* So does one that an import whose answer was lost writes, even after the commit.
LEMMA WriterOrphan ==
  ASSUME WriterInv, TypeOK', NEW r \in Runs, OrphanEnds(r)
  PROVE  WriterInv'
<1> USE DEF WriterInv
<1>1. PICK ds \in SUBSET Docs :
          /\ index' = Imported(r, orphans[r], ds, TRUE)
          /\ orphans' = [orphans EXCEPT ![r] = NoContent]
          /\ UNCHANGED <<sourceVars, storeVars, runState, operations, pc, localVars>>
    BY DEF OrphanEnds
<1>2. \A s \in Runs : (StageOf(s))' /\ (PlanOf(s))'
    BY <1>1 DEF StageOf, PlanOf, storeVars, localVars, diffVars, txVars
<1>3. \A d \in Docs : \/ index'[d] = index[d]
                      \/ /\ orphans[r][d] # Absent
                         /\ index'[d].ver = orphans[r][d] /\ index'[d].by = r
    BY <1>1 DEF Imported
<1>4. \A s \in Runs : (WroteOf(s))'
  <2>1. SUFFICES ASSUME NEW s \in Runs, NEW d \in Docs, index'[d].by = s
                 PROVE  /\ pc[s] \notin Early
                        /\ pc[s] \in Late
                              => index'[d].ver = pulled[s][d] /\ d \in upserts[s] \cup deletes[s]
      BY <1>1 DEF WroteOf, localVars, diffVars
  <2>2. WroteOf(s) /\ OrphanOf(s)
      OBVIOUS
  <2>3. CASE index'[d] = index[d]
      BY <2>1, <2>2, <2>3 DEF WroteOf
  <2>4. CASE orphans[r][d] # Absent /\ index'[d].ver = orphans[r][d] /\ index'[d].by = r
      BY <2>1, <2>2, <2>4 DEF OrphanOf
  <2>5. QED
      BY <1>3, <2>3, <2>4
<1>5. \A s \in Runs : (OrphanOf(s))'
    BY <1>1 DEF TypeOK, OrphanOf, NoContent, storeVars, localVars, diffVars
<1>6. StoredByCommitted'
    BY <1>1 DEF StoredByCommitted, storeVars
<1>7. LastWriterAgrees'
  <2>1. OrphanOf(r) /\ LastWriterAgrees /\ UNCHANGED <<recordState, checksumBy>>
      BY <1>1 DEF storeVars
  <2>2. QED
      BY <1>3, <2>1 DEF LastWriterAgrees, OrphanOf
<1>8. QED
    BY <1>2, <1>4, <1>5, <1>6, <1>7

LEMMA WriterNext == WriterInv /\ [Next]_vars => WriterInv'
<1> SUFFICES ASSUME WriterInv, [Next]_vars PROVE WriterInv'
    OBVIOUS
<1> USE PullAssumption
<1>0. TypeOK /\ TypeOK'
    BY TypeNext DEF WriterInv
<1> USE DEF WriterInv
<1>1. ASSUME NEW d \in Docs, NEW v \in Contents, SourceChange(d, v) PROVE WriterInv'
    BY <1>0, <1>1 DEF SourceChange, storeVars, indexVars, localVars, diffVars, txVars, StageOf,
        PlanOf, WroteOf, OrphanOf, StoredByCommitted, LastWriterAgrees
<1>2. ASSUME NEW r \in Runs, NEW from \in Early \cup {"wait", "delete", "purge"},
             NEW to \in Early \cup Late, pc[r] = from, Goto(r, to),
             to \in Late <=> from \in Late,
             PlanOf(r)', StageOf(r)',
             UNCHANGED <<storeVars, indexVars, upserts, deletes>>,
             \A s \in Runs \ {r} : UNCHANGED <<pulled[s], unsent[s], purged[s], runState[s]>>,
             from \in Late => UNCHANGED pulled
      PROVE  WriterInv'
  <2>1. \A s \in Runs \ {r} : (StageOf(s))' /\ (PlanOf(s))'
      BY <1>0, <1>2 DEF TypeOK, Goto, StageOf, PlanOf, storeVars, indexVars
  <2>2. \A s \in Runs \ {r} : (WroteOf(s))' /\ (OrphanOf(s))'
      BY <1>0, <1>2 DEF TypeOK, Goto, WroteOf, OrphanOf, storeVars, indexVars
  <2>3. (WroteOf(r))' /\ (OrphanOf(r))'
    <3>1. from \in Late => UNCHANGED <<pulled, upserts, deletes>>
        BY <1>2
    <3>2. pc[r] = from /\ pc'[r] = to /\ (to \in Late <=> from \in Late)
        BY <1>0, <1>2 DEF TypeOK, Goto, Early
    <3>3. UNCHANGED <<index, orphans, recordState, checksumBy>>
        BY <1>2 DEF storeVars, indexVars
    <3>4. from \in Early \/ from \in Late
        BY DEF Late
    <3>5. CASE from \in Early
        BY <3>2, <3>3, <3>5 DEF WroteOf, OrphanOf, Early, Late
    <3>6. CASE from \in Late
        BY <3>1, <3>2, <3>3, <3>6 DEF WroteOf, OrphanOf, Early, Late
    <3>7. QED
        BY <3>4, <3>5, <3>6
  <2>4. QED
      BY <1>0, <1>2, <2>1, <2>2, <2>3 DEF StoredByCommitted, LastWriterAgrees, storeVars, indexVars
<1>3. ASSUME NEW r \in Runs, StartRun(r) PROVE WriterInv'
  <2>1. (StageOf(r))' /\ (PlanOf(r))'
      BY <1>0, <1>3 DEF TypeOK, StartRun, Goto, storeVars, indexVars, localVars, diffVars, txVars,
          StageOf, PlanOf, Early
  <2>2. QED
      BY <1>0, <1>2, <1>3, <2>1 DEF TypeOK, StartRun, localVars, diffVars, txVars, Early, Late
<1>4. ASSUME NEW r \in Runs, GetCheckpoint(r) PROVE WriterInv'
  <2>1. (StageOf(r))' /\ (PlanOf(r))'
      BY <1>0, <1>4 DEF TypeOK, GetCheckpoint, Goto, storeVars, indexVars, diffVars, txVars,
          StageOf, PlanOf, Early
  <2>2. QED
      BY <1>0, <1>2, <1>4, <2>1 DEF TypeOK, GetCheckpoint, diffVars, txVars, Early, Late
<1>5. ASSUME NEW r \in Runs, Extract(r) PROVE WriterInv'
  <2>1. (StageOf(r))' /\ (PlanOf(r))'
      BY <1>0, <1>5 DEF TypeOK, Extract, Goto, storeVars, indexVars, diffVars, txVars, StageOf,
          PlanOf, Early
  <2>2. QED
      BY <1>0, <1>2, <1>5, <2>1 DEF TypeOK, Extract, diffVars, txVars, Early, Late
<1>6. ASSUME NEW r \in Runs, ComputeDiffs(r) PROVE WriterInv'
    BY <1>0, <1>6 DEF TypeOK, ComputeDiffs, Changed, Missing, Goto, sourceVars, storeVars,
        indexVars, txVars, StageOf, PlanOf, WroteOf, OrphanOf, StoredByCommitted, LastWriterAgrees,
        Early, Late
<1>7. ASSUME NEW r \in Runs, ImportDocuments(r) \/ LoseReply(r) PROVE WriterInv'
  <2>1. pc[r] = "import" /\ r \notin committed /\ UNCHANGED <<index, storeVars, runState, localVars>>
      BY <1>7 DEF ImportDocuments, LoseReply, StageOf
  <2>2. \A s \in Runs : (StageOf(s))' /\ (PlanOf(s))'
      BY <1>0, <1>7, <2>1 DEF TypeOK, ImportDocuments, LoseReply, UpsertsFile, Goto, storeVars,
          localVars, diffVars, txVars, StageOf, PlanOf, Early
  <2>3. \A s \in Runs : (WroteOf(s))'
      BY <1>0, <1>7, <2>1 DEF TypeOK, ImportDocuments, LoseReply, Goto, localVars, diffVars,
          WroteOf, Early, Late
  <2>4. \A s \in Runs : (OrphanOf(s))'
    <3>1. CASE ImportDocuments(r)
        BY <1>0, <2>1, <3>1 DEF TypeOK, ImportDocuments, Goto, storeVars, localVars, diffVars,
            OrphanOf, Early, Late
    <3>2. CASE LoseReply(r)
      <4>1. pc' = pc /\ orphans' = [orphans EXCEPT ![r] = UpsertsFile(r)]
            /\ UNCHANGED <<recordState, checksumBy, pulled, upserts>>
          BY <3>2 DEF LoseReply, storeVars, localVars, diffVars
      <4>2. \A s \in Runs \ {r} : (OrphanOf(s))'
          BY <1>0, <4>1 DEF TypeOK, OrphanOf
      <4>3. \A d \in Docs : orphans'[r][d] = IF d \in upserts[r] THEN pulled[r][d] ELSE Absent
          BY <1>0, <4>1 DEF TypeOK, UpsertsFile
      <4>4. \A d \in Docs : checksumBy[d] # r
          BY <2>1 DEF StoredByCommitted
      <4>5. (OrphanOf(r))'
          BY <2>1, <4>1, <4>3, <4>4 DEF OrphanOf, Early
      <4>6. QED
          BY <4>2, <4>5
    <3>3. QED
        BY <1>7, <3>1, <3>2
  <2>5. QED
      BY <1>0, <2>1, <2>2, <2>3, <2>4 DEF StoredByCommitted, LastWriterAgrees, storeVars
<1>8. ASSUME NEW r \in Runs, NEW d \in Docs, DeleteDocument(r, d) PROVE WriterInv'
    BY <1>0, <1>8 DEF TypeOK, DeleteDocument, sourceVars, storeVars, txVars, StageOf, PlanOf,
        WroteOf, OrphanOf, StoredByCommitted, LastWriterAgrees, Writers, Early, Late
<1>9. ASSUME NEW r \in Runs, ImportDone(r) PROVE WriterInv'
  <2>1. (StageOf(r))' /\ (PlanOf(r))'
      BY <1>0, <1>9 DEF TypeOK, ImportDone, Goto, storeVars, indexVars, localVars, diffVars,
          txVars, StageOf, PlanOf, Early
  <2>2. QED
      BY <1>0, <1>2, <1>9, <2>1 DEF TypeOK, ImportDone, localVars, diffVars, txVars, Late
<1>10. ASSUME NEW r \in Runs, SelectRows(r) \/ PurgeRows(r) PROVE WriterInv'
  <2>1. (StageOf(r))' /\ (PlanOf(r))'
      BY <1>0, <1>10 DEF TypeOK, SelectRows, PurgeRows, Goto, storeVars, indexVars, diffVars,
          StageOf, PlanOf, Early
  <2>2. QED
      BY <1>0, <1>2, <1>10, <2>1 DEF TypeOK, SelectRows, PurgeRows, diffVars, Late
<1>11. ASSUME NEW r \in Runs, Commit(r) PROVE WriterInv'
  <2>1. \A s \in Runs : (StageOf(s))' /\ (PlanOf(s))'
      BY <1>0, <1>11 DEF TypeOK, Commit, Goto, indexVars, diffVars, StageOf, PlanOf, Early
  <2>2. \A s \in Runs : (WroteOf(s))'
      BY <1>0, <1>11 DEF TypeOK, Commit, Goto, indexVars, diffVars, WroteOf, Early, Late
  <2>a. /\ recordState' = [d \in Docs |-> RowAfter(r, d)]
        /\ checksumBy' = [d \in Docs |-> IF WritesChecksum(r, d) \/ d \in purged[r]
                                         THEN r ELSE checksumBy[d]]
      BY <1>11 DEF Commit
  <2>3. \A d \in Docs :
            \/ recordState'[d].sum = recordState[d].sum /\ checksumBy'[d] = checksumBy[d]
            \/ checksumBy'[d] = r /\ recordState'[d].sum = pulled[r][d]
                                  /\ d \in upserts[r] \cup deletes[r]
    <3> SUFFICES ASSUME NEW d \in Docs
                 PROVE  \/ recordState'[d].sum = recordState[d].sum /\ checksumBy'[d] = checksumBy[d]
                        \/ checksumBy'[d] = r /\ recordState'[d].sum = pulled[r][d]
                                              /\ d \in upserts[r] \cup deletes[r]
        OBVIOUS
    <3>1. PlanOf(r)
        OBVIOUS
    <3>2. CASE d \in upserts[r]
        BY <2>a, <3>1, <3>2 DEF RowAfter, WritesChecksum, PlanOf
    <3>3. CASE d \notin upserts[r] /\ d \in purged[r]
        BY <2>a, <3>1, <3>3 DEF RowAfter, NoRow, PlanOf
    <3>4. CASE d \notin upserts[r] /\ d \notin purged[r]
        BY <2>a, <3>4 DEF RowAfter, WritesChecksum
    <3>5. QED
        BY <3>2, <3>3, <3>4
  <2>4. pc[r] = "flush" /\ r \notin committed /\ pc' = [pc EXCEPT ![r] = "report"]
        /\ committed' = committed \cup {r} /\ UNCHANGED <<index, orphans, pulled, upserts>>
      BY <1>11 DEF Commit, Goto, StageOf, indexVars, diffVars
  <2>5. \A s \in Runs : (OrphanOf(s))'
    <3> SUFFICES ASSUME NEW s \in Runs, NEW d \in Docs, orphans[s][d] # Absent
                 PROVE  /\ pc'[s] \notin Early
                        /\ pc'[s] \in Late => orphans[s][d] = pulled[s][d] /\ d \in upserts[s]
                        /\ checksumBy'[d] = s => recordState'[d].sum = orphans[s][d]
        BY <2>4 DEF OrphanOf
    <3>1. OrphanOf(s)
        OBVIOUS
    <3>2. CASE s = r
      <4>1. orphans[r][d] = pulled[r][d] /\ d \in upserts[r] /\ pc'[r] = "report"
          BY <1>0, <2>4, <3>1, <3>2 DEF TypeOK, OrphanOf, Late
      <4>2. checksumBy'[d] = r => recordState'[d].sum = pulled[r][d]
          BY <1>0, <2>3, <2>4 DEF StoredByCommitted
      <4>3. QED
          BY <3>2, <4>1, <4>2 DEF Early, Late
    <3>3. CASE s # r
      <4>1. pc'[s] = pc[s]
          BY <1>0, <2>4, <3>3 DEF TypeOK
      <4>2. QED
          BY <2>3, <3>1, <3>3, <4>1 DEF OrphanOf
    <3>4. QED
        BY <3>2, <3>3
  <2>6. StoredByCommitted' /\ LastWriterAgrees'
    <3>1. StoredByCommitted'
        BY <1>0, <2>3, <2>4 DEF StoredByCommitted
    <3>2. LastWriterAgrees'
        BY <1>0, <2>3, <2>4 DEF StoredByCommitted, LastWriterAgrees, WroteOf, Late
    <3>3. QED
        BY <3>1, <3>2
  <2>7. QED
      BY <1>0, <2>1, <2>2, <2>5, <2>6
<1>12. ASSUME NEW r \in Runs, SetRunSuccess(r) PROVE WriterInv'
  <2>1. \A s \in Runs : (StageOf(s))'
      BY <1>0, <1>12 DEF TypeOK, SetRunSuccess, Goto, StageOf, storeVars, indexVars
  <2>2. \A s \in Runs : (PlanOf(s))'
      BY <1>0, <1>12 DEF TypeOK, SetRunSuccess, Forget, Goto, PlanOf, indexVars
  <2>3. \A s \in Runs : (WroteOf(s))' /\ (OrphanOf(s))'
      BY <1>0, <1>12 DEF TypeOK, SetRunSuccess, Forget, Goto, WroteOf, OrphanOf, storeVars,
          indexVars, Early, Late
  <2>4. QED
      BY <1>0, <1>12, <2>1, <2>2, <2>3 DEF SetRunSuccess, storeVars, indexVars, StoredByCommitted,
          LastWriterAgrees
<1>13. ASSUME NEW r \in Runs, Abandon(r) \/ Crash(r) PROVE WriterInv'
    BY <1>0, <1>13, WriterAbandon
<1>14. ASSUME NEW r \in Runs, SetRunFailure(r) PROVE WriterInv'
    BY <1>0, <1>14 DEF TypeOK, SetRunFailure, Goto, sourceVars, storeVars, indexVars, localVars,
        diffVars, txVars, StageOf, PlanOf, WroteOf, OrphanOf, StoredByCommitted, LastWriterAgrees,
        Early, Late
<1>15. ASSUME NEW r \in Runs, OrphanEnds(r) PROVE WriterInv'
    BY <1>0, <1>15, WriterOrphan
<1>16. ASSUME NEW r \in Runs, OperationDone(r) \/ OperationError(r) PROVE WriterInv'
    BY <1>0, <1>16, WriterOperation
<1>17. CASE UNCHANGED vars
    BY <1>0, <1>17 DEF vars, sourceVars, storeVars, indexVars, localVars, diffVars, txVars,
        StageOf, PlanOf, WroteOf, OrphanOf, StoredByCommitted, LastWriterAgrees
<1>18. QED
    BY <1>1, <1>3, <1>4, <1>5, <1>6, <1>7, <1>8, <1>9, <1>10, <1>11, <1>12, <1>13, <1>14, <1>15,
       <1>16, <1>17
    DEF Next, Step, Raise, ImportFails, CommitFails, DeadlockVictim

\* Overlapping runs included: where one run was the last to write both the
\* datastore's copy and the checksum of a document in record_state, the two agree.
THEOREM LastWriterCorrect == Spec => []LastWriterAgrees
<1>1. WriterInv => LastWriterAgrees
    BY DEF WriterInv
<1>2. QED
    BY <1>1, WriterInit, WriterNext, PTL DEF Spec

\* Overlapping runs included: no run commits, or reports success, whose import
\* operation did not finish without an error.
THEOREM IngestionFirst == Spec => []IngestedBeforeCommit
<1>1. WriterInv => IngestedBeforeCommit
    BY DEF WriterInv, StageOf, IngestedBeforeCommit, TypeOK
<1>2. QED
    BY <1>1, WriterInit, WriterNext, PTL DEF Spec

-----------------------------------------------------------------------------
(***************************************************************************)
(* Runs that never overlap.  DatastoreAgrees is not inductive: a commit    *)
(* makes the committing run's writes count, so every document the run is   *)
(* about to record must by then have been written by it, or since then by  *)
(* the late operation of a run that never committed or whose request was   *)
(* sent twice.                                                             *)
(***************************************************************************)

OneAtATime == \A r, s \in Active : r = s

\* What a run has already written, what its DELETE statement leaves, and that what it
\* has loaded is still there.
TouchedOf(r) ==
    /\ pc[r] \in {"import", "wait"} => unsent[r] = deletes[r]
    /\ pc[r] = "wait" /\ operations[r].state = "done" => \A d \in upserts[r] : Unconfirmed(d)
    /\ pc[r] \in {"delete", "purge", "flush"}
          => \A d \in upserts[r] \cup (deletes[r] \ unsent[r]) : Unconfirmed(d)
    /\ pc[r] \in {"purge", "flush"}
          => unsent[r] = {} /\ \A d \in Docs : rowSeen[r][d].sum = recordState[d].sum
    /\ pc[r] = "flush"
          => /\ \A d \in deletes[r] : d \in purged[r] \/ recordState[d].sum = Absent
             /\ ckptSeen[r] = checkpoint

SerialInv ==
    /\ WriterInv
    /\ OneAtATime
    /\ \A r \in Runs : TouchedOf(r)
    /\ DatastoreAgrees

LEMMA SerialInit == Init => SerialInv
  BY WriterInit, PullAssumption
  DEF Init, SerialInv, OneAtATime, Active, Running, TouchedOf, DatastoreAgrees, NoRow

\* A document that an uncommitted run or an orphaned import has just written is
\* unconfirmed, and the other documents are as they were.
LEMMA SerialWrite ==
  ASSUME SerialInv, WriterInv', NEW r \in Runs, NEW ds \in SUBSET Docs,
         \A d \in ds : index'[d].by = r /\ (r \notin committed \/ index'[d].late),
         \A d \in Docs \ ds : index'[d] = index[d],
         UNCHANGED <<recordState, committed, pc>>
  PROVE  /\ OneAtATime'
         /\ DatastoreAgrees'
         /\ \A d \in Docs : Unconfirmed(d) => Unconfirmed(d)'
         /\ \A d \in ds : Unconfirmed(d)'
  BY DEF SerialInv, OneAtATime, Active, DatastoreAgrees, Unconfirmed

\* The commit of the only active run.
LEMMA SerialCommit ==
  ASSUME SerialInv, WriterInv', NEW r \in Runs, Commit(r)
  PROVE  SerialInv'
<1> USE DEF SerialInv
<1>1. TypeOK /\ StageOf(r) /\ PlanOf(r) /\ WroteOf(r) /\ TouchedOf(r)
    BY DEF WriterInv
<1>2. pc[r] = "flush" /\ r \notin committed /\ unsent[r] = {} /\ r \in Active
    BY <1>1 DEF Commit, StageOf, TouchedOf, Active, Running
<1>3. \A s \in Runs : s # r => s \notin Active
    BY <1>2 DEF OneAtATime
<1>4. pc' = [pc EXCEPT ![r] = "report"] /\ committed' = committed \cup {r} /\ index' = index
    BY DEF Commit, Goto, indexVars
<1>5. OneAtATime'
    BY <1>1, <1>2, <1>3, <1>4 DEF OneAtATime, Active, TypeOK, Running
<1>6. \A s \in Runs : TouchedOf(s)'
    BY <1>1, <1>3, <1>4 DEF TouchedOf, Active, TypeOK, Running
<1>7. DatastoreAgrees'
  <2> SUFFICES ASSUME NEW d \in Docs, index[d].by \notin Runs \ (committed \cup {r}),
                      ~index[d].late
               PROVE  index[d].ver = recordState'[d].sum
      BY <1>4 DEF DatastoreAgrees, Unconfirmed
  <2>1. recordState'[d] = RowAfter(r, d)
      BY DEF Commit
  <2>2. CASE d \in upserts[r]
    <3>1. index[d].by = r
        BY <1>1, <1>2, <2>2 DEF TouchedOf, Unconfirmed
    <3>2. index[d].ver = pulled[r][d]
        BY <1>1, <1>2, <3>1 DEF WroteOf, Late
    <3>3. rowSeen[r][d].sum = recordState[d].sum
        BY <1>1, <1>2 DEF TouchedOf
    <3>4. QED
        BY <2>1, <2>2, <3>2, <3>3 DEF RowAfter, WritesChecksum
  <2>3. CASE d \in deletes[r]
    <3>1. index[d].by = r
        BY <1>1, <1>2, <2>3 DEF TouchedOf, Unconfirmed
    <3>2. index[d].ver = Absent /\ d \notin upserts[r]
        BY <1>1, <1>2, <2>3, <3>1 DEF WroteOf, PlanOf, Late
    <3>3. recordState'[d].sum = Absent
        BY <1>1, <1>2, <2>1, <2>3, <3>2 DEF RowAfter, NoRow, TouchedOf
    <3>4. QED
        BY <3>2, <3>3
  <2>4. CASE d \notin upserts[r] \cup deletes[r]
    <3>1. index[d].by # r
        BY <1>1, <1>2, <2>4 DEF WroteOf, Late
    <3>2. recordState'[d] = recordState[d]
        BY <1>1, <2>1, <2>4 DEF RowAfter, PlanOf
    <3>3. QED
        BY <3>1, <3>2 DEF DatastoreAgrees, Unconfirmed
  <2>5. QED
      BY <2>2, <2>3, <2>4
<1>8. QED
    BY <1>5, <1>6, <1>7

\* An import operation, finishing when it may: perhaps long after its run.
LEMMA SerialOperation ==
  ASSUME SerialInv, WriterInv', NEW r \in Runs, OperationDone(r) \/ OperationError(r)
  PROVE  SerialInv'
<1>1. PICK ds \in SUBSET Docs, end \in {"done", "error"} :
          /\ operations[r].state = "running"
          /\ end = "done" => ds = Docs
          /\ index' = Imported(r, operations[r].docs, ds, FALSE)
          /\ operations' = [operations EXCEPT ![r] = [state |-> end, docs |-> NoContent]]
          /\ UNCHANGED <<sourceVars, storeVars, runState, orphans, pc, localVars>>
    BY DEF OperationDone, OperationError
<1>2. TypeOK /\ StageOf(r) /\ PlanOf(r) /\ r \notin committed
    BY <1>1 DEF SerialInv, WriterInv, StageOf
<1> DEFINE ws == {d \in ds : operations[r].docs[d] # Absent}
<1>3. /\ \A d \in ws : index'[d].by = r
      /\ \A d \in Docs \ ws : index'[d] = index[d]
    BY <1>1 DEF Imported
<1>4. /\ OneAtATime'
      /\ DatastoreAgrees'
      /\ \A d \in Docs : Unconfirmed(d) => Unconfirmed(d)'
      /\ \A d \in ws : Unconfirmed(d)'
    BY <1>1, <1>2, <1>3, SerialWrite DEF storeVars
<1>5. ASSUME NEW s \in Runs PROVE TouchedOf(s)'
  <2>1. CASE s # r
      BY <1>1, <1>2, <1>4, <2>1
      DEF SerialInv, WriterInv, TouchedOf, TypeOK, storeVars, localVars, diffVars, txVars
  <2>2. CASE s = r
    <3>1. pc[r] \notin {"delete", "purge", "flush"}
        BY <1>1, <1>2 DEF StageOf
    <3>2. pc[r] = "wait" /\ operations'[r].state = "done" => \A d \in upserts[r] : d \in ws
        BY <1>1, <1>2 DEF PlanOf, TypeOK
    <3>3. QED
        BY <1>1, <1>4, <2>2, <3>1, <3>2 DEF SerialInv, TouchedOf, localVars, diffVars
  <2>3. QED
      BY <2>1, <2>2
<1>6. QED
    BY <1>4, <1>5 DEF SerialInv

\* An import whose answer was lost, finishing when it may.
LEMMA SerialOrphan ==
  ASSUME SerialInv, WriterInv', NEW r \in Runs, OrphanEnds(r)
  PROVE  SerialInv'
<1>1. PICK ds \in SUBSET Docs :
          /\ index' = Imported(r, orphans[r], ds, TRUE)
          /\ UNCHANGED <<sourceVars, storeVars, runState, operations, pc, localVars>>
    BY DEF OrphanEnds
<1> DEFINE ws == {d \in ds : orphans[r][d] # Absent}
<1>2. /\ \A d \in ws : index'[d].by = r /\ index'[d].late
      /\ \A d \in Docs \ ws : index'[d] = index[d]
    BY <1>1 DEF Imported
<1>3. /\ OneAtATime'
      /\ DatastoreAgrees'
      /\ \A d \in Docs : Unconfirmed(d) => Unconfirmed(d)'
  <2>1. \A d \in ws : index'[d].by = r /\ (r \notin committed \/ index'[d].late)
      BY <1>2
  <2>2. ws \in SUBSET Docs /\ UNCHANGED <<recordState, committed, pc>>
      BY <1>1 DEF storeVars
  <2>3. QED
      BY <1>2, <2>1, <2>2, SerialWrite
<1>4. TypeOK
    BY DEF SerialInv, WriterInv
<1>5. \A s \in Runs : TouchedOf(s)'
    BY <1>1, <1>3, <1>4 DEF SerialInv, TouchedOf, TypeOK, storeVars, localVars, diffVars, txVars
<1>6. QED
    BY <1>3, <1>5 DEF SerialInv

LEMMA SerialNext ==
  ASSUME ~Overlap, SerialInv, [Next]_vars
  PROVE  SerialInv'
<1> USE PullAssumption DEF SerialInv
<1>0. WriterInv' /\ TypeOK /\ \A r \in Runs : StageOf(r) /\ PlanOf(r)
    BY WriterNext DEF WriterInv
<1>1. ASSUME NEW d \in Docs, NEW v \in Contents, SourceChange(d, v) PROVE SerialInv'
    BY <1>0, <1>1 DEF SourceChange, storeVars, indexVars, localVars, diffVars, txVars,
        OneAtATime, Active, TouchedOf, Unconfirmed, DatastoreAgrees
<1>2. ASSUME NEW r \in Runs, StartRun(r) PROVE SerialInv'
    BY <1>0, <1>2 DEF TypeOK, StartRun, Goto, sourceVars, storeVars, indexVars, localVars,
        diffVars, txVars, OneAtATime, Active, TouchedOf, Unconfirmed, DatastoreAgrees
<1>3. ASSUME NEW r \in Runs, GetCheckpoint(r) PROVE SerialInv'
    BY <1>0, <1>3 DEF TypeOK, GetCheckpoint, Goto, sourceVars, storeVars, indexVars, diffVars,
        txVars, Running, OneAtATime, Active, TouchedOf, Unconfirmed, DatastoreAgrees
<1>4. ASSUME NEW r \in Runs, Extract(r) PROVE SerialInv'
    BY <1>0, <1>4 DEF TypeOK, Extract, Goto, sourceVars, storeVars, indexVars, diffVars,
        txVars, Running, OneAtATime, Active, TouchedOf, Unconfirmed, DatastoreAgrees
<1>5. ASSUME NEW r \in Runs, ComputeDiffs(r) PROVE SerialInv'
    BY <1>0, <1>5 DEF TypeOK, ComputeDiffs, Goto, sourceVars, storeVars, indexVars, txVars,
        Running, OneAtATime, Active, TouchedOf, Unconfirmed, DatastoreAgrees
<1>6. ASSUME NEW r \in Runs, ImportDocuments(r) \/ LoseReply(r) PROVE SerialInv'
  <2>1. CASE ImportDocuments(r)
      BY <1>0, <2>1 DEF TypeOK, ImportDocuments, Goto, sourceVars, storeVars, localVars, diffVars,
          txVars, Running, OneAtATime, Active, TouchedOf, Unconfirmed, DatastoreAgrees
  <2>2. CASE LoseReply(r)
      BY <1>0, <2>2 DEF LoseReply, storeVars, localVars, diffVars, txVars, OneAtATime, Active,
          TouchedOf, Unconfirmed, DatastoreAgrees
  <2>3. QED
      BY <1>6, <2>1, <2>2
<1>7. ASSUME NEW r \in Runs, ImportDone(r) PROVE SerialInv'
  <2>1. deletes[r] \ unsent[r] = {}
      BY <1>7 DEF ImportDone, TouchedOf
  <2>2. QED
      BY <1>0, <1>7, <2>1 DEF TypeOK, ImportDone, Goto, sourceVars, storeVars, indexVars, localVars,
          diffVars, txVars, Running, OneAtATime, Active, TouchedOf, Unconfirmed, DatastoreAgrees
<1>8. ASSUME NEW r \in Runs, NEW d \in Docs, DeleteDocument(r, d) PROVE SerialInv'
  <2>1. r \notin committed
      BY <1>0, <1>8 DEF DeleteDocument, StageOf
  <2>2. /\ \A e \in {d} : index'[e].by = r /\ (r \notin committed \/ index'[e].late)
        /\ \A e \in Docs \ {d} : index'[e] = index[e]
      BY <1>0, <1>8, <2>1 DEF DeleteDocument, TypeOK
  <2>3. /\ OneAtATime'
        /\ DatastoreAgrees'
        /\ \A e \in Docs : Unconfirmed(e) => Unconfirmed(e)'
        /\ Unconfirmed(d)'
    <3>1. SerialInv /\ {d} \in SUBSET Docs
        BY <1>0
    <3>2. UNCHANGED <<recordState, committed, pc>>
        BY <1>8 DEF DeleteDocument, storeVars
    <3>3. /\ OneAtATime'
          /\ DatastoreAgrees'
          /\ \A e \in Docs : Unconfirmed(e) => Unconfirmed(e)'
          /\ \A e \in {d} : Unconfirmed(e)'
        BY ONLY <1>0, <2>1, <2>2, <3>1, <3>2, r \in Runs, SerialWrite
    <3>4. QED
        BY <3>3
  <2>4. \A s \in Runs : TouchedOf(s)'
      BY <1>0, <1>8, <2>3 DEF TypeOK, DeleteDocument, TouchedOf, storeVars, txVars
  <2>5. QED
      BY <1>0, <2>3, <2>4
<1>9. ASSUME NEW r \in Runs, SelectRows(r) PROVE SerialInv'
    BY <1>0, <1>9 DEF TypeOK, SelectRows, Goto, sourceVars, storeVars, indexVars, diffVars,
        Running, OneAtATime, Active, TouchedOf, Unconfirmed, DatastoreAgrees
<1>10. ASSUME NEW r \in Runs, PurgeRows(r) PROVE SerialInv'
    BY <1>0, <1>10 DEF TypeOK, PurgeRows, Goto, sourceVars, storeVars, indexVars, diffVars,
        Running, OneAtATime, Active, TouchedOf, Unconfirmed, DatastoreAgrees
<1>11. ASSUME NEW r \in Runs, Commit(r) PROVE SerialInv'
    BY <1>0, <1>11, SerialCommit
<1>12. ASSUME NEW r \in Runs, NEW label \in {"failing", "succeeded", "failed", "crashed"},
              pc[r] \in Running, Goto(r, label), label = "failed" \/ Forget(r),
              label = "failed" => UNCHANGED localVars,
              UNCHANGED <<storeVars, indexVars>>
       PROVE  SerialInv'
  <2>1. OneAtATime' /\ DatastoreAgrees'
      BY <1>0, <1>12 DEF TypeOK, Goto, OneAtATime, Active, DatastoreAgrees, Unconfirmed,
          storeVars, indexVars
  <2>2. \A s \in Runs \ {r} : TouchedOf(s)'
      BY <1>0, <1>12 DEF TypeOK, Goto, Forget, TouchedOf, Unconfirmed, storeVars, indexVars,
          localVars, diffVars, txVars
  <2>3. TouchedOf(r)'
      BY <1>0, <1>12 DEF TypeOK, Goto, TouchedOf
  <2>4. QED
      BY <1>0, <2>1, <2>2, <2>3
<1>13. ASSUME NEW r \in Runs, SetRunSuccess(r) \/ SetRunFailure(r) \/ Crash(r) PROVE SerialInv'
    BY <1>12, <1>13 DEF SetRunSuccess, SetRunFailure, Crash, Running
<1>14. ASSUME NEW r \in Runs, Abandon(r), pc[r] \in Running PROVE SerialInv'
    BY <1>12, <1>14 DEF Abandon
<1>15. ASSUME NEW r \in Runs, OperationDone(r) \/ OperationError(r) PROVE SerialInv'
    BY <1>0, <1>15, SerialOperation
<1>16. ASSUME NEW r \in Runs, OrphanEnds(r) PROVE SerialInv'
    BY <1>0, <1>16, SerialOrphan
<1>17. CASE UNCHANGED vars
    BY <1>0, <1>17 DEF vars, sourceVars, storeVars, indexVars, localVars, diffVars, txVars,
        OneAtATime, Active, TouchedOf, Unconfirmed, DatastoreAgrees
<1>18. QED
    BY <1>1, <1>2, <1>3, <1>4, <1>5, <1>6, <1>7, <1>8, <1>9, <1>10, <1>11, <1>13, <1>14, <1>15,
       <1>16, <1>17
    DEF Next, Step, Raise, ImportFails, CommitFails, DeadlockVictim, Waits, InTry, Running

\* Where the scheduler forbids overlapping runs, every difference between the
\* datastore and record_state is the trace of a run that has not committed or of an
\* import request that was retried because its answer was lost.
THEOREM DatastoreCorrect == ASSUME ~Overlap PROVE Spec => []DatastoreAgrees
<1>1. Init => SerialInv
    BY SerialInit
<1>2. SerialInv /\ [Next]_vars => SerialInv'
    BY SerialNext
<1>3. SerialInv => DatastoreAgrees
    BY DEF SerialInv
<1>4. QED
    BY <1>1, <1>2, <1>3, PTL DEF Spec

-----------------------------------------------------------------------------
(***************************************************************************)
(* Runs that never overlap, continued: what record_state and the           *)
(* checkpoint say of the source.  The checkpoint's promise is kept through *)
(* a run by what the run's extraction and its diff promise together.       *)
(***************************************************************************)

\* The diff accounts for every difference between the extraction and record_state.
ReconcileOf(r) ==
    pc[r] \in Late =>
        /\ \A d \in Docs \ upserts[r] : pulled[r][d] # Absent => recordState[d].sum = pulled[r][d]
        /\ IF DeletePolicy = "never_delete"
           THEN deletes[r] = {}
           ELSE \A d \in Docs \ deletes[r] : pulled[r][d] = Absent => recordState[d].sum = Absent

\* Up to the watermark about to be stored, the extraction has every document of
\* the source that record_state does not have already.
CoverOf(r) ==
    /\ pc[r] = "extract" => watermark[r] = checkpoint.mark
    /\ pc[r] \in Late \cup {"diff"} =>
          \A d \in Docs : /\ source[d].ver # Absent
                          /\ source[d].stamp <= watermark[r]
                          => \/ pulled[r][d] = source[d].ver
                             \/ /\ Incremental /\ pulled[r][d] = Absent
                                /\ recordState[d].sum = source[d].ver

\* No stamp is in the future.
StampsPast ==
    /\ checkpoint.mark <= clock
    /\ \A d \in Docs : source[d].stamp <= clock
    /\ \A r \in Runs : watermark[r] <= clock

CoverInv ==
    /\ SerialInv
    /\ \A r \in Runs : ReconcileOf(r) /\ CoverOf(r)
    /\ StampsPast
    /\ CheckpointCovers

\* auto_delete_missing on a source that sends only what is new would delete the
\* rest; the documentation asks for snapshot extraction there.
SnapshotOrKeep == Incremental => DeletePolicy = "never_delete"

LEMMA CoverInit == Init => CoverInv
  BY SerialInit, PullAssumption
  DEF Init, CoverInv, ReconcileOf, CoverOf, StampsPast, CheckpointCovers, Late, NoRow, NoCheckpoint

\* The commit makes record_state the extraction.
LEMMA CommitReconciled ==
  ASSUME CoverInv, NEW r \in Runs, Commit(r), NEW d \in Docs
  PROVE  recordState'[d].sum = IF pulled[r][d] = Absent /\ DeletePolicy = "never_delete"
                               THEN recordState[d].sum ELSE pulled[r][d]
<1>1. pc[r] = "flush" /\ recordState'[d] = RowAfter(r, d)
    BY DEF Commit
<1>2. PlanOf(r) /\ TouchedOf(r) /\ ReconcileOf(r) /\ TypeOK
    BY DEF CoverInv, SerialInv, WriterInv
<1>3. CASE d \in upserts[r]
    BY <1>1, <1>2, <1>3 DEF PlanOf, RowAfter, WritesChecksum, TouchedOf
<1>4. CASE d \in deletes[r]
    BY <1>1, <1>2, <1>4 DEF PlanOf, RowAfter, NoRow, TouchedOf, ReconcileOf, Late
<1>5. CASE d \notin upserts[r] \cup deletes[r]
  <2>1. recordState'[d] = recordState[d]
      BY <1>1, <1>2, <1>5 DEF PlanOf, RowAfter
  <2>2. QED
      BY <1>1, <1>2, <1>5, <2>1 DEF ReconcileOf, Late
<1>6. QED
    BY <1>3, <1>4, <1>5

LEMMA CoverCommit ==
  ASSUME ~Overlap, SnapshotOrKeep, CoverInv, SerialInv', NEW r \in Runs, Commit(r)
  PROVE  CoverInv'
<1>1. TypeOK /\ CoverOf(r) /\ ReconcileOf(r) /\ pc[r] = "flush" /\ r \in Active
    BY DEF CoverInv, SerialInv, WriterInv, Commit, Active, Running
<1>2. \A s \in Runs \ {r} : pc[s] \notin Running
    BY <1>1 DEF CoverInv, SerialInv, OneAtATime, Active
<1>3. checkpoint'.mark = watermark[r]
    BY <1>1 DEF CoverInv, SerialInv, TouchedOf, Commit, CheckpointAfter
<1>4. CheckpointCovers'
  <2> SUFFICES ASSUME NEW d \in Docs, source[d].ver # Absent, source[d].stamp <= watermark[r]
               PROVE  recordState'[d].sum = source[d].ver
      BY <1>3 DEF CheckpointCovers, Commit, sourceVars
  <2>1. recordState'[d].sum = IF pulled[r][d] = Absent /\ DeletePolicy = "never_delete"
                              THEN recordState[d].sum ELSE pulled[r][d]
      BY CommitReconciled
  <2>2. \/ pulled[r][d] = source[d].ver
        \/ Incremental /\ pulled[r][d] = Absent /\ recordState[d].sum = source[d].ver
      BY <1>1 DEF CoverOf, Late
  <2>3. QED
      BY <2>1, <2>2 DEF SnapshotOrKeep
<1>5. \A s \in Runs : (ReconcileOf(s))' /\ (CoverOf(s))'
    BY <1>1, <1>2 DEF Commit, Goto, ReconcileOf, CoverOf, Late, Running, TypeOK
<1>6. StampsPast'
    BY <1>1, <1>3 DEF CoverInv, StampsPast, Commit, sourceVars
<1>7. QED
    BY <1>4, <1>5, <1>6 DEF CoverInv

\* What the extraction brings is all that was missing up to its watermark.
LEMMA CoverExtract ==
  ASSUME CoverInv, SerialInv', NEW r \in Runs, Extract(r)
  PROVE  CoverInv'
<1>1. TypeOK /\ TypeOK' /\ CoverOf(r) /\ pc[r] = "extract"
    BY DEF CoverInv, SerialInv, WriterInv, Extract
<1> DEFINE ds == Returned(watermark[r])
<1>2. PICK mark \in {source[d].stamp : d \in Docs} \cup {watermark[r]} :
          /\ IsMaxWatermark(mark, ds, watermark[r])
          /\ watermark' = [watermark EXCEPT ![r] = mark]
    BY DEF Extract
<1>3. /\ pulled' = [pulled EXCEPT ![r] = [d \in Docs |-> IF d \in ds THEN source[d].ver
                                                                     ELSE Absent]]
      /\ pc' = [pc EXCEPT ![r] = "diff"]
      /\ UNCHANGED <<source, clock, recordState, checkpoint, upserts, deletes>>
    BY DEF Extract, Goto, sourceVars, storeVars, diffVars
<1>4. mark \in Nat /\ mark <= clock
    BY <1>1, <1>2 DEF CoverInv, StampsPast, TypeOK
<1>5. (CoverOf(r))'
  <2> SUFFICES ASSUME NEW d \in Docs, source[d].ver # Absent, source[d].stamp <= mark
               PROVE  \/ pulled'[r][d] = source[d].ver
                      \/ /\ Incremental /\ pulled'[r][d] = Absent
                         /\ recordState[d].sum = source[d].ver
      BY <1>1, <1>2, <1>3 DEF CoverOf, TypeOK
  <2>1. CASE d \in ds
      BY <1>1, <1>3, <2>1 DEF TypeOK
  <2>2. CASE d \notin ds
    <3>1. Incremental /\ source[d].stamp <= watermark[r]
        BY <1>1, <2>2 DEF Returned, TypeOK
    <3>2. recordState[d].sum = source[d].ver
        BY <1>1, <3>1 DEF CoverInv, CheckpointCovers, CoverOf
    <3>3. QED
        BY <1>1, <1>3, <2>2, <3>1, <3>2 DEF TypeOK
  <2>3. QED
      BY <2>1, <2>2
<1>6. \A s \in Runs \ {r} : (CoverOf(s))'
    BY <1>1, <1>2, <1>3 DEF CoverInv, CoverOf, TypeOK
<1>7. \A s \in Runs : (ReconcileOf(s))'
    BY <1>1, <1>3 DEF CoverInv, ReconcileOf, TypeOK, Late
<1>8. StampsPast' /\ CheckpointCovers'
    BY <1>1, <1>2, <1>3, <1>4 DEF CoverInv, StampsPast, CheckpointCovers, TypeOK
<1>9. QED
    BY <1>5, <1>6, <1>7, <1>8 DEF CoverInv

\* A change of the source is stamped after every watermark in use.
LEMMA CoverSourceChange ==
  ASSUME CoverInv, SerialInv', NEW d \in Docs, NEW v \in Contents, SourceChange(d, v)
  PROVE  CoverInv'
<1>1. TypeOK
    BY DEF CoverInv, SerialInv, WriterInv
<1>2. /\ clock' = clock + 1
      /\ source' = [source EXCEPT ![d] = [ver |-> v, stamp |-> clock + 1]]
      /\ UNCHANGED <<recordState, checkpoint, pc, watermark, pulled, upserts, deletes>>
    BY DEF SourceChange, storeVars, localVars, diffVars
<1>3. StampsPast'
    BY <1>1, <1>2 DEF CoverInv, StampsPast, TypeOK
<1>4. CheckpointCovers'
    BY <1>1, <1>2 DEF CoverInv, StampsPast, CheckpointCovers, TypeOK
<1>5. \A s \in Runs : (CoverOf(s))' /\ (ReconcileOf(s))'
  <2> SUFFICES ASSUME NEW s \in Runs PROVE (CoverOf(s))' /\ (ReconcileOf(s))'
      OBVIOUS
  <2>1. watermark[s] \in Nat /\ watermark[s] <= clock /\ clock \in Nat
      BY <1>1 DEF CoverInv, StampsPast, TypeOK
  <2>2. \A e \in Docs : \/ source'[e] = source[e]
                        \/ source'[e].stamp = clock + 1
      BY <1>1, <1>2 DEF TypeOK
  <2>3. (ReconcileOf(s))'
      BY <1>2 DEF CoverInv, ReconcileOf
  <2>4. (CoverOf(s))'
      BY <1>2, <2>1, <2>2 DEF CoverInv, CoverOf
  <2>5. QED
      BY <2>3, <2>4
<1>6. QED
    BY <1>3, <1>4, <1>5 DEF CoverInv

\* The steps that change neither the source nor the tables, and reset a
\* watermark at most to one already stored or to none.
LEMMA CoverLocal ==
  ASSUME CoverInv, SerialInv', NEW r \in Runs,
         UNCHANGED <<source, clock, recordState, checkpoint>>,
         \A s \in Runs \ {r} : /\ pc'[s] = pc[s] /\ watermark'[s] = watermark[s]
                               /\ pulled'[s] = pulled[s] /\ upserts'[s] = upserts[s]
                               /\ deletes'[s] = deletes[s],
         (ReconcileOf(r))', (CoverOf(r))', watermark'[r] <= clock
  PROVE  CoverInv'
<1>1. \A s \in Runs \ {r} : (ReconcileOf(s))' /\ (CoverOf(s))'
    BY DEF CoverInv, ReconcileOf, CoverOf
<1>2. StampsPast' /\ CheckpointCovers'
    BY DEF CoverInv, StampsPast, CheckpointCovers
<1>3. QED
    BY <1>1, <1>2 DEF CoverInv

LEMMA CoverNext ==
  ASSUME ~Overlap, SnapshotOrKeep, CoverInv, [Next]_vars
  PROVE  CoverInv'
<1>0. SerialInv' /\ TypeOK /\ \A r \in Runs : PlanOf(r) /\ CoverOf(r) /\ ReconcileOf(r)
    BY SerialNext DEF CoverInv, SerialInv, WriterInv
<1>a. 0 <= clock /\ checkpoint.mark <= clock /\ \A r \in Runs : watermark[r] <= clock
    BY <1>0 DEF CoverInv, StampsPast, TypeOK
<1>1. ASSUME NEW d \in Docs, NEW v \in Contents, SourceChange(d, v) PROVE CoverInv'
    BY <1>0, <1>1, CoverSourceChange
<1>2. ASSUME NEW r \in Runs, StartRun(r) PROVE CoverInv'
  <2>1. (ReconcileOf(r))' /\ (CoverOf(r))'
      BY <1>0, <1>2 DEF TypeOK, StartRun, Goto, ReconcileOf, CoverOf, Late
  <2>2. QED
      BY <1>0, <1>a, <1>2, <2>1, CoverLocal
      DEF TypeOK, StartRun, Goto, sourceVars, storeVars, localVars, diffVars
<1>3. ASSUME NEW r \in Runs, GetCheckpoint(r) PROVE CoverInv'
  <2>1. (ReconcileOf(r))' /\ (CoverOf(r))'
      BY <1>0, <1>3 DEF TypeOK, GetCheckpoint, Goto, ReconcileOf, CoverOf, Late, storeVars
  <2>2. QED
      BY <1>0, <1>a, <1>3, <2>1, CoverLocal
      DEF TypeOK, GetCheckpoint, Goto, sourceVars, storeVars, diffVars
<1>4. ASSUME NEW r \in Runs, Extract(r) PROVE CoverInv'
    BY <1>0, <1>4, CoverExtract
<1>5. ASSUME NEW r \in Runs, ComputeDiffs(r) PROVE CoverInv'
  <2>1. (CoverOf(r))'
      BY <1>0, <1>5 DEF TypeOK, ComputeDiffs, Goto, CoverOf, Late, sourceVars, storeVars
  <2>2. (ReconcileOf(r))'
      BY <1>0, <1>5, PullAssumption
      DEF TypeOK, ComputeDiffs, Changed, Missing, ReconcileOf, storeVars
  <2>3. QED
      BY <1>0, <1>a, <1>5, <2>1, <2>2, CoverLocal
      DEF TypeOK, ComputeDiffs, Goto, sourceVars, storeVars
<1>6. ASSUME NEW r \in Runs, NEW label \in Late, pc[r] \in Late,
             pc' = [pc EXCEPT ![r] = label],
             UNCHANGED <<sourceVars, recordState, checkpoint, watermark, pulled, upserts, deletes>>
      PROVE  CoverInv'
  <2>1. (ReconcileOf(r))' /\ (CoverOf(r))'
      BY <1>0, <1>6 DEF TypeOK, ReconcileOf, CoverOf, Late, sourceVars
  <2>2. QED
      BY <1>0, <1>a, <1>6, <2>1, CoverLocal DEF TypeOK, sourceVars
<1>7. ASSUME NEW r \in Runs, \/ ImportDocuments(r) \/ ImportDone(r) \/ SelectRows(r)
                             \/ PurgeRows(r)
      PROVE  CoverInv'
    BY <1>6, <1>7
    DEF ImportDocuments, ImportDone, SelectRows, PurgeRows, Goto, Late, storeVars, localVars,
        diffVars
<1>8. ASSUME NEW r \in Runs, NEW d \in Docs, DeleteDocument(r, d) PROVE CoverInv'
  <2>1. pc' = [pc EXCEPT ![r] = "delete"]
      BY <1>0, <1>8 DEF DeleteDocument, TypeOK
  <2>2. QED
      BY <1>6, <1>8, <2>1 DEF DeleteDocument, Late, storeVars
<1>11. ASSUME NEW r \in Runs, Commit(r) PROVE CoverInv'
    BY <1>0, <1>11, CoverCommit
<1>12. ASSUME NEW r \in Runs, NEW label \in {"failing", "succeeded", "crashed"}, Goto(r, label),
              Forget(r), UNCHANGED <<sourceVars, storeVars>>
       PROVE  CoverInv'
  <2>1. (ReconcileOf(r))' /\ (CoverOf(r))'
      BY <1>0, <1>12 DEF TypeOK, Goto, ReconcileOf, CoverOf, Late
  <2>2. watermark'[r] <= clock
      BY <1>0, <1>a, <1>12 DEF TypeOK, Forget
  <2>3. QED
      BY <1>0, <1>12, <2>1, <2>2, CoverLocal DEF TypeOK, Goto, Forget, sourceVars, storeVars
<1>13. ASSUME NEW r \in Runs, SetRunSuccess(r) \/ Abandon(r) \/ Crash(r) PROVE CoverInv'
    BY <1>12, <1>13 DEF SetRunSuccess, Abandon, Crash
<1>14. ASSUME NEW r \in Runs, SetRunFailure(r) PROVE CoverInv'
  <2>1. (ReconcileOf(r))' /\ (CoverOf(r))'
      BY <1>0, <1>14 DEF TypeOK, SetRunFailure, Goto, ReconcileOf, CoverOf, Late
  <2>2. QED
      BY <1>0, <1>a, <1>14, <2>1, CoverLocal
      DEF TypeOK, SetRunFailure, Goto, sourceVars, storeVars, localVars, diffVars
<1>15. ASSUME NEW r \in Runs,
              LoseReply(r) \/ OperationDone(r) \/ OperationError(r) \/ OrphanEnds(r)
       PROVE  CoverInv'
  <2>1. UNCHANGED <<source, clock, recordState, checkpoint, pc, watermark, pulled, upserts, deletes>>
      BY <1>15 DEF LoseReply, OperationDone, OperationError, OrphanEnds, sourceVars, storeVars,
          localVars, diffVars
  <2>2. QED
      BY <1>0, <2>1 DEF CoverInv, ReconcileOf, CoverOf, StampsPast, CheckpointCovers
<1>16. CASE UNCHANGED vars
    BY <1>0, <1>16 DEF vars, sourceVars, storeVars, localVars, diffVars, CoverInv, ReconcileOf,
        CoverOf, StampsPast, CheckpointCovers
<1>17. QED
    BY <1>1, <1>2, <1>3, <1>4, <1>5, <1>7, <1>8, <1>11, <1>13, <1>14, <1>15, <1>16
    DEF Next, Step, Raise, ImportFails, CommitFails, DeadlockVictim

\* Where runs never overlap, and incremental extraction keeps what it does not
\* see, the stored watermark never runs ahead of record_state.
THEOREM CheckpointCorrect ==
  ASSUME ~Overlap, SnapshotOrKeep PROVE Spec => []CheckpointCovers
<1>1. Init => CoverInv
    BY CoverInit
<1>2. CoverInv /\ [Next]_vars => CoverInv'
    BY CoverNext
<1>3. CoverInv => CheckpointCovers
    BY DEF CoverInv
<1>4. QED
    BY <1>1, <1>2, <1>3, PTL DEF Spec

\* Where runs never overlap, each commit makes record_state the run's extraction.
THEOREM CommitCorrect ==
  ASSUME ~Overlap, SnapshotOrKeep PROVE Spec => CommitReconciles
<1>1. Init => CoverInv
    BY CoverInit
<1>2. CoverInv /\ [Next]_vars => CoverInv'
    BY CoverNext
<1>3. ASSUME CoverInv, [Next]_vars
      PROVE  [\A r \in committed' \ committed : \A d \in Docs :
                 recordState'[d].sum = IF pulled[r][d] = Absent /\ DeletePolicy = "never_delete"
                                       THEN recordState[d].sum ELSE pulled[r][d]]_vars
  <2> SUFFICES ASSUME Next, NEW r \in committed' \ committed, NEW d \in Docs
               PROVE  recordState'[d].sum = IF pulled[r][d] = Absent
                                               /\ DeletePolicy = "never_delete"
                                            THEN recordState[d].sum ELSE pulled[r][d]
      BY <1>3
  <2>1. PICK t \in Runs : Commit(t)
    <3>1. committed' # committed
        BY <1>3
    <3>2. QED
        BY <1>3, <3>1
        DEF Next, Step, Raise, ImportFails, CommitFails, DeadlockVictim, SourceChange, StartRun,
            GetCheckpoint, Extract, ComputeDiffs, ImportDocuments, ImportDone, DeleteDocument,
            SelectRows, PurgeRows, SetRunSuccess, Abandon, SetRunFailure, Crash, LoseReply,
            OperationDone, OperationError, OrphanEnds, storeVars
  <2>2. r = t
      BY <1>3, <2>1 DEF Commit
  <2>3. QED
      BY <1>3, <2>1, <2>2, CommitReconciled
<1>4. QED
    BY <1>1, <1>2, <1>3, PTL DEF Spec, CommitReconciles
=============================================================================
