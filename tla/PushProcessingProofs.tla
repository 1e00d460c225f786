------------------------ MODULE PushProcessingProofs ------------------------
(***************************************************************************)
(* Theorems about PushProcessing, for any documents, batches, payloads and *)
(* processors.                                                             *)
(***************************************************************************)
EXTENDS PushProcessing, TLAPS

\* Between its query and its end a run works on a batch.
AtWork(p) == pc[p] \notin {"idle", "consume"}

-----------------------------------------------------------------------------
(* Types.                                                                  *)

LEMMA TypeInit == Init => TypeOK
  BY PushAssumption DEF Init, TypeOK, NothingSeen, Contents

\* A run's job is a batch while it is at work.
JobOf(p) == AtWork(p) => job[p] \in Batches

TypeInv == TypeOK /\ \A p \in Procs : JobOf(p)

\* What an import does to the index keeps its type.
LEMMA LandsType ==
  ASSUME TypeOK, NEW b \in Batches, NEW ds \in SUBSET Docs, NEW u \in BOOLEAN, Lands(b, ds, u)
  PROVE  index' \in [Docs -> [ver : Contents, by : Batches \cup {NoBatch}, late : BOOLEAN]]
  BY DEF Lands, Files, TypeOK

LEMMA TypeNext == TypeInv /\ [Next]_vars => TypeInv'
<1> SUFFICES ASSUME TypeInv, [Next]_vars PROVE TypeInv'
    OBVIOUS
<1>0. TypeOK /\ \A p \in Procs : JobOf(p)
    BY DEF TypeInv
<1>a. NothingSeen \in [Docs -> Contents]
    BY DEF NothingSeen, Contents
<1> USE DEF TypeInv, TypeOK, JobOf, AtWork, queueVars, tableVars, indexVars, txVars
<1>1. ASSUME NEW b \in Batches, NEW es \in Payloads, Push(b, es) PROVE TypeInv'
    BY <1>0, <1>1 DEF Push
<1>2. ASSUME NEW p \in Procs, StartRun(p) PROVE TypeInv'
    BY <1>0, <1>2 DEF StartRun, Goto
<1>3. ASSUME NEW p \in Procs, NEW b \in Targets, StartTargeted(p, b) PROVE TypeInv'
    BY <1>0, <1>3, PushAssumption DEF StartTargeted, Goto
<1>4. ASSUME NEW p \in Procs, ConsumeNothing(p) PROVE TypeInv'
    BY <1>0, <1>4 DEF ConsumeNothing, Leave, Goto
<1>5. ASSUME NEW p \in Procs, Consume(p) PROVE TypeInv'
    BY <1>0, <1>5 DEF Consume, Selected, Goto, Deletes
<1>6. ASSUME NEW p \in Procs, ImportDocuments(p) \/ ImportDone(p) \/ LoseReply(p) PROVE TypeInv'
    BY <1>0, <1>6 DEF ImportDocuments, ImportDone, LoseReply, Goto
<1>7. ASSUME NEW p \in Procs, OperationDone(p) PROVE TypeInv'
  <2>1. index' \in [Docs -> [ver : Contents, by : Batches \cup {NoBatch}, late : BOOLEAN]]
      BY <1>0, <1>7, LandsType DEF OperationDone
  <2>2. QED
      BY <1>0, <1>7, <2>1 DEF OperationDone, Goto
<1>8. ASSUME NEW p \in Procs, OperationError(p) PROVE TypeInv'
  <2>1. index' \in [Docs -> [ver : Contents, by : Batches \cup {NoBatch}, late : BOOLEAN]]
      BY <1>0, <1>8, LandsType DEF OperationError
  <2>2. QED
      BY <1>0, <1>8, <2>1 DEF OperationError, Leave, Goto
<1>9. ASSUME NEW p \in Procs, NEW d \in Docs, DeleteDocument(p, d) PROVE TypeInv'
    BY <1>0, <1>9 DEF DeleteDocument, Contents
<1>10. ASSUME NEW p \in Procs, SelectRows(p) PROVE TypeInv'
    BY <1>0, <1>10 DEF SelectRows, Goto
<1>11. ASSUME NEW p \in Procs, PurgeRows(p) PROVE TypeInv'
    BY <1>0, <1>11 DEF PurgeRows, Goto, Deletes
<1>12. ASSUME NEW p \in Procs, Commit(p) PROVE TypeInv'
  <2>1. gone' \in [Procs -> SUBSET Docs]
      BY <1>0, <1>12 DEF Commit
  <2>2. rowSeen' \in [Procs -> [Docs -> Contents]]
      BY <1>0, <1>a, <1>12 DEF Commit
  <2>3. QED
      BY <1>0, <1>12, <2>1, <2>2 DEF Commit, StatusAfter, Leave, Goto
<1>13. ASSUME NEW p \in Procs, CommitFails(p) \/ DeadlockVictim(p) PROVE TypeInv'
  <2>1. Leave(p) /\ Rollback(p) /\ UNCHANGED <<queueVars, tableVars, ownRun, indexVars>>
      BY <1>13 DEF CommitFails, DeadlockVictim
  <2>2. QED
      BY <1>0, <1>a, <2>1 DEF Leave, Rollback, Goto
<1>14. ASSUME NEW p \in Procs, Stop(p) PROVE TypeInv'
    BY <1>0, <1>a, <1>14 DEF Stop, Leave, Rollback, Goto
<1>15. ASSUME NEW b \in Batches, LateLands(b) PROVE TypeInv'
  <2>1. index' \in [Docs -> [ver : Contents, by : Batches \cup {NoBatch}, late : BOOLEAN]]
      BY <1>0, <1>15, LandsType DEF LateLands
  <2>2. QED
      BY <1>0, <1>15, <2>1 DEF LateLands
<1>16. CASE UNCHANGED vars
    BY <1>0, <1>16 DEF vars
<1>17. QED
    BY <1>1, <1>2, <1>3, <1>4, <1>5, <1>6, <1>7, <1>8, <1>9, <1>10, <1>11, <1>12, <1>13,
       <1>14, <1>15, <1>16
    DEF Next, Step, Disturb

\* Every reachable state of the push processing is well typed.
THEOREM TypeCorrect == Spec => []TypeOK
<1>1. Init => TypeInv
    BY TypeInit DEF TypeInv, JobOf, AtWork, Init
<1>2. TypeInv => TypeOK
    BY DEF TypeInv
<1>3. QED
    BY <1>1, <1>2, TypeNext, PTL DEF Spec

-----------------------------------------------------------------------------
(* Rows come from processed batches, with any number of processors.        *)

\* The batch of a run is queued, and the rows it removed are those it deletes.
StageOf(p) ==
    /\ AtWork(p) => status[job[p]] # "NONE"
    /\ pc[p] = "flush" => purged[p] \subseteq Deletes(job[p])
    /\ pc[p] # "flush" => purged[p] = {}

\* A row that was loaded is there, unless its removal was noted.
LoadedStays ==
    \A p \in Procs : \A d \in Docs :
        rowSeen[p][d] # Absent => d \in gone[p] \/ recordState[d] # Absent

RowsInv == TypeInv /\ (\A p \in Procs : StageOf(p)) /\ LoadedStays /\ RowsComeFromProcessed

\* What a batch carries is settled once it is queued.
LEMMA PushSettled ==
  ASSUME TypeInv, NEW b \in Batches, NEW es, Push(b, es),
         NEW c \in Batches, status[c] # "NONE"
  PROVE  /\ status'[c] = status[c]
         /\ Deletes(c)' = Deletes(c)
         /\ \A d : Upserts(c, d)' = Upserts(c, d)
<1>1. c # b /\ events'[c] = events[c]
    BY DEF Push, TypeInv, TypeOK
<1>2. QED
    BY <1>1 DEF Push, TypeInv, TypeOK, Deletes, Upserts

\* Steps that leave the queue and the tables alone.
LEMMA RowsFrame ==
  ASSUME RowsInv, UNCHANGED <<queueVars, tableVars>>
  PROVE  RowsComeFromProcessed'
<1>1. Processed' = Processed /\ recordState' = recordState
    BY DEF Processed, tableVars
<1>2. \A b : Deletes(b)' = Deletes(b) /\ \A d : Upserts(b, d)' = Upserts(b, d)
    BY DEF Deletes, Upserts, queueVars
<1>3. QED
    BY <1>1, <1>2 DEF RowsInv, RowsComeFromProcessed

\* Steps in which only run p moves, and takes no lock.
LEMMA StageMoves ==
  ASSUME RowsInv, UNCHANGED <<queueVars, status>>, NEW p \in Procs,
         \A q \in Procs \ {p} : pc'[q] = pc[q] /\ job'[q] = job[q] /\ purged'[q] = purged[q],
         (StageOf(p))'
  PROVE  \A q \in Procs : (StageOf(q))'
  BY DEF RowsInv, StageOf, AtWork, Deletes, queueVars

LEMMA RowsStep ==
  ASSUME RowsInv, NEW p \in Procs, StartRun(p) \/ Step(p) \/ Disturb(p), ~Commit(p)
  PROVE  (\A q \in Procs : (StageOf(q))') /\ RowsComeFromProcessed'
<1>0. TypeOK /\ \A q \in Procs : StageOf(q)
    BY DEF RowsInv, TypeInv
<1>1. UNCHANGED <<queueVars, tableVars>>
    BY DEF Step, Disturb, StartRun, ConsumeNothing, Consume, ImportDocuments, OperationDone,
       ImportDone, DeleteDocument, SelectRows, PurgeRows, CommitFails, DeadlockVictim, LoseReply,
       OperationError, Stop
<1>2. RowsComeFromProcessed'
    BY <1>1, RowsFrame
<1>3. CASE StartRun(p) \/ ImportDocuments(p) \/ OperationDone(p) \/ ImportDone(p)
           \/ LoseReply(p) \/ SelectRows(p) \/ \E d \in Docs : DeleteDocument(p, d)
  <2>1. UNCHANGED <<job, purged>>
      BY <1>3 DEF StartRun, ImportDocuments, OperationDone, ImportDone, LoseReply, SelectRows,
         DeleteDocument, txVars
  <2>2. /\ \A q \in Procs \ {p} : pc'[q] = pc[q]
        /\ pc[p] # "flush" /\ pc'[p] # "flush"
        /\ pc'[p] = "consume" \/ AtWork(p)
      BY <1>0, <1>3 DEF StartRun, ImportDocuments, OperationDone, ImportDone, LoseReply,
         SelectRows, DeleteDocument, TypeOK, Goto, AtWork
  <2>3. (StageOf(p))'
      BY <1>0, <1>1, <2>1, <2>2 DEF StageOf, AtWork, tableVars
  <2>4. QED
      BY <1>1, <1>2, <2>1, <2>2, <2>3, StageMoves DEF tableVars
<1>4. CASE Consume(p)
  <2>1. PICK i \in Selected(p) : job' = [job EXCEPT ![p] = queue[i]]
      BY <1>4 DEF Consume
  <2>2. pc[p] = "consume" /\ Goto(p, "import") /\ UNCHANGED purged
      BY <1>4 DEF Consume, txVars
  <2>3. (StageOf(p))'
      BY <1>0, <1>1, <2>1, <2>2 DEF StageOf, AtWork, TypeOK, Goto, Selected, tableVars
  <2>4. QED
      BY <1>0, <1>1, <1>2, <2>1, <2>2, <2>3, StageMoves DEF TypeOK, Goto, tableVars
<1>5. CASE PurgeRows(p)
  <2>1. /\ pc[p] = "purge" /\ Goto(p, "flush") /\ UNCHANGED job
        /\ purged' = [purged EXCEPT ![p] = {d \in Deletes(job[p]) : recordState[d] # Absent}]
      BY <1>5 DEF PurgeRows
  <2>2. (StageOf(p))'
      BY <1>0, <1>1, <2>1 DEF StageOf, AtWork, TypeOK, Goto, Deletes, tableVars, queueVars
  <2>3. QED
      BY <1>0, <1>1, <1>2, <2>1, <2>2, StageMoves DEF TypeOK, Goto, tableVars
<1>6. CASE ConsumeNothing(p) \/ OperationError(p) \/ CommitFails(p) \/ DeadlockVictim(p)
           \/ Stop(p)
  <2>1. /\ Leave(p)
        /\ \/ pc[p] # "flush" /\ UNCHANGED purged
           \/ purged' = [purged EXCEPT ![p] = {}]
      BY <1>6 DEF ConsumeNothing, OperationError, CommitFails, DeadlockVictim, Stop, Rollback,
         txVars
  <2>2. (StageOf(p))'
      BY <1>0, <2>1 DEF StageOf, AtWork, TypeOK, Leave, Goto
  <2>3. QED
      BY <1>0, <1>1, <1>2, <2>1, <2>2, StageMoves DEF TypeOK, Leave, Goto, tableVars
<1>7. QED
    BY <1>3, <1>4, <1>5, <1>6 DEF Step, Disturb

\* The commit: a row it writes is an upsert of its batch, a row it removes is one
\* its batch deletes, and a document its batch upserts and deletes may lack a row.
LEMMA RowsCommit ==
  ASSUME RowsInv, NEW p \in Procs, Commit(p)
  PROVE  (\A q \in Procs : (StageOf(q))') /\ RowsComeFromProcessed'
<1> DEFINE b == job[p]
<1>0. TypeOK /\ \A q \in Procs : StageOf(q) /\ JobOf(q)
    BY DEF RowsInv, TypeInv
<1>1. /\ pc[p] = "flush" /\ b \in Batches
      /\ status' = [status EXCEPT ![b] = "PROCESSED"]
      /\ purged' = [purged EXCEPT ![p] = {}]
      /\ pc' = [pc EXCEPT ![p] = "idle"]
      /\ job' = [job EXCEPT ![p] = NoBatch]
      /\ UNCHANGED queueVars
    BY <1>0 DEF Commit, StatusAfter, Leave, Goto, JobOf, AtWork
<1>2. \A q \in Procs : (StageOf(q))'
    BY <1>0, <1>1 DEF StageOf, AtWork, TypeOK, Deletes, queueVars
<1>3. Processed' = Processed \cup {b}
    BY <1>0, <1>1 DEF Processed, TypeOK
<1>4. \A c \in Batches : Deletes(c)' = Deletes(c) /\ \A d : Upserts(c, d)' = Upserts(c, d)
    BY <1>1 DEF Deletes, Upserts, queueVars
<1>5. ASSUME NEW d \in Docs PROVE recordState'[d] \in RowsAfter(p, d)
    BY DEF Commit
<1>6. ASSUME NEW d \in Docs
      PROVE  IF recordState'[d] = Absent
             THEN (\E c \in Processed' : Upserts(c, d)' # {})
                     => \E c \in Processed' : d \in Deletes(c)'
             ELSE \E c \in Processed' : recordState'[d] \in Upserts(c, d)'
  <2>0. Processed \subseteq Batches /\ Processed' \subseteq Batches
      BY DEF Processed
  <2>a. IF recordState[d] = Absent
        THEN (\E c \in Processed : Upserts(c, d) # {}) => \E c \in Processed : d \in Deletes(c)
        ELSE \E c \in Processed : recordState[d] \in Upserts(c, d)
      BY DEF RowsInv, RowsComeFromProcessed
  <2>b. CASE Updates(p, d) /\ ~Inserts(p, d) /\ recordState'[d] = recordState[d]
    <3>1. recordState[d] # Absent
        BY <2>b DEF Updates, Commit, Conflict, RowsInv, LoadedStays
    <3>2. QED
        BY <1>3, <1>4, <2>0, <2>a, <2>b, <3>1
  <2>1. CASE /\ Inserts(p, d) \/ Updates(p, d)
             /\ ~(Updates(p, d) /\ ~Inserts(p, d) /\ recordState'[d] = recordState[d])
    <3>1. recordState'[d] \in Upserts(b, d)
        BY <1>5, <2>1 DEF RowsAfter
    <3>2. recordState'[d] # Absent
        BY <3>1, PushAssumption DEF Upserts
    <3>3. QED
        BY <1>1, <1>3, <1>4, <3>1, <3>2
  <2>2. CASE ~(Inserts(p, d) \/ Updates(p, d)) /\ d \in purged[p]
    <3>1. recordState'[d] = Absent
        BY <1>5, <2>2 DEF RowsAfter
    <3>2. d \in Deletes(b)
        BY <1>0, <1>1, <2>2 DEF StageOf
    <3>3. QED
        BY <1>1, <1>3, <1>4, <3>1, <3>2
  <2>3. CASE ~(Inserts(p, d) \/ Updates(p, d)) /\ d \notin purged[p]
    <3>1. recordState'[d] = recordState[d]
        BY <1>5, <2>3 DEF RowsAfter
    <3>2. Upserts(b, d) # {} => d \in Deletes(b)
        BY <2>3 DEF Inserts, Updates
    <3>3. QED
        BY <1>1, <1>3, <1>4, <2>0, <2>a, <3>1, <3>2
  <2>4. QED
      BY <2>b, <2>1, <2>2, <2>3
<1>7. QED
    BY <1>2, <1>6 DEF RowsComeFromProcessed

\* Only a commit removes rows, and it tells the others that loaded them.
LEMMA LoadedNext == RowsInv /\ [Next]_vars => LoadedStays'
<1> SUFFICES ASSUME RowsInv, [Next]_vars PROVE LoadedStays'
    OBVIOUS
<1>0. TypeOK /\ LoadedStays
    BY DEF RowsInv, TypeInv
<1>1. ASSUME UNCHANGED <<rowSeen, gone, recordState>> PROVE LoadedStays'
    BY <1>0, <1>1 DEF LoadedStays
<1>2. ASSUME NEW p \in Procs, Rollback(p), UNCHANGED recordState PROVE LoadedStays'
    BY <1>0, <1>2 DEF LoadedStays, Rollback, NothingSeen, TypeOK
<1>3. ASSUME NEW p \in Procs, SelectRows(p) PROVE LoadedStays'
    BY <1>0, <1>3 DEF LoadedStays, SelectRows, TypeOK, tableVars
<1>4. ASSUME NEW p \in Procs, Commit(p) PROVE LoadedStays'
  <2> SUFFICES ASSUME NEW q \in Procs, NEW d \in Docs, rowSeen'[q][d] # Absent
               PROVE  d \in gone'[q] \/ recordState'[d] # Absent
      BY DEF LoadedStays
  <2>1. /\ rowSeen' = [rowSeen EXCEPT ![p] = NothingSeen]
        /\ gone' = [r \in Procs |-> IF r = p THEN {}
                                    ELSE gone[r] \cup {e \in purged[p] : rowSeen[r][e] # Absent}]
        /\ recordState'[d] \in RowsAfter(p, d)
        /\ \A e \in Docs : Updates(p, e) => e \notin gone[p]
      BY <1>4 DEF Commit, Conflict
  <2>2. q # p /\ rowSeen[q][d] # Absent
      BY <1>0, <2>1 DEF TypeOK, NothingSeen
  <2>3. CASE d \in gone[q] \/ d \in purged[p]
      BY <2>1, <2>2, <2>3
  <2>4. CASE d \notin gone[q] /\ d \notin purged[p]
    <3>1. recordState[d] # Absent
        BY <1>0, <2>2, <2>4 DEF LoadedStays
    <3>2. \A v \in Upserts(job[p], d) : v # Absent
        BY PushAssumption DEF Upserts
    <3>3. QED
        BY <2>1, <2>4, <3>1, <3>2 DEF RowsAfter
  <2>5. QED
      BY <2>3, <2>4
<1>5. ASSUME NEW p \in Procs, StartRun(p) \/ Step(p) \/ Disturb(p) PROVE LoadedStays'
  <2>1. CASE CommitFails(p) \/ DeadlockVictim(p) \/ Stop(p)
      BY <1>2, <2>1 DEF CommitFails, DeadlockVictim, Stop, tableVars
  <2>2. CASE ~(CommitFails(p) \/ DeadlockVictim(p) \/ Stop(p) \/ SelectRows(p) \/ Commit(p))
      BY <1>1, <1>5, <2>2
      DEF Step, Disturb, StartRun, ConsumeNothing, Consume, ImportDocuments, OperationDone,
          ImportDone, DeleteDocument, PurgeRows, LoseReply, OperationError, tableVars, txVars
  <2>3. QED
      BY <1>3, <1>4, <2>1, <2>2
<1>6. QED
    BY <1>1, <1>5 DEF Next, Push, StartTargeted, LateLands, vars, tableVars, txVars

LEMMA RowsNext == RowsInv /\ [Next]_vars => RowsInv'
<1> SUFFICES ASSUME RowsInv, [Next]_vars PROVE RowsInv'
    OBVIOUS
<1>1. TypeInv' /\ LoadedStays'
    BY TypeNext, LoadedNext DEF RowsInv
<1>2. ASSUME NEW b \in Batches, NEW es \in Payloads, Push(b, es)
      PROVE  (\A q \in Procs : (StageOf(q))') /\ RowsComeFromProcessed'
  <2>1. TypeInv /\ \A q \in Procs : StageOf(q)
      BY DEF RowsInv
  <2>2. \A q \in Procs : (StageOf(q))'
    <3> SUFFICES ASSUME NEW q \in Procs PROVE (StageOf(q))'
        OBVIOUS
    <3>1. UNCHANGED <<pc, job, purged>>
        BY <1>2 DEF Push, txVars
    <3>2. CASE AtWork(q)
      <4>1. PICK c \in Batches : c = job[q] /\ status[c] # "NONE"
          BY <2>1, <3>2 DEF TypeInv, JobOf, StageOf
      <4>2. status'[c] = status[c] /\ Deletes(c)' = Deletes(c)
          BY <1>2, <2>1, <4>1, PushSettled
      <4>3. (StageOf(q))' = /\ AtWork(q) => status'[c] # "NONE"
                            /\ pc[q] = "flush" => purged[q] \subseteq Deletes(c)'
                            /\ pc[q] # "flush" => purged[q] = {}
          BY <3>1, <4>1 DEF StageOf, AtWork, Deletes
      <4>4. QED
          BY <2>1, <4>1, <4>2, <4>3 DEF StageOf
    <3>3. CASE ~AtWork(q)
        BY <2>1, <3>1, <3>3 DEF StageOf, AtWork
    <3>4. QED
        BY <3>2, <3>3
  <2>3. \A c \in Processed : /\ Deletes(c)' = Deletes(c)
                             /\ \A d : Upserts(c, d)' = Upserts(c, d)
      BY <1>2, <2>1, PushSettled DEF Processed
  <2>4. Processed' = Processed /\ recordState' = recordState
      BY <1>2, <2>1 DEF Push, Processed, TypeInv, TypeOK
  <2>5. RowsComeFromProcessed'
      BY <2>3, <2>4 DEF RowsInv, RowsComeFromProcessed
  <2>6. QED
      BY <2>2, <2>5
<1>3. ASSUME NEW p \in Procs, StartRun(p) \/ Step(p) \/ Disturb(p)
      PROVE  (\A q \in Procs : (StageOf(q))') /\ RowsComeFromProcessed'
    BY <1>3, RowsStep, RowsCommit
<1>4. ASSUME NEW p \in Procs, NEW b \in Targets, StartTargeted(p, b)
      PROVE  (\A q \in Procs : (StageOf(q))') /\ RowsComeFromProcessed'
  <2>1. /\ pc' = [pc EXCEPT ![p] = "consume"] /\ pc[p] = "idle"
        /\ UNCHANGED <<queueVars, tableVars, job, purged>>
      BY <1>4 DEF StartTargeted, Goto, txVars
  <2>2. \A q \in Procs : (StageOf(q))'
      BY <2>1 DEF RowsInv, TypeInv, TypeOK, StageOf, AtWork, Deletes, queueVars, tableVars
  <2>3. QED
      BY <2>1, <2>2, RowsFrame
<1>5. ASSUME NEW b \in Batches, LateLands(b)
      PROVE  (\A q \in Procs : (StageOf(q))') /\ RowsComeFromProcessed'
  <2>1. UNCHANGED <<queueVars, tableVars, pc, job, purged>>
      BY <1>5 DEF LateLands, txVars
  <2>2. QED
      BY <2>1, RowsFrame DEF RowsInv, StageOf, AtWork, Deletes, queueVars, tableVars
<1>6. CASE UNCHANGED vars
  <2>1. UNCHANGED <<queueVars, tableVars, pc, job, purged>>
      BY <1>6 DEF vars, txVars
  <2>2. QED
      BY <1>1, <2>1, RowsFrame DEF RowsInv, StageOf, AtWork, Deletes, queueVars, tableVars
<1>7. QED
    BY <1>1, <1>2, <1>3, <1>4, <1>5, <1>6 DEF RowsInv, Next

\* Whatever batches, processors and targets there are, each row of record_state is an
\* upsert of a processed batch, and none is lost but to a processed delete.
THEOREM RowsCorrect == Spec => []RowsComeFromProcessed
<1>1. Init => RowsInv
    BY TypeInit DEF Init, RowsInv, TypeInv, JobOf, StageOf, AtWork, LoadedStays, NothingSeen,
       RowsComeFromProcessed, Processed
<1>2. RowsInv => RowsComeFromProcessed
    BY DEF RowsInv
<1>3. QED
    BY <1>1, <1>2, RowsNext, PTL DEF Spec

-----------------------------------------------------------------------------
(***************************************************************************)
(* ProcessedInOrder is not inductive.  The commit of a scheduled run keeps  *)
(* it because everything before its batch was processed already when the    *)
(* run read the queue, which other processors can only confirm; that of a   *)
(* targeted run because _start_run recorded the batch as a run.             *)
(***************************************************************************)

QueueOf ==
    /\ \A i \in DOMAIN queue : status[queue[i]] # "NONE"
    /\ \A i, j \in DOMAIN queue : queue[i] = queue[j] => i = j

\* Batch b is queued and all before it are processed.
Reached(b) ==
    \E i \in DOMAIN queue : /\ queue[i] = b
                           /\ \A j \in 1..(i - 1) : status[queue[j]] = "PROCESSED"

TurnOf(p) ==
    /\ asked[p] # NoBatch => asked[p] \in ownRun
    /\ AtWork(p) => IF asked[p] = NoBatch THEN Reached(job[p]) ELSE job[p] = asked[p]

OrderInv == TypeInv /\ QueueOf /\ (\A p \in Procs : TurnOf(p)) /\ ProcessedInOrder

LEMMA QueueIndex ==
  ASSUME TypeOK
  PROVE  DOMAIN queue = 1..Len(queue) /\ Len(queue) \in Nat
  BY DEF TypeOK

\* The step of a run other than its commit leaves queue and tables alone.
LEMMA QuietStep ==
  ASSUME TypeInv, NEW p \in Procs, StartRun(p) \/ Step(p) \/ Disturb(p), ~Commit(p)
  PROVE  /\ UNCHANGED <<queueVars, tableVars, ownRun>>
         /\ \A q \in Procs \ {p} : /\ pc'[q] = pc[q] /\ job'[q] = job[q]
                                    /\ asked'[q] = asked[q]
         /\ \/ AtWork(p) /\ job'[p] = job[p] /\ asked'[p] = asked[p]
            \/ pc'[p] \in {"idle", "consume"} /\ asked'[p] \in {asked[p], NoBatch}
            \/ /\ asked'[p] = asked[p]
               /\ \E i \in Selected(p) : First(Selected(p), i) /\ job'[p] = queue[i]
<1>0. TypeOK
    BY DEF TypeInv
<1>1. UNCHANGED <<queueVars, tableVars, ownRun>>
    BY DEF Step, Disturb, StartRun, ConsumeNothing, Consume, ImportDocuments, OperationDone,
       ImportDone, DeleteDocument, SelectRows, PurgeRows, CommitFails, DeadlockVictim, LoseReply,
       OperationError, Stop
<1>2. CASE ImportDocuments(p) \/ OperationDone(p) \/ ImportDone(p) \/ LoseReply(p)
           \/ SelectRows(p) \/ PurgeRows(p) \/ \E d \in Docs : DeleteDocument(p, d)
  <2>1. AtWork(p) /\ UNCHANGED <<job, asked>> /\ \A q \in Procs \ {p} : pc'[q] = pc[q]
      BY <1>0, <1>2 DEF ImportDocuments, OperationDone, ImportDone, LoseReply, SelectRows,
         PurgeRows, DeleteDocument, AtWork, TypeOK, Goto
  <2>2. QED
      BY <1>1, <2>1
<1>3. CASE StartRun(p)
    BY <1>0, <1>1, <1>3 DEF StartRun, TypeOK, Goto
<1>4. CASE Consume(p)
    BY <1>0, <1>1, <1>4 DEF Consume, TypeOK, Goto
<1>5. CASE ConsumeNothing(p) \/ OperationError(p) \/ CommitFails(p) \/ DeadlockVictim(p)
           \/ Stop(p)
  <2>1. Leave(p)
      BY <1>5 DEF ConsumeNothing, OperationError, CommitFails, DeadlockVictim, Stop
  <2>2. QED
      BY <1>0, <1>1, <2>1 DEF Leave, TypeOK, Goto
<1>6. QED
    BY <1>2, <1>3, <1>4, <1>5 DEF Step, Disturb

\* What a scheduled run reads is the batch whose turn it is.
LEMMA SelectedReached ==
  ASSUME OrderInv, NEW p \in Procs, asked[p] = NoBatch,
         NEW i \in Selected(p), First(Selected(p), i)
  PROVE  Reached(queue[i])
<1>1. TypeOK /\ QueueOf
    BY DEF OrderInv, TypeInv
<1>2. i \in DOMAIN queue
    BY DEF Selected
<1>3. ASSUME NEW j \in 1..(i - 1) PROVE status[queue[j]] = "PROCESSED"
  <2>1. j \in DOMAIN queue /\ j < i
      BY <1>1, <1>2, QueueIndex
  <2>2. j \notin Selected(p)
      BY <1>1, <1>2, <2>1, QueueIndex DEF First
  <2>3. status[queue[j]] # "PENDING"
      BY <1>1, <2>1, <2>2 DEF Selected
  <2>4. status[queue[j]] # "NONE" /\ queue[j] \in Batches
      BY <1>1, <2>1 DEF QueueOf, TypeOK
  <2>5. QED
      BY <1>1, <2>3, <2>4 DEF TypeOK
<1>4. QED
    BY <1>2, <1>3 DEF Reached

LEMMA OrderQuiet ==
  ASSUME OrderInv, NEW p \in Procs, StartRun(p) \/ Step(p) \/ Disturb(p), ~Commit(p)
  PROVE  QueueOf' /\ (\A q \in Procs : (TurnOf(q))') /\ ProcessedInOrder'
<1>1. TypeInv /\ QueueOf /\ (\A q \in Procs : TurnOf(q)) /\ ProcessedInOrder
    BY DEF OrderInv
<1>2. UNCHANGED <<queue, status, ownRun>>
    BY <1>1, QuietStep DEF queueVars, tableVars
<1>3. QueueOf' /\ ProcessedInOrder'
    BY <1>1, <1>2 DEF QueueOf, ProcessedInOrder
<1>4. ASSUME NEW b \in Batches, Reached(b) PROVE Reached(b)'
    BY <1>2, <1>4 DEF Reached
<1>5. ASSUME NEW q \in Procs PROVE (TurnOf(q))'
  <2>1. CASE q # p
    <3>1. pc'[q] = pc[q] /\ job'[q] = job[q] /\ asked'[q] = asked[q]
        BY <1>1, <2>1, QuietStep
    <3>2. QED
        BY <1>1, <1>2, <3>1 DEF TurnOf, AtWork, Reached
  <2>2. CASE q = p
    <3>1. CASE AtWork(p) /\ job'[p] = job[p] /\ asked'[p] = asked[p]
        BY <1>1, <1>2, <2>2, <3>1 DEF TurnOf, AtWork, Reached
    <3>2. CASE pc'[p] \in {"idle", "consume"} /\ asked'[p] \in {asked[p], NoBatch}
        BY <1>1, <1>2, <2>2, <3>2 DEF TurnOf, AtWork
    <3>3. ASSUME asked'[p] = asked[p],
                 NEW i \in Selected(p), First(Selected(p), i), job'[p] = queue[i]
          PROVE  (TurnOf(p))'
      <4>1. CASE asked[p] = NoBatch
        <5>1. Reached(queue[i])
            BY <3>3, <4>1, SelectedReached
        <5>2. QED
            BY <1>1, <1>2, <3>3, <4>1, <5>1 DEF TurnOf, Reached
      <4>2. CASE asked[p] # NoBatch
        <5>1. queue[i] = asked[p]
            BY <4>2 DEF Selected
        <5>2. QED
            BY <1>1, <1>2, <3>3, <4>2, <5>1 DEF TurnOf
      <4>3. QED
          BY <4>1, <4>2
    <3>4. QED
        BY <1>1, <2>2, <3>1, <3>2, <3>3, QuietStep
  <2>3. QED
      BY <2>1, <2>2
<1>6. QED
    BY <1>3, <1>5

LEMMA OrderCommit ==
  ASSUME OrderInv, NEW p \in Procs, Commit(p)
  PROVE  QueueOf' /\ (\A q \in Procs : (TurnOf(q))') /\ ProcessedInOrder'
<1> DEFINE b == job[p]
<1>0. TypeOK /\ QueueOf /\ (\A q \in Procs : TurnOf(q) /\ JobOf(q)) /\ ProcessedInOrder
    BY DEF OrderInv, TypeInv
<1>1. /\ b \in Batches /\ (Reached(b) \/ b \in ownRun)
      /\ status' = [status EXCEPT ![b] = "PROCESSED"]
      /\ pc' = [pc EXCEPT ![p] = "idle"]
      /\ job' = [job EXCEPT ![p] = NoBatch]
      /\ asked' = [asked EXCEPT ![p] = NoBatch]
      /\ UNCHANGED <<queue, ownRun>>
    BY <1>0 DEF Commit, StatusAfter, Leave, Goto, JobOf, TurnOf, AtWork, queueVars
<1>2. \A c \in Batches : status'[c] = IF c = b THEN "PROCESSED" ELSE status[c]
    BY <1>0, <1>1 DEF TypeOK
<1>3. \A i \in DOMAIN queue : queue[i] \in Batches
    BY <1>0 DEF TypeOK
<1>4. QueueOf'
    BY <1>0, <1>1, <1>2, <1>3 DEF QueueOf
<1>5. ASSUME NEW c, Reached(c) PROVE Reached(c)'
  <2>1. PICK i \in DOMAIN queue : /\ queue[i] = c
                                 /\ \A j \in 1..(i - 1) : status[queue[j]] = "PROCESSED"
      BY <1>5 DEF Reached
  <2>2. \A j \in 1..(i - 1) : j \in DOMAIN queue
      BY <1>0, QueueIndex
  <2>3. QED
      BY <1>1, <1>2, <1>3, <2>1, <2>2 DEF Reached
<1>6. \A q \in Procs : (TurnOf(q))'
  <2> SUFFICES ASSUME NEW q \in Procs PROVE (TurnOf(q))'
      OBVIOUS
  <2>1. CASE q = p
      BY <1>0, <1>1, <2>1 DEF TypeOK, TurnOf, AtWork
  <2>2. CASE q # p
    <3>1. pc'[q] = pc[q] /\ job'[q] = job[q] /\ asked'[q] = asked[q]
        BY <1>0, <1>1, <2>2 DEF TypeOK
    <3>2. PICK c : c = job[q]
        OBVIOUS
    <3>3. AtWork(q) /\ asked[q] = NoBatch => Reached(c)'
        BY <1>0, <1>5, <3>2 DEF TurnOf
    <3>4. QED
        BY <1>0, <1>1, <3>1, <3>2, <3>3 DEF TurnOf, AtWork, Reached
  <2>3. QED
      BY <2>1, <2>2
<1>7. ProcessedInOrder'
  <2> SUFFICES ASSUME NEW i \in DOMAIN queue, NEW j \in DOMAIN queue, i < j,
                      status'[queue[j]] = "PROCESSED", queue[j] \notin ownRun
               PROVE  status'[queue[i]] = "PROCESSED"
      BY <1>1 DEF ProcessedInOrder
  <2>1. CASE queue[j] = b
    <3>1. PICK k \in DOMAIN queue : /\ queue[k] = b
                                   /\ \A l \in 1..(k - 1) : status[queue[l]] = "PROCESSED"
        BY <1>1, <2>1 DEF Reached
    <3>2. k = j
        BY <1>0, <2>1, <3>1 DEF QueueOf
    <3>3. i \in 1..(k - 1)
        BY <1>0, <3>2, QueueIndex
    <3>4. QED
        BY <1>2, <1>3, <3>1, <3>3
  <2>2. CASE queue[j] # b
      BY <1>0, <1>2, <1>3, <2>2 DEF ProcessedInOrder
  <2>3. QED
      BY <2>1, <2>2
<1>8. QED
    BY <1>4, <1>6, <1>7

LEMMA OrderPush ==
  ASSUME OrderInv, NEW b \in Batches, NEW es \in Payloads, Push(b, es)
  PROVE  QueueOf' /\ (\A q \in Procs : (TurnOf(q))') /\ ProcessedInOrder'
<1>0. TypeOK /\ QueueOf /\ (\A q \in Procs : TurnOf(q)) /\ ProcessedInOrder
    BY DEF OrderInv, TypeInv
<1>1. /\ status[b] = "NONE" /\ status' = [status EXCEPT ![b] = "PENDING"]
      /\ queue' = Append(queue, b)
      /\ UNCHANGED <<pc, job, asked, ownRun>>
    BY DEF Push
<1>2. /\ DOMAIN queue = 1..Len(queue) /\ Len(queue) \in Nat
      /\ DOMAIN queue' = 1..(Len(queue) + 1)
      /\ \A i \in DOMAIN queue : queue'[i] = queue[i] /\ queue[i] \in Batches
      /\ queue'[Len(queue) + 1] = b
    BY <1>0, <1>1 DEF TypeOK
<1>3. \A i \in DOMAIN queue : queue[i] # b /\ status'[queue[i]] = status[queue[i]]
    BY <1>0, <1>1, <1>2 DEF QueueOf, TypeOK
<1>4. status'[b] = "PENDING"
    BY <1>0, <1>1 DEF TypeOK
<1>5. QueueOf'
    BY <1>0, <1>2, <1>3, <1>4 DEF QueueOf
<1>6. ProcessedInOrder'
    BY <1>0, <1>1, <1>2, <1>3, <1>4 DEF ProcessedInOrder
<1>7. ASSUME NEW c, Reached(c) PROVE Reached(c)'
  <2>1. PICK i \in DOMAIN queue : /\ queue[i] = c
                                 /\ \A j \in 1..(i - 1) : status[queue[j]] = "PROCESSED"
      BY <1>7 DEF Reached
  <2>2. \A j \in 1..(i - 1) : j \in DOMAIN queue
      BY <1>2
  <2>3. i \in DOMAIN queue'
      BY <1>2
  <2>4. QED
      BY <1>2, <1>3, <2>1, <2>2, <2>3 DEF Reached
<1>8. \A q \in Procs : (TurnOf(q))'
  <2> SUFFICES ASSUME NEW q \in Procs PROVE (TurnOf(q))'
      OBVIOUS
  <2>1. PICK c : c = job[q]
      OBVIOUS
  <2>2. AtWork(q) /\ asked[q] = NoBatch => Reached(c)'
      BY <1>0, <1>7, <2>1 DEF TurnOf
  <2>3. QED
      BY <1>0, <1>1, <2>1, <2>2 DEF TurnOf, AtWork, Reached
<1>9. QED
    BY <1>5, <1>6, <1>8

\* A targeted run starts: its batch is a run from now on.
LEMMA OrderTargeted ==
  ASSUME OrderInv, NEW p \in Procs, NEW b \in Targets, StartTargeted(p, b)
  PROVE  QueueOf' /\ (\A q \in Procs : (TurnOf(q))') /\ ProcessedInOrder'
<1>0. TypeOK /\ QueueOf /\ (\A q \in Procs : TurnOf(q)) /\ ProcessedInOrder
    BY DEF OrderInv, TypeInv
<1>1. /\ UNCHANGED <<queue, status, job>>
      /\ ownRun' = ownRun \cup {b}
      /\ asked' = [asked EXCEPT ![p] = b]
      /\ pc' = [pc EXCEPT ![p] = "consume"]
    BY DEF StartTargeted, Goto, queueVars, tableVars
<1>2. QueueOf' /\ ProcessedInOrder'
    BY <1>0, <1>1 DEF QueueOf, ProcessedInOrder
<1>3. \A q \in Procs : (TurnOf(q))'
    BY <1>0, <1>1 DEF TypeOK, TurnOf, AtWork, Reached
<1>4. QED
    BY <1>2, <1>3

LEMMA OrderNext == OrderInv /\ [Next]_vars => OrderInv'
<1> SUFFICES ASSUME OrderInv, [Next]_vars PROVE OrderInv'
    OBVIOUS
<1>1. TypeInv'
    BY TypeNext DEF OrderInv
<1>2. ASSUME UNCHANGED <<queue, status, ownRun, pc, job, asked>>
      PROVE  QueueOf' /\ (\A q \in Procs : (TurnOf(q))') /\ ProcessedInOrder'
  <2>1. QueueOf' /\ ProcessedInOrder'
      BY <1>2 DEF OrderInv, QueueOf, ProcessedInOrder
  <2>2. \A q \in Procs : (TurnOf(q))'
      BY <1>2 DEF OrderInv, TurnOf, AtWork, Reached
  <2>3. QED
      BY <2>1, <2>2
<1>3. ASSUME NEW b \in Batches, LateLands(b) PROVE UNCHANGED <<queue, status, ownRun, pc, job, asked>>
    BY <1>3 DEF LateLands, queueVars, tableVars
<1>4. CASE UNCHANGED vars
    BY <1>1, <1>2, <1>4 DEF vars, queueVars, tableVars, OrderInv
<1>5. QED
    BY <1>1, <1>2, <1>3, <1>4, OrderPush, OrderQuiet, OrderCommit, OrderTargeted
    DEF Next, OrderInv

LEMMA OrderInit == Init => OrderInv
<1> SUFFICES ASSUME Init PROVE OrderInv
    OBVIOUS
<1>1. TypeInv
    BY TypeInit DEF Init, TypeInv, JobOf, AtWork
<1>2. DOMAIN queue = {}
    BY DEF Init
<1>3. QED
    BY <1>1, <1>2 DEF Init, OrderInv, QueueOf, TurnOf, AtWork, ProcessedInOrder

\* Any number of processors, targeted runs included, whatever they meet: no batch is
\* marked PROCESSED before one accepted earlier unless a run named it.
THEOREM OrderCorrect == Spec => []ProcessedInOrder
<1>1. OrderInv => ProcessedInOrder
    BY DEF OrderInv
<1>2. QED
    BY <1>1, OrderInit, OrderNext, PTL DEF Spec

-----------------------------------------------------------------------------
(***************************************************************************)
(* Scheduled runs one at a time implement the delta log.  Its Apply is the *)
(* commit: the batch is still PENDING then, since no other run could mark  *)
(* it, and the rows are still those the run loaded.                        *)
(***************************************************************************)

OneAtATime == Targets = {} /\ \A p, q \in Procs : p = q

SoloOf(p) ==
    /\ AtWork(p) => status[job[p]] = "PENDING"
    /\ pc[p] \in {"purge", "flush"} =>
          \A d \in Docs : rowSeen[p][d] = recordState[d]
    /\ pc[p] = "flush" => purged[p] = {d \in Deletes(job[p]) : recordState[d] # Absent}

SoloInv == OrderInv /\ \A p \in Procs : SoloOf(p)

LEMMA SoloStep ==
  ASSUME SoloInv, NEW p \in Procs, StartRun(p) \/ Step(p) \/ Disturb(p), ~Commit(p)
  PROVE  (SoloOf(p))'
<1>0. TypeOK /\ SoloOf(p)
    BY DEF SoloInv, OrderInv, TypeInv
<1>1. UNCHANGED <<queue, events, status, recordState>>
    BY QuietStep DEF SoloInv, OrderInv, queueVars, tableVars
<1>2. CASE StartRun(p) \/ ImportDocuments(p) \/ OperationDone(p) \/ ImportDone(p)
           \/ LoseReply(p) \/ \E d \in Docs : DeleteDocument(p, d)
  <2>1. /\ job' = job
        /\ pc'[p] \notin {"purge", "flush"}
        /\ pc'[p] = "consume" \/ AtWork(p)
      BY <1>0, <1>2 DEF StartRun, ImportDocuments, OperationDone, ImportDone, LoseReply,
         DeleteDocument, TypeOK, Goto, AtWork
  <2>2. QED
      BY <1>0, <1>1, <2>1 DEF SoloOf, AtWork
<1>3. CASE Consume(p)
  <2>1. PICK i \in Selected(p) : job' = [job EXCEPT ![p] = queue[i]]
      BY <1>3 DEF Consume
  <2>2. job'[p] = queue[i] /\ pc'[p] = "import" /\ status[queue[i]] = "PENDING"
      BY <1>0, <1>3, <2>1 DEF Consume, Selected, TypeOK, Goto
  <2>3. QED
      BY <1>1, <2>2 DEF SoloOf
<1>4. CASE SelectRows(p)
  <2>1. /\ pc[p] = "delete" /\ pc'[p] = "purge" /\ job' = job
        /\ rowSeen'[p] = recordState
      BY <1>0, <1>4 DEF SelectRows, TypeOK, Goto
  <2>2. QED
      BY <1>0, <1>1, <2>1 DEF SoloOf, AtWork
<1>5. CASE PurgeRows(p)
  <2>1. /\ pc[p] = "purge" /\ pc'[p] = "flush" /\ UNCHANGED <<job, rowSeen>>
        /\ purged'[p] = {d \in Deletes(job[p]) : recordState[d] # Absent}
      BY <1>0, <1>5 DEF PurgeRows, TypeOK, Goto
  <2>2. QED
      BY <1>0, <1>1, <2>1 DEF SoloOf, AtWork, Deletes
<1>6. CASE ConsumeNothing(p) \/ OperationError(p) \/ CommitFails(p) \/ DeadlockVictim(p)
           \/ Stop(p)
  <2>1. Leave(p)
      BY <1>6 DEF ConsumeNothing, OperationError, CommitFails, DeadlockVictim, Stop
  <2>2. pc'[p] = "idle"
      BY <1>0, <2>1 DEF Leave, Goto, TypeOK
  <2>3. QED
      BY <2>2 DEF SoloOf, AtWork
<1>7. QED
    BY <1>2, <1>3, <1>4, <1>5, <1>6 DEF Step, Disturb

LEMMA SoloPush ==
  ASSUME SoloInv, NEW b \in Batches, NEW es \in Payloads, Push(b, es), NEW p \in Procs
  PROVE  (SoloOf(p))'
<1>0. TypeInv /\ JobOf(p) /\ SoloOf(p)
    BY DEF SoloInv, OrderInv, TypeInv
<1>1. UNCHANGED <<pc, job, recordState, rowSeen, purged>>
    BY DEF Push, txVars
<1>2. CASE AtWork(p)
  <2>1. PICK c \in Batches : c = job[p] /\ status[c] = "PENDING"
      BY <1>0, <1>2 DEF JobOf, SoloOf
  <2>2. status'[c] = "PENDING" /\ Deletes(c)' = Deletes(c)
      BY <1>0, <2>1, PushSettled
  <2>3. pc[p] = "flush" => purged[p] = {d \in Deletes(c) : recordState[d] # Absent}
      BY <1>0, <2>1 DEF SoloOf
  <2>4. job'[p] = c
      BY <1>1, <2>1
  <2>5. pc'[p] = "flush" => purged'[p] = {d \in Deletes(job[p])' : recordState'[d] # Absent}
    <3>1. Deletes(job[p])' = Deletes(c)'
        BY <2>4 DEF Deletes
    <3>2. QED
        BY <1>1, <2>2, <2>3, <3>1
  <2>6. QED
      BY <1>0, <1>1, <2>2, <2>4, <2>5 DEF SoloOf, AtWork
<1>3. CASE ~AtWork(p)
    BY <1>1, <1>3 DEF SoloOf, AtWork
<1>4. QED
    BY <1>2, <1>3

LEMMA SoloNext == ASSUME OneAtATime PROVE SoloInv /\ [Next]_vars => SoloInv'
<1> SUFFICES ASSUME SoloInv, [Next]_vars PROVE SoloInv'
    OBVIOUS
<1>1. OrderInv'
    BY OrderNext DEF SoloInv, OneAtATime
<1>2. ASSUME NEW p \in Procs, StartRun(p) \/ Step(p) \/ Disturb(p), NEW q \in Procs
      PROVE  (SoloOf(q))'
  <2>1. q = p
      BY DEF OneAtATime
  <2>2. CASE ~Commit(p)
      BY <1>2, <2>1, <2>2, SoloStep
  <2>3. CASE Commit(p)
    <3>1. pc'[p] = "idle"
        BY <2>3 DEF Commit, Leave, Goto, SoloInv, OrderInv, TypeInv, TypeOK
    <3>2. QED
        BY <2>1, <3>1 DEF SoloOf, AtWork
  <2>4. QED
      BY <2>2, <2>3
<1>3. ASSUME UNCHANGED <<queueVars, tableVars, pc, job, txVars>>, NEW q \in Procs
      PROVE  (SoloOf(q))'
    BY <1>3 DEF SoloInv, SoloOf, AtWork, Deletes, queueVars, tableVars, txVars
<1>4. ASSUME NEW b \in Batches, LateLands(b)
      PROVE  UNCHANGED <<queueVars, tableVars, pc, job, txVars>>
    BY <1>4 DEF LateLands
<1>5. CASE UNCHANGED vars
    BY <1>1, <1>3, <1>5 DEF vars, SoloInv
<1>6. QED
    BY <1>1, <1>2, <1>3, <1>4, <1>5, SoloPush DEF Next, SoloInv, OneAtATime

LEMMA LogPush ==
  ASSUME SoloInv, NEW b \in Batches, NEW es \in Payloads, Push(b, es)
  PROVE  Log!Accept(b, es)
<1>0. TypeOK /\ QueueOf
    BY DEF SoloInv, OrderInv, TypeInv
<1>1. \A i \in DOMAIN queue : queue[i] # b
    BY <1>0 DEF Push, QueueOf
<1>2. Processed' = Processed
    BY <1>0 DEF Push, Processed, TypeOK
<1>3. QED
    BY <1>1, <1>2 DEF Push, Log!Accept

\* What a lone run loaded is what is there, so that its updates write all they differ in.
LEMMA SoloRows ==
  ASSUME NEW p \in Procs, NEW d \in Docs, rowSeen[p][d] = recordState[d],
         Inserts(p, d) \/ Updates(p, d)
  PROVE  RowsAfter(p, d) = Upserts(job[p], d)
<1>1. CASE Inserts(p, d)
    BY <1>1 DEF RowsAfter
<1>2. CASE ~Inserts(p, d)
  <2>1. RowsAfter(p, d) = {IF v = rowSeen[p][d] THEN recordState[d] ELSE v : v \in Upserts(job[p], d)}
      BY <1>2 DEF RowsAfter
  <2>2. \A v : (IF v = rowSeen[p][d] THEN recordState[d] ELSE v) = v
      OBVIOUS
  <2>3. QED
      BY <2>1, <2>2
<1>3. QED
    BY <1>1, <1>2

LEMMA LogApply ==
  ASSUME OneAtATime, SoloInv, NEW p \in Procs, Commit(p)
  PROVE  job[p] \in Batches /\ Log!Apply(job[p])
<1> DEFINE b == job[p]
<1>0. TypeOK /\ JobOf(p) /\ TurnOf(p) /\ SoloOf(p) /\ asked[p] = NoBatch
    BY DEF SoloInv, OrderInv, TypeInv, OneAtATime, TypeOK
<1>1. /\ pc[p] = "flush" /\ AtWork(p) /\ b \in Batches
      /\ status[b] = "PENDING" /\ Reached(b)
      /\ status' = [status EXCEPT ![b] = "PROCESSED"]
      /\ recordState' \in [Docs -> Contents]
      /\ UNCHANGED <<queue, events>>
    BY <1>0 DEF Commit, StatusAfter, JobOf, TurnOf, SoloOf, AtWork, queueVars
<1>2. b \notin Processed /\ Processed' = Processed \cup {b}
    BY <1>0, <1>1 DEF Processed, TypeOK
<1>3. \E i \in DOMAIN queue : queue[i] = b /\ \A j \in 1..(i - 1) : queue[j] \in Processed
  <2>1. PICK i \in DOMAIN queue : /\ queue[i] = b
                                 /\ \A j \in 1..(i - 1) : status[queue[j]] = "PROCESSED"
      BY <1>1 DEF Reached
  <2>2. ASSUME NEW j \in 1..(i - 1) PROVE queue[j] \in Processed
    <3>1. j \in DOMAIN queue
        BY <1>0, QueueIndex
    <3>2. QED
        BY <1>0, <2>1, <3>1 DEF Processed, TypeOK
  <2>3. QED
      BY <2>1, <2>2
<1>4. ASSUME NEW d \in Docs
      PROVE  IF Log!Given(events[b], d) = {} THEN recordState'[d] = recordState[d]
                                             ELSE recordState'[d] \in Log!Given(events[b], d)
  <2>1. recordState'[d] \in RowsAfter(p, d)
      BY DEF Commit
  <2>2. /\ \A v \in Upserts(b, d) : v \in Log!Given(events[b], d)
        /\ d \in Deletes(b) <=> Absent \in Log!Given(events[b], d)
        /\ \A v \in Log!Given(events[b], d) : v = Absent \/ v \in Upserts(b, d)
      BY DEF Upserts, Deletes, Log!Given, Log!Contents
  <2>3. rowSeen[p][d] = recordState[d]
      BY <1>0, <1>1 DEF SoloOf
  <2>4. d \in purged[p] <=> d \in Deletes(b) /\ recordState[d] # Absent
      BY <1>0, <1>1 DEF SoloOf
  <2>5. CASE Inserts(p, d) \/ Updates(p, d)
      BY <2>1, <2>2, <2>3, <2>5, SoloRows
  <2>6. CASE ~(Inserts(p, d) \/ Updates(p, d)) /\ d \in purged[p]
      BY <2>1, <2>2, <2>4, <2>6 DEF RowsAfter
  <2>7. CASE ~(Inserts(p, d) \/ Updates(p, d)) /\ d \notin purged[p]
    <3>1. recordState'[d] = recordState[d]
        BY <2>1, <2>7 DEF RowsAfter
    <3>2. Upserts(b, d) # {} => d \in Deletes(b) /\ recordState[d] # Absent
        BY <2>3, <2>7 DEF Inserts, Updates
    <3>3. Upserts(b, d) = {} /\ (d \in Deletes(b) => recordState[d] = Absent)
        BY <2>4, <2>7, <3>2
    <3>4. QED
        BY <2>2, <3>1, <3>3
  <2>8. QED
      BY <2>5, <2>6, <2>7
<1>5. QED
    BY <1>1, <1>2, <1>3, <1>4 DEF Log!Apply, Log!Contents, Contents

LEMMA LogNext == ASSUME OneAtATime PROVE SoloInv /\ [Next]_vars => [Log!Next]_(Log!vars)
<1> SUFFICES ASSUME SoloInv, [Next]_vars PROVE [Log!Next]_(Log!vars)
    OBVIOUS
<1>1. ASSUME UNCHANGED <<queueVars, tableVars>> PROVE UNCHANGED Log!vars
    BY <1>1 DEF queueVars, tableVars, Processed, Log!vars
<1>2. ASSUME NEW b \in Batches, NEW es \in Payloads, Push(b, es) PROVE Log!Next
    BY <1>2, LogPush DEF Log!Next
<1>3. ASSUME NEW p \in Procs, StartRun(p) \/ Step(p) \/ Disturb(p)
      PROVE  [Log!Next]_(Log!vars)
  <2>1. CASE Commit(p)
      BY <2>1, LogApply DEF Log!Next
  <2>2. CASE ~Commit(p)
      BY <1>1, <1>3, <2>2, QuietStep DEF SoloInv, OrderInv
  <2>3. QED
      BY <2>1, <2>2
<1>4. ASSUME NEW p \in Procs, NEW b \in Targets, StartTargeted(p, b) PROVE UNCHANGED Log!vars
    BY <1>1, <1>4 DEF StartTargeted
<1>5. ASSUME NEW b \in Batches, LateLands(b) PROVE UNCHANGED Log!vars
    BY <1>1, <1>5 DEF LateLands
<1>6. CASE UNCHANGED vars
    BY <1>1, <1>6 DEF vars
<1>7. QED
    BY <1>2, <1>3, <1>4, <1>5, <1>6 DEF Next

\* With scheduled runs one at a time, the push processing implements the delta log:
\* every accepted batch that is marked PROCESSED changed record_state once, whole, in
\* the order of acceptance, whatever failed, was repeated or arrived late.
THEOREM LogCorrect == ASSUME OneAtATime PROVE Spec => ImplementsDeltaLog
<1>1. Init => SoloInv
    BY OrderInit DEF Init, SoloInv, SoloOf, AtWork
<1>2. SoloInv /\ [Next]_vars => SoloInv'
    BY SoloNext
<1>3. Init => Log!Init
    BY DEF Init, Processed, Log!Init
<1>4. SoloInv /\ [Next]_vars => [Log!Next]_(Log!vars)
    BY LogNext
<1>5. QED
    BY <1>1, <1>2, <1>3, <1>4, PTL DEF Spec, ImplementsDeltaLog, Log!Spec

-----------------------------------------------------------------------------
(***************************************************************************)
(* DatastoreFollowsLog, with scheduled runs one at a time.  What the commit *)
(* needs is SentOf: by then every document its batch names shows what the   *)
(* batch said of it, unless an import whose answer was lost has overwritten *)
(* it since.  That holds whatever an earlier attempt of the batch has left, *)
(* because an attempt imports and deletes everything again.                 *)
(***************************************************************************)

\* The datastore has of d what batch b said last.
Carries(b, d) ==
    /\ index[d].by = b
    /\ IF d \in Deletes(b) THEN index[d].ver = Absent ELSE index[d].ver \in Upserts(b, d)

SentOf(p) ==
    /\ AtWork(p) => unsent[p] \subseteq Deletes(job[p])
    /\ pc[p] \in {"import", "wait", "landed"} => unsent[p] = Deletes(job[p])
    /\ pc[p] \in {"purge", "flush"} => unsent[p] = {}
    /\ pc[p] \in {"landed", "delete", "purge", "flush"} =>
          \A d \in Docs \ unsent[p] : Names(job[p], d) => index[d].late \/ Carries(job[p], d)

\* Only queued batches write, and only documents they name.
Written ==
    /\ \A d \in Docs : index[d].by # NoBatch =>
          index[d].by \in Batches /\ status[index[d].by] # "NONE" /\ Names(index[d].by, d)
    /\ \A b \in late : status[b] # "NONE"

\* DatastoreFollowsLog, of one document.
Follows(d) ==
    \/ index[d].late
    \/ index[d].by # NoBatch /\ NextUp(index[d].by)
    \/ index[d].by # NoBatch /\ LastNaming(index[d].by, d) /\ HasSent(index[d].by, d)
    \/ index[d].by = NoBatch /\ \A c \in Processed : ~Names(c, d)

FollowInv ==
    /\ SoloInv /\ ownRun = {}
    /\ \A p \in Procs : SentOf(p)
    /\ Written /\ DatastoreFollowsLog

LEMMA FollowsAll == DatastoreFollowsLog <=> \A d \in Docs : Follows(d)
  BY DEF DatastoreFollowsLog, Follows

\* The batch of the one run is the first that is PENDING.
LEMMA WorkIsNext ==
  ASSUME OneAtATime, SoloInv, NEW p \in Procs, AtWork(p)
  PROVE  /\ job[p] \in Batches /\ job[p] # NoBatch
         /\ status[job[p]] = "PENDING" /\ NextUp(job[p])
<1>1. TypeOK /\ JobOf(p) /\ TurnOf(p) /\ SoloOf(p) /\ asked[p] = NoBatch
    BY DEF SoloInv, OrderInv, TypeInv, OneAtATime, TypeOK
<1>2. job[p] \in Batches /\ status[job[p]] = "PENDING" /\ Reached(job[p])
    BY <1>1 DEF JobOf, TurnOf, SoloOf
<1>3. QED
    BY <1>2, PushAssumption DEF Reached, NextUp

\* There is one such batch.
LEMMA NextUpIsOne ==
  ASSUME TypeOK, NEW b, NEW c, NextUp(b), NextUp(c)
  PROVE  b = c
<1>1. PICK i \in DOMAIN queue : /\ queue[i] = b /\ status[b] = "PENDING"
                               /\ \A j \in 1..(i - 1) : status[queue[j]] # "PENDING"
    BY DEF NextUp
<1>2. PICK k \in DOMAIN queue : /\ queue[k] = c /\ status[c] = "PENDING"
                               /\ \A j \in 1..(k - 1) : status[queue[j]] # "PENDING"
    BY DEF NextUp
<1>3. i \in Nat /\ k \in Nat /\ i >= 1 /\ k >= 1
    BY QueueIndex
<1>4. ~(i < k) /\ ~(k < i)
    BY <1>1, <1>2, <1>3
<1>5. QED
    BY <1>1, <1>2, <1>3, <1>4

\* What an import changes.
LEMMA LandsIs ==
  ASSUME NEW b \in Batches, NEW ds \in SUBSET Docs, NEW u \in BOOLEAN, Lands(b, ds, u),
         NEW d \in Docs
  PROVE  LET landed == /\ index'[d].by = b /\ index'[d].late = u
                       /\ index'[d].ver \in Upserts(b, d)
         IN  /\ index'[d] = index[d] \/ landed
             /\ d \in ds /\ Upserts(b, d) # {} => landed
<1>1. PICK f \in Files(b) : index' = [x \in Docs |-> IF x \in ds /\ f[x] # Absent
                                                     THEN [ver |-> f[x], by |-> b, late |-> u]
                                                     ELSE index[x]]
    BY DEF Lands
<1>2. IF Upserts(b, d) = {} THEN f[d] = Absent ELSE f[d] \in Upserts(b, d)
    BY DEF Files
<1>3. Upserts(b, d) # {} => f[d] # Absent
    BY <1>2, PushAssumption DEF Upserts
<1>4. index'[d] = IF d \in ds /\ f[d] # Absent THEN [ver |-> f[d], by |-> b, late |-> u]
                  ELSE index[d]
    BY <1>1
<1>5. QED
    BY <1>2, <1>3, <1>4

\* What an import that is complete leaves.
LEMMA LandsWhole ==
  ASSUME NEW b \in Batches, Lands(b, Docs, FALSE), NEW d \in Docs, Upserts(b, d) # {}
  PROVE  index'[d].by = b /\ index'[d].ver \in Upserts(b, d)
<1>1. PICK f \in Files(b) : index' = [x \in Docs |-> IF x \in Docs /\ f[x] # Absent
                                                     THEN [ver |-> f[x], by |-> b, late |-> FALSE]
                                                     ELSE index[x]]
    BY DEF Lands
<1>2. f[d] \in Upserts(b, d)
    BY DEF Files
<1>3. f[d] # Absent
    BY <1>2, PushAssumption DEF Upserts
<1>4. QED
    BY <1>1, <1>2, <1>3

\* A document nobody touches still follows the log.
LEMMA FollowsFrame ==
  ASSUME UNCHANGED <<queue, events, status, recordState>>,
         NEW d \in Docs, index'[d] = index[d], Follows(d)
  PROVE  Follows(d)'
<1> DEFINE b == index[d].by
<1>1. \A c : /\ Upserts(c, d)' = Upserts(c, d) /\ Deletes(c)' = Deletes(c)
             /\ Names(c, d)' = Names(c, d) /\ Repeats(c, d)' = Repeats(c, d)
    BY DEF Names, Upserts, Deletes, Repeats
<1>2. Processed' = Processed
    BY DEF Processed
<1>3. NextUp(b)' = NextUp(b)
    BY DEF NextUp
<1>4. LastNaming(b, d)' = LastNaming(b, d)
    BY <1>1 DEF LastNaming
<1>5. HasSent(b, d)' = HasSent(b, d)
    BY <1>1 DEF HasSent
<1>6. QED
    BY <1>1, <1>2, <1>3, <1>4, <1>5 DEF Follows

\* The steps of the run but its commit write, if at all, for the batch whose turn it is.
LEMMA WritesForNext ==
  ASSUME OneAtATime, SoloInv, NEW p \in Procs, StartRun(p) \/ Step(p) \/ Disturb(p), ~Commit(p),
         \A q \in Procs : SentOf(q), NEW d \in Docs
  PROVE  \/ index'[d] = index[d]
         \/ /\ AtWork(p) /\ index'[d].by = job[p] /\ Names(job[p], d)
            /\ index'[d].late = FALSE
<1>0. TypeOK
    BY DEF SoloInv, OrderInv, TypeInv
<1>1. CASE OperationDone(p) \/ OperationError(p)
  <2>1. AtWork(p) /\ \E ds \in SUBSET Docs : Lands(job[p], ds, FALSE)
      BY <1>1 DEF OperationDone, OperationError, AtWork
  <2>2. job[p] \in Batches
      BY <2>1, WorkIsNext
  <2>3. index'[d] = index[d]
        \/ /\ index'[d].by = job[p] /\ index'[d].late = FALSE /\ index'[d].ver \in Upserts(job[p], d)
      BY <2>1, <2>2, LandsIs
  <2>4. QED
      BY <2>1, <2>3 DEF Names
<1>2. ASSUME NEW e \in Docs, DeleteDocument(p, e)
      PROVE  \/ index'[d] = index[d]
             \/ /\ AtWork(p) /\ index'[d].by = job[p] /\ Names(job[p], d)
                /\ index'[d].late = FALSE
  <2>1. /\ AtWork(p) /\ e \in unsent[p]
        /\ index' = [index EXCEPT ![e] = [ver |-> Absent, by |-> job[p], late |-> FALSE]]
      BY <1>2 DEF DeleteDocument, AtWork
  <2>2. e \in Deletes(job[p])
      BY <2>1 DEF SentOf
  <2>3. QED
      BY <1>0, <2>1, <2>2 DEF TypeOK, Names
<1>3. CASE ~OperationDone(p) /\ ~OperationError(p) /\ ~\E e \in Docs : DeleteDocument(p, e)
  <2>1. UNCHANGED index
      BY <1>3 DEF Step, Disturb, StartRun, ConsumeNothing, Consume, ImportDocuments, ImportDone,
         SelectRows, PurgeRows, CommitFails, DeadlockVictim, LoseReply, Stop, indexVars
  <2>2. QED
      BY <2>1
<1>4. QED
    BY <1>1, <1>2, <1>3

\* What the run has sent stays sent.
LEMMA SentStep ==
  ASSUME OneAtATime, SoloInv, NEW p \in Procs, StartRun(p) \/ Step(p) \/ Disturb(p), ~Commit(p),
         SentOf(p)
  PROVE  SentOf(p)'
<1>0. TypeOK
    BY DEF SoloInv, OrderInv, TypeInv
<1>1. UNCHANGED <<queue, events, status, recordState>>
    BY QuietStep DEF SoloInv, OrderInv, queueVars, tableVars
<1>2. \A c : Deletes(c)' = Deletes(c) /\ \A d : Upserts(c, d)' = Upserts(c, d) /\ Names(c, d)' = Names(c, d)
    BY <1>1 DEF Names, Upserts, Deletes
<1>3. CASE StartRun(p) \/ ConsumeNothing(p) \/ OperationError(p) \/ CommitFails(p)
           \/ DeadlockVictim(p) \/ Stop(p)
  <2>1. pc'[p] \in {"idle", "consume"}
      BY <1>0, <1>3 DEF StartRun, ConsumeNothing, OperationError, CommitFails, DeadlockVictim, Stop,
         Leave, Goto, TypeOK
  <2>2. QED
      BY <2>1 DEF SentOf, AtWork
<1>4. CASE Consume(p)
  <2>1. PICK i \in Selected(p) : /\ job' = [job EXCEPT ![p] = queue[i]]
                                 /\ unsent' = [unsent EXCEPT ![p] = Deletes(queue[i])]
      BY <1>4 DEF Consume
  <2>2. job'[p] = queue[i] /\ unsent'[p] = Deletes(queue[i]) /\ pc'[p] = "import"
      BY <1>0, <1>4, <2>1 DEF Consume, Goto, TypeOK
  <2>3. QED
      BY <1>2, <2>2 DEF SentOf
<1>5. CASE ImportDocuments(p) \/ LoseReply(p)
  <2>1. /\ pc[p] = "import" /\ pc'[p] \in {"import", "wait"} /\ UNCHANGED <<job, unsent>>
      BY <1>0, <1>5 DEF ImportDocuments, LoseReply, Goto, TypeOK
  <2>2. QED
      BY <1>2, <2>1 DEF SentOf, AtWork
<1>6. CASE OperationDone(p)
  <2>1. /\ pc[p] = "wait" /\ pc'[p] = "landed" /\ UNCHANGED <<job, unsent>>
        /\ Lands(job[p], Docs, FALSE) /\ AtWork(p)
      BY <1>0, <1>6 DEF OperationDone, Goto, TypeOK, AtWork
  <2>2. job[p] \in Batches /\ unsent[p] = Deletes(job[p])
      BY <2>1, WorkIsNext DEF SentOf
  <2>3. ASSUME NEW d \in Docs \ unsent[p], Names(job[p], d)
        PROVE  index'[d].by = job[p] /\ index'[d].ver \in Upserts(job[p], d)
    <3>1. Upserts(job[p], d) # {} /\ d \in Docs
        BY <2>2, <2>3 DEF Names
    <3>2. QED
        BY <2>1, <2>2, <3>1, LandsWhole
  <2>4. QED
      BY <1>2, <2>1, <2>2, <2>3 DEF SentOf, Carries, AtWork
<1>7. CASE ImportDone(p) \/ SelectRows(p) \/ PurgeRows(p)
  <2>1. /\ \/ pc[p] = "landed" /\ pc'[p] = "delete"
           \/ pc[p] = "delete" /\ pc'[p] = "purge" /\ unsent[p] = {}
           \/ pc[p] = "purge" /\ pc'[p] = "flush"
        /\ UNCHANGED <<job, unsent, index>>
      BY <1>0, <1>7 DEF ImportDone, SelectRows, PurgeRows, Goto, TypeOK, indexVars
  <2>2. QED
      BY <1>2, <2>1 DEF SentOf, Carries, AtWork
<1>8. ASSUME NEW e \in Docs, DeleteDocument(p, e) PROVE SentOf(p)'
  <2>1. /\ pc[p] = "delete" /\ e \in unsent[p] /\ UNCHANGED <<job, pc>>
        /\ index' = [index EXCEPT ![e] = [ver |-> Absent, by |-> job[p], late |-> FALSE]]
        /\ unsent'[p] = unsent[p] \ {e}
      BY <1>0, <1>8 DEF DeleteDocument, TypeOK
  <2>2. e \in Deletes(job[p])
      BY <2>1 DEF SentOf, AtWork
  <2>3. \A d \in Docs : index'[d] = IF d = e THEN [ver |-> Absent, by |-> job[p], late |-> FALSE]
                                   ELSE index[d]
      BY <1>0, <2>1 DEF TypeOK
  <2>4. ASSUME NEW d \in Docs \ unsent'[p], Names(job[p], d)
        PROVE  index'[d].late \/ Carries(job[p], d)'
    <3>1. CASE d = e
        BY <1>2, <2>1, <2>2, <2>3, <3>1 DEF Carries
    <3>2. CASE d # e
      <4>1. d \in Docs \ unsent[p] /\ index'[d] = index[d]
          BY <2>1, <2>3, <2>4, <3>2
      <4>2. index[d].late \/ Carries(job[p], d)
          BY <2>1, <2>4, <4>1 DEF SentOf
      <4>3. QED
          BY <1>2, <2>1, <4>1, <4>2 DEF Carries
    <3>3. QED
        BY <3>1, <3>2
  <2>5. unsent'[p] \subseteq Deletes(job[p])
      BY <2>1 DEF SentOf, AtWork
  <2>6. QED
      BY <1>2, <2>1, <2>4, <2>5 DEF SentOf
<1>9. QED
    BY <1>3, <1>4, <1>5, <1>6, <1>7, <1>8 DEF Step, Disturb

\* Any step of the run but its commit.
LEMMA FollowQuiet ==
  ASSUME OneAtATime, FollowInv, NEW p \in Procs, StartRun(p) \/ Step(p) \/ Disturb(p), ~Commit(p)
  PROVE  SentOf(p)' /\ Written' /\ DatastoreFollowsLog'
<1>0. TypeOK /\ SoloInv /\ SentOf(p) /\ Written /\ \A q \in Procs : SentOf(q)
    BY DEF FollowInv, SoloInv, OrderInv, TypeInv
<1>1. UNCHANGED <<queue, events, status, recordState>>
    BY QuietStep DEF FollowInv, SoloInv, OrderInv, queueVars, tableVars
<1>2. SentOf(p)'
    BY <1>0, SentStep
<1>3. \A d \in Docs : \/ index'[d] = index[d]
                      \/ /\ AtWork(p) /\ index'[d].by = job[p] /\ Names(job[p], d)
                         /\ index'[d].late = FALSE
    BY <1>0, WritesForNext
<1>4. AtWork(p) => job[p] \in Batches /\ status[job[p]] = "PENDING" /\ NextUp(job[p])
                   /\ job[p] # NoBatch
    BY <1>0, WorkIsNext
<1>5. \A c, d : Names(c, d)' = Names(c, d)
    BY <1>1 DEF Names, Upserts, Deletes
<1>6. late' \subseteq late \/ (AtWork(p) /\ late' \subseteq late \cup {job[p]})
    BY DEF Step, Disturb, StartRun, ConsumeNothing, Consume, ImportDocuments, OperationDone,
       ImportDone, DeleteDocument, SelectRows, PurgeRows, CommitFails, DeadlockVictim, LoseReply,
       OperationError, Stop, indexVars, AtWork
<1>7. Written'
    BY <1>0, <1>1, <1>3, <1>4, <1>5, <1>6 DEF Written
<1>8. ASSUME NEW d \in Docs PROVE Follows(d)'
  <2>1. CASE index'[d] = index[d]
      BY <1>1, <2>1, FollowsFrame, FollowsAll DEF FollowInv
  <2>2. CASE index'[d] # index[d]
    <3>1. PICK b : index'[d].by = b /\ b # NoBatch /\ NextUp(b)
        BY <1>3, <1>4, <2>2
    <3>2. NextUp(b)'
        BY <1>1, <3>1 DEF NextUp
    <3>3. QED
        BY <3>1, <3>2 DEF Follows, NextUp
  <2>3. QED
      BY <2>1, <2>2
<1>9. QED
    BY <1>2, <1>7, <1>8, FollowsAll DEF DatastoreFollowsLog, Follows

\* The row of a document after the commit, when the batch has but one kind of event for it.
LEMMA RowIsSent ==
  ASSUME SoloInv, NEW p \in Procs, Commit(p), NEW b \in Batches, b = job[p], NEW d \in Docs
  PROVE  /\ Names(b, d) /\ Upserts(b, d) = {} => recordState'[d] = Absent
         /\ Names(b, d) /\ d \notin Deletes(b) => recordState'[d] \in Upserts(b, d)
         /\ ~Names(b, d) => recordState'[d] = recordState[d]
<1>1. SoloOf(p) /\ pc[p] = "flush" /\ recordState'[d] \in RowsAfter(p, d)
    BY DEF SoloInv, Commit
<1>2. d \in purged[p] <=> d \in Deletes(b) /\ recordState[d] # Absent
    BY <1>1 DEF SoloOf
<1>3. /\ Inserts(p, d) <=> Upserts(b, d) # {} /\ rowSeen[p][d] = Absent
      /\ Updates(p, d) <=> Upserts(b, d) # {} /\ rowSeen[p][d] # Absent /\ d \notin Deletes(b)
    BY DEF Inserts, Updates
<1>4. RowsAfter(p, d) = IF Inserts(p, d) \/ Updates(p, d) THEN Upserts(b, d)
                        ELSE IF d \in purged[p] THEN {Absent} ELSE {recordState[d]}
  <2>1. rowSeen[p][d] = recordState[d]
      BY <1>1 DEF SoloOf
  <2>2. CASE Inserts(p, d) \/ Updates(p, d)
      BY <2>1, <2>2, SoloRows
  <2>3. CASE ~(Inserts(p, d) \/ Updates(p, d))
      BY <2>3 DEF RowsAfter
  <2>4. QED
      BY <2>2, <2>3
<1>5. QED
    BY <1>1, <1>2, <1>3, <1>4 DEF Names

LEMMA OneUpsert ==
  ASSUME NEW b \in Batches, NEW d \in Docs, ~Repeats(b, d),
         NEW v \in Upserts(b, d), NEW w \in Upserts(b, d)
  PROVE  v = w
<1>1. PICK i \in DOMAIN events[b] : events[b][i] = [doc |-> d, ver |-> v]
    BY DEF Upserts
<1>2. PICK k \in DOMAIN events[b] : events[b][k] = [doc |-> d, ver |-> w]
    BY DEF Upserts
<1>3. v # Absent /\ w # Absent
    BY PushAssumption DEF Upserts
<1>4. i = k
    BY <1>1, <1>2, <1>3 DEF Repeats
<1>5. QED
    BY <1>1, <1>2, <1>4

\* The commit.  A document its batch names shows what the batch said, and becomes
\* one of which the batch is the youngest to have said it; the others stay.
LEMMA FollowCommit ==
  ASSUME OneAtATime, FollowInv, NEW p \in Procs, Commit(p)
  PROVE  SentOf(p)' /\ Written' /\ DatastoreFollowsLog'
<1>0. /\ TypeOK /\ SoloInv /\ SentOf(p) /\ SoloOf(p) /\ Written /\ QueueOf
      /\ TurnOf(p) /\ ProcessedInOrder /\ ownRun = {} /\ asked[p] = NoBatch
    BY DEF FollowInv, SoloInv, OrderInv, TypeInv, OneAtATime, TypeOK
<1>1. PICK b \in Batches : /\ b = job[p] /\ b # NoBatch /\ status[b] = "PENDING"
                           /\ NextUp(b) /\ Reached(b)
  <2>1. AtWork(p)
      BY DEF Commit, AtWork
  <2>2. job[p] \in Batches /\ job[p] # NoBatch /\ status[job[p]] = "PENDING" /\ NextUp(job[p])
      BY <1>0, <2>1, WorkIsNext
  <2>3. Reached(job[p])
      BY <1>0, <2>1 DEF TurnOf
  <2>4. QED
      BY <2>2, <2>3
<1>2. /\ status' = [status EXCEPT ![b] = "PROCESSED"] /\ pc' = [pc EXCEPT ![p] = "idle"]
      /\ UNCHANGED <<queue, events, index, late>>
    BY <1>1 DEF Commit, StatusAfter, Leave, Goto, queueVars, indexVars
<1>3. \A c \in Batches : status'[c] = "PROCESSED" <=> (c = b \/ status[c] = "PROCESSED")
    BY <1>0, <1>1, <1>2 DEF TypeOK
<1>4. /\ \A c : Deletes(c)' = Deletes(c)
      /\ \A c, d : /\ Upserts(c, d)' = Upserts(c, d) /\ Names(c, d)' = Names(c, d)
                   /\ Repeats(c, d)' = Repeats(c, d)
    BY <1>2 DEF Names, Upserts, Deletes, Repeats
<1>5. SentOf(p)'
    BY <1>0, <1>2 DEF SentOf, AtWork, TypeOK
<1>6. Written'
    BY <1>0, <1>2, <1>4 DEF Written, TypeOK
<1>7. PICK i \in DOMAIN queue : queue[i] = b
    BY <1>1 DEF Reached
<1>8. \A j \in DOMAIN queue : queue[j] \in Batches
    BY <1>0 DEF TypeOK
<1>9. ASSUME NEW j \in DOMAIN queue, status'[queue[j]] = "PROCESSED" PROVE j <= i
  <2>1. CASE queue[j] = b
      BY <1>0, <1>7, <2>1, QueueIndex DEF QueueOf
  <2>2. CASE queue[j] # b
    <3>1. status[queue[j]] = "PROCESSED"
        BY <1>3, <1>8, <1>9, <2>2
    <3>2. ~(i < j)
        BY <1>0, <1>1, <1>7, <3>1 DEF ProcessedInOrder
    <3>3. QED
        BY <1>0, <3>2, QueueIndex
  <2>3. QED
      BY <2>1, <2>2
<1>10. ASSUME NEW d \in Docs, Names(b, d) PROVE Follows(d)'
  <2>1. index[d].late \/ Carries(b, d)
      BY <1>0, <1>1, <1>10 DEF SentOf, Commit
  <2>2. CASE index[d].late
      BY <1>2, <2>2 DEF Follows
  <2>3. CASE Carries(b, d)
    <3>1. LastNaming(b, d)'
        BY <1>2, <1>3, <1>4, <1>7, <1>9, <1>10 DEF LastNaming
    <3>2. Upserts(b, d) = {} => recordState'[d] = index[d].ver
        BY <1>0, <1>1, <1>10, <2>3, RowIsSent DEF Carries, Names
    <3>3. d \notin Deletes(b) /\ ~Repeats(b, d) => recordState'[d] = index[d].ver
        BY <1>0, <1>1, <1>10, <2>3, RowIsSent, OneUpsert DEF Carries
    <3>4. HasSent(b, d)'
        BY <1>2, <1>4, <2>3, <3>2, <3>3 DEF HasSent, Carries
    <3>5. index'[d].by = b /\ b # NoBatch
        BY <1>1, <1>2, <2>3 DEF Carries
    <3>6. QED
        BY <3>1, <3>4, <3>5 DEF Follows
  <2>4. QED
      BY <2>1, <2>2, <2>3
<1>11. ASSUME NEW d \in Docs, ~Names(b, d) PROVE Follows(d)'
  <2>1. recordState'[d] = recordState[d] /\ index'[d] = index[d]
      BY <1>0, <1>1, <1>2, <1>11, RowIsSent
  <2>2. PICK c : c = index[d].by
      OBVIOUS
  <2>3. Follows(d)
      BY FollowsAll DEF FollowInv
  <2>4. CASE index[d].late
      BY <2>1, <2>4 DEF Follows
  <2>5. CASE c # NoBatch /\ NextUp(c)
    <3>1. c = b
        BY <1>0, <1>1, <2>5, NextUpIsOne
    <3>2. QED
        BY <1>0, <1>11, <2>2, <2>5, <3>1 DEF Written
  <2>6. CASE c # NoBatch /\ LastNaming(c, d) /\ HasSent(c, d)
    <3>1. LastNaming(c, d)'
      <4>1. PICK k \in DOMAIN queue :
                /\ queue[k] = c /\ status[c] = "PROCESSED"
                /\ \A j \in DOMAIN queue :
                      status[queue[j]] = "PROCESSED" /\ Names(queue[j], d) => j <= k
          BY <2>6 DEF LastNaming
      <4>2. status'[c] = "PROCESSED" /\ Names(c, d)'
          BY <1>3, <1>4, <1>8, <2>6, <4>1 DEF LastNaming
      <4>3. \A j \in DOMAIN queue :
                status'[queue[j]] = "PROCESSED" /\ Names(queue[j], d) => j <= k
          BY <1>3, <1>8, <1>11, <4>1
      <4>4. QED
          BY <1>2, <1>4, <4>1, <4>2, <4>3 DEF LastNaming
    <3>2. HasSent(c, d)'
        BY <1>4, <2>1, <2>6 DEF HasSent
    <3>3. QED
        BY <2>1, <2>2, <2>6, <3>1, <3>2 DEF Follows
  <2>7. CASE c = NoBatch /\ \A e \in Processed : ~Names(e, d)
      BY <1>3, <1>4, <1>11, <2>1, <2>2, <2>7 DEF Follows, Processed
  <2>8. QED
      BY <2>2, <2>3, <2>4, <2>5, <2>6, <2>7 DEF Follows
<1>12. QED
    BY <1>5, <1>6, <1>10, <1>11, FollowsAll DEF DatastoreFollowsLog, Follows

\* A batch that joins the queue is behind all the others.
LEMMA FollowQueued ==
  ASSUME FollowInv, NEW b \in Batches, NEW es \in Payloads, Push(b, es)
  PROVE  (\A p \in Procs : SentOf(p)') /\ Written' /\ DatastoreFollowsLog'
<1>0. /\ TypeOK /\ QueueOf /\ Written /\ TypeInv
      /\ \A p \in Procs : SentOf(p) /\ JobOf(p) /\ SoloOf(p)
    BY DEF FollowInv, SoloInv, OrderInv, TypeInv
<1>1. /\ queue' = Append(queue, b) /\ status[b] = "NONE"
      /\ status' = [status EXCEPT ![b] = "PENDING"]
      /\ UNCHANGED <<recordState, index, late, pc, job, unsent>>
    BY DEF Push, indexVars
<1>2. ASSUME NEW c \in Batches, c # b
      PROVE  /\ status'[c] = status[c] /\ Deletes(c)' = Deletes(c)
             /\ \A d : /\ Upserts(c, d)' = Upserts(c, d) /\ Names(c, d)' = Names(c, d)
                       /\ Repeats(c, d)' = Repeats(c, d)
    BY <1>0, <1>2 DEF Push, TypeOK, Names, Upserts, Deletes, Repeats
<1>3. ASSUME NEW p \in Procs PROVE SentOf(p)'
  <2>1. CASE AtWork(p)
    <3>1. PICK c \in Batches : c = job[p] /\ c # b
        BY <1>0, <1>1, <2>1 DEF JobOf, SoloOf
    <3>2. job'[p] = c
        BY <1>1, <3>1
    <3>3. QED
        BY <1>0, <1>1, <1>2, <2>1, <3>1, <3>2 DEF SentOf, Carries, AtWork
  <2>2. CASE ~AtWork(p)
      BY <1>1, <2>2 DEF SentOf, AtWork
  <2>3. QED
      BY <2>1, <2>2
<1>4. Written'
    BY <1>0, <1>1, <1>2 DEF Written
<1>5. /\ DOMAIN queue' = DOMAIN queue \cup {Len(queue) + 1} /\ queue'[Len(queue) + 1] = b
      /\ \A i \in DOMAIN queue : queue'[i] = queue[i] /\ queue[i] \in Batches /\ queue[i] # b
    BY <1>0, <1>1 DEF TypeOK, QueueOf
<1>6. ASSUME NEW d \in Docs PROVE Follows(d)'
  <2>1. PICK c : c = index[d].by
      OBVIOUS
  <2>2. Follows(d) /\ index'[d] = index[d] /\ recordState'[d] = recordState[d]
      BY <1>1, FollowsAll DEF FollowInv
  <2>3. c # NoBatch => c \in Batches /\ c # b
      BY <1>0, <1>1, <2>1 DEF Written
  <2>4. CASE index[d].late
      BY <2>2, <2>4 DEF Follows
  <2>5. CASE c # NoBatch /\ NextUp(c)
    <3>1. PICK i \in DOMAIN queue :
              /\ queue[i] = c /\ status[c] = "PENDING"
              /\ \A j \in 1..(i - 1) : status[queue[j]] # "PENDING"
        BY <2>5 DEF NextUp
    <3>2. \A j \in 1..(i - 1) : j \in DOMAIN queue
        BY <1>0, QueueIndex
    <3>3. \A j \in 1..(i - 1) : status'[queue'[j]] # "PENDING"
        BY <1>2, <1>5, <3>1, <3>2
    <3>4. NextUp(c)'
        BY <1>2, <1>5, <2>3, <2>5, <3>1, <3>3 DEF NextUp
    <3>5. QED
        BY <2>1, <2>2, <2>5, <3>4 DEF Follows
  <2>6. CASE c # NoBatch /\ LastNaming(c, d) /\ HasSent(c, d)
    <3>1. PICK i \in DOMAIN queue :
              /\ queue[i] = c /\ status[c] = "PROCESSED"
              /\ \A j \in DOMAIN queue :
                    status[queue[j]] = "PROCESSED" /\ Names(queue[j], d) => j <= i
        BY <2>6 DEF LastNaming
    <3>2. status'[b] = "PENDING"
        BY <1>0, <1>1 DEF TypeOK
    <3>3. ASSUME NEW j \in DOMAIN queue', status'[queue'[j]] = "PROCESSED",
                 Names(queue[j], d)'
          PROVE  j <= i
      <4>1. j \in DOMAIN queue
          BY <1>5, <3>2, <3>3
      <4>2. PICK e \in Batches : e = queue[j] /\ e # b /\ queue'[j] = e
          BY <1>5, <4>1
      <4>3. Names(e, d)'
          BY <3>3, <4>2 DEF Names, Upserts, Deletes
      <4>4. status[e] = "PROCESSED" /\ Names(e, d)
          BY <1>2, <3>3, <4>2, <4>3
      <4>5. QED
          BY <3>1, <4>1, <4>2, <4>4
    <3>4. LastNaming(c, d)'
      <4>1. i \in DOMAIN queue' /\ queue'[i] = c /\ status'[c] = "PROCESSED" /\ Names(c, d)'
          BY <1>2, <1>5, <2>3, <2>6, <3>1 DEF LastNaming
      <4>2. QED
          BY <3>3, <4>1 DEF LastNaming
    <3>5. HasSent(c, d)'
        BY <1>2, <2>2, <2>3, <2>6 DEF HasSent
    <3>6. QED
        BY <2>1, <2>2, <2>6, <3>4, <3>5 DEF Follows
  <2>7. CASE c = NoBatch /\ \A e \in Processed : ~Names(e, d)
    <3>1. Processed' = Processed /\ b \notin Processed
        BY <1>0, <1>1 DEF Processed, TypeOK
    <3>2. \A e \in Processed : ~Names(e, d)'
        BY <1>2, <2>7, <3>1 DEF Processed
    <3>3. QED
        BY <2>1, <2>2, <2>7, <3>1, <3>2 DEF Follows
  <2>8. QED
      BY <2>1, <2>2, <2>4, <2>5, <2>6, <2>7 DEF Follows
<1>7. QED
    BY <1>3, <1>4, <1>6, FollowsAll DEF DatastoreFollowsLog, Follows

\* An import nobody awaits marks what it writes.
LEMMA FollowLate ==
  ASSUME FollowInv, NEW b \in Batches, LateLands(b)
  PROVE  (\A p \in Procs : SentOf(p)') /\ Written' /\ DatastoreFollowsLog'
<1>1. /\ UNCHANGED <<queue, events, status, recordState, pc, job, unsent>>
      /\ late' \subseteq late /\ status[b] # "NONE"
    BY DEF LateLands, FollowInv, Written, queueVars, tableVars
<1>2. \A c : Deletes(c)' = Deletes(c) /\ \A d : Upserts(c, d)' = Upserts(c, d) /\ Names(c, d)' = Names(c, d)
    BY <1>1 DEF Names, Upserts, Deletes
<1>3. ASSUME NEW d \in Docs
      PROVE  \/ index'[d] = index[d]
             \/ index'[d].late /\ index'[d].by = b /\ Names(b, d)
  <2>1. \E ds \in SUBSET Docs : Lands(b, ds, TRUE)
      BY DEF LateLands
  <2>2. index'[d] = index[d]
        \/ /\ index'[d].by = b /\ index'[d].late = TRUE /\ index'[d].ver \in Upserts(b, d)
      BY <2>1, LandsIs
  <2>3. QED
      BY <2>2 DEF Names
<1>4. ASSUME NEW p \in Procs PROVE SentOf(p)'
  <2>1. SentOf(p)
      BY DEF FollowInv
  <2>2. QED
      BY <1>1, <1>2, <1>3, <2>1 DEF SentOf, Carries, AtWork
<1>5. Written'
    BY <1>1, <1>2, <1>3 DEF FollowInv, Written
<1>6. ASSUME NEW d \in Docs PROVE Follows(d)'
  <2>1. CASE index'[d] = index[d]
      BY <1>1, <2>1, FollowsFrame, FollowsAll DEF FollowInv
  <2>2. CASE index'[d].late
      BY <2>2 DEF Follows
  <2>3. QED
      BY <1>3, <2>1, <2>2
<1>7. QED
    BY <1>4, <1>5, <1>6, FollowsAll DEF DatastoreFollowsLog, Follows

LEMMA FollowNext == ASSUME OneAtATime PROVE FollowInv /\ [Next]_vars => FollowInv'
<1> SUFFICES ASSUME FollowInv, [Next]_vars PROVE FollowInv'
    OBVIOUS
<1>0. SoloInv /\ TypeInv /\ SoloInv'
    BY SoloNext DEF FollowInv, SoloInv, OrderInv
<1>1. ASSUME NEW p \in Procs, StartRun(p) \/ Step(p) \/ Disturb(p) PROVE FollowInv'
  <2>1. ownRun' = ownRun
      BY <1>0, <1>1, QuietStep DEF Commit
  <2>2. \A q \in Procs : q = p
      BY DEF OneAtATime
  <2>3. SentOf(p)' /\ Written' /\ DatastoreFollowsLog'
      BY <1>1, FollowQuiet, FollowCommit
  <2>4. QED
      BY <1>0, <2>1, <2>2, <2>3 DEF FollowInv
<1>2. ASSUME NEW b \in Batches, NEW es \in Payloads, Push(b, es) PROVE FollowInv'
  <2>1. ownRun' = ownRun
      BY <1>2 DEF Push
  <2>2. QED
      BY <1>0, <1>2, <2>1, FollowQueued DEF FollowInv
<1>3. ASSUME NEW b \in Batches, LateLands(b) PROVE FollowInv'
  <2>1. ownRun' = ownRun
      BY <1>3 DEF LateLands
  <2>2. QED
      BY <1>0, <1>3, <2>1, FollowLate DEF FollowInv
<1>4. CASE UNCHANGED vars
  <2>1. UNCHANGED <<queue, events, status, recordState, ownRun, index, late, pc, job, unsent>>
      BY <1>4 DEF vars, queueVars, tableVars, indexVars
  <2>2. \A d \in Docs : Follows(d)'
      BY <2>1, FollowsFrame, FollowsAll DEF FollowInv
  <2>3. \A c : Deletes(c)' = Deletes(c) /\ \A d : Upserts(c, d)' = Upserts(c, d) /\ Names(c, d)' = Names(c, d)
      BY <2>1 DEF Names, Upserts, Deletes
  <2>4. Written' /\ \A p \in Procs : SentOf(p)'
      BY <2>1, <2>3 DEF FollowInv, Written, SentOf, Carries, AtWork
  <2>5. QED
      BY <1>0, <2>1, <2>2, <2>4, FollowsAll DEF FollowInv, DatastoreFollowsLog, Follows
<1>5. QED
    BY <1>1, <1>2, <1>3, <1>4 DEF Next, OneAtATime

\* With scheduled runs one at a time, what the datastore holds of a document is what
\* the youngest processed batch that names it said, or was written by the batch whose
\* turn it is, or by an import whose answer was lost: no failed or repeated attempt
\* leaves anything that the next commit does not cover.
THEOREM FollowCorrect == ASSUME OneAtATime PROVE Spec => []DatastoreFollowsLog
<1>1. Init => FollowInv
  <2> SUFFICES ASSUME Init PROVE FollowInv
      OBVIOUS
  <2>1. SoloInv
      BY OrderInit DEF Init, SoloInv, SoloOf, AtWork
  <2>2. /\ ownRun = {} /\ late = {} /\ Processed = {}
        /\ \A d \in Docs : index[d].by = NoBatch
        /\ \A p \in Procs : pc[p] = "idle"
      BY DEF Init, Processed
  <2>3. QED
      BY <2>1, <2>2 DEF FollowInv, SentOf, AtWork, Written, DatastoreFollowsLog
<1>2. FollowInv /\ [Next]_vars => FollowInv'
    BY FollowNext
<1>3. FollowInv => DatastoreFollowsLog
    BY DEF FollowInv
<1>4. QED
    BY <1>1, <1>2, <1>3, PTL DEF Spec
=============================================================================
