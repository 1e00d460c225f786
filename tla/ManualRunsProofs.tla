-------------------------- MODULE ManualRunsProofs --------------------------
(***************************************************************************)
(* Lemmas about ManualRuns, for any number of requests, connectors and     *)
(* runs: what a task knows of its run is what run_state says of it.        *)
(***************************************************************************)
EXTENDS ManualRuns, TLAPS

\* The run of a task is nobody else's, and stands where the task stands.
OwnRun ==
    \A m \in Tickets :
        /\ task[m] \in {"new", "refused", "queued", "begun"} => launched[m] = NoRun
        /\ launched[m] # NoRun =>
             /\ runRow[launched[m]].status # "NONE"
             /\ runRow[launched[m]].connector = ticket[m].connector
             /\ launched[m] \notin pods
             /\ \A k \in Tickets \ {m} : launched[k] # launched[m]

RunFollowsTask ==
    \A m \in Tickets :
        /\ task[m] = "running" =>
             launched[m] # NoRun /\ runRow[launched[m]].status = "RUNNING"
        /\ task[m] = "returned" =>
             launched[m] # NoRun /\ runRow[launched[m]].status = "SUCCESS"
        /\ task[m] = "raised" /\ launched[m] # NoRun =>
             runRow[launched[m]].status # "SUCCESS"

\* A request has an outcome when its task has ended, and names no other run.
OutcomeIsLast ==
    \A m \in Tickets :
        /\ ticket[m].status \in {"SUCCESS", "FAILED"} => task[m] = "ended"
        /\ task[m] \notin {"new", "refused"} => ticket[m].connector \in Connectors
        /\ ticket[m].run \in {NoRun, launched[m]}
        /\ ticket[m].status = "SUCCESS" =>
             /\ launched[m] # NoRun /\ ticket[m].run = launched[m]
             /\ runRow[launched[m]].status = "SUCCESS"
        /\ ticket[m].status = "FAILED" =>
             launched[m] = NoRun \/ runRow[launched[m]].status # "SUCCESS"

PodsRun == \A r \in pods : runRow[r].status = "RUNNING"

ManualInv == ManualTypeOK /\ OwnRun /\ RunFollowsTask /\ OutcomeIsLast /\ PodsRun

LEMMA ManualInitInv == ManualInit => ManualInv
  BY ManualAssumption
  DEF ManualInit, ManualInv, ManualTypeOK, OwnRun, RunFollowsTask, OutcomeIsLast, PodsRun, NoRow

\* What the two writes of a run's row change.
LEMMA InsertRowIs ==
  ASSUME ManualTypeOK, NEW r \in Runs, NEW c \in Connectors, InsertRow(r, c)
  PROVE  /\ runRow' \in [Runs -> [connector : Connectors \cup {NoConnector},
                                  status : {"NONE", "RUNNING", "SUCCESS", "FAILED"},
                                  started : Nat, finished : Nat]]
         /\ clock' \in Nat /\ runRow[r].status = "NONE"
         /\ runRow'[r].status = "RUNNING" /\ runRow'[r].connector = c
         /\ \A s \in Runs \ {r} : runRow'[s] = runRow[s]
  BY DEF InsertRow, ManualTypeOK

LEMMA EndRowIs ==
  ASSUME ManualTypeOK, NEW r \in Runs, NEW status \in {"SUCCESS", "FAILED"}, EndRow(r, status)
  PROVE  /\ runRow' \in [Runs -> [connector : Connectors \cup {NoConnector},
                                  status : {"NONE", "RUNNING", "SUCCESS", "FAILED"},
                                  started : Nat, finished : Nat]]
         /\ clock' \in Nat
         /\ runRow'[r].status = status /\ runRow'[r].connector = runRow[r].connector
         /\ \A s \in Runs \ {r} : runRow'[s] = runRow[s]
<1>1. runRow[r] \in [connector : Connectors \cup {NoConnector},
                     status : {"NONE", "RUNNING", "SUCCESS", "FAILED"},
                     started : Nat, finished : Nat]
    BY DEF ManualTypeOK
<1>2. runRow' = [runRow EXCEPT ![r] = [[runRow[r] EXCEPT !.status = status] EXCEPT !.finished = clock]]
    BY DEF EndRow, ManualTypeOK
<1>3. QED
    BY <1>1, <1>2 DEF EndRow, ManualTypeOK

LEMMA ManualStep ==
  ASSUME ManualInv, ManualNext
  PROVE  ManualInv'
<1>a. ManualTypeOK /\ NoRun \notin Runs
    BY ManualAssumption DEF ManualInv
<1>1. ASSUME NEW m \in Tickets, NEW c \in Connectors, RunNow(m, c) PROVE ManualInv'
  <2>1. /\ task[m] = "new" /\ task' = [task EXCEPT ![m] = "queued"]
        /\ ticket' = [ticket EXCEPT ![m] =
                        [connector |-> c, status |-> "QUEUED", run |-> NoRun]]
        /\ UNCHANGED <<clock, runRow, launched, pods>>
      BY <1>1 DEF RunNow, Becomes
  <2>2. ManualTypeOK'
      BY <1>a, <2>1 DEF ManualTypeOK, Working
  <2>3. OwnRun' /\ RunFollowsTask' /\ OutcomeIsLast' /\ PodsRun'
      BY <1>a, <2>1 DEF ManualInv, ManualTypeOK, OwnRun, RunFollowsTask, OutcomeIsLast, PodsRun
  <2>4. QED
      BY <2>2, <2>3 DEF ManualInv
<1>2. ASSUME NEW m \in Tickets, NEW s \in {"refused", "raised", "lost"},
             task' = [task EXCEPT ![m] = s], UNCHANGED <<clock, runRow, ticket, launched, pods>>,
             \/ s = "refused" /\ task[m] = "new"
             \/ s = "raised" /\ task[m] \in {"begun", "running"}
             \/ s = "lost" /\ task[m] \in {"queued", "returned", "raised"}
      PROVE  ManualInv'
  <2>1. ManualTypeOK'
      BY <1>a, <1>2 DEF ManualTypeOK, Working
  <2>2. OwnRun' /\ RunFollowsTask' /\ OutcomeIsLast' /\ PodsRun'
      BY <1>a, <1>2 DEF ManualInv, ManualTypeOK, OwnRun, RunFollowsTask, OutcomeIsLast, PodsRun
  <2>3. QED
      BY <2>1, <2>2 DEF ManualInv
<1>3. ASSUME NEW m \in Tickets, BeginTask(m) PROVE ManualInv'
  <2>1. /\ task[m] = "queued" /\ task' = [task EXCEPT ![m] = "begun"]
        /\ UNCHANGED <<clock, runRow, launched, pods>>
        /\ \A k \in Tickets \ {m} : ticket'[k] = ticket[k]
        /\ ticket'[m].connector = ticket[m].connector /\ ticket'[m].run = ticket[m].run
        /\ ticket'[m].status = "RUNNING"
      BY <1>a, <1>3 DEF BeginTask, Becomes, ManualTypeOK
  <2>2. ManualTypeOK'
      BY <1>a, <1>3, <2>1 DEF BeginTask, ManualTypeOK, Working
  <2>3. OwnRun' /\ RunFollowsTask' /\ OutcomeIsLast' /\ PodsRun'
      BY <1>a, <2>1 DEF ManualInv, ManualTypeOK, OwnRun, RunFollowsTask, OutcomeIsLast, PodsRun
  <2>4. QED
      BY <2>2, <2>3 DEF ManualInv
<1>4. ASSUME NEW m \in Tickets, NEW r \in Runs, LaunchRun(m, r) PROVE ManualInv'
  <2>1. /\ task[m] = "begun" /\ task' = [task EXCEPT ![m] = "running"]
        /\ launched' = [launched EXCEPT ![m] = r]
        /\ ticket[m].connector \in Connectors /\ InsertRow(r, ticket[m].connector)
        /\ UNCHANGED <<ticket, pods>>
      BY <1>a, <1>4 DEF LaunchRun, Becomes, ManualInv, OutcomeIsLast
  <2>2. ManualTypeOK'
      BY <1>a, <2>1, InsertRowIs DEF ManualTypeOK, Working
  <2>3. \A k \in Tickets : launched[k] # NoRun =>
           launched[k] # r /\ runRow'[launched[k]] = runRow[launched[k]]
      BY <1>a, <2>1, InsertRowIs DEF ManualInv, ManualTypeOK, OwnRun
  <2>a. r \notin pods /\ r # NoRun
      BY <1>a, <2>1, InsertRowIs DEF ManualInv, ManualTypeOK, PodsRun
  <2>b. launched[m] = NoRun /\ launched'[m] = r /\ task'[m] = "running"
      BY <1>a, <2>1 DEF ManualInv, ManualTypeOK, OwnRun
  <2>c. \A k \in Tickets \ {m} : launched'[k] = launched[k] /\ task'[k] = task[k]
      BY <1>a, <2>1 DEF ManualTypeOK
  <2>d. runRow'[r].status = "RUNNING" /\ runRow'[r].connector = ticket[m].connector
      BY <1>a, <2>1, InsertRowIs
  <2>e. \A k \in Tickets : launched[k] # r
      BY <2>3, <2>a
  <2>5. OwnRun'
    <3> SUFFICES ASSUME NEW k \in Tickets
                 PROVE  /\ task'[k] \in {"new", "refused", "queued", "begun"}
                              => launched'[k] = NoRun
                        /\ launched'[k] # NoRun =>
                             /\ runRow'[launched'[k]].status # "NONE"
                             /\ runRow'[launched'[k]].connector = ticket[k].connector
                             /\ launched'[k] \notin pods
                             /\ \A l \in Tickets \ {k} : launched'[l] # launched'[k]
        BY <2>1 DEF OwnRun
    <3>1. CASE k = m
      <4>1. \A l \in Tickets \ {m} : launched'[l] # launched'[m]
          BY <2>b, <2>c, <2>e
      <4>2. QED
          BY <2>a, <2>b, <2>d, <3>1, <4>1
    <3>2. CASE k # m
      <4>1. launched'[k] = launched[k] /\ task'[k] = task[k]
          BY <2>c, <3>2
      <4>2. launched[k] # NoRun => \A l \in Tickets \ {k} : launched'[l] # launched[k]
          BY <2>b, <2>c, <2>e, <3>2 DEF ManualInv, OwnRun
      <4>3. QED
          BY <2>3, <4>1, <4>2 DEF ManualInv, OwnRun
    <3>3. QED
        BY <3>1, <3>2
  <2>6. RunFollowsTask' /\ OutcomeIsLast'
    <3>1. ticket[m].status \notin {"SUCCESS", "FAILED"} /\ ticket[m].run = NoRun
        BY <2>1, <2>b DEF ManualInv, OutcomeIsLast
    <3>2. ASSUME NEW k \in Tickets \ {m}
          PROVE  /\ launched'[k] = launched[k] /\ task'[k] = task[k]
                 /\ launched[k] # NoRun => runRow'[launched[k]] = runRow[launched[k]]
        BY <2>3, <2>c, <3>2
    <3>3. RunFollowsTask'
      <4> SUFFICES ASSUME NEW k \in Tickets
                   PROVE  /\ task'[k] = "running" =>
                               launched'[k] # NoRun /\ runRow'[launched'[k]].status = "RUNNING"
                          /\ task'[k] = "returned" =>
                               launched'[k] # NoRun /\ runRow'[launched'[k]].status = "SUCCESS"
                          /\ task'[k] = "raised" /\ launched'[k] # NoRun =>
                               runRow'[launched'[k]].status # "SUCCESS"
          BY DEF RunFollowsTask
      <4>1. CASE k = m
          BY <2>a, <2>b, <2>d, <4>1
      <4>2. CASE k # m
          BY <3>2, <4>2 DEF ManualInv, RunFollowsTask
      <4>3. QED
          BY <4>1, <4>2
    <3>4. OutcomeIsLast'
      <4> SUFFICES ASSUME NEW k \in Tickets
                   PROVE  /\ ticket[k].status \in {"SUCCESS", "FAILED"} => task'[k] = "ended"
                          /\ task'[k] \notin {"new", "refused"} => ticket[k].connector \in Connectors
                          /\ ticket[k].run \in {NoRun, launched'[k]}
                          /\ ticket[k].status = "SUCCESS" =>
                               /\ launched'[k] # NoRun /\ ticket[k].run = launched'[k]
                               /\ runRow'[launched'[k]].status = "SUCCESS"
                          /\ ticket[k].status = "FAILED" =>
                               launched'[k] = NoRun \/ runRow'[launched'[k]].status # "SUCCESS"
          BY <2>1 DEF OutcomeIsLast
      <4>1. CASE k = m
          BY <2>1, <3>1, <4>1
      <4>2. CASE k # m
          BY <3>2, <4>2 DEF ManualInv, OutcomeIsLast
      <4>3. QED
          BY <4>1, <4>2
    <3>5. QED
        BY <3>3, <3>4
  <2>7. PodsRun'
      BY <1>a, <2>1, <2>a, InsertRowIs DEF ManualInv, ManualTypeOK, PodsRun
  <2>8. QED
      BY <2>2, <2>5, <2>6, <2>7 DEF ManualInv
<1>5. ASSUME NEW m \in Tickets, NEW status \in {"SUCCESS", "FAILED"},
             task[m] = "running", EndRow(launched[m], status),
             task' = [task EXCEPT ![m] = IF status = "SUCCESS" THEN "returned" ELSE "raised"],
             UNCHANGED <<ticket, launched, pods>>
      PROVE  ManualInv'
  <2>1. launched[m] \in Runs
      BY <1>a, <1>5 DEF ManualInv, ManualTypeOK, RunFollowsTask
  <2>2. ManualTypeOK'
      BY <1>a, <1>5, <2>1, EndRowIs DEF ManualTypeOK, Working
  <2>3. OwnRun' /\ RunFollowsTask' /\ OutcomeIsLast' /\ PodsRun'
      BY <1>a, <1>5, <2>1, EndRowIs DEF ManualInv, ManualTypeOK, OwnRun, RunFollowsTask, OutcomeIsLast, PodsRun
  <2>4. QED
      BY <2>2, <2>3 DEF ManualInv
<1>6. ASSUME NEW m \in Tickets, RecordOutcome(m) PROVE ManualInv'
  <2>1. /\ task[m] \in {"returned", "raised"} /\ task' = [task EXCEPT ![m] = "ended"]
        /\ ticket' = [ticket EXCEPT ![m] = Outcome(m)]
        /\ UNCHANGED <<clock, runRow, launched, pods>>
      BY <1>6 DEF RecordOutcome, Becomes
  <2>a. ticket[m] \in [connector : Connectors \cup {NoConnector},
                      status : {"NONE", "QUEUED", "RUNNING", "SUCCESS", "FAILED"},
                      run : Runs \cup {NoRun}]
      BY <1>a DEF ManualTypeOK
  <2>b. /\ Outcome(m).connector = ticket[m].connector
        /\ task[m] = "returned" =>
             Outcome(m).status = "SUCCESS" /\ Outcome(m).run = launched[m]
        /\ task[m] = "raised" =>
             Outcome(m).status = "FAILED" /\ Outcome(m).run = ticket[m].run
        /\ Outcome(m) \in [connector : Connectors \cup {NoConnector},
                           status : {"NONE", "QUEUED", "RUNNING", "SUCCESS", "FAILED"},
                           run : Runs \cup {NoRun}]
      BY <1>a, <2>1, <2>a DEF Outcome, ManualTypeOK
  <2>2. ManualTypeOK'
      BY <1>a, <2>1, <2>b DEF ManualTypeOK, Working
  <2>3. OwnRun' /\ RunFollowsTask' /\ OutcomeIsLast' /\ PodsRun'
      BY <1>a, <2>1, <2>b DEF ManualInv, ManualTypeOK, OwnRun, RunFollowsTask, OutcomeIsLast, PodsRun
  <2>4. QED
      BY <2>2, <2>3 DEF ManualInv
<1>7. ASSUME NEW r \in Runs, NEW c \in Connectors, CronStarts(r, c) PROVE ManualInv'
  <2>1. InsertRow(r, c) /\ pods' = pods \cup {r} /\ UNCHANGED <<ticket, task, launched>>
      BY <1>7 DEF CronStarts
  <2>2. ManualTypeOK'
      BY <1>a, <2>1, InsertRowIs DEF ManualTypeOK
  <2>3. \A k \in Tickets : launched[k] # NoRun => launched[k] # r /\ runRow'[launched[k]] = runRow[launched[k]]
      BY <1>a, <2>1, InsertRowIs DEF ManualInv, ManualTypeOK, OwnRun, PodsRun
  <2>4. \A s \in pods' : s = r \/ (s \in pods /\ runRow'[s] = runRow[s])
      BY <1>a, <2>1, InsertRowIs DEF ManualInv, ManualTypeOK
  <2>5. OwnRun' /\ RunFollowsTask'
      BY <1>a, <2>1, <2>3 DEF ManualInv, ManualTypeOK, OwnRun, RunFollowsTask
  <2>6. OutcomeIsLast'
      BY <1>a, <2>1, <2>3 DEF ManualInv, ManualTypeOK, OutcomeIsLast
  <2>7. PodsRun'
      BY <2>1, <2>4, InsertRowIs DEF ManualInv, ManualTypeOK, PodsRun
  <2>8. QED
      BY <2>2, <2>5, <2>6, <2>7 DEF ManualInv
<1>8. ASSUME NEW r \in Runs, NEW status \in {"SUCCESS", "FAILED"}, CronEnds(r, status)
      PROVE  ManualInv'
  <2>1. /\ r \in pods /\ EndRow(r, status) /\ pods' = pods \ {r}
        /\ UNCHANGED <<ticket, task, launched>>
      BY <1>8 DEF CronEnds
  <2>2. ManualTypeOK'
      BY <1>a, <2>1, EndRowIs DEF ManualTypeOK
  <2>3. \A k \in Tickets : launched[k] # NoRun => launched[k] # r /\ runRow'[launched[k]] = runRow[launched[k]]
      BY <1>a, <2>1, EndRowIs DEF ManualInv, ManualTypeOK, OwnRun, PodsRun
  <2>4. \A s \in pods' : s = r \/ (s \in pods /\ runRow'[s] = runRow[s])
      BY <1>a, <2>1, EndRowIs DEF ManualInv, ManualTypeOK
  <2>5. OwnRun' /\ RunFollowsTask'
      BY <1>a, <2>1, <2>3 DEF ManualInv, ManualTypeOK, OwnRun, RunFollowsTask
  <2>6. OutcomeIsLast'
      BY <1>a, <2>1, <2>3 DEF ManualInv, ManualTypeOK, OutcomeIsLast
  <2>7. PodsRun'
      BY <2>1, <2>4, EndRowIs DEF ManualInv, ManualTypeOK, PodsRun
  <2>8. QED
      BY <2>2, <2>5, <2>6, <2>7 DEF ManualInv
<1>9. ASSUME NEW r \in Runs, CronDies(r) PROVE ManualInv'
    BY <1>9 DEF CronDies, ManualInv, ManualTypeOK, OwnRun, RunFollowsTask, OutcomeIsLast, PodsRun
<1>10. ASSUME NEW m \in Tickets, TaskStep(m) PROVE ManualInv'
    BY <1>2, <1>3, <1>4, <1>5, <1>6, <1>10
    DEF TaskStep, BeginFails, LaunchFails, RunReturns, RunRaises, RunRaisesTwice, LoseOutcome, Becomes
<1>11. ASSUME NEW m \in Tickets, NEW c \in Connectors, RefuseRunNow(m, c) PROVE ManualInv'
    BY <1>2, <1>11 DEF RefuseRunNow, Becomes
<1>12. QED
    BY <1>1, <1>7, <1>8, <1>9, <1>10, <1>11 DEF ManualNext

LEMMA KillStep ==
  ASSUME ManualInv, KillTasks, UNCHANGED <<clock, runRow, ticket, launched, pods>>
  PROVE  ManualInv'
  BY DEF KillTasks, Working, ManualInv, ManualTypeOK, OwnRun, RunFollowsTask, OutcomeIsLast,
     PodsRun

LEMMA ManualUnchanged == ManualInv /\ UNCHANGED manualVars => ManualInv'
  BY DEF manualVars, ManualInv, ManualTypeOK, OwnRun, RunFollowsTask, OutcomeIsLast, PodsRun

LEMMA OutcomesAreTrue == ManualInv => RequestMatchesRun
  BY DEF ManualInv, ManualTypeOK, OwnRun, OutcomeIsLast, RequestMatchesRun
=============================================================================
