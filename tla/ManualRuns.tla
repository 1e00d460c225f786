----------------------------- MODULE ManualRuns -----------------------------
(***************************************************************************)
(* Studio's run-now: requests in table manual_run_requests, the background *)
(* task of the API process that carries each out, and the rows of          *)
(* run_state that these runs and those of the CronJobs leave.              *)
(*                                                                         *)
(* A task marks its request RUNNING, looks the connector up in the working *)
(* tree again, calls run_connector and records the outcome.  Nothing else  *)
(* ever looks at a request: a task that dies with its process, or on the   *)
(* database outside its try, leaves it as it is.  PullPipeline and         *)
(* PushProcessing say what a run does; here it starts and ends.            *)
(***************************************************************************)
EXTENDS Studio

CONSTANTS
    Tickets,      \* run-now requests
    Runs,         \* run ids
    NoRun,        \* no run
    NoConnector   \* no connector

ASSUME ManualAssumption == NoRun \notin Runs /\ NoConnector \notin Connectors

VARIABLES
    clock,     \* time: it advances when a run starts or ends
    runRow,    \* table run_state
    ticket,    \* table manual_run_requests
    task,      \* where the call of run-now, then its background task, is
    launched,  \* observation: the run the task of a request started
    pods       \* runs executing in a pod of a CronJob

manualVars == <<clock, runRow, ticket, task, launched, pods>>

NoRow   == [connector |-> NoConnector, status |-> "NONE", started |-> 0, finished |-> 0]
Working == {"queued", "begun", "running", "returned", "raised"}

ManualTypeOK ==
    /\ clock \in Nat
    /\ runRow \in [Runs -> [connector : Connectors \cup {NoConnector},
                            status : {"NONE", "RUNNING", "SUCCESS", "FAILED"},
                            started : Nat, finished : Nat]]
    /\ ticket \in [Tickets -> [connector : Connectors \cup {NoConnector},
                               status : {"NONE", "QUEUED", "RUNNING", "SUCCESS", "FAILED"},
                               run : Runs \cup {NoRun}]]
    /\ task \in [Tickets -> Working \cup {"new", "refused", "ended", "lost", "killed"}]
    /\ launched \in [Tickets -> Runs \cup {NoRun}]
    /\ pods \in SUBSET Runs

ManualInit ==
    /\ clock = 1
    /\ runRow = [r \in Runs |-> NoRow]
    /\ ticket = [m \in Tickets |-> [connector |-> NoConnector, status |-> "NONE", run |-> NoRun]]
    /\ task = [m \in Tickets |-> "new"]
    /\ launched = [m \in Tickets |-> NoRun]
    /\ pods = {}

Becomes(m, s) == task' = [task EXCEPT ![m] = s]

\* _start_run: a fresh id, status RUNNING.
InsertRow(r, c) ==
    /\ runRow[r].status = "NONE"
    /\ runRow' = [runRow EXCEPT ![r] =
                    [connector |-> c, status |-> "RUNNING", started |-> clock, finished |-> 0]]
    /\ clock' = clock + 1

\* Mutant: any end of a run is one and the same.
EndRowEnded(r, status) ==
    /\ runRow' = [runRow EXCEPT ![r].status = "ENDED", ![r].finished = clock]
    /\ clock' = clock + 1

\* _set_run_success or _set_run_failure.
EndRow(r, status) ==
    /\ runRow' = [runRow EXCEPT ![r].status = status, ![r].finished = clock]
    /\ clock' = clock + 1

Runnable(c) == tree.files[c] # Absent /\ Valid(tree.files[c])

-----------------------------------------------------------------------------
\* POST run-now: the connector is in the tree, the request is queued and, after
\* the answer 202, its task begins.
RunNow(m, c) ==
    /\ task[m] = "new"
    /\ tree.files[c] # Absent
    /\ ticket' = [ticket EXCEPT ![m] = [connector |-> c, status |-> "QUEUED", run |-> NoRun]]
    /\ Becomes(m, "queued")
    /\ UNCHANGED <<treeVars, clock, runRow, launched, pods>>

\* 404.
RefuseRunNow(m, c) ==
    /\ task[m] = "new"
    /\ tree.files[c] = Absent
    /\ Becomes(m, "refused")
    /\ UNCHANGED <<treeVars, clock, runRow, ticket, launched, pods>>

BeginTask(m) ==
    /\ task[m] = "queued"
    /\ ticket' = [ticket EXCEPT ![m].status = "RUNNING"]
    /\ Becomes(m, "begun")
    /\ UNCHANGED <<treeVars, clock, runRow, launched, pods>>

\* The database fails once the request is committed: the answer reads the row again
\* before the task is added, and the task's first read and commit are in no try.
BeginFails(m) ==
    /\ task[m] = "queued"
    /\ Becomes(m, "lost")
    /\ UNCHANGED <<treeVars, clock, runRow, ticket, launched, pods>>

\* run_connector loads the file as it is now and inserts its row.
LaunchRun(m, r) ==
    /\ task[m] = "begun"
    /\ Runnable(ticket[m].connector)
    /\ InsertRow(r, ticket[m].connector)
    /\ launched' = [launched EXCEPT ![m] = r]
    /\ Becomes(m, "running")
    /\ UNCHANGED <<treeVars, ticket, pods>>

\* The file is gone, its contents are refused, or the database fails: no row.
LaunchFails(m) ==
    /\ task[m] = "begun"
    /\ Becomes(m, "raised")
    /\ UNCHANGED <<treeVars, clock, runRow, ticket, launched, pods>>

RunReturns(m) ==
    /\ task[m] = "running"
    /\ EndRow(launched[m], "SUCCESS")
    /\ Becomes(m, "returned")
    /\ UNCHANGED <<treeVars, ticket, launched, pods>>

RunRaises(m) ==
    /\ task[m] = "running"
    /\ EndRow(launched[m], "FAILED")
    /\ Becomes(m, "raised")
    /\ UNCHANGED <<treeVars, ticket, launched, pods>>

\* _set_run_failure raises too: the row stays RUNNING.
RunRaisesTwice(m) ==
    /\ task[m] = "running"
    /\ Becomes(m, "raised")
    /\ UNCHANGED <<treeVars, clock, runRow, ticket, launched, pods>>

\* Mutant: the status is set before run_connector returns.
OutcomeOptimistic(m) ==
    IF task[m] \in {"returned", "raised"}
    THEN [ticket[m] EXCEPT !.status = "SUCCESS", !.run = launched[m]] ELSE ticket[m]

\* Mutant: an exception leaves the request as it is.
OutcomeUnrecorded(m) ==
    IF task[m] = "returned" THEN [ticket[m] EXCEPT !.status = "SUCCESS", !.run = launched[m]]
                            ELSE ticket[m]

Outcome(m) ==
    IF task[m] = "returned" THEN [ticket[m] EXCEPT !.status = "SUCCESS", !.run = launched[m]]
                            ELSE [ticket[m] EXCEPT !.status = "FAILED"]

\* The commit in the finally clause.
RecordOutcome(m) ==
    /\ task[m] \in {"returned", "raised"}
    /\ ticket' = [ticket EXCEPT ![m] = Outcome(m)]
    /\ Becomes(m, "ended")
    /\ UNCHANGED <<treeVars, clock, runRow, launched, pods>>

\* That commit raises.
LoseOutcome(m) ==
    /\ task[m] \in {"returned", "raised"}
    /\ Becomes(m, "lost")
    /\ UNCHANGED <<treeVars, clock, runRow, ticket, launched, pods>>

-----------------------------------------------------------------------------
(* CronJobs: enabled jobs, concurrencyPolicy Forbid.                       *)
CronStarts(r, c) ==
    /\ tree.jobs[c] = "enabled"
    /\ Runnable(c)
    /\ \A s \in pods : runRow[s].connector # c
    /\ InsertRow(r, c)
    /\ pods' = pods \cup {r}
    /\ UNCHANGED <<treeVars, ticket, task, launched>>

CronEnds(r, status) ==
    /\ r \in pods
    /\ EndRow(r, status)
    /\ pods' = pods \ {r}
    /\ UNCHANGED <<treeVars, ticket, task, launched>>

\* The pod dies: its row stays RUNNING.
CronDies(r) ==
    /\ r \in pods
    /\ pods' = pods \ {r}
    /\ UNCHANGED <<treeVars, clock, runRow, ticket, task, launched>>

\* The API process ends, with its background tasks.
KillTasks ==
    task' = [m \in Tickets |-> IF task[m] \in Working THEN "killed" ELSE task[m]]

TaskStep(m) ==
    \/ BeginTask(m) \/ BeginFails(m) \/ LaunchFails(m) \/ RunReturns(m) \/ RunRaises(m)
    \/ RunRaisesTwice(m) \/ RecordOutcome(m) \/ LoseOutcome(m)
    \/ \E r \in Runs : LaunchRun(m, r)

ManualNext ==
    \/ \E m \in Tickets : \/ \E c \in Connectors : RunNow(m, c) \/ RefuseRunNow(m, c)
                          \/ TaskStep(m)
    \/ \E r \in Runs : \/ \E c \in Connectors : CronStarts(r, c)
                       \/ \E status \in {"SUCCESS", "FAILED"} : CronEnds(r, status)
                       \/ CronDies(r)

-----------------------------------------------------------------------------
(* Properties.                                                             *)

\* What a request says of its run is what run_state says, whatever fails on the way
\* and however connectors come and go: SUCCESS names the one run the request
\* started, of its own connector, and that run succeeded; a FAILED request's run
\* did not.
RequestMatchesRun ==
    \A m \in Tickets :
        /\ ticket[m].status = "SUCCESS" =>
             /\ ticket[m].run = launched[m] /\ launched[m] # NoRun
             /\ runRow[launched[m]].status = "SUCCESS"
             /\ runRow[launched[m]].connector = ticket[m].connector
             /\ \A k \in Tickets \ {m} : ticket[k].run # ticket[m].run
        /\ ticket[m].status = "FAILED" =>
             launched[m] = NoRun \/ runRow[launched[m]].status # "SUCCESS"

\* A queued request ends as SUCCESS or FAILED, whatever the run does and however its
\* connector changes, unless the API process ends first or the database fails at one
\* of the two ends of the task that no except clause covers: before the request is
\* marked RUNNING, or at the commit of the outcome.
RequestEnds ==
    \A m \in Tickets : ticket[m].status = "QUEUED" ~>
        (ticket[m].status \in {"SUCCESS", "FAILED"} \/ task[m] \in {"killed", "lost"})
=============================================================================
