------------------------- MODULE ControlPlaneProofs -------------------------
(***************************************************************************)
(* Theorems about the API process, for any number of users, requests,      *)
(* runs and connectors, and any page size.                                 *)
(*                                                                         *)
(* Each part of the state has an invariant of its own; a step of one part  *)
(* leaves the variables of the others alone, and a restart only ends what  *)
(* is in flight.  The dashboard's invariant leans on that of the runs: a   *)
(* run that succeeded keeps its row.                                       *)
(***************************************************************************)
EXTENDS ControlPlane, ManualRunsProofs, ProposalsProofs, FiniteSetTheorems

\* An answer starts empty, and a run counted as successful is and stays so.
AnswerInv ==
    /\ step \in {"idle", "slo", "window"} =>
         counted = NoRuns /\ pageRow = NoRuns /\ lastRow = NoLast
    /\ succeeded \subseteq Runs
    /\ step = "window" => \A r \in succeeded : runRow[r].status = "SUCCESS"
    /\ AnswerAgreesWithItself

LEMMA OpsInitInv == OpsInit => AnswerInv
  BY DEF OpsInit, AnswerInv, AnswerAgreesWithItself, NoRuns

\* The ends of a run touch rows that are RUNNING, its start a row that is not there.
LEMMA SuccessesStay ==
  ASSUME ManualInv, ManualNext, NEW s \in Runs, runRow[s].status = "SUCCESS"
  PROVE  runRow'[s].status = "SUCCESS"
<1>a. ManualTypeOK /\ NoRun \notin Runs
    BY ManualAssumption DEF ManualInv
<1>1. ASSUME NEW r \in Runs, NEW c \in Connectors, InsertRow(r, c)
      PROVE  runRow'[s].status = "SUCCESS"
    BY <1>a, <1>1, InsertRowIs
<1>2. ASSUME NEW r \in Runs, NEW status \in {"SUCCESS", "FAILED"}, EndRow(r, status),
             runRow[r].status = "RUNNING"
      PROVE  runRow'[s].status = "SUCCESS"
    BY <1>a, <1>2, EndRowIs
<1>3. ASSUME NEW m \in Tickets, NEW r \in Runs, LaunchRun(m, r)
      PROVE  runRow'[s].status = "SUCCESS"
    BY <1>1, <1>3 DEF LaunchRun, ManualInv, OutcomeIsLast
<1>4. ASSUME NEW m \in Tickets, NEW status \in {"SUCCESS", "FAILED"},
             task[m] = "running", EndRow(launched[m], status)
      PROVE  runRow'[s].status = "SUCCESS"
    BY <1>a, <1>2, <1>4 DEF ManualInv, ManualTypeOK, RunFollowsTask
<1>5. ASSUME NEW r \in Runs, NEW status \in {"SUCCESS", "FAILED"}, CronEnds(r, status)
      PROVE  runRow'[s].status = "SUCCESS"
    BY <1>a, <1>2, <1>5 DEF CronEnds, ManualInv, PodsRun
<1>6. ASSUME NEW r \in Runs, NEW c \in Connectors, CronStarts(r, c)
      PROVE  runRow'[s].status = "SUCCESS"
    BY <1>1, <1>6 DEF CronStarts
<1>7. ASSUME NEW m \in Tickets, TaskStep(m)
      PROVE  runRow'[s].status = "SUCCESS"
    BY <1>3, <1>4, <1>7
    DEF TaskStep, BeginTask, BeginFails, LaunchFails, RunReturns, RunRaises, RunRaisesTwice, RecordOutcome,
        LoseOutcome
<1>8. QED
    BY <1>5, <1>6, <1>7 DEF ManualNext, RunNow, RefuseRunNow, CronDies

\* The page and the last runs show what window_runs holds.
LEMMA OpsStep ==
  ASSUME AnswerInv, OpsNext
  PROVE  AnswerInv'
<1>1. ASSUME NEW q \in Queries, Ask(q) PROVE AnswerInv'
    BY <1>1 DEF Ask, AnswerInv, AnswerAgreesWithItself, answerVars, FirstStep
<1>2. CASE SelectSlo
    BY <1>2 DEF SelectSlo, AnswerInv, AnswerAgreesWithItself, NoRuns, manualVars, Stored
<1>3. CASE SelectWindow
    BY <1>3, ManualAssumption
    DEF SelectWindow, AnswerInv, AnswerAgreesWithItself, NoRuns, NoLast, manualVars
<1>4. CASE SelectCount
    BY <1>4 DEF SelectCount, AnswerInv, AnswerAgreesWithItself
<1>5. CASE SelectPage
  <2>1. /\ \A r \in Runs : pageRow'[r] \in {"NONE", Loaded(r)}
        /\ step' \in {"rows", "answer"} /\ UNCHANGED <<counted, succeeded, lastRow>>
      BY <1>5 DEF SelectPage
  <2>2. QED
      BY <2>1 DEF AnswerInv, AnswerAgreesWithItself, Loaded
<1>6. CASE SelectRows
  <2>1. /\ \A c \in Connectors : \/ lastRow'[c].run = NoRun
                                 \/ lastRow'[c].status = Loaded(lastRow'[c].run)
        /\ step' \in {"answer", "count", "cut"} /\ UNCHANGED <<counted, succeeded, pageRow>>
      BY <1>6 DEF SelectRows, ConnectorRows, NoLast
  <2>2. QED
      BY <2>1, ManualAssumption DEF AnswerInv, AnswerAgreesWithItself, Loaded
<1>7. CASE NextPage
    BY <1>7 DEF NextPage, AnswerInv, AnswerAgreesWithItself, NoRuns, FirstStep
<1>8. QED
    BY <1>1, <1>2, <1>3, <1>4, <1>5, <1>6, <1>7 DEF OpsNext

LEMMA AnswerKept ==
  ASSUME AnswerInv, UNCHANGED <<succeeded, counted, pageRow, lastRow>>,
         step' \in {step, "cut"},
         \A r \in Runs : runRow[r].status = "SUCCESS" => runRow'[r].status = "SUCCESS"
  PROVE  AnswerInv'
  BY DEF AnswerInv, AnswerAgreesWithItself, NoRuns, NoLast

LEMMA PlaneInvariant == Spec => [](ManualInv /\ AnswerInv)
<1>1. Init => ManualInv /\ AnswerInv
    BY ManualInitInv, OpsInitInv DEF Init
<1>2. ManualInv /\ AnswerInv /\ [Next]_vars => (ManualInv /\ AnswerInv)'
  <2> SUFFICES ASSUME ManualInv, AnswerInv, [Next]_vars PROVE ManualInv' /\ AnswerInv'
      OBVIOUS
  <2>1. CASE UNCHANGED manualVars /\ UNCHANGED opsVars
    <3>1. UNCHANGED <<step, runRow, succeeded, counted, pageRow, lastRow>>
        BY <2>1 DEF manualVars, opsVars, answerVars
    <3>2. QED
        BY <2>1, <3>1, ManualUnchanged, AnswerKept
  <2>2. CASE ManualNext /\ UNCHANGED opsVars
    <3>1. UNCHANGED <<step, succeeded, counted, pageRow, lastRow>>
        BY <2>2 DEF opsVars, answerVars
    <3>2. QED
        BY <2>2, <3>1, ManualStep, SuccessesStay, AnswerKept
  <2>3. CASE OpsNext
    <3>1. UNCHANGED manualVars
        BY <2>3 DEF OpsNext, Ask, SelectSlo, SelectWindow, SelectCount, SelectPage, SelectRows,
           NextPage
    <3>2. QED
        BY <2>3, <3>1, ManualUnchanged, OpsStep
  <2>4. CASE Restart
    <3>1. /\ KillTasks /\ UNCHANGED <<clock, runRow, ticket, launched, pods>>
          /\ step' \in {step, "cut"} /\ UNCHANGED <<succeeded, counted, pageRow, lastRow>>
        BY <2>4 DEF Restart, answerVars
    <3>2. QED
        BY <3>1, KillStep, AnswerKept
  <2>5. QED
      BY <2>1, <2>2, <2>3, <2>4 DEF Next, vars
<1>3. QED
    BY <1>1, <1>2, PTL DEF Spec

\* A request's outcome is its run's, in every interleaving of tasks, CronJobs, crashes
\* of the process and changes of the tree (api._process_manual_run_request).
THEOREM RequestMatchesRunCorrect == Spec => []RequestMatchesRun
  BY PlaneInvariant, OutcomesAreTrue, PTL

\* Whatever runs start and end between its SELECTs, a snapshot's summary, page and last
\* runs agree about every run its window query returned (ops.build_ops_snapshot).  The
\* connector's detail, and runs that start after that query, are not covered.
THEOREM AnswerAgreesCorrect == Spec => []AnswerAgreesWithItself
<1>1. AnswerInv => AnswerAgreesWithItself
    BY DEF AnswerInv
<1>2. QED
    BY <1>1, PlaneInvariant, PTL

-----------------------------------------------------------------------------
\* No step but a merge changes the base branch, and none but a proposal's its branch.
LEMMA OthersLeaveGitHub ==
  ASSUME ProposalInv, [Next]_vars
  PROVE  \/ ProposalNext
         \/ UNCHANGED proposalVars /\ tree' \in {tree, base} /\ base' = base
         \/ /\ KillCalls /\ tree' \in {tree, base}
            /\ UNCHANGED <<base, second, branch, history, request, builtOn, name>>
<1>1. CASE UNCHANGED vars
    BY <1>1 DEF vars, treeVars
<1>2. CASE ManualNext /\ UNCHANGED <<proposalVars, opsVars>>
  <2>1. UNCHANGED treeVars
      BY <1>2 DEF ManualNext, TaskStep, RunNow, RefuseRunNow, BeginTask, LaunchRun, LaunchFails,
         BeginFails, RunReturns, RunRaises, RunRaisesTwice, RecordOutcome, LoseOutcome,
         CronStarts, CronEnds, CronDies
  <2>2. QED
      BY <1>2, <2>1 DEF treeVars
<1>3. CASE OpsNext /\ UNCHANGED proposalVars
  <2>1. UNCHANGED treeVars
      BY <1>3 DEF OpsNext, Ask, SelectSlo, SelectWindow, SelectCount, SelectPage, SelectRows,
         NextPage
  <2>2. QED
      BY <1>3, <2>1 DEF treeVars
<1>4. CASE Refresh /\ UNCHANGED <<proposalVars, manualVars, opsVars>>
    BY <1>4 DEF Refresh
<1>5. CASE Restart
    BY <1>5 DEF Restart
<1>6. QED
    BY <1>1, <1>2, <1>3, <1>4, <1>5 DEF Next

LEMMA ProposalInvariant == Spec => []ProposalInv
<1>1. Init => ProposalInv
    BY ProposalInitInv DEF Init, StudioTypeOK
<1>2. ProposalInv /\ [Next]_vars => ProposalInv'
    BY OthersLeaveGitHub, ProposalStep, KillCallsStep, ProposalUnchanged
<1>3. QED
    BY <1>1, <1>2, PTL DEF Spec

\* Every pull request carries its proposal whole and nothing but it, whatever calls
\* share its branch, fail or die half-way (github_pr.create_pr_for_proposal).
THEOREM PullRequestCorrect == Spec => []PullRequestIsWhole
  BY ProposalInvariant, WholePulls, PTL

\* A merge reschedules another connector only from an outdated working tree
\* (studio.build_proposed_file_changes, github_pr.create_pr_for_proposal).
THEOREM RescheduleCorrect == Spec => OnlyStaleTreesReschedule
<1> DEFINE Justified ==
      \A n \in Names : branch[n].pull = "open" /\ branch'[n].pull = "merged" =>
         \A c \in Connectors \ {n.target} : base'.jobs[c] # base.jobs[c] =>
            \E u \in Sharing(n) : /\ builtOn[u].jobs[c] # branch[n].fork.jobs[c]
                                  /\ base'.jobs[c] = builtOn[u].jobs[c]
<1>1. ProposalInv /\ [Next]_vars => [Justified]_<<base, branch>>
  <2> SUFFICES ASSUME ProposalInv, [Next]_vars, ~UNCHANGED <<base, branch>> PROVE Justified
      OBVIOUS
  <2>1. ProposalNext
      BY OthersLeaveGitHub DEF proposalVars
  <2>2. QED
      BY <2>1, MergeReschedules
<1>2. QED
    BY <1>1, ProposalInvariant, PTL DEF Spec, OnlyStaleTreesReschedule

-----------------------------------------------------------------------------
(* One job for each connector file.                                        *)

\* What a request does to its own connector, by its action.
LEMMA TargetAfter ==
  ASSUME NEW q \in Requests, NEW t \in Trees, Applicable(q, t)
  PROVE  /\ q.action \in Writing =>
              /\ FilesAfter(q, t)[Target(q)] # Absent /\ JobsAfter(q, t)[Target(q)] # "none"
         /\ q.action = "delete" =>
              /\ FilesAfter(q, t)[Target(q)] = Absent /\ JobsAfter(q, t)[Target(q)] = "none"
              /\ "file" \in Changes(q, t)
         /\ q.action \in {"pause", "resume"} =>
              /\ FilesAfter(q, t) = t.files /\ t.jobs[Target(q)] # "none"
              /\ JobsAfter(q, t)[Target(q)] # "none" /\ "file" \notin Changes(q, t)
<1>0. /\ t.files \in [Connectors -> ConnectorSpec \cup {Absent}]
      /\ t.jobs \in [Connectors -> {"none", "enabled", "disabled"}]
      /\ q.connector \in Connectors /\ q.name \in Connectors
    BY TreesAre, RequestsAre DEF Jobs
<1>1. CASE q.action \in Writing
  <2>1. Drafted(q, t) # Absent
    <3>1. q.draft \in ConnectorSpec /\ Absent \notin ConnectorSpec
        BY RequestsAre, StudioAssumption
    <3>2. CASE q.action = "create"
        BY <3>1, <3>2 DEF Drafted
    <3>3. CASE q.action # "create"
      <4>1. t.files[q.connector] \in ConnectorSpec
          BY <1>0, <1>1, <3>3 DEF Applicable, Writing
      <4>2. Merged(t.files[q.connector], q.draft) \in ConnectorSpec
          BY <3>1, <4>1 DEF Merged, ConnectorSpec, Fields
      <4>3. Pruned(Merged(t.files[q.connector], q.draft)) \in ConnectorSpec
          BY <4>2 DEF Pruned, ConnectorSpec, Fields
      <4>4. QED
          BY <3>1, <3>3, <4>3 DEF Drafted
    <3>4. QED
        BY <3>2, <3>3
  <2>2. /\ FilesAfter(q, t) = [t.files EXCEPT ![q.name] = Drafted(q, t)]
        /\ JobsAfter(q, t) = [t.jobs EXCEPT ![q.name] = IF q.enabled THEN "enabled" ELSE "disabled"]
        /\ Target(q) = q.name /\ q.action \notin {"delete", "pause", "resume"}
      BY <1>1 DEF FilesAfter, JobsAfter, Target, Writing
  <2>3. QED
      BY <1>0, <2>1, <2>2
<1>2. CASE q.action = "delete"
  <2>1. /\ FilesAfter(q, t) = [t.files EXCEPT ![q.connector] = Absent]
        /\ JobsAfter(q, t) = [t.jobs EXCEPT ![q.connector] = "none"]
        /\ Target(q) = q.connector /\ q.action \notin Writing \cup {"pause", "resume"}
      BY <1>2 DEF FilesAfter, JobsAfter, Target, Writing
  <2>2. "file" \in Changes(q, t)
      BY <1>2 DEF Changes
  <2>3. QED
      BY <1>0, <2>1, <2>2
<1>3. CASE q.action \in {"pause", "resume"}
  <2>1. /\ FilesAfter(q, t) = t.files
        /\ JobsAfter(q, t) = [t.jobs EXCEPT ![q.connector] =
                                 IF q.action = "pause" THEN "disabled" ELSE "enabled"]
        /\ Target(q) = q.connector /\ q.action \notin Writing \cup {"delete"}
      BY <1>3 DEF FilesAfter, JobsAfter, Target, Writing
  <2>2. "file" \notin Changes(q, t)
      BY <2>1 DEF Changes
  <2>3. t.jobs[q.connector] # "none"
      BY <1>3 DEF Applicable
  <2>4. QED
      BY <1>0, <2>1, <2>2, <2>3
<1>4. QED
    BY <1>1, <1>2, <1>3, RequestsAre

\* A pull request computed from the head it was forked from leaves its connector with
\* a file and a job, or with neither.
LEMMA PullHeads ==
  ASSUME ProposalInv, NEW n \in Names, Pulled(n), ~Outdated(n),
         Matched(branch[n].fork, n.target)
  PROVE  (branch[n].head.files[n.target] = Absent) = (branch[n].head.jobs[n.target] = "none")
<1> DEFINE u == branch[n].by
<1> DEFINE t == branch[n].fork
<1>1. t \in Trees /\ n.target \in Connectors /\ u \in Sharing(n)
    BY BranchTypes, NamesAre DEF ProposalInv, SideTypeOK, NamedBranches, Sharing, Pulled
<1>2. \A v \in Sharing(n) :
        /\ request[v] \in Requests /\ builtOn[v] = t /\ Applicable(request[v], t)
        /\ Target(request[v]) = n.target /\ request[v].action = n.action
        /\ Proposed(v).files = FilesAfter(request[v], t)
        /\ Proposed(v).jobs = JobsAfter(request[v], t)
    BY NamesAre DEF ProposalInv, NamedCalls, Sharing, Outdated, Proposed
<1>3. ASSUME Holds(n, "file")
      PROVE  \E v \in Sharing(n) :
                /\ "file" \in Changes(request[v], t)
                /\ branch[n].head.files[n.target] = FilesAfter(request[v], t)[n.target]
    BY <1>2, <1>3 DEF Holds
<1>4. ASSUME Holds(n, "values")
      PROVE  \E v \in Sharing(n) :
                branch[n].head.jobs[n.target] = JobsAfter(request[v], t)[n.target]
    BY <1>2, <1>4 DEF Holds
<1>5. /\ branch[n].head.files = t.files \/ Holds(n, "file")
      /\ branch[n].head.jobs = t.jobs \/ Holds(n, "values")
    BY DEF ProposalInv, HeldOrForked
<1>6. ~Holds(n, "file") => FilesAfter(request[u], t) = t.files /\ "file" \notin Changes(request[u], t)
    BY <1>1, <1>2 DEF ProposalInv, SentIsHeld, Changes, Pulled
<1>7. ~Holds(n, "values") => JobsAfter(request[u], t) = t.jobs
    BY <1>1, <1>2 DEF ProposalInv, SentIsHeld, Changes, Pulled
<1>8. CASE n.action \in Writing
  <2>1. \A v \in Sharing(n) : /\ FilesAfter(request[v], t)[n.target] # Absent
                              /\ JobsAfter(request[v], t)[n.target] # "none"
      BY <1>1, <1>2, <1>8, TargetAfter
  <2>2. branch[n].head.files[n.target] # Absent
      BY <1>1, <1>3, <1>5, <1>6, <2>1
  <2>3. branch[n].head.jobs[n.target] # "none"
      BY <1>1, <1>4, <1>5, <1>7, <2>1
  <2>4. QED
      BY <2>2, <2>3
<1>9. CASE n.action = "delete"
  <2>1. \A v \in Sharing(n) : /\ FilesAfter(request[v], t)[n.target] = Absent
                              /\ JobsAfter(request[v], t)[n.target] = "none"
                              /\ "file" \in Changes(request[v], t)
      BY <1>1, <1>2, <1>9, TargetAfter
  <2>2. branch[n].head.files[n.target] = Absent
      BY <1>1, <1>3, <1>6, <2>1
  <2>3. branch[n].head.jobs[n.target] = "none"
      BY <1>1, <1>4, <1>5, <1>7, <2>1
  <2>4. QED
      BY <2>2, <2>3
<1>10. CASE n.action \in {"pause", "resume"}
  <2>1. \A v \in Sharing(n) : /\ t.jobs[n.target] # "none"
                              /\ JobsAfter(request[v], t)[n.target] # "none"
                              /\ "file" \notin Changes(request[v], t)
      BY <1>1, <1>2, <1>10, TargetAfter
  <2>2. branch[n].head.files = t.files
      BY <1>3, <1>5, <2>1
  <2>3. branch[n].head.jobs[n.target] # "none"
      BY <1>1, <1>4, <1>5, <2>1
  <2>4. t.files[n.target] # Absent
      BY <1>1, <2>1 DEF Matched
  <2>5. QED
      BY <2>2, <2>3, <2>4
<1>11. n.action \in Writing \cup {"delete", "pause", "resume"}
    BY <1>1, <1>2, RequestsAre
<1>12. QED
    BY <1>8, <1>9, <1>10, <1>11

\* Merging a pull request leaves another connector alone, and its own with a file and
\* a job, or with neither, if it was forked from such a state and meets one.
LEMMA MergeKeepsJobs ==
  ASSUME ProposalInv, NEW n \in Names, MergePull(n), ~Outdated(n), NEW c \in Connectors
  PROVE  /\ c # n.target => base'.files[c] = base.files[c] /\ base'.jobs[c] = base.jobs[c]
         /\ Matched(base, c) /\ Matched(branch[n].fork, c) => Matched(base', c)
<1> DEFINE b == branch[n]
<1>1. /\ b.pull = "open"
      /\ base'.files[c] = MergeOf(base.files[c], b.fork.files[c], b.head.files[c])
      /\ base'.jobs[c] = MergeOf(base.jobs[c], b.fork.jobs[c], b.head.jobs[c])
      /\ ~Clash(base.files[c], b.fork.files[c], b.head.files[c])
      /\ ~Clash(base.jobs[c], b.fork.jobs[c], b.head.jobs[c])
    BY DEF MergePull
<1>2. c # n.target => base'.files[c] = base.files[c] /\ base'.jobs[c] = base.jobs[c]
  <2> SUFFICES ASSUME c # n.target
               PROVE  base'.files[c] = base.files[c] /\ base'.jobs[c] = base.jobs[c]
      OBVIOUS
  <2>1. b.head.files[c] = b.fork.files[c]
      BY DEF ProposalInv, OwnPaths
  <2>2. b.head.jobs[c] = b.fork.jobs[c]
      BY DEF ProposalInv, OwnPaths, Outdated
  <2>3. QED
      BY <1>1, <2>1, <2>2 DEF MergeOf
<1>3. ASSUME Matched(base, c), Matched(b.fork, c), c = n.target PROVE Matched(base', c)
  <2>1. (b.head.files[c] = Absent) = (b.head.jobs[c] = "none")
      BY <1>1, <1>3, PullHeads DEF Pulled
  <2>2. QED
      BY <1>1, <1>3, <2>1 DEF MergeOf, Clash, Matched
<1>4. QED
    BY <1>2, <1>3 DEF Matched

\* Some pull request comes from a tree that was not the head it was forked from.
Late == \E n \in Names : Pulled(n) /\ Outdated(n)

\* Some pull request about c was forked when c had no job.
Forked(c) == \E n \in PullsOf(c) : Unscheduled(branch[n].fork, c)

\* c has its job, wherever something may be forked from.
Scheduled(c) ==
    /\ Matched(base, c)
    /\ \A u \in Users : Matched(forkSeen[u], c)
    /\ \A n \in Names : Matched(branch[n].fork, c)

\* c has no job, wherever something is forked from.
Waiting(c) ==
    /\ Unscheduled(base, c) /\ PullsOf(c) = {}
    /\ \A u \in Users : stage[u] = "branch" => Unscheduled(forkSeen[u], c)
    /\ \A n \in Names : branch[n].pull # "no_branch" => Unscheduled(branch[n].fork, c)

\* Until a late pull request, each connector is one or the other, or one was forked
\* when it had no job.
ScheduleInv == Late \/ \A c \in Connectors : Forked(c) \/ Scheduled(c) \/ Waiting(c)

LEMMA EmptyIsMatched == \A c \in Connectors : Matched(Empty, c)
  BY DEF Matched, Empty

\* What the fork points and the base branch may become.
LEMMA ForksFollow ==
  ASSUME ProposalInv, ProposalNext
  PROVE  /\ \A n \in Names : \/ branch'[n].fork = branch[n].fork
                            \/ /\ branch[n].pull = "no_branch"
                               /\ \E u \in Users : branch'[n].fork = forkSeen[u]
         /\ \A u \in Users : forkSeen'[u] \in {forkSeen[u], base, Empty}
         /\ base' = base \/ \E n \in Names : MergePull(n)
         /\ \A n \in Names : branch[n].pull \in {"open", "merged"} =>
              branch'[n].pull \in {"open", "merged"}
         /\ \A n \in Names : \A v \in Sharing(n) : name'[v] = n /\ builtOn'[v] = builtOn[v]
<1>a. /\ SideTypeOK
      /\ branch \in [Names -> [pull : {"no_branch", "none", "open", "merged"},
                             by : Users \cup {NoRequest}, fork : Trees, head : Trees]]
      /\ forkSeen \in [Users -> Trees] /\ name \in [Users -> Names \cup {NoName}]
      /\ builtOn \in [Users -> Trees]
    BY DEF ProposalInv, SideTypeOK, ProposalTypeOK
<1> DEFINE Forks == \A n \in Names : /\ branch'[n].fork = branch[n].fork
                                     /\ branch[n].pull \in {"open", "merged"} =>
                                          branch'[n].pull \in {"open", "merged"}
<1> DEFINE Seen == \A u \in Users : forkSeen'[u] \in {forkSeen[u], base, Empty}
<1> DEFINE Built == \A n \in Names : \A v \in Sharing(n) : name'[v] = n /\ builtOn'[v] = builtOn[v]
<1>0. UNCHANGED <<name, builtOn>> => Built
    BY DEF Sharing
<1>1. CASE NextSecond
    BY <1>0, <1>1 DEF NextSecond, treeVars, localVars
<1>2. ASSUME NEW u \in Users, NEW q \in Requests, Propose(u, q) PROVE Forks /\ Seen /\ Built /\ base' = base
  <2>1. stage[u] = "new" /\ UNCHANGED <<base, branch, forkSeen>>
      BY <1>2 DEF Propose, treeVars
  <2>2. name[u] = NoName
      BY <2>1 DEF ProposalInv, NamedCalls
  <2>3. \A n \in Names : u \notin Sharing(n)
      BY <2>2, NamesAre DEF Sharing
  <2>4. \A v \in Users \ {u} : name'[v] = name[v] /\ builtOn'[v] = builtOn[v]
      BY <1>a, <1>2 DEF Propose
  <2>5. QED
      BY <2>1, <2>3, <2>4 DEF Sharing
<1>3. ASSUME NEW u \in Users, NEW q \in Requests, Reject(u, q) PROVE Forks /\ Seen /\ Built /\ base' = base
    BY <1>0, <1>3 DEF Reject, treeVars, localVars
<1>4. ASSUME NEW u \in Users, ReadBase(u) PROVE Forks /\ Seen /\ Built /\ base' = base
  <2>1. UNCHANGED <<base, branch, name, builtOn>> /\ forkSeen' = [forkSeen EXCEPT ![u] = base]
      BY <1>4 DEF ReadBase, treeVars
  <2>2. QED
      BY <1>0, <1>a, <2>1
<1>5. ASSUME NEW u \in Users, CreateBranch(u)
      PROVE  /\ \A n \in Names : \/ branch'[n].fork = branch[n].fork
                                \/ /\ branch[n].pull = "no_branch"
                                   /\ branch'[n].fork = forkSeen[u]
             /\ \A n \in Names : branch[n].pull \in {"open", "merged"} =>
                  branch'[n].pull \in {"open", "merged"}
             /\ Seen /\ Built /\ base' = base
  <2>1. /\ UNCHANGED <<base, name, builtOn>> /\ forkSeen' = [forkSeen EXCEPT ![u] = Empty]
        /\ branch' = IF branch[name[u]].pull # "no_branch" THEN branch
                     ELSE [branch EXCEPT ![name[u]] =
                             [pull |-> "none", by |-> NoRequest,
                              fork |-> forkSeen[u], head |-> forkSeen[u]]]
      BY <1>5 DEF CreateBranch, treeVars
  <2>2. \A n \in Names :
          \/ branch'[n] = branch[n]
          \/ branch[n].pull = "no_branch" /\ branch'[n].fork = forkSeen[u]
      BY <1>a, <2>1
  <2>3. Seen
      BY <1>a, <2>1
  <2>4. QED
      BY <1>0, <2>1, <2>2, <2>3
<1>6. ASSUME NEW u \in Users, ReadSha(u) PROVE Forks /\ Seen /\ Built /\ base' = base
    BY <1>0, <1>6 DEF ReadSha, treeVars
<1>7. ASSUME NEW u \in Users, CommitFile(u) PROVE Forks /\ Seen /\ Built /\ base' = base
  <2>1. /\ UNCHANGED <<base, forkSeen, name, builtOn>>
        /\ branch' = [branch EXCEPT ![name[u]].head = Committed(u)]
      BY <1>7 DEF CommitFile, treeVars
  <2>2. \A n \in Names : branch'[n].fork = branch[n].fork /\ branch'[n].pull = branch[n].pull
      BY <1>a, <2>1
  <2>3. QED
      BY <1>0, <2>1, <2>2
<1>8. ASSUME NEW u \in Users, OpenPull(u) PROVE Forks /\ Seen /\ Built /\ base' = base
  <2>1. /\ UNCHANGED <<base, forkSeen, name, builtOn>>
        /\ branch' = [branch EXCEPT ![name[u]].pull = "open", ![name[u]].by = u]
      BY <1>8 DEF OpenPull, treeVars, localVars
  <2>2. \A n \in Names : /\ branch'[n].fork = branch[n].fork
                         /\ branch'[n].pull \in {branch[n].pull, "open"}
      BY <1>a, <2>1
  <2>3. QED
      BY <1>0, <2>1, <2>2
<1>9. ASSUME NEW u \in Users, RecordProposal(u) \/ FailProposal(u)
      PROVE  Forks /\ Seen /\ Built /\ base' = base
  <2>1. UNCHANGED <<base, branch, name, builtOn>> /\ forkSeen' = [forkSeen EXCEPT ![u] = Empty]
      BY <1>9 DEF RecordProposal, FailProposal, EndCall, treeVars
  <2>2. QED
      BY <1>0, <1>a, <2>1
<1>10. ASSUME NEW n \in Names, MergePull(n) PROVE Forks /\ Seen /\ Built
  <2>1. UNCHANGED <<forkSeen, name, builtOn>> /\ branch' = [branch EXCEPT ![n].pull = "merged"]
      BY <1>10 DEF MergePull, localVars
  <2>2. \A k \in Names : /\ branch'[k].fork = branch[k].fork
                         /\ branch'[k].pull \in {branch[k].pull, "merged"}
      BY <1>a, <2>1
  <2>3. QED
      BY <1>0, <2>1, <2>2
<1>11. QED
    BY <1>1, <1>2, <1>3, <1>4, <1>5, <1>6, <1>7, <1>8, <1>9, <1>10 DEF ProposalNext

\* A branch that is there was there, or is forked from what its call has read; a call
\* that is to create one has just read the base branch.
LEMMA BranchesFollow ==
  ASSUME ProposalInv, ProposalNext
  PROVE  /\ \A n \in Names : branch'[n].pull # "no_branch" =>
              \/ branch[n].pull # "no_branch" /\ branch'[n].fork = branch[n].fork
              \/ \E u \in Users : stage[u] = "branch" /\ branch'[n].fork = forkSeen[u]
         /\ \A n \in Names : branch'[n].pull \in {"open", "merged"} =>
              branch[n].pull # "no_branch" /\ branch'[n].fork = branch[n].fork
         /\ \A u \in Users : stage'[u] = "branch" =>
              \/ forkSeen'[u] = base
              \/ stage[u] = "branch" /\ forkSeen'[u] = forkSeen[u]
<1>a. /\ branch \in [Names -> [pull : {"no_branch", "none", "open", "merged"},
                             by : Users \cup {NoRequest}, fork : Trees, head : Trees]]
      /\ forkSeen \in [Users -> Trees] /\ name \in [Users -> Names \cup {NoName}]
      /\ stage \in [Users -> {"new", "done", "failed"} \cup InFlight]
    BY DEF ProposalInv, SideTypeOK, ProposalTypeOK
<1> DEFINE Forks == \A n \in Names : /\ branch'[n].fork = branch[n].fork
                                     /\ branch'[n].pull # "no_branch" => branch[n].pull # "no_branch"
<1> DEFINE Seen == \A u \in Users : stage'[u] = "branch" =>
                      \/ forkSeen'[u] = base
                      \/ stage[u] = "branch" /\ forkSeen'[u] = forkSeen[u]
<1>1. CASE NextSecond
    BY <1>1 DEF NextSecond, treeVars, localVars
<1>2. ASSUME NEW u \in Users, NEW q \in Requests, Propose(u, q) \/ Reject(u, q) PROVE Forks /\ Seen
    BY <1>a, <1>2 DEF Propose, Reject, GoTo, treeVars, localVars
<1>3. ASSUME NEW u \in Users, ReadBase(u) PROVE Forks /\ Seen
    BY <1>a, <1>3 DEF ReadBase, GoTo, treeVars
<1>4. ASSUME NEW u \in Users, CreateBranch(u)
      PROVE  /\ \A n \in Names : branch'[n].pull # "no_branch" =>
                  \/ branch[n].pull # "no_branch" /\ branch'[n].fork = branch[n].fork
                  \/ \E v \in Users : stage[v] = "branch" /\ branch'[n].fork = forkSeen[v]
             /\ \A n \in Names : branch'[n].pull \in {"open", "merged"} =>
                  branch[n].pull # "no_branch" /\ branch'[n].fork = branch[n].fork
             /\ Seen
  <2>1. /\ stage[u] = "branch" /\ stage' = [stage EXCEPT ![u] = "sha"]
        /\ forkSeen' = [forkSeen EXCEPT ![u] = Empty]
        /\ branch' = IF branch[name[u]].pull # "no_branch" THEN branch
                     ELSE [branch EXCEPT ![name[u]] =
                             [pull |-> "none", by |-> NoRequest,
                              fork |-> forkSeen[u], head |-> forkSeen[u]]]
      BY <1>4 DEF CreateBranch, GoTo, treeVars
  <2>2. \A n \in Names :
          \/ branch'[n] = branch[n]
          \/ /\ branch[n].pull = "no_branch" /\ branch'[n].pull = "none"
             /\ branch'[n].fork = forkSeen[u]
      BY <1>a, <2>1
  <2>3. Seen
      BY <1>a, <2>1
  <2>4. \A n \in Names : branch'[n].pull # "no_branch" =>
                  \/ branch[n].pull # "no_branch" /\ branch'[n].fork = branch[n].fork
                  \/ \E v \in Users : stage[v] = "branch" /\ branch'[n].fork = forkSeen[v]
      BY <2>1, <2>2
  <2>5. \A n \in Names : branch'[n].pull \in {"open", "merged"} =>
                  branch[n].pull # "no_branch" /\ branch'[n].fork = branch[n].fork
    <3> TAKE n \in Names
    <3>1. CASE branch'[n] = branch[n]
        BY <3>1
    <3>2. CASE branch'[n].pull = "none"
        BY <3>2
    <3>3. QED
        BY <2>2, <3>1, <3>2
  <2>6. QED
      BY <2>3, <2>4, <2>5
<1>5. ASSUME NEW u \in Users, ReadSha(u) PROVE Forks /\ Seen
    BY <1>a, <1>5 DEF ReadSha, GoTo, treeVars
<1>6. ASSUME NEW u \in Users, CommitFile(u) PROVE Forks /\ Seen
  <2>1. /\ stage' = [stage EXCEPT ![u] = "sha"] /\ UNCHANGED forkSeen
        /\ branch' = [branch EXCEPT ![name[u]].head = Committed(u)]
      BY <1>6 DEF CommitFile, GoTo, treeVars
  <2>2. \A n \in Names : branch'[n].fork = branch[n].fork /\ branch'[n].pull = branch[n].pull
      BY <1>a, <2>1
  <2>3. Seen
      BY <1>a, <2>1
  <2>4. QED
      BY <2>2, <2>3
<1>7. ASSUME NEW u \in Users, OpenPull(u) PROVE Forks /\ Seen
  <2>1. /\ stage[u] = "sha" /\ stage' = [stage EXCEPT ![u] = "record"] /\ UNCHANGED forkSeen
        /\ branch' = [branch EXCEPT ![name[u]].pull = "open", ![name[u]].by = u]
      BY <1>7 DEF OpenPull, FilesSent, GoTo, treeVars, localVars
  <2>2. name[u] \in Names /\ branch[name[u]].pull # "no_branch"
      BY <2>1 DEF ProposalInv, NamedCalls, NamedBranches, InFlight
  <2>3. \A n \in Names : /\ branch'[n].fork = branch[n].fork
                         /\ n # name[u] => branch'[n].pull = branch[n].pull
      BY <1>a, <2>1
  <2>4. Seen
      BY <1>a, <2>1
  <2>5. Forks
      BY <2>2, <2>3
  <2>6. QED
      BY <2>4, <2>5
<1>8. ASSUME NEW u \in Users, RecordProposal(u) \/ FailProposal(u) PROVE Forks /\ Seen
    BY <1>a, <1>8 DEF RecordProposal, FailProposal, EndCall, GoTo, treeVars
<1>9. ASSUME NEW n \in Names, MergePull(n) PROVE Forks /\ Seen
  <2>1. /\ UNCHANGED <<stage, forkSeen>> /\ branch[n].pull = "open"
        /\ branch' = [branch EXCEPT ![n].pull = "merged"]
      BY <1>9 DEF MergePull, localVars
  <2>2. \A k \in Names : /\ branch'[k].fork = branch[k].fork
                         /\ k # n => branch'[k].pull = branch[k].pull
      BY <1>a, <2>1
  <2>3. Forks
      BY <2>1, <2>2
  <2>4. QED
      BY <2>1, <2>3
<1>10. \A n \in Names : branch'[n].pull \in {"open", "merged"} => branch'[n].pull # "no_branch"
    OBVIOUS
<1>11. QED
    BY <1>1, <1>2, <1>3, <1>4, <1>5, <1>6, <1>7, <1>8, <1>9, <1>10 DEF ProposalNext

\* One connector through a step of a proposal or a merge.
LEMMA ScheduledStep ==
  ASSUME ProposalInv, ProposalNext, ~Late, NEW c \in Connectors,
         Forked(c) \/ Scheduled(c) \/ Waiting(c)
  PROVE  (Forked(c) \/ Scheduled(c) \/ Waiting(c))'
<1>1. ASSUME NEW n \in Names, MergePull(n) PROVE Pulled(n) /\ ~Outdated(n)
    BY <1>1 DEF Late, Pulled, MergePull
<1>2. CASE Forked(c)
  <2>1. PICK n \in Names : n.target = c /\ Pulled(n) /\ Unscheduled(branch[n].fork, c)
      BY <1>2 DEF Forked, PullsOf
  <2>2. branch'[n].pull \in {"open", "merged"} /\ branch'[n].fork = branch[n].fork
      BY <2>1, ForksFollow DEF Pulled
  <2>3. Forked(c)'
      BY <2>1, <2>2 DEF Forked, PullsOf, Pulled
  <2>4. QED
      BY <2>3
<1>3. CASE Scheduled(c)
  <2>1. Matched(base, c)'
    <3>1. ASSUME NEW n \in Names, MergePull(n) PROVE Matched(base', c)
        BY <1>1, <1>3, <3>1, MergeKeepsJobs DEF Scheduled
    <3>2. QED
        BY <1>3, <3>1, ForksFollow DEF Scheduled
  <2>2. \A u \in Users : Matched(forkSeen'[u], c)
      BY <1>3, ForksFollow, EmptyIsMatched DEF Scheduled
  <2>3. \A n \in Names : Matched(branch'[n].fork, c)
      BY <1>3, ForksFollow DEF Scheduled
  <2>4. QED
      BY <2>1, <2>2, <2>3 DEF Scheduled
<1>4. CASE Waiting(c)
  <2>1. Unscheduled(base', c)
    <3>1. ASSUME NEW n \in Names, MergePull(n) PROVE Unscheduled(base', c)
      <4>1. n.target # c
          BY <1>1, <1>4, <3>1 DEF Waiting, PullsOf
      <4>2. QED
          BY <1>1, <1>4, <3>1, <4>1, MergeKeepsJobs DEF Waiting, Unscheduled
    <3>2. QED
        BY <1>4, <3>1, ForksFollow DEF Waiting
  <2>2. \A u \in Users : stage'[u] = "branch" => Unscheduled(forkSeen'[u], c)
      BY <1>4, BranchesFollow DEF Waiting
  <2>3. \A n \in Names : branch'[n].pull # "no_branch" => Unscheduled(branch'[n].fork, c)
      BY <1>4, BranchesFollow DEF Waiting
  <2>4. CASE PullsOf(c)' = {}
      BY <2>1, <2>2, <2>3, <2>4 DEF Waiting
  <2>5. CASE PullsOf(c)' # {}
    <3>1. PICK n \in Names : n.target = c /\ branch'[n].pull \in {"open", "merged"}
        BY <2>5 DEF PullsOf, Pulled
    <3>2. branch'[n].pull # "no_branch"
        BY <3>1
    <3>3. Unscheduled(branch'[n].fork, c)
        BY <2>3, <3>2
    <3>4. Forked(c)'
        BY <3>1, <3>3 DEF Forked, PullsOf, Pulled
    <3>5. QED
        BY <3>4
  <2>6. QED
      BY <2>4, <2>5
<1>5. QED
    BY <1>2, <1>3, <1>4

LEMMA ScheduleStep ==
  ASSUME ProposalInv, ScheduleInv, [Next]_vars
  PROVE  ScheduleInv'
<1>1. CASE ProposalNext
  <2>1. CASE Late
    <3>1. PICK n \in Names : Pulled(n) /\ Outdated(n)
        BY <2>1 DEF Late
    <3>2. branch'[n].pull \in {"open", "merged"} /\ branch'[n].fork = branch[n].fork
        BY <1>1, <3>1, ForksFollow DEF Pulled
    <3>3. PICK v \in Sharing(n) : builtOn[v] # branch[n].fork
        BY <3>1 DEF Outdated
    <3>4. v \in Sharing(n)' /\ builtOn'[v] = builtOn[v]
        BY <1>1, <3>3, ForksFollow DEF Sharing
    <3>5. QED
        BY <3>2, <3>3, <3>4 DEF ScheduleInv, Late, Outdated, Pulled
  <2>2. CASE ~Late
      BY <1>1, <2>2, ScheduledStep DEF ScheduleInv
  <2>3. QED
      BY <2>1, <2>2
<1>2. CASE /\ base' = base /\ branch' = branch /\ name' = name /\ builtOn' = builtOn
           /\ \A u \in Users : /\ forkSeen'[u] \in {forkSeen[u], Empty}
                               /\ stage'[u] = "branch" =>
                                    stage[u] = "branch" /\ forkSeen'[u] = forkSeen[u]
  <2>1. Late => Late'
      BY <1>2 DEF Late, Outdated, Sharing, Pulled
  <2>2. ASSUME NEW c \in Connectors, Forked(c) \/ Scheduled(c) \/ Waiting(c)
        PROVE  (Forked(c) \/ Scheduled(c) \/ Waiting(c))'
    <3>1. PullsOf(c)' = PullsOf(c)
        BY <1>2 DEF PullsOf, Pulled
    <3>2. Forked(c) => Forked(c)'
        BY <1>2, <3>1 DEF Forked
    <3>3. Scheduled(c) => Scheduled(c)'
        BY <1>2, EmptyIsMatched DEF Scheduled
    <3>4. Waiting(c) => Waiting(c)'
        BY <1>2, <3>1 DEF Waiting
    <3>5. QED
        BY <2>2, <3>2, <3>3, <3>4
  <2>3. QED
      BY <2>1, <2>2 DEF ScheduleInv
<1>3. KillCalls => \A u \in Users : /\ forkSeen'[u] \in {forkSeen[u], Empty}
                                    /\ stage'[u] = "branch" =>
                                         stage[u] = "branch" /\ forkSeen'[u] = forkSeen[u]
    BY DEF KillCalls, InFlight
<1>4. QED
    BY <1>1, <1>2, <1>3, OthersLeaveGitHub DEF proposalVars, localVars

\* As long as no pull request comes from an outdated tree, each connector of the base
\* branch that ever had a job has both file and job or neither, and one that has none
\* waits for its first pull request, whatever proposals overlap, fail or are merged in
\* whatever order; only a pull request forked while its connector had no job can lead
\* elsewhere (studio.build_proposed_file_changes, github_pr.create_proposal).
THEOREM JobsMatchCorrect == Spec => []JobsMatchFiles
<1>1. Init => ScheduleInv
  <2> SUFFICES ASSUME Init, NEW c \in Connectors PROVE Scheduled(c) \/ Waiting(c)
      BY DEF ScheduleInv
  <2>1. /\ \A u \in Users : forkSeen[u] = Empty /\ stage[u] = "new"
        /\ \A n \in Names : branch[n].fork = Empty /\ branch[n].pull = "no_branch"
      BY DEF Init, ProposalInit, NoBranch
  <2>2. Matched(base, c) \/ Unscheduled(base, c)
      BY DEF Init, Consistent
  <2>3. PullsOf(c) = {}
      BY <2>1 DEF PullsOf, Pulled
  <2>4. QED
      BY <2>1, <2>2, <2>3, EmptyIsMatched DEF Scheduled, Waiting
<1>2. ScheduleInv => JobsMatchFiles
    BY DEF ScheduleInv, Late, Forked, Scheduled, Waiting, JobsMatchFiles
<1>3. QED
    BY <1>1, <1>2, ScheduleStep, ProposalInvariant, PTL DEF Spec

-----------------------------------------------------------------------------
(* The dashboard's pages.                                                  *)

\* What a step of the runs does to the table: rows are added at the newest end, keep
\* connector and start, and keep the status they ended with; a row that ends, ends now.
RowsGrow ==
    /\ \A s \in Stored : /\ s \in Stored'
                         /\ runRow'[s].connector = runRow[s].connector
                         /\ runRow'[s].started = runRow[s].started
                         /\ runRow[s].status # "RUNNING" => runRow'[s].status = runRow[s].status
    /\ \A s \in Stored' : \/ runRow'[s].status = "RUNNING"
                          \/ s \in Stored /\ runRow'[s] = runRow[s]
                          \/ s \in Stored /\ runRow'[s].finished = clock
    /\ clock' \in Nat /\ clock' >= clock
    /\ \/ Stored' = Stored
       \/ \E r \in Runs \ Stored : /\ Stored' = Stored \cup {r}
                                   /\ runRow'[r].started = clock
                                   /\ clock' > clock

LEMMA InsertGrows ==
  ASSUME ManualTypeOK, NEW r \in Runs, NEW c \in Connectors, InsertRow(r, c)
  PROVE  RowsGrow
<1>1. /\ clock \in Nat /\ clock' = clock + 1
      /\ runRow[r].status = "NONE" /\ runRow'[r].status = "RUNNING"
      /\ runRow'[r].started = clock
      /\ \A s \in Runs \ {r} : runRow'[s] = runRow[s]
    BY DEF InsertRow, ManualTypeOK
<1>2. r \in Runs \ Stored /\ Stored' = Stored \cup {r}
    BY <1>1 DEF Stored
<1>3. QED
    BY <1>1, <1>2 DEF RowsGrow, Stored

LEMMA EndGrows ==
  ASSUME ManualTypeOK, NEW r \in Runs, NEW status \in {"SUCCESS", "FAILED"}, EndRow(r, status),
         runRow[r].status = "RUNNING"
  PROVE  RowsGrow
<1>1. clock \in Nat /\ clock' = clock + 1
    BY DEF EndRow, ManualTypeOK
<1>2. /\ runRow'[r].status = status /\ runRow'[r].connector = runRow[r].connector
      /\ \A s \in Runs \ {r} : runRow'[s] = runRow[s]
    BY EndRowIs
<1>3. runRow'[r].started = runRow[r].started /\ runRow'[r].finished = clock
  <2>1. runRow[r] \in [connector : Connectors \cup {NoConnector},
                       status : {"NONE", "RUNNING", "SUCCESS", "FAILED"},
                       started : Nat, finished : Nat]
      BY DEF ManualTypeOK
  <2>2. runRow' = [runRow EXCEPT ![r] =
                     [[runRow[r] EXCEPT !.status = status] EXCEPT !.finished = clock]]
      BY DEF EndRow, ManualTypeOK
  <2>3. QED
      BY <2>1, <2>2 DEF ManualTypeOK
<1>4. Stored' = Stored
    BY <1>2 DEF Stored
<1>5. QED
    BY <1>1, <1>2, <1>3, <1>4 DEF RowsGrow, Stored

LEMMA RowsStay ==
  ASSUME ManualTypeOK, UNCHANGED <<clock, runRow>>
  PROVE  RowsGrow
  BY DEF RowsGrow, Stored, ManualTypeOK

LEMMA RowsMove ==
  ASSUME ManualInv, ManualNext
  PROVE  RowsGrow
<1>a. ManualTypeOK /\ NoRun \notin Runs
    BY ManualAssumption DEF ManualInv
<1>1. ASSUME NEW m \in Tickets, NEW r \in Runs, LaunchRun(m, r)
      PROVE  RowsGrow
    BY <1>a, <1>1, InsertGrows DEF LaunchRun, ManualInv, OutcomeIsLast
<1>2. ASSUME NEW m \in Tickets, NEW status \in {"SUCCESS", "FAILED"},
             task[m] = "running", EndRow(launched[m], status)
      PROVE  RowsGrow
    BY <1>a, <1>2, EndGrows DEF ManualInv, ManualTypeOK, RunFollowsTask
<1>3. ASSUME NEW r \in Runs, NEW status \in {"SUCCESS", "FAILED"}, CronEnds(r, status)
      PROVE  RowsGrow
    BY <1>a, <1>3, EndGrows DEF CronEnds, ManualInv, PodsRun
<1>4. ASSUME NEW r \in Runs, NEW c \in Connectors, CronStarts(r, c)
      PROVE  RowsGrow
    BY <1>a, <1>4, InsertGrows DEF CronStarts
<1>5. ASSUME NEW m \in Tickets, TaskStep(m)
      PROVE  RowsGrow
    BY <1>a, <1>1, <1>2, <1>5, RowsStay
    DEF TaskStep, BeginTask, BeginFails, LaunchFails, RunReturns, RunRaises, RunRaisesTwice, RecordOutcome,
        LoseOutcome
<1>6. QED
    BY <1>a, <1>3, <1>4, <1>5, RowsStay DEF ManualNext, RunNow, RefuseRunNow, CronDies

\* Runs that are stored are finitely many, ordered by their starts, and end after them.
RowsInv ==
    /\ IsFiniteSet(Stored)
    /\ \A r \in Stored : runRow[r].started < clock
    /\ \A r, s \in Stored : r # s => runRow[r].started # runRow[s].started
    /\ \A r \in Stored :
          runRow[r].status # "RUNNING" => runRow[r].started <= runRow[r].finished

LEMMA RowsStep ==
  ASSUME ManualTypeOK, RowsInv, RowsGrow
  PROVE  RowsInv'
<1>a. \A s \in Stored' :
        runRow'[s].status # "RUNNING" => runRow'[s].started <= runRow'[s].finished
  <2>1. SUFFICES ASSUME NEW s \in Stored', runRow'[s].status # "RUNNING"
                 PROVE  runRow'[s].started <= runRow'[s].finished
      OBVIOUS
  <2>2. CASE s \in Stored /\ runRow'[s] = runRow[s]
      BY <2>1, <2>2 DEF RowsInv
  <2>3. CASE s \in Stored /\ runRow'[s].finished = clock
    <3>1. runRow'[s].started = runRow[s].started /\ runRow[s].started < clock
        BY <2>3 DEF RowsInv, RowsGrow
    <3>2. clock \in Nat /\ runRow[s].started \in Nat
        BY <2>3 DEF ManualTypeOK, Stored
    <3>3. QED
        BY <2>3, <3>1, <3>2
  <2>4. QED
      BY <2>1, <2>2, <2>3 DEF RowsGrow
<1>1. CASE Stored' = Stored
  <2>1. \A s \in Stored : runRow'[s].started = runRow[s].started /\ runRow[s].started \in Nat
      BY DEF RowsGrow, ManualTypeOK, Stored
  <2>2. clock \in Nat /\ clock' \in Nat /\ clock' >= clock
      BY DEF RowsGrow, ManualTypeOK
  <2>3. QED
      BY <1>1, <1>a, <2>1, <2>2 DEF RowsInv
<1>2. ASSUME NEW r \in Runs \ Stored, Stored' = Stored \cup {r},
             runRow'[r].started = clock, clock' > clock
      PROVE  RowsInv'
  <2>1. IsFiniteSet(Stored')
      BY <1>2, FS_AddElement DEF RowsInv
  <2>2. \A s \in Stored : runRow'[s].started = runRow[s].started /\ runRow[s].started \in Nat
      BY DEF RowsGrow, ManualTypeOK, Stored
  <2>3. clock \in Nat /\ clock' \in Nat
      BY DEF RowsGrow, ManualTypeOK
  <2>4. \A s \in Stored' : runRow'[s].started < clock'
      BY <1>2, <2>2, <2>3 DEF RowsInv
  <2>5. \A s, k \in Stored' : s # k => runRow'[s].started # runRow'[k].started
      BY <1>2, <2>2, <2>3 DEF RowsInv
  <2>6. QED
      BY <1>a, <2>1, <2>4, <2>5 DEF RowsInv
<1>3. QED
    BY <1>1, <1>2 DEF RowsGrow

\* A query for an ended status or for every run never loses a match.
LEMMA MatchesGrow ==
  ASSUME ManualTypeOK, RowsGrow, asked' = asked, asked.status # "RUNNING"
  PROVE  Matching(asked) \subseteq Matching(asked)'
  BY DEF RowsGrow, Matching

\* The place of a run among the matches, newest first.
Newer(r) == {s \in Matching(asked) : runRow[s].started > runRow[r].started}
Rank(r) == Cardinality(Newer(r))

LEMMA MatchesAreFinite ==
  ASSUME RowsInv
  PROVE  /\ IsFiniteSet(Matching(asked)) /\ Cardinality(Matching(asked)) \in Nat
         /\ \A r : IsFiniteSet(Newer(r)) /\ Rank(r) \in Nat
<1>1. /\ Matching(asked) \in SUBSET Stored
      /\ \A r : Newer(r) \in SUBSET Stored
    BY DEF Matching, Newer
<1>2. QED
    BY <1>1, FS_Subset, FS_CardinalityType DEF RowsInv, Rank

LEMMA RanksDiffer ==
  ASSUME ManualTypeOK, RowsInv, NEW r \in Matching(asked), NEW s \in Matching(asked),
         runRow[r].started < runRow[s].started
  PROVE  Rank(s) < Rank(r)
<1>1. \A k \in Matching(asked) : runRow[k].started \in Nat
    BY DEF Matching, Stored, ManualTypeOK
<1>2. Newer(s) \in SUBSET Newer(r) /\ s \in Newer(r) /\ s \notin Newer(s)
    BY <1>1 DEF Newer
<1>3. Rank(s) <= Rank(r) /\ Rank(s) # Rank(r)
    BY <1>2, MatchesAreFinite, FS_Subset DEF Rank
<1>4. QED
    BY <1>3, MatchesAreFinite

LEMMA MoreThanRank ==
  ASSUME ManualTypeOK, RowsInv, NEW r \in Matching(asked)
  PROVE  Rank(r) < Cardinality(Matching(asked))
<1>1. runRow[r].started \in Nat
    BY DEF Matching, Stored, ManualTypeOK
<1>2. Newer(r) \in SUBSET Matching(asked) /\ r \notin Newer(r)
    BY <1>1 DEF Newer
<1>3. Rank(r) <= Cardinality(Matching(asked)) /\ Rank(r) # Cardinality(Matching(asked))
    BY <1>2, MatchesAreFinite, FS_Subset DEF Rank
<1>4. QED
    BY <1>3, MatchesAreFinite

LEMMA PageIs == Page(asked) = {r \in Matching(asked) : Rank(r) \in offset .. offset + Limit - 1}
  BY DEF Page, Rank, Newer

\* Distinct ranks: no page is longer than the limit.
LEMMA PageIsShort ==
  ASSUME ManualTypeOK, RowsInv, offset \in Nat
  PROVE  /\ Cardinality(Page(asked)) \in Nat
         /\ Cardinality(Page(asked)) <= Limit
<1> DEFINE places == offset .. offset + Limit - 1
           place == [r \in Page(asked) |-> Rank(r)]
<1>1. Limit \in Nat \ {0}
    BY OpsAssumption
<1>2. \A r \in Page(asked) : r \in Matching(asked) /\ Rank(r) \in places
    BY PageIs
<1>3. \A r, s \in Page(asked) : r # s => Rank(r) # Rank(s)
  <2>1. SUFFICES ASSUME NEW r \in Page(asked), NEW s \in Page(asked), r # s
                 PROVE  Rank(r) # Rank(s)
      OBVIOUS
  <2>2. runRow[r].started \in Nat /\ runRow[s].started \in Nat
      BY <1>2 DEF Matching, Stored, ManualTypeOK
  <2>3. runRow[r].started < runRow[s].started \/ runRow[s].started < runRow[r].started
      BY <1>2, <2>1, <2>2 DEF RowsInv, Matching
  <2>4. Rank(s) < Rank(r) \/ Rank(r) < Rank(s)
      BY <1>2, <2>3, RanksDiffer
  <2>5. QED
      BY <2>4, MatchesAreFinite
<1>4. place \in Injection(Page(asked), places)
    BY <1>2, <1>3 DEF Injection, IsInjective
<1>5. IsFiniteSet(places) /\ Cardinality(places) = Limit
    BY <1>1, FS_Interval
<1>6. IsFiniteSet(Page(asked)) /\ Cardinality(Page(asked)) <= Limit
    BY <1>4, <1>5, FS_Injection
<1>7. QED
    BY <1>6, FS_CardinalityType

\* Runs that start meanwhile only push the others further down.
LEMMA RanksGrow ==
  ASSUME ManualTypeOK, RowsInv, RowsInv', RowsGrow, asked' = asked, asked.status # "RUNNING",
         NEW r \in Matching(asked)
  PROVE  Rank(r)' >= Rank(r)
<1>1. Matching(asked) \subseteq Matching(asked)'
    BY MatchesGrow
<1>2. \A s \in Matching(asked) : runRow'[s].started = runRow[s].started
    BY DEF RowsGrow, Matching
<1>3. Newer(r) \in SUBSET (Newer(r)')
    BY <1>1, <1>2 DEF Newer
<1>4. IsFiniteSet(Newer(r)')
  <2>1. Newer(r)' \in SUBSET (Stored')
      BY DEF Newer, Matching
  <2>2. QED
      BY <2>1, FS_Subset DEF RowsInv
<1>5. Rank(r) = Cardinality(Newer(r)) /\ Rank(r)' = Cardinality(Newer(r)')
    BY DEF Rank
<1>6. Cardinality(Newer(r)) <= Cardinality(Newer(r)')
    BY <1>3, <1>4, FS_Subset
<1>7. Rank(r) \in Nat /\ Cardinality(Newer(r)') \in Nat
    BY <1>4, MatchesAreFinite, FS_CardinalityType
<1>8. QED
    BY <1>5, <1>6, <1>7

\* Some run of a connector started last.
LEMMA LastRunIs ==
  ASSUME ManualTypeOK, RowsInv, NEW c \in Connectors
  PROVE  LastRun(c) \in Runs \cup {NoRun}
<1> DEFINE runs == {r \in Stored : runRow[r].connector = c}
           ages == {clock - runRow[r].started : r \in runs}
<1>1. CASE runs = {}
    BY <1>1 DEF LastRun
<1>2. CASE runs # {}
  <2>1. /\ clock \in Nat
        /\ \A r \in runs : r \in Stored /\ runRow[r].started \in Nat /\ runRow[r].started < clock
      BY DEF RowsInv, ManualTypeOK, Stored
  <2>2. ages \subseteq Nat /\ ages # {}
      BY <1>2, <2>1
  <2>3. PICK n \in ages : \A k \in ages : ~(<<k, n>> \in OpToRel(<, Nat))
      BY <2>2, NatLessThanWellFounded, WFMin
  <2>4. PICK r \in runs : n = clock - runRow[r].started
      BY <2>3
  <2>5. \A s \in runs : ~(clock - runRow[s].started < clock - runRow[r].started)
      BY <2>2, <2>3, <2>4 DEF OpToRel
  <2>6. \A s \in runs \ {r} : runRow[s].started < runRow[r].started
      BY <2>1, <2>5 DEF RowsInv
  <2>7. \E k \in runs : \A s \in runs \ {k} : Earlier(s, k)
      BY <2>6 DEF Earlier
  <2>8. LastRun(c) \in runs
      BY <1>2, <2>7 DEF LastRun
  <2>9. QED
      BY <2>8 DEF Stored
<1>3. QED
    BY <1>1, <1>2

LEMMA OpsInitType == ASSUME OpsInit PROVE OpsTypeOK
<1>1. counted \in [Runs -> Statuses] /\ pageRow \in [Runs -> Statuses]
    BY DEF OpsInit, NoRuns, Statuses
<1>2. lastRow \in [Connectors -> [run : Runs \cup {NoRun}, status : Statuses]]
    BY DEF OpsInit, NoLast, Statuses
<1>3. more \in BOOLEAN /\ raced \in BOOLEAN
    BY DEF OpsInit
<1>4. QED
    BY <1>1, <1>2, <1>3 DEF OpsInit, OpsTypeOK

LEMMA OpsTypeStep ==
  ASSUME ManualTypeOK, RowsInv, OpsTypeOK, OpsNext
  PROVE  OpsTypeOK'
<1>a. /\ offset \in Nat /\ total \in Nat /\ Limit \in Nat
      /\ more \in BOOLEAN /\ raced \in BOOLEAN
      /\ seen \in SUBSET Runs /\ expected \in SUBSET Runs
    BY OpsAssumption DEF OpsTypeOK
<1>b. \A r \in Runs : runRow[r].status \in Statuses /\ Loaded(r) \in Statuses
    BY DEF OpsTypeOK, ManualTypeOK, Statuses, Loaded
<1>1. ASSUME NEW q \in Queries, Ask(q) PROVE OpsTypeOK'
  <2>1. expected' \in SUBSET Runs
      BY <1>1 DEF Ask, Matching, Stored
  <2>2. step' \in {"slo", "rows"} /\ asked' \in Queries
      BY <1>1 DEF Ask, FirstStep
  <2>3. UNCHANGED <<offset, total, succeeded, counted, pageRow, lastRow, seen, more, raced>>
      BY <1>1 DEF Ask, answerVars
  <2>4. QED
      BY <1>a, <2>1, <2>2, <2>3 DEF OpsTypeOK
<1>2. CASE SelectSlo
  <2>1. succeeded' \in SUBSET Runs /\ step' = "window"
      BY <1>2 DEF SelectSlo, Stored
  <2>2. QED
      BY <1>2, <2>1 DEF SelectSlo, OpsTypeOK
<1>3. CASE SelectWindow
  <2>1. counted' \in [Runs -> Statuses] /\ step' = "count"
      BY <1>b, <1>3 DEF SelectWindow
  <2>2. QED
      BY <1>3, <2>1 DEF SelectWindow, OpsTypeOK
<1>4. CASE SelectCount
  <2>1. total' \in Nat /\ step' = "page"
      BY <1>4, MatchesAreFinite DEF SelectCount
  <2>2. QED
      BY <1>4, <2>1 DEF SelectCount, OpsTypeOK
<1>5. CASE SelectPage
  <2>1. pageRow' \in [Runs -> Statuses]
      BY <1>b, <1>5 DEF SelectPage, Statuses
  <2>2. more' \in BOOLEAN
      BY <1>5 DEF SelectPage, HasMore
  <2>3. seen' \in SUBSET Runs
      BY <1>a, <1>5 DEF SelectPage, Page, Matching, Stored
  <2>4. raced' \in BOOLEAN
      BY <1>5 DEF SelectPage
  <2>5. step' \in {"rows", "answer"}
      BY <1>5 DEF SelectPage
  <2>6. UNCHANGED <<asked, offset, succeeded, counted, total, lastRow, expected>>
      BY <1>5 DEF SelectPage
  <2>7. QED
      BY <1>a, <2>1, <2>2, <2>3, <2>4, <2>5, <2>6 DEF OpsTypeOK
<1>6. CASE SelectRows
  <2>1. \A c \in Connectors : ConnectorRows(asked)[c] \in [run : Runs \cup {NoRun}, status : Statuses]
    <3>1. ASSUME NEW c \in Connectors
          PROVE  LET r == LastRun(c)
                 IN  r # NoRun => [run |-> r, status |-> Loaded(r)]
                                    \in [run : Runs \cup {NoRun}, status : Statuses]
        BY <1>b, LastRunIs
    <3>2. \A c \in Connectors : NoLast[c] \in [run : Runs \cup {NoRun}, status : Statuses]
        BY DEF NoLast, Statuses
    <3>3. QED
        BY <3>1, <3>2 DEF ConnectorRows
  <2>2. lastRow' \in [Connectors -> [run : Runs \cup {NoRun}, status : Statuses]]
      BY <1>6, <2>1 DEF SelectRows, ConnectorRows
  <2>3. step' \in {"answer", "count", "cut"}
      BY <1>6 DEF SelectRows
  <2>4. UNCHANGED <<asked, offset, succeeded, counted, total, more, pageRow, seen, expected, raced>>
      BY <1>6 DEF SelectRows
  <2>5. QED
      BY <1>a, <2>2, <2>3, <2>4 DEF OpsTypeOK
<1>7. CASE NextPage
  <2>a. step' \in {"slo", "rows", "done"} /\ total' \in Nat
      BY <1>7 DEF NextPage, FirstStep
  <2>b. offset' = offset \/ offset' = offset + Limit
      BY <1>7 DEF NextPage
  <2>c. more' \in BOOLEAN
      BY <1>7 DEF NextPage
  <2>1. offset' \in Nat
      BY <1>a, <2>b
  <2>2. /\ succeeded' \in SUBSET Runs
        /\ counted' \in [Runs -> Statuses] /\ pageRow' \in [Runs -> Statuses]
      BY <1>7 DEF NextPage, NoRuns, Statuses
  <2>3. lastRow' \in [Connectors -> [run : Runs \cup {NoRun}, status : Statuses]]
      BY <1>7 DEF NextPage, NoLast, Statuses
  <2>4. UNCHANGED <<asked, seen, expected, raced>>
      BY <1>7 DEF NextPage
  <2>5. QED
      BY <1>a, <2>a, <2>c, <2>1, <2>2, <2>3, <2>4 DEF OpsTypeOK
<1>8. QED
    BY <1>1, <1>2, <1>3, <1>4, <1>5, <1>6, <1>7 DEF OpsNext

LEMMA OpsTypeKept ==
  ASSUME OpsTypeOK, step' \in {step, "cut"},
         UNCHANGED <<asked, offset, answerVars, seen, expected, raced>>
  PROVE  OpsTypeOK'
  BY DEF OpsTypeOK, answerVars

\* What the client has not seen yet of the runs that matched when it began is still
\* to come: from the offset on before a page is cut out, and behind the page after
\* it, which then says that there is more.
Behind(n) == \A r \in expected \ seen : Rank(r) >= n

BeforePage ==
    step \in {"slo", "window", "count", "page"} \/ (step = "rows" /\ asked.view # "snapshot")
AfterPage == step = "answer" \/ (step = "rows" /\ asked.view = "snapshot")

PagingInv ==
    /\ step = "idle" => expected = {} /\ offset = 0
    /\ asked.status # "RUNNING" /\ ~raced =>
         /\ expected \subseteq Matching(asked)
         /\ BeforePage => Behind(offset)
         /\ AfterPage => Behind(offset + Limit) /\ (expected \subseteq seen \/ more)
         /\ step = "done" => expected \subseteq seen

LEMMA OpsInitPaging == OpsInit => PagingInv
  BY DEF OpsInit, PagingInv, BeforePage, AfterPage

\* The runs move, the client does not.
LEMMA PagingKept ==
  ASSUME ManualTypeOK, RowsInv, RowsInv', OpsTypeOK, PagingInv, RowsGrow,
         step' \in {step, "cut"}, step = "idle" => step' = "idle",
         UNCHANGED <<asked, offset, more, seen, expected, raced>>
  PROVE  PagingInv'
<1>1. step' = "idle" => expected' = {} /\ offset' = 0
    BY DEF PagingInv
<1>2. ASSUME asked.status # "RUNNING", ~raced
      PROVE  /\ expected' \subseteq Matching(asked)'
             /\ BeforePage' => Behind(offset)'
             /\ AfterPage' => Behind(offset + Limit)' /\ (expected' \subseteq seen' \/ more')
             /\ step' = "done" => expected' \subseteq seen'
  <2>1. expected \subseteq Matching(asked)
      BY <1>2 DEF PagingInv
  <2>2. \A r \in expected : Rank(r)' >= Rank(r) /\ Rank(r) \in Nat /\ Rank(r)' \in Nat
    <3>1. \A r \in expected : Rank(r)' >= Rank(r) /\ Rank(r) \in Nat
        BY <1>2, <2>1, RanksGrow, MatchesAreFinite
    <3>2. \A r : Rank(r)' \in Nat
      <4>1. \A r : Newer(r)' \in SUBSET (Stored')
          BY DEF Newer, Matching
      <4>2. \A r : IsFiniteSet(Newer(r)')
          BY <4>1, FS_Subset DEF RowsInv
      <4>3. \A r : Cardinality(Newer(r)') \in Nat
          BY <4>2, FS_CardinalityType
      <4>4. QED
          BY <4>3 DEF Rank
    <3>3. QED
        BY <3>1, <3>2
  <2>3. offset \in Nat /\ Limit \in Nat
      BY OpsAssumption DEF OpsTypeOK
  <2>4. /\ BeforePage' => BeforePage
        /\ AfterPage' => AfterPage
        /\ step' = "done" => step = "done"
      BY DEF BeforePage, AfterPage
  <2>5. BeforePage' => Behind(offset)'
    <3>1. SUFFICES ASSUME BeforePage', NEW r \in expected \ seen PROVE Rank(r)' >= offset
        BY DEF Behind
    <3>2. Rank(r) >= offset
        BY <1>2, <2>4, <3>1 DEF PagingInv, Behind
    <3>3. QED
        BY <2>2, <2>3, <3>2
  <2>6. AfterPage' => Behind(offset + Limit)'
    <3>1. SUFFICES ASSUME AfterPage', NEW r \in expected \ seen PROVE Rank(r)' >= offset + Limit
        BY DEF Behind
    <3>2. Rank(r) >= offset + Limit
        BY <1>2, <2>4, <3>1 DEF PagingInv, Behind
    <3>3. QED
        BY <2>2, <2>3, <3>2
  <2>7. AfterPage' => expected' \subseteq seen' \/ more'
      BY <1>2, <2>4 DEF PagingInv
  <2>8. step' = "done" => expected' \subseteq seen'
      BY <1>2, <2>4 DEF PagingInv
  <2>9. expected' \subseteq Matching(asked)'
      BY <1>2, <2>1, MatchesGrow
  <2>10. QED
      BY <2>5, <2>6, <2>7, <2>8, <2>9
<1>3. QED
    BY <1>1, <1>2 DEF PagingInv

\* The page takes the ranks from offset up to offset + Limit; has_more is true
\* because a run further down is one of the matches counted.
LEMMA PageShows ==
  ASSUME ManualTypeOK, RowsInv, OpsTypeOK, PagingInv, SelectPage,
         asked.status # "RUNNING", ~raced'
  PROVE  /\ Behind(offset + Limit)' /\ expected' \subseteq Matching(asked)'
         /\ expected' \subseteq seen' \/ more'
<1>1. /\ UNCHANGED <<runRow, asked, offset, expected, total>>
      /\ seen' = seen \cup Page(asked)
      /\ more' = HasMore(Cardinality(Page(asked)))
    BY DEF SelectPage, manualVars
<1>2. ~raced /\ Cardinality(Matching(asked)) = total
    BY DEF SelectPage
<1>3. expected \subseteq Matching(asked) /\ Behind(offset)
    BY <1>2 DEF PagingInv, SelectPage, BeforePage
<1>4. offset \in Nat /\ Limit \in Nat
    BY OpsAssumption DEF OpsTypeOK
<1>5. /\ \A r \in expected : Rank(r)' = Rank(r) /\ Rank(r) \in Nat
      /\ Matching(asked)' = Matching(asked)
    BY <1>1, MatchesAreFinite DEF Rank, Newer, Matching, Stored
<1>6. \A r \in expected \ seen' : Rank(r) >= offset + Limit
  <2>1. SUFFICES ASSUME NEW r \in expected, r \notin seen' PROVE Rank(r) >= offset + Limit
      OBVIOUS
  <2>2. Rank(r) >= offset /\ r \notin Page(asked)
      BY <1>1, <1>3, <2>1 DEF Behind
  <2>3. Rank(r) \notin offset .. offset + Limit - 1
      BY <1>3, <2>1, <2>2, PageIs
  <2>4. QED
      BY <1>4, <1>5, <2>2, <2>3
<1>7. ASSUME NEW r \in expected, r \notin seen' PROVE more'
  <2>1. Rank(r) >= offset + Limit /\ Rank(r) < total /\ Rank(r) \in Nat
      BY <1>2, <1>3, <1>5, <1>6, <1>7, MoreThanRank
  <2>2. Cardinality(Page(asked)) \in Nat /\ Cardinality(Page(asked)) <= Limit
      BY <1>4, PageIsShort
  <2>3. total \in Nat
      BY DEF OpsTypeOK
  <2>4. offset + Cardinality(Page(asked)) < total
      BY <1>4, <2>1, <2>2, <2>3
  <2>5. QED
      BY <1>1, <2>4 DEF HasMore
<1>8. QED
    BY <1>1, <1>3, <1>5, <1>6, <1>7 DEF Behind

LEMMA PagingStep ==
  ASSUME ManualTypeOK, RowsInv, OpsTypeOK, PagingInv, OpsNext
  PROVE  PagingInv'
<1>a. UNCHANGED runRow
    BY DEF OpsNext, Ask, SelectSlo, SelectWindow, SelectCount, SelectPage, SelectRows, NextPage,
       manualVars
<1>b. asked' = asked => Matching(asked)' = Matching(asked) /\ \A r : Rank(r)' = Rank(r)
    BY <1>a DEF Matching, Stored, Rank, Newer
<1>c. offset \in Nat /\ Limit \in Nat
    BY OpsAssumption DEF OpsTypeOK
<1>1. ASSUME NEW q \in Queries, Ask(q) PROVE PagingInv'
  <2>1. /\ asked' = q /\ step' = FirstStep(q) /\ expected' = Matching(q) /\ offset' = 0
        /\ q.view \in {"snapshot", "detail"}
      BY <1>1, OpsAssumption DEF Ask, PagingInv
  <2>2. expected' = Matching(asked)'
      BY <1>a, <2>1 DEF Matching, Stored
  <2>3. \A r : Rank(r)' \in Nat
    <3>1. \A r : Newer(r)' \in SUBSET Stored
        BY <1>a DEF Newer, Matching, Stored
    <3>2. \A r : Cardinality(Newer(r)') \in Nat
        BY <3>1, FS_Subset, FS_CardinalityType DEF RowsInv
    <3>3. QED
        BY <3>2 DEF Rank
  <2>4. Behind(offset)'
      BY <2>1, <2>3 DEF Behind
  <2>5. ~AfterPage' /\ step' \notin {"done", "idle"}
      BY <2>1 DEF AfterPage, FirstStep
  <2>6. QED
      BY <2>2, <2>4, <2>5 DEF PagingInv
<1>2. ASSUME UNCHANGED <<asked, offset, more, seen, expected, raced>>,
             step' # "idle",
             BeforePage' => BeforePage, AfterPage' => AfterPage, step' # "done"
      PROVE  PagingInv'
  <2>1. /\ Behind(offset)' = Behind(offset)
        /\ Behind(offset + Limit)' = Behind(offset + Limit)
      BY <1>b, <1>2 DEF Behind
  <2>2. QED
      BY <1>b, <1>2, <2>1 DEF PagingInv
<1>3. CASE SelectSlo \/ SelectWindow \/ SelectCount
    BY <1>2, <1>3 DEF SelectSlo, SelectWindow, SelectCount, BeforePage, AfterPage
<1>4. CASE SelectRows
    BY <1>2, <1>4 DEF SelectRows, BeforePage, AfterPage
<1>5. CASE SelectPage
  <2>1. /\ UNCHANGED <<asked, offset>> /\ step' \in {"rows", "answer"}
        /\ step' = "rows" => asked.view = "snapshot"
        /\ raced => raced'
      BY <1>5 DEF SelectPage
  <2>2. ~BeforePage'
      BY <2>1 DEF BeforePage
  <2>3. QED
      BY <1>5, <2>1, <2>2, PageShows DEF PagingInv
<1>6. CASE NextPage
  <2>1. /\ UNCHANGED <<asked, seen, expected, raced>> /\ step = "answer"
        /\ step' = IF more THEN FirstStep(asked) ELSE "done"
        /\ offset' = IF more THEN offset + Limit ELSE offset
      BY <1>6 DEF NextPage
  <2>2. ASSUME asked.status # "RUNNING", ~raced
        PROVE  /\ expected \subseteq Matching(asked)
               /\ Behind(offset + Limit) /\ (expected \subseteq seen \/ more)
      BY <2>1, <2>2 DEF PagingInv, AfterPage
  <2>3. ASSUME more, Behind(offset + Limit) PROVE Behind(offset)'
      BY <1>b, <2>1, <2>3 DEF Behind
  <2>4. /\ ~AfterPage' /\ step' # "idle"
        /\ BeforePage' => more
        /\ step' = "done" => ~more
      BY <2>1 DEF AfterPage, BeforePage, FirstStep
  <2>5. QED
      BY <1>b, <2>1, <2>2, <2>3, <2>4 DEF PagingInv
<1>7. QED
    BY <1>1, <1>3, <1>4, <1>5, <1>6 DEF OpsNext

ReaderInv == RowsInv /\ OpsTypeOK /\ PagingInv

LEMMA ReaderInvariant == Spec => [](ManualInv /\ ReaderInv)
<1>1. Init => ManualInv /\ ReaderInv
  <2>1. ManualInit => RowsInv
    <3>1. ManualInit => Stored = {}
        BY DEF ManualInit, Stored, NoRow
    <3>2. QED
        BY <3>1, FS_EmptySet DEF RowsInv
  <2>2. QED
      BY <2>1, ManualInitInv, OpsInitType, OpsInitPaging DEF Init, ReaderInv
<1>2. ManualInv /\ ReaderInv /\ [Next]_vars => (ManualInv /\ ReaderInv)'
  <2> SUFFICES ASSUME ManualInv, ReaderInv, [Next]_vars PROVE ManualInv' /\ ReaderInv'
      OBVIOUS
  <2>a. ManualTypeOK /\ RowsInv /\ OpsTypeOK /\ PagingInv
      BY DEF ManualInv, ReaderInv
  <2>1. ASSUME ManualInv', RowsGrow, step' \in {step, "cut"}, step = "idle" => step' = "idle",
               UNCHANGED <<asked, offset, answerVars, seen, expected, raced>>
        PROVE  ManualInv' /\ ReaderInv'
    <3>1. RowsInv'
        BY <2>a, <2>1, RowsStep
    <3>2. more' = more
        BY <2>1 DEF answerVars
    <3>3. PagingInv'
        BY <2>a, <2>1, <3>1, <3>2, PagingKept
    <3>4. QED
        BY <2>a, <2>1, <3>1, <3>3, OpsTypeKept DEF ReaderInv
  <2>2. CASE UNCHANGED manualVars /\ UNCHANGED opsVars
    <3>1. RowsGrow
        BY <2>2, <2>a, RowsStay DEF manualVars
    <3>2. QED
        BY <2>1, <2>2, <3>1, ManualUnchanged DEF opsVars
  <2>3. CASE ManualNext /\ UNCHANGED opsVars
      BY <2>1, <2>3, ManualStep, RowsMove DEF opsVars
  <2>4. CASE OpsNext
    <3>1. UNCHANGED manualVars
        BY <2>4 DEF OpsNext, Ask, SelectSlo, SelectWindow, SelectCount, SelectPage, SelectRows,
           NextPage
    <3>2. RowsGrow
        BY <3>1, <2>a, RowsStay DEF manualVars
    <3>3. QED
        BY <2>4, <2>a, <3>1, <3>2, ManualUnchanged, RowsStep, OpsTypeStep, PagingStep DEF ReaderInv
  <2>5. CASE Restart
    <3>1. /\ KillTasks /\ UNCHANGED <<clock, runRow, ticket, launched, pods>>
          /\ step' \in {step, "cut"} /\ (step = "idle" => step' = "idle")
          /\ UNCHANGED <<asked, offset, answerVars, seen, expected, raced>>
        BY <2>5 DEF Restart
    <3>2. RowsGrow
        BY <3>1, <2>a, RowsStay
    <3>3. QED
        BY <2>1, <3>1, <3>2, KillStep
  <2>6. QED
      BY <2>2, <2>3, <2>4, <2>5 DEF Next, vars
<1>3. QED
    BY <1>1, <1>2, PTL DEF Spec

\* Every variable of the process keeps its type, a page's length and a count of
\* matches among them (studio, github_pr, api and ops).
THEOREM ControlTypeCorrect == Spec => []ControlTypeOK
<1>1. ManualInv /\ ReaderInv /\ ProposalInv => ControlTypeOK
    BY DEF ManualInv, ReaderInv, ProposalInv, ControlTypeOK, SideTypeOK
<1>2. QED
    BY <1>1, ReaderInvariant, ProposalInvariant, PTL

\* A client that follows has_more to the end has seen every run that matched when it
\* began, for any page size and however many runs start and end between its SELECTs
\* (ops.build_ops_snapshot, ops.build_connector_detail).
THEOREM PagingCorrect == Spec => []PagingSkipsNothing
<1>1. ReaderInv => PagingSkipsNothing
    BY DEF ReaderInv, PagingInv, PagingSkipsNothing
<1>2. QED
    BY <1>1, ReaderInvariant, PTL

-----------------------------------------------------------------------------
(* The mean time to recovery: sums over a set.                             *)

\* Of the subsets that have some defect, one loses it with any of its elements.
LEMMA SmallestBad ==
  ASSUME NEW S, IsFiniteSet(S), NEW B \in SUBSET SUBSET S, B # {}
  PROVE  \E s \in B : \A x \in s : s \ {x} \notin B
<1>1. B \subseteq FiniteSubsetsOf(S)
    BY FS_Subset DEF FiniteSubsetsOf
<1>2. PICK s \in B : \A u \in B : ~(<<u, s>> \in StrictSubsetOrdering(S))
    BY <1>1, FS_StrictSubsetOrderingWellFounded, WFMin
<1>3. ASSUME NEW x \in s, s \ {x} \in B PROVE FALSE
    BY <1>2, <1>3 DEF StrictSubsetOrdering
<1>4. QED
    BY <1>3

\* The fold behind MapThenSumSet, of weights w over the subsets of S.
Picked(s) == CHOOSE x \in s : TRUE
Adds(w, S, sum) ==
    [s \in SUBSET S |-> IF s = {} THEN 0 ELSE w[Picked(s)] + sum[s \ {Picked(s)}]]
Sums(w, S) == CHOOSE sum : sum = Adds(w, S, sum)

LEMMA PickedIs == \A s : s # {} => Picked(s) \in s
  BY DEF Picked

\* That such a function exists: count w[x] units for each x.
Units(w, s) == {p \in s \X Nat : p[2] \in 1..w[p[1]]}

LEMMA UnitsOfOne ==
  ASSUME NEW x, NEW w, w[x] \in Nat
  PROVE  IsFiniteSet(Units(w, {x})) /\ Cardinality(Units(w, {x})) = w[x]
<1> DEFINE unit == [i \in 1..w[x] |-> <<x, i>>]
<1>1. IsFiniteSet(1..w[x]) /\ Cardinality(1..w[x]) = w[x]
  <2>1. PICK n \in Nat : n = w[x]
      OBVIOUS
  <2>2. IsFiniteSet(1..n) /\ Cardinality(1..n) = IF 1 > n THEN 0 ELSE n - 1 + 1
      BY FS_Interval
  <2>3. QED
      BY <2>1, <2>2
<1>2. unit \in Bijection(1..w[x], Units(w, {x}))
  <2>1. unit \in [1..w[x] -> Units(w, {x})]
      BY DEF Units
  <2>2. IsInjective(unit)
      BY DEF IsInjective
  <2>3. \A p \in Units(w, {x}) : \E i \in 1..w[x] : unit[i] = p
      BY DEF Units
  <2>4. QED
      BY <2>1, <2>2, <2>3 DEF Bijection, Injection, Surjection
<1>3. QED
    BY <1>1, <1>2, FS_Bijection DEF ExistsBijection

LEMMA UnitsSplit ==
  ASSUME NEW s, NEW x \in s, NEW w
  PROVE  /\ Units(w, s) = Units(w, s \ {x}) \cup Units(w, {x})
         /\ Units(w, s \ {x}) \cap Units(w, {x}) = {}
  BY DEF Units

LEMMA DisjointUnion ==
  ASSUME NEW A, NEW B, IsFiniteSet(A), IsFiniteSet(B), A \cap B = {}
  PROVE  Cardinality(A \cup B) = Cardinality(A) + Cardinality(B)
<1>1. Cardinality(A \cup B) = Cardinality(A) + Cardinality(B) - 0
    BY FS_Union, FS_EmptySet
<1>2. Cardinality(A) \in Nat /\ Cardinality(B) \in Nat
    BY FS_CardinalityType
<1>3. QED
    BY <1>1, <1>2

LEMMA UnitsFinite ==
  ASSUME NEW S, IsFiniteSet(S), NEW w \in [S -> Nat], NEW s \in SUBSET S
  PROVE  IsFiniteSet(Units(w, s)) /\ Cardinality(Units(w, s)) \in Nat
<1> DEFINE bad == {u \in SUBSET S : ~IsFiniteSet(Units(w, u))}
<1>1. ASSUME bad # {} PROVE FALSE
  <2>1. PICK u \in bad : \A x \in u : u \ {x} \notin bad
    <3>1. bad \in SUBSET SUBSET S
        OBVIOUS
    <3>2. QED
        BY <1>1, <3>1, SmallestBad
  <2>2. CASE u = {}
      BY <2>2, FS_EmptySet DEF Units
  <2>3. CASE u # {}
    <3>1. PICK x \in u : TRUE
        BY <2>3
    <3>2. IsFiniteSet(Units(w, u \ {x}))
        BY <2>1, <3>1
    <3>3. w[x] \in Nat
        OBVIOUS
    <3>4. IsFiniteSet(Units(w, {x}))
        BY <3>3, UnitsOfOne
    <3>5. Units(w, u) = Units(w, u \ {x}) \cup Units(w, {x})
        BY <3>1, UnitsSplit
    <3>6. QED
        BY <3>2, <3>4, <3>5, FS_Union
  <2>4. QED
      BY <2>2, <2>3
<1>2. QED
    BY <1>1, FS_CardinalityType

LEMMA SumsAdd ==
  ASSUME NEW S, IsFiniteSet(S), NEW w \in [S -> Nat]
  PROVE  Sums(w, S) = Adds(w, S, Sums(w, S))
<1> DEFINE size == [s \in SUBSET S |-> Cardinality(Units(w, s))]
<1>1. size = Adds(w, S, size)
  <2>1. ASSUME NEW s \in SUBSET S, s # {}
        PROVE  size[s] = w[Picked(s)] + size[s \ {Picked(s)}]
    <3>1. Picked(s) \in s /\ w[Picked(s)] \in Nat
        BY <2>1, PickedIs
    <3>2. /\ IsFiniteSet(Units(w, {Picked(s)}))
          /\ Cardinality(Units(w, {Picked(s)})) = w[Picked(s)]
        BY <3>1, UnitsOfOne
    <3>3. s \ {Picked(s)} \in SUBSET S
        OBVIOUS
    <3>4. /\ IsFiniteSet(Units(w, s \ {Picked(s)}))
          /\ Cardinality(Units(w, s \ {Picked(s)})) \in Nat
        BY <3>3, UnitsFinite
    <3>5. /\ Units(w, s) = Units(w, s \ {Picked(s)}) \cup Units(w, {Picked(s)})
          /\ Units(w, s \ {Picked(s)}) \cap Units(w, {Picked(s)}) = {}
        BY <3>1, UnitsSplit
    <3>6. Cardinality(Units(w, s))
            = Cardinality(Units(w, s \ {Picked(s)})) + Cardinality(Units(w, {Picked(s)}))
        BY <3>2, <3>4, <3>5, DisjointUnion
    <3>7. QED
        BY <3>1, <3>2, <3>3, <3>4, <3>6
  <2>2. size[{}] = 0
    <3>1. Units(w, {}) = {}
        BY DEF Units
    <3>2. QED
        BY <3>1, FS_EmptySet
  <2>3. QED
      BY <2>1, <2>2 DEF Adds
<1>2. \E sum : sum = Adds(w, S, sum)
    BY <1>1
<1>3. QED
    BY <1>2 DEF Sums

LEMMA SumIsNat ==
  ASSUME NEW S, IsFiniteSet(S), NEW w \in [S -> Nat]
  PROVE  Sums(w, S)[S] \in Nat
<1>a. PICK sum : sum = Sums(w, S)
    OBVIOUS
<1>1. \A s \in SUBSET S :
        sum[s] = IF s = {} THEN 0 ELSE w[Picked(s)] + sum[s \ {Picked(s)}]
  <2>1. sum = Adds(w, S, sum)
      BY <1>a, SumsAdd
  <2>2. QED
      BY <2>1 DEF Adds
<1> DEFINE bad == {u \in SUBSET S : sum[u] \notin Nat}
<1>2. ASSUME bad # {} PROVE FALSE
  <2>1. PICK u \in bad : \A x \in u : u \ {x} \notin bad
    <3>1. bad \in SUBSET SUBSET S
        OBVIOUS
    <3>2. QED
        BY <1>2, <3>1, SmallestBad
  <2>2. u # {}
      BY <1>1
  <2>3. Picked(u) \in u /\ w[Picked(u)] \in Nat
      BY <2>2, PickedIs
  <2>4. sum[u \ {Picked(u)}] \in Nat
      BY <2>1, <2>3
  <2>5. QED
      BY <1>1, <2>2, <2>3, <2>4
<1>3. QED
    BY <1>2, <1>a

-----------------------------------------------------------------------------
(* The mean time to recovery: the next success.                            *)

\* The first success after a failure in the connector's list started first.
LEMMA NextSuccessIs ==
  ASSUME ManualTypeOK, RowsInv, NEW r \in Stored, SuccessesAfter(r) # {}
  PROVE  /\ NextSuccess(r) \in SuccessesAfter(r)
         /\ \A s \in SuccessesAfter(r) : runRow[NextSuccess(r)].started <= runRow[s].started
<1> DEFINE starts == {runRow[s].started : s \in SuccessesAfter(r)}
<1>1. \A s \in SuccessesAfter(r) : /\ s \in Stored /\ runRow[s].started \in Nat
                                   /\ runRow[s].connector = runRow[r].connector
    BY DEF SuccessesAfter, Earlier, Stored, ManualTypeOK
<1>2. starts \subseteq Nat /\ starts # {}
    BY <1>1
<1>3. PICK n \in starts : \A k \in starts : ~(<<k, n>> \in OpToRel(<, Nat))
    BY <1>2, NatLessThanWellFounded, WFMin
<1>4. PICK s \in SuccessesAfter(r) : n = runRow[s].started
    BY <1>3
<1>5. \A k \in SuccessesAfter(r) : ~(runRow[k].started < runRow[s].started)
    BY <1>2, <1>3, <1>4 DEF OpToRel
<1>6. \A k \in SuccessesAfter(r) \ {s} : runRow[s].started < runRow[k].started
    BY <1>1, <1>5 DEF RowsInv
<1>7. \E m \in SuccessesAfter(r) : \A k \in SuccessesAfter(r) \ {m} : Earlier(m, k)
    BY <1>1, <1>6 DEF Earlier
<1>8. /\ NextSuccess(r) \in SuccessesAfter(r)
      /\ \A k \in SuccessesAfter(r) \ {NextSuccess(r)} : Earlier(NextSuccess(r), k)
    BY <1>7 DEF NextSuccess
<1>9. QED
    BY <1>1, <1>8 DEF Earlier

\* Without overlaps, what comes after in the list comes after the failure's end.
LEMMA StartsAre ==
  ASSUME ManualTypeOK, RowsInv, OneAfterAnother, NEW r \in Stored, runRow[r].status = "FAILED"
  PROVE  SuccessStarts(r) = {runRow[s].started : s \in SuccessesAfter(r)}
<1>1. /\ runRow[r].started \in Nat /\ runRow[r].finished \in Nat
      /\ runRow[r].started <= runRow[r].finished
    BY DEF RowsInv, ManualTypeOK, Stored
<1>2. \A s \in Stored : runRow[s].started \in Nat
    BY DEF ManualTypeOK, Stored
<1>3. ASSUME NEW s \in Stored, runRow[s].connector = runRow[r].connector
      PROVE  (runRow[s].started > runRow[r].finished) <=> (runRow[r].started < runRow[s].started)
  <2>1. (runRow[r].started < runRow[s].started) => runRow[r].finished < runRow[s].started
      BY <1>3 DEF OneAfterAnother, Earlier
  <2>2. QED
      BY <1>1, <1>2, <2>1
<1>4. SuccessesAfter(r) = {k \in Stored : /\ runRow[k].status = "SUCCESS"
                                          /\ runRow[k].connector = runRow[r].connector
                                          /\ runRow[k].started > runRow[r].finished}
    BY <1>3 DEF SuccessesAfter, Earlier
<1>5. QED
    BY <1>4 DEF SuccessStarts

LEMMA GapIs ==
  ASSUME ManualTypeOK, RowsInv, OneAfterAnother, NEW r \in Recovered
  PROVE  /\ Min(SuccessStarts(r)) = runRow[NextSuccess(r)].started
         /\ runRow[NextSuccess(r)].started - runRow[r].finished \in Nat
<1>1. r \in Stored /\ runRow[r].status = "FAILED" /\ SuccessesAfter(r) # {}
    BY DEF Recovered
<1>2. SuccessStarts(r) = {runRow[s].started : s \in SuccessesAfter(r)}
    BY <1>1, StartsAre
<1>3. /\ NextSuccess(r) \in SuccessesAfter(r)
      /\ \A s \in SuccessesAfter(r) : runRow[NextSuccess(r)].started <= runRow[s].started
    BY <1>1, NextSuccessIs
<1>4. \A s \in SuccessesAfter(r) : runRow[s].started \in Nat /\ s \in Stored /\ Earlier(r, s)
    BY DEF SuccessesAfter, Stored, ManualTypeOK
<1>5. /\ runRow[NextSuccess(r)].started \in SuccessStarts(r)
      /\ \A n \in SuccessStarts(r) : n \in Nat /\ runRow[NextSuccess(r)].started <= n
    BY <1>2, <1>3, <1>4
<1>6. /\ Min(SuccessStarts(r)) \in SuccessStarts(r)
      /\ \A n \in SuccessStarts(r) : Min(SuccessStarts(r)) <= n
    BY <1>5 DEF Min
<1>7. Min(SuccessStarts(r)) = runRow[NextSuccess(r)].started
    BY <1>5, <1>6
<1>8. runRow[r].finished < runRow[NextSuccess(r)].started
    BY <1>1, <1>3, <1>4 DEF OneAfterAnother
<1>9. runRow[r].finished \in Nat /\ runRow[NextSuccess(r)].started \in Nat
    BY <1>1, <1>3, <1>4 DEF Stored, ManualTypeOK
<1>10. QED
    BY <1>7, <1>8, <1>9

\* Both means add up the same times, none of which is negative.
LEMMA MeansAgree ==
  ASSUME ManualTypeOK, RowsInv, OneAfterAnother, Recovered # {}
  PROVE  Mttr = MapThenSumSet(LAMBDA r : Min(SuccessStarts(r)) - runRow[r].finished, Recovered)
                  \div Cardinality(Recovered)
<1> DEFINE time(r) == runRow[NextSuccess(r)].started - runRow[r].finished
           gap(r) == Min(SuccessStarts(r)) - runRow[r].finished
           times == [r \in Recovered |-> time(r)]
           AddsTimes(sum) == [s \in SUBSET Recovered |->
             IF s = {} THEN 0 ELSE time(Picked(s)) + sum[s \ {Picked(s)}]]
           AddsGaps(sum) == [s \in SUBSET Recovered |->
             IF s = {} THEN 0 ELSE gap(Picked(s)) + sum[s \ {Picked(s)}]]
<1>1. times \in [Recovered -> Nat]
    BY GapIs
<1>2. \A r \in Recovered : time(r) = times[r] /\ gap(r) = times[r]
    BY GapIs
<1>3. \A s \in SUBSET Recovered : s # {} => Picked(s) \in Recovered
    BY PickedIs
<1>4. \A sum : AddsTimes(sum) = Adds(times, Recovered, sum)
               /\ AddsGaps(sum) = Adds(times, Recovered, sum)
  <2> HIDE DEF time, gap, times
  <2>1. QED
      BY <1>2, <1>3 DEF Adds
<1>5. MapThenSumSet(LAMBDA r : runRow[NextSuccess(r)].started - runRow[r].finished, Recovered)
        = (CHOOSE sum : sum = AddsTimes(sum))[Recovered]
    BY DEF MapThenSumSet, MapThenFoldSet, Picked
<1>6. MapThenSumSet(LAMBDA r : Min(SuccessStarts(r)) - runRow[r].finished, Recovered)
        = (CHOOSE sum : sum = AddsGaps(sum))[Recovered]
    BY DEF MapThenSumSet, MapThenFoldSet, Picked
<1>7. /\ (CHOOSE sum : sum = AddsTimes(sum)) = Sums(times, Recovered)
      /\ (CHOOSE sum : sum = AddsGaps(sum)) = Sums(times, Recovered)
  <2> HIDE DEF AddsTimes, AddsGaps, times
  <2>1. \A sum : /\ (sum = AddsTimes(sum)) <=> (sum = Adds(times, Recovered, sum))
                 /\ (sum = AddsGaps(sum)) <=> (sum = Adds(times, Recovered, sum))
      BY <1>4
  <2>2. (CHOOSE sum : sum = AddsTimes(sum)) = (CHOOSE sum : sum = Adds(times, Recovered, sum))
      BY <2>1
  <2>3. (CHOOSE sum : sum = AddsGaps(sum)) = (CHOOSE sum : sum = Adds(times, Recovered, sum))
      BY <2>1
  <2>4. QED
      BY <2>2, <2>3 DEF Sums
<1>8. Sums(times, Recovered)[Recovered] \in Nat
  <2>1. Recovered \in SUBSET Stored
      BY DEF Recovered
  <2>2. IsFiniteSet(Recovered)
      BY <2>1, FS_Subset DEF RowsInv
  <2>3. QED
      BY <1>1, <2>2, SumIsNat
<1>9. Mttr = Mean(Sums(times, Recovered)[Recovered], Cardinality(Recovered))
    BY <1>5, <1>7 DEF Mttr
<1>10. Mttr = Sums(times, Recovered)[Recovered] \div Cardinality(Recovered)
    BY <1>8, <1>9 DEF Mean
<1> HIDE DEF times, AddsTimes, AddsGaps
<1>11. QED
    BY <1>6, <1>7, <1>10 DEF MapThenSumSet, MapThenFoldSet

LEMMA MttrIs ==
  ASSUME ManualTypeOK, RowsInv
  PROVE  MttrIsTimeToRecovery
<1> SUFFICES ASSUME OneAfterAnother
    PROVE  LET failed == {r \in Stored : runRow[r].status = "FAILED" /\ SuccessStarts(r) # {}}
               Gap(r) == Min(SuccessStarts(r)) - runRow[r].finished
           IN  Mttr = IF failed = {} THEN 0
                      ELSE MapThenSumSet(Gap, failed) \div Cardinality(failed)
    BY DEF MttrIsTimeToRecovery
<1>1. \A r \in Stored : runRow[r].status = "FAILED" =>
                          (SuccessStarts(r) # {} <=> SuccessesAfter(r) # {})
    BY StartsAre
<1>2. {r \in Stored : runRow[r].status = "FAILED" /\ SuccessStarts(r) # {}} = Recovered
    BY <1>1 DEF Recovered
<1>3. CASE Recovered = {}
    BY <1>2, <1>3 DEF Mttr
<1>4. CASE Recovered # {}
    BY <1>2, <1>4, MeansAgree
<1>5. QED
    BY <1>3, <1>4

\* While a connector's runs follow each other, mttr_seconds is the mean time from the
\* end of a failed run to the next start of one that succeeds, for any number of runs
\* (slo.compute_slo_metrics).
THEOREM MttrCorrect == Spec => []MttrIsTimeToRecovery
<1>1. ManualInv /\ ReaderInv => MttrIsTimeToRecovery
    BY MttrIs DEF ManualInv, ReaderInv
<1>2. QED
    BY <1>1, ReaderInvariant, PTL
=============================================================================
