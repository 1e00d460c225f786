---------------------------- MODULE ControlPlane ----------------------------
(***************************************************************************)
(* The API process beside GitHub and the CronJobs: Connector Studio's      *)
(* proposals, its run-now tasks and the ops dashboard, over one working    *)
(* tree and one database.                                                  *)
(*                                                                         *)
(* The components meet in base and tree, which proposals read and, once    *)
(* merged and rolled out, change, and in runRow, which runs write and the  *)
(* dashboard reads.  A restart of the process ends every proposal, task    *)
(* and answer in flight.                                                   *)
(***************************************************************************)
EXTENDS Proposals, OpsSnapshot

vars == <<treeVars, proposalVars, manualVars, opsVars>>

ControlTypeOK == StudioTypeOK /\ ProposalTypeOK /\ ManualTypeOK /\ OpsTypeOK

\* The trees a repository may hold at first: one job for each connector, or none, as
\* for two of the connectors in connectors/.  The tree of the process may be an older
\* one.
Consistent(t) == \A c \in Connectors : Matched(t, c) \/ Unscheduled(t, c)

Init ==
    /\ {base, tree} \subseteq {t \in Trees : Consistent(t)}
    /\ ProposalInit /\ ManualInit /\ OpsInit

\* The process ends, in a crash or for a rollout of the newest head; GitHub, the
\* database and the pods of CronJobs stay.
Restart ==
    /\ \/ \E u \in Users : stage[u] \in InFlight
       \/ \E m \in Tickets : task[m] \in Working
       \/ step \notin {"idle", "done", "cut"}
    /\ KillCalls /\ KillTasks
    /\ step' = IF step = "idle" THEN "idle" ELSE IF step = "done" THEN "done" ELSE "cut"
    /\ tree' \in {tree, base}
    /\ UNCHANGED <<base, second, branch, history, request, builtOn, name,
                   clock, runRow, ticket, launched, pods,
                   asked, offset, answerVars, seen, expected, raced>>

Next ==
    \/ ProposalNext /\ UNCHANGED <<manualVars, opsVars>>
    \/ ManualNext /\ UNCHANGED <<proposalVars, opsVars>>
    \/ OpsNext /\ UNCHANGED proposalVars
    \/ Refresh /\ UNCHANGED <<proposalVars, manualVars, opsVars>>
    \/ Restart

Spec == Init /\ [][Next]_vars

\* A background task runs to its end as long as its process lives.
TaskMoves(m) == TaskStep(m) /\ UNCHANGED <<proposalVars, opsVars>>

FairSpec == Spec /\ \A m \in Tickets : WF_vars(TaskMoves(m))
=============================================================================
