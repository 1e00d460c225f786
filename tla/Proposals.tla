----------------------------- MODULE Proposals ------------------------------
(***************************************************************************)
(* Proposals of Connector Studio as GitHub pull requests.                  *)
(*                                                                         *)
(* propose_connector_change computes file changes from the working tree,   *)
(* creates a branch off the base branch, commits the files one by one,     *)
(* opens a pull request and records it in ProposalHistory.  Every request  *)
(* to GitHub may fail, before or after it took effect, and none is         *)
(* retried; proposals run side by side in the threads of the API.  The     *)
(* branch is named after the action, the connector and the second, so two  *)
(* proposals may share it.  Reviewers merge pull requests in any order.    *)
(***************************************************************************)
EXTENDS Studio, FiniteSets

CONSTANTS
    Users,      \* one per call of propose
    NoRequest,  \* the call has not come yet
    MaxSecond   \* bound on the seconds the clock of branch names ticks

ASSUME ProposalAssumption == NoRequest \notin Requests /\ MaxSecond \in Nat

VARIABLES
    second,   \* the clock of branch names
    branch,   \* GitHub: per branch name its fork point, its head and its pull request
    history,  \* table proposal_history: proposals recorded
    stage,    \* where each call is in propose_connector_change
    request,  \* local: the request of the call
    builtOn,  \* observation: the tree its file changes were computed from
    name,     \* local: the name of its branch
    forkSeen, \* local: the base branch as its ref was read
    unsent,   \* local: paths not yet committed
    sha       \* local: content of the next path on the branch when its sha was read

githubVars == <<base, branch>>
localVars  == <<request, builtOn, name, forkSeen, unsent, sha>>
proposalVars == <<second, branch, history, stage, localVars>>

Names == {[action |-> q.action, target |-> Target(q), at |-> s] :
              q \in Requests, s \in 0..MaxSecond}
Empty == [files |-> [c \in Connectors |-> Absent], jobs |-> [c \in Connectors |-> "none"]]
NoName == [action |-> "none"]
NoBranch == [pull |-> "no_branch", by |-> NoRequest, fork |-> Empty, head |-> Empty]
InFlight == {"ref", "branch", "sha", "put", "record"}

\* The part of a tree that one path of a proposal for q holds.
Content(t, q, path) ==
    IF path = "file" THEN [Empty EXCEPT !.files[Target(q)] = t.files[Target(q)]]
                     ELSE [Empty EXCEPT !.jobs = t.jobs]

\* The tree a call proposes, computed once.
Proposed(u) == [files |-> FilesAfter(request[u], builtOn[u]),
                jobs  |-> JobsAfter(request[u], builtOn[u])]

ProposalTypeOK ==
    /\ second \in 0..MaxSecond
    /\ branch \in [Names -> [pull : {"no_branch", "none", "open", "merged"},
                             by : Users \cup {NoRequest}, fork : Trees, head : Trees]]
    /\ history \in SUBSET Users
    /\ stage \in [Users -> {"new", "done", "failed"} \cup InFlight]
    /\ request \in [Users -> Requests \cup {NoRequest}]
    /\ builtOn \in [Users -> Trees]
    /\ name \in [Users -> Names \cup {NoName}]
    /\ forkSeen \in [Users -> Trees]
    /\ unsent \in [Users -> SUBSET {"file", "values"}]
    /\ sha \in [Users -> Trees]

ProposalInit ==
    /\ second = 0
    /\ branch = [n \in Names |-> NoBranch]
    /\ history = {}
    /\ stage = [u \in Users |-> "new"]
    /\ request = [u \in Users |-> NoRequest]
    /\ builtOn = [u \in Users |-> Empty]
    /\ name = [u \in Users |-> NoName]
    /\ forkSeen = [u \in Users |-> Empty]
    /\ unsent = [u \in Users |-> {}]
    /\ sha = [u \in Users |-> Empty]

GoTo(u, s) == stage' = [stage EXCEPT ![u] = s]

\* The call ends, and its locals with it.
EndCall(u, s) ==
    /\ GoTo(u, s)
    /\ unsent' = [unsent EXCEPT ![u] = {}]
    /\ forkSeen' = [forkSeen EXCEPT ![u] = Empty]
    /\ sha' = [sha EXCEPT ![u] = Empty]

-----------------------------------------------------------------------------
NextSecond ==
    /\ second < MaxSecond
    /\ second' = second + 1
    /\ UNCHANGED <<treeVars, branch, history, stage, localVars>>

\* The file changes, and the branch name of this second.
Propose(u, q) ==
    /\ stage[u] = "new"
    /\ ~Rejected(q, tree)
    /\ request' = [request EXCEPT ![u] = q]
    /\ builtOn' = [builtOn EXCEPT ![u] = tree]
    /\ name' = [name EXCEPT ![u] = [action |-> q.action, target |-> Target(q), at |-> second]]
    /\ unsent' = [unsent EXCEPT ![u] = Changes(q, tree)]
    /\ GoTo(u, "ref")
    /\ UNCHANGED <<treeVars, second, branch, history, forkSeen, sha>>

\* The user hears 400.
Reject(u, q) ==
    /\ stage[u] = "new"
    /\ Rejected(q, tree)
    /\ GoTo(u, "failed")
    /\ UNCHANGED <<treeVars, second, branch, history, localVars>>

\* GET git/ref/heads/<base>.
ReadBase(u) ==
    /\ stage[u] = "ref"
    /\ forkSeen' = [forkSeen EXCEPT ![u] = base]
    /\ GoTo(u, "branch")
    /\ UNCHANGED <<treeVars, second, branch, history, request, builtOn, name, unsent, sha>>

\* POST git/refs: 201, or 422 for a branch that exists, which is used as it is.
CreateBranch(u) ==
    /\ stage[u] = "branch"
    /\ branch' = IF branch[name[u]].pull # "no_branch" THEN branch
                 ELSE [branch EXCEPT ![name[u]] =
                         [pull |-> "none", by |-> NoRequest,
                          fork |-> forkSeen[u], head |-> forkSeen[u]]]
    /\ forkSeen' = [forkSeen EXCEPT ![u] = Empty]
    /\ GoTo(u, "sha")
    /\ UNCHANGED <<treeVars, second, history, request, builtOn, name, unsent, sha>>

\* Paths are committed in the order of their names: connectors/, then infra/.
NextPath(u) == IF "file" \in unsent[u] THEN "file" ELSE "values"
HeadOf(u)   == branch[name[u]].head

\* _get_file_sha: the sha names the content.
ReadSha(u) ==
    /\ stage[u] = "sha"
    /\ unsent[u] # {}
    /\ sha' = [sha EXCEPT ![u] = Content(HeadOf(u), request[u], NextPath(u))]
    /\ GoTo(u, "put")
    /\ UNCHANGED <<treeVars, second, branch, history, request, builtOn, name, forkSeen, unsent>>

Committed(u) ==
    LET c == Target(request[u])
    IN  IF NextPath(u) = "file" THEN [HeadOf(u) EXCEPT !.files[c] = Proposed(u).files[c]]
                                ELSE [HeadOf(u) EXCEPT !.jobs = Proposed(u).jobs]

\* PUT or DELETE contents/<path> with that sha; GitHub answers 409 or 422, and
\* the proposal fails, when the content is another one by then.  A file that is
\* to be deleted and is not there is passed over.
CommitFile(u) ==
    /\ stage[u] = "put"
    /\ Content(HeadOf(u), request[u], NextPath(u)) = sha[u]
    /\ branch' = [branch EXCEPT ![name[u]].head = Committed(u)]
    /\ unsent' = [unsent EXCEPT ![u] = @ \ {NextPath(u)}]
    /\ sha' = [sha EXCEPT ![u] = Empty]
    /\ GoTo(u, "sha")
    /\ UNCHANGED <<treeVars, second, history, request, builtOn, name, forkSeen>>

\* Mutant: the pull request is opened before the last file is committed.
FilesSentEarly(u) == stage[u] = "sha" /\ Cardinality(unsent[u]) <= 1

FilesSent(u) == stage[u] = "sha" /\ unsent[u] = {}

\* POST pulls: 422 when the branch has an open pull request or nothing to merge.
OpenPull(u) ==
    /\ FilesSent(u)
    /\ branch[name[u]].pull # "open"
    /\ branch[name[u]].head # branch[name[u]].fork
    /\ branch' = [branch EXCEPT ![name[u]].pull = "open", ![name[u]].by = u]
    /\ GoTo(u, "record")
    /\ UNCHANGED <<treeVars, second, history, localVars>>

\* The ProposalHistory row.
RecordProposal(u) ==
    /\ stage[u] = "record"
    /\ history' = history \cup {u}
    /\ EndCall(u, "done")
    /\ UNCHANGED <<treeVars, second, branch, request, builtOn, name>>

\* A request to GitHub, or to the database, fails before or after it took effect;
\* the user hears 400 or 500, and what is on GitHub stays there.
FailProposal(u) ==
    /\ stage[u] \in InFlight
    /\ EndCall(u, "failed")
    /\ UNCHANGED <<treeVars, second, branch, history, request, builtOn, name>>

-----------------------------------------------------------------------------
(* Three-way merge at GitHub, file by file and, in the values, job by job.  *)
MergeOf(ours, fork, theirs) == IF theirs = fork THEN ours ELSE theirs
Clash(ours, fork, theirs)   == theirs # fork /\ ours # fork /\ ours # theirs

MergePull(n) ==
    LET b == branch[n]
    IN  /\ b.pull = "open"
        /\ \A c \in Connectors : /\ ~Clash(base.files[c], b.fork.files[c], b.head.files[c])
                                 /\ ~Clash(base.jobs[c], b.fork.jobs[c], b.head.jobs[c])
        /\ base' = [files |-> [c \in Connectors |->
                                 MergeOf(base.files[c], b.fork.files[c], b.head.files[c])],
                    jobs  |-> [c \in Connectors |->
                                 MergeOf(base.jobs[c], b.fork.jobs[c], b.head.jobs[c])]]
        /\ branch' = [branch EXCEPT ![n].pull = "merged"]
        /\ UNCHANGED <<tree, second, history, stage, localVars>>

\* The API process ends, with the threads of its calls.
KillCalls ==
    LET Kept(f, none) == [u \in Users |-> IF stage[u] \in InFlight THEN none ELSE f[u]]
    IN  /\ stage' = Kept(stage, "failed")
        /\ unsent' = Kept(unsent, {})
        /\ forkSeen' = Kept(forkSeen, Empty)
        /\ sha' = Kept(sha, Empty)

ProposalNext ==
    \/ NextSecond
    \/ \E u \in Users :
          \/ \E q \in Requests : Propose(u, q) \/ Reject(u, q)
          \/ ReadBase(u) \/ CreateBranch(u) \/ ReadSha(u) \/ CommitFile(u)
          \/ OpenPull(u) \/ RecordProposal(u) \/ FailProposal(u)
    \/ \E n \in Names : MergePull(n)

-----------------------------------------------------------------------------
(* Properties.                                                             *)

Sharing(n) == {u \in Users : name[u] = n}

\* A pull request carries its proposal whole, whatever failed before it on the same
\* branch: every path of the call that opened it holds what that call, or another
\* one of the same branch name, wanted there, and no other path differs from the
\* base branch it was forked from.  A recorded proposal has such a pull request.
\* (github_pr.py commits file by file and opens the pull request last.)
PullRequestIsWhole ==
    /\ \A n \in Names : branch[n].pull \in {"open", "merged"} =>
         LET u == branch[n].by
         IN  /\ name[u] = n
             /\ \A path \in Changes(request[u], builtOn[u]) :
                   \E v \in Sharing(n) : /\ path \in Changes(request[v], builtOn[v])
                                         /\ Content(branch[n].head, request[u], path)
                                              = Content(Proposed(v), request[u], path)
             /\ \A c \in Connectors : branch[n].head.files[c] # branch[n].fork.files[c]
                                      => c = n.target
    /\ \A u \in history : branch[name[u]].pull \in {"open", "merged"}

\* A connector has a file and a job, or neither; it has a file and no job.
Matched(t, c)     == (t.files[c] = Absent) = (t.jobs[c] = "none")
Unscheduled(t, c) == t.files[c] # Absent /\ t.jobs[c] = "none"

Pulled(n)  == branch[n].pull \in {"open", "merged"}
PullsOf(c) == {n \in Names : n.target = c /\ Pulled(n)}

\* The working tree was older or younger than the base branch it was proposed for.
Outdated(n) == \E u \in Sharing(n) : builtOn[u] # branch[n].fork

\* Merging a pull request changes the schedule of a connector it is not about only
\* to what an outdated working tree said of it, against what the base branch said
\* when the pull request's branch was forked.  (The Helm values are rewritten
\* whole, from the tree of the API process.)
OnlyStaleTreesReschedule ==
    [][\A n \in Names : branch[n].pull = "open" /\ branch'[n].pull = "merged" =>
          \A c \in Connectors \ {n.target} : base'.jobs[c] # base.jobs[c] =>
             \E u \in Sharing(n) : /\ builtOn[u].jobs[c] # branch[n].fork.jobs[c]
                                   /\ base'.jobs[c] = builtOn[u].jobs[c]]_<<base, branch>>

\* As long as every pull request comes from proposals computed on the base branch's
\* own head, a connector of the base branch keeps its job and a job its connector,
\* however proposals overlap, fail half-way or are merged in another order: no schedule
\* without its file, which every CronJob run would fail on, and none that is lost.
\* Excepted are the connectors that had no job: they stay without one until a pull
\* request is about them, and one that was forked while there was no job may, with
\* another, leave a job without its file.
JobsMatchFiles ==
    \/ \E n \in Names : Pulled(n) /\ Outdated(n)
    \/ \A c \in Connectors :
          \/ Matched(base, c)
          \/ \E n \in PullsOf(c) : Unscheduled(branch[n].fork, c)
          \/ Unscheduled(base, c) /\ PullsOf(c) = {}
=============================================================================
