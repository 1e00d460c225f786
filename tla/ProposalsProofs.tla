-------------------------- MODULE ProposalsProofs --------------------------
(***************************************************************************)
(* Theorems' lemmas about Proposals, for any number of calls, connectors   *)
(* and branch names: what a branch holds of the proposals that share it.   *)
(***************************************************************************)
EXTENDS Proposals, TLAPS

SideTypeOK == StudioTypeOK /\ ProposalTypeOK

\* A call that has begun has a request that was applicable, and its branch's name; a
\* call that has not begun has none.
NamedCalls ==
    \A u \in Users :
        /\ stage[u] = "new" => name[u] = NoName
        /\ name[u] # NoName =>
             /\ request[u] \in Requests /\ Applicable(request[u], builtOn[u])
             /\ name[u].target = Target(request[u]) /\ name[u].action = request[u].action
        /\ stage[u] \in InFlight \cup {"done"} => name[u] \in Names
        /\ stage[u] \in InFlight => unsent[u] \subseteq Changes(request[u], builtOn[u])
        /\ stage[u] \in {"ref", "branch"} => unsent[u] = Changes(request[u], builtOn[u])
        /\ stage[u] = "put" => unsent[u] # {}
        /\ stage[u] = "record" => unsent[u] = {}

\* Branches and pull requests are there when a call counts on them.
NamedBranches ==
    /\ \A u \in Users :
         /\ stage[u] \in {"sha", "put", "record"} => branch[name[u]].pull # "no_branch"
         /\ stage[u] = "record" \/ u \in history => branch[name[u]].pull \in {"open", "merged"}
         /\ u \in history => stage[u] = "done"
    /\ \A n \in Names : branch[n].pull \in {"open", "merged"} =>
         branch[n].by \in Users /\ name[branch[n].by] = n

\* Somebody's proposal of that branch name is what the branch holds at a path.
Holds(n, path) ==
    \E v \in Sharing(n) :
        /\ path \in Changes(request[v], builtOn[v])
        /\ IF path = "file" THEN branch[n].head.files[n.target] = Proposed(v).files[n.target]
                            ELSE branch[n].head.jobs = Proposed(v).jobs

\* What was sent is held, and by whoever opened the pull request, all of it.
SentIsHeld ==
    /\ \A u \in Users : stage[u] \in InFlight =>
         \A path \in Changes(request[u], builtOn[u]) \ unsent[u] : Holds(name[u], path)
    /\ \A n \in Names : branch[n].pull \in {"open", "merged"} =>
         \A path \in Changes(request[branch[n].by], builtOn[branch[n].by]) : Holds(n, path)

\* A branch changes one file, and other jobs only to what a tree said.
OwnPaths ==
    \A n \in Names : \A c \in Connectors : c # n.target =>
        /\ branch[n].head.files[c] = branch[n].fork.files[c]
        /\ \/ branch[n].head.jobs[c] = branch[n].fork.jobs[c]
           \/ \E u \in Sharing(n) : branch[n].head.jobs[c] = builtOn[u].jobs[c]

\* What a branch changes, somebody proposed.
HeldOrForked ==
    \A n \in Names :
        /\ branch[n].head.files = branch[n].fork.files \/ Holds(n, "file")
        /\ branch[n].head.jobs = branch[n].fork.jobs \/ Holds(n, "values")

ProposalInv ==
    SideTypeOK /\ NamedCalls /\ NamedBranches /\ SentIsHeld /\ OwnPaths /\ HeldOrForked

-----------------------------------------------------------------------------
LEMMA TreesAre ==
  ASSUME NEW t \in Trees, NEW c \in Connectors
  PROVE  /\ t.files \in [Connectors -> ConnectorSpec \cup {Absent}] /\ t.jobs \in Jobs
         /\ t.files[c] \in ConnectorSpec \cup {Absent}
         /\ t.jobs[c] \in {"none", "enabled", "disabled"}
  BY DEF Trees, Jobs

LEMMA EmptyIsTree == Empty \in Trees
  BY DEF Empty, Trees, Jobs

LEMMA RequestsAre ==
  ASSUME NEW q \in Requests
  PROVE  /\ q.action \in Writing \cup {"delete", "pause", "resume"}
         /\ q.connector \in Connectors /\ q.name \in Connectors /\ q.draft \in ConnectorSpec
         /\ q.enabled \in BOOLEAN /\ Target(q) \in Connectors
  BY StudioAssumption DEF Target, Writing

LEMMA NamesAre ==
  ASSUME NEW n \in Names
  PROVE  n # NoName /\ n.target \in Connectors
<1>1. PICK q \in Requests, s \in 0..MaxSecond :
         n = [action |-> q.action, target |-> Target(q), at |-> s]
    BY DEF Names
<1>2. n.action = q.action /\ q.action # "none" /\ n.target \in Connectors
    BY <1>1, RequestsAre DEF Writing
<1>3. NoName.action = "none"
    BY DEF NoName
<1>4. QED
    BY <1>2, <1>3

\* What a call proposes is a tree, and touches other jobs no more than other files.
LEMMA ProposedIs ==
  ASSUME NEW q \in Requests, NEW t \in Trees, Applicable(q, t)
  PROVE  /\ FilesAfter(q, t) \in [Connectors -> ConnectorSpec \cup {Absent}]
         /\ JobsAfter(q, t) \in Jobs
         /\ \A c \in Connectors \ {Target(q)} : JobsAfter(q, t)[c] = t.jobs[c]
<1>0. /\ t.files \in [Connectors -> ConnectorSpec \cup {Absent}]
      /\ t.jobs \in [Connectors -> {"none", "enabled", "disabled"}]
    BY TreesAre, RequestsAre DEF Jobs
<1>1. CASE q.action \in Writing
  <2>1. Drafted(q, t) \in ConnectorSpec
    <3>1. CASE q.action = "create"
        BY <3>1, RequestsAre DEF Drafted
    <3>2. CASE q.action # "create"
      <4>1. t.files[q.connector] \in ConnectorSpec
          BY <1>1, <3>2, <1>0, RequestsAre DEF Applicable, Writing
      <4>2. Merged(t.files[q.connector], q.draft) \in ConnectorSpec
          BY <4>1, RequestsAre DEF Merged, ConnectorSpec, Fields
      <4>3. Pruned(Merged(t.files[q.connector], q.draft)) \in ConnectorSpec
          BY <4>2 DEF Pruned, ConnectorSpec, Fields
      <4>4. QED
          BY <3>2, <4>3 DEF Drafted
    <3>3. QED
        BY <3>1, <3>2
  <2>2. /\ FilesAfter(q, t) = [t.files EXCEPT ![q.name] = Drafted(q, t)]
        /\ JobsAfter(q, t) = [t.jobs EXCEPT ![q.name] = IF q.enabled THEN "enabled" ELSE "disabled"]
        /\ Target(q) = q.name
      BY <1>1 DEF FilesAfter, JobsAfter, Target, Writing
  <2>3. QED
      BY <1>0, <2>1, <2>2, RequestsAre DEF Jobs
<1>2. CASE q.action = "delete"
  <2>1. /\ FilesAfter(q, t) = [t.files EXCEPT ![q.connector] = Absent]
        /\ JobsAfter(q, t) = [t.jobs EXCEPT ![q.connector] = "none"]
        /\ Target(q) = q.connector
      BY <1>2 DEF FilesAfter, JobsAfter, Target, Writing
  <2>2. QED
      BY <1>0, <2>1, RequestsAre DEF Jobs
<1>3. CASE q.action \in {"pause", "resume"}
  <2>1. /\ FilesAfter(q, t) = t.files
        /\ JobsAfter(q, t) = [t.jobs EXCEPT ![q.connector] =
                                 IF q.action = "pause" THEN "disabled" ELSE "enabled"]
        /\ Target(q) = q.connector
      BY <1>3 DEF FilesAfter, JobsAfter, Target, Writing
  <2>2. QED
      BY <1>0, <2>1, RequestsAre DEF Jobs
<1>4. QED
    BY <1>1, <1>2, <1>3, RequestsAre

LEMMA ProposalInitInv == StudioTypeOK /\ ProposalInit => ProposalInv
  BY EmptyIsTree, ProposalAssumption, NamesAre
  DEF ProposalInit, ProposalInv, SideTypeOK, ProposalTypeOK, NamedCalls, NamedBranches, SentIsHeld,
      OwnPaths, HeldOrForked, NoBranch, InFlight, NoName

-----------------------------------------------------------------------------
LEMMA HoldsKept ==
  ASSUME NEW n \in Names, NEW path, Holds(n, path), UNCHANGED <<request, builtOn, name>>,
         branch'[n].head = branch[n].head
  PROVE  Holds(n, path)'
  BY DEF Holds, Sharing, Proposed

\* Steps that leave GitHub and the proposals alone: a call moves on, or fails.
LEMMA QuietStep ==
  ASSUME ProposalInv, SideTypeOK', UNCHANGED <<branch, history, request, builtOn, name>>,
         \A u \in Users :
            \/ /\ unsent'[u] = unsent[u]
               /\ \/ stage'[u] = stage[u]
                  \/ stage[u] = "ref" /\ stage'[u] = "branch"
                  \/ stage[u] = "sha" /\ stage'[u] = "put" /\ unsent[u] # {}
            \/ stage'[u] = "failed" /\ stage[u] # "done"
  PROVE  ProposalInv'
<1>1. NamedCalls'
    BY DEF ProposalInv, NamedCalls, InFlight
<1>2. NamedBranches'
    BY DEF ProposalInv, NamedBranches
<1>3. SentIsHeld'
  <2>1. ASSUME NEW u \in Users, stage'[u] \in InFlight,
               NEW path \in Changes(request[u], builtOn[u]) \ unsent'[u]
        PROVE  Holds(name[u], path)'
    <3>1. stage[u] \in InFlight /\ unsent'[u] = unsent[u] /\ name[u] \in Names
        BY <2>1 DEF ProposalInv, NamedCalls, InFlight
    <3>2. Holds(name[u], path)
        BY <2>1, <3>1 DEF ProposalInv, SentIsHeld
    <3>3. QED
        BY <3>1, <3>2, HoldsKept
  <2>2. ASSUME NEW n \in Names, branch[n].pull \in {"open", "merged"},
               NEW path \in Changes(request[branch[n].by], builtOn[branch[n].by])
        PROVE  Holds(n, path)'
      BY <2>2, HoldsKept DEF ProposalInv, SentIsHeld
  <2>3. QED
      BY <2>1, <2>2 DEF SentIsHeld
<1>4. OwnPaths'
    BY DEF ProposalInv, OwnPaths, Sharing
<1>5. HeldOrForked'
    BY HoldsKept DEF ProposalInv, HeldOrForked
<1>6. QED
    BY <1>1, <1>2, <1>3, <1>4, <1>5 DEF ProposalInv

\* A step that changes one branch at most.
LEMMA BranchesElsewhere ==
  ASSUME ProposalInv, NEW n \in Names, UNCHANGED <<request, builtOn, name>>,
         \A k \in Names \ {n} : branch'[k] = branch[k],
         \A path : Holds(n, path) => Holds(n, path)'
  PROVE  /\ \A u \in Users : stage[u] \in InFlight =>
              \A path \in Changes(request[u], builtOn[u]) \ unsent[u] : Holds(name[u], path)'
         /\ \A k \in Names : branch[k].pull \in {"open", "merged"} =>
              \A path \in Changes(request[branch[k].by], builtOn[branch[k].by]) : Holds(k, path)'
<1>1. \A k \in Names : \A path : Holds(k, path) => Holds(k, path)'
    BY HoldsKept
<1>2. QED
    BY <1>1 DEF ProposalInv, SentIsHeld, NamedCalls

-----------------------------------------------------------------------------
LEMMA ProposeStep ==
  ASSUME ProposalInv, NEW u \in Users, NEW q \in Requests, Propose(u, q)
  PROVE  ProposalInv'
<1>1. /\ stage[u] = "new" /\ ~Rejected(q, tree)
      /\ request' = [request EXCEPT ![u] = q] /\ builtOn' = [builtOn EXCEPT ![u] = tree]
      /\ name' = [name EXCEPT ![u] = [action |-> q.action, target |-> Target(q), at |-> second]]
      /\ unsent' = [unsent EXCEPT ![u] = Changes(q, tree)]
      /\ stage' = [stage EXCEPT ![u] = "ref"]
      /\ UNCHANGED <<base, tree, second, branch, history, forkSeen, sha>>
    BY DEF Propose, GoTo, treeVars
<1>a. SideTypeOK /\ name[u] = NoName /\ u \notin history
    BY <1>1 DEF ProposalInv, NamedCalls, NamedBranches
<1>b. name'[u] \in Names /\ name'[u].target = Target(q) /\ name'[u].action = q.action
    BY <1>1, <1>a DEF SideTypeOK, ProposalTypeOK, Names
<1>c. /\ request'[u] = q /\ builtOn'[u] = tree /\ stage'[u] = "ref"
      /\ unsent'[u] = Changes(q, tree) /\ Applicable(q, tree)
    BY <1>1, <1>a DEF SideTypeOK, ProposalTypeOK, Rejected
<1>d. \A v \in Users \ {u} :
        /\ request'[v] = request[v] /\ builtOn'[v] = builtOn[v] /\ name'[v] = name[v]
        /\ unsent'[v] = unsent[v] /\ stage'[v] = stage[v]
    BY <1>1, <1>a DEF SideTypeOK, ProposalTypeOK
<1>2. SideTypeOK'
  <2>1. Changes(q, tree) \subseteq {"file", "values"}
      BY DEF Changes
  <2>2. /\ request' \in [Users -> Requests \cup {NoRequest}]
        /\ builtOn' \in [Users -> Trees]
        /\ name' \in [Users -> Names \cup {NoName}]
        /\ unsent' \in [Users -> SUBSET {"file", "values"}]
        /\ stage' \in [Users -> {"new", "done", "failed"} \cup InFlight]
      BY <1>1, <1>a, <1>b, <2>1 DEF SideTypeOK, StudioTypeOK, ProposalTypeOK, InFlight
  <2>3. QED
      BY <1>1, <1>a, <2>2 DEF SideTypeOK, StudioTypeOK, ProposalTypeOK
<1>3. NamedCalls'
  <2>1. \A v \in Users \ {u} : stage'[v] = "new" => name'[v] = NoName
      BY <1>d DEF ProposalInv, NamedCalls
  <2>2. QED
      BY <1>b, <1>c, <1>d DEF ProposalInv, NamedCalls, InFlight
<1>4. NamedBranches'
  <2>1. \A n \in Names : branch[n].pull \in {"open", "merged"} => branch[n].by # u
      BY <1>a, NamesAre DEF ProposalInv, NamedBranches
  <2>2. QED
      BY <1>1, <1>a, <1>c, <1>d, <2>1 DEF ProposalInv, NamedBranches
<1>5. \A n \in Names : \A path : Holds(n, path) => Holds(n, path)'
  <2> SUFFICES ASSUME NEW n \in Names, NEW path, Holds(n, path) PROVE Holds(n, path)'
      OBVIOUS
  <2>1. PICK v \in Sharing(n) :
          /\ path \in Changes(request[v], builtOn[v])
          /\ IF path = "file" THEN branch[n].head.files[n.target] = Proposed(v).files[n.target]
                              ELSE branch[n].head.jobs = Proposed(v).jobs
      BY DEF Holds
  <2>2. v \in Users /\ name[v] = n /\ v # u
      BY <1>a, NamesAre DEF Sharing
  <2>3. request'[v] = request[v] /\ builtOn'[v] = builtOn[v] /\ name'[v] = n
      BY <1>d, <2>2
  <2>4. v \in Sharing(n)' /\ Proposed(v)' = Proposed(v)
      BY <2>2, <2>3 DEF Sharing, Proposed
  <2>5. QED
      BY <1>1, <2>1, <2>3, <2>4 DEF Holds
<1>6. SentIsHeld'
  <2>1. ASSUME NEW v \in Users, stage'[v] \in InFlight,
               NEW path \in Changes(request'[v], builtOn'[v]) \ unsent'[v]
        PROVE  Holds(name[v], path)'
    <3>1. v # u
        BY <1>c, <2>1
    <3>2. PICK n \in Names : n = name[v] /\ n = name'[v] /\ Holds(n, path)
        BY <1>d, <2>1, <3>1 DEF ProposalInv, SentIsHeld, NamedCalls
    <3>3. Holds(n, path)'
        BY <1>5, <3>2
    <3>4. QED
        BY <3>2, <3>3
  <2>2. ASSUME NEW n \in Names, branch[n].pull \in {"open", "merged"},
               NEW path \in Changes(request'[branch[n].by], builtOn'[branch[n].by])
        PROVE  Holds(n, path)'
    <3>1. branch[n].by \in Users /\ branch[n].by # u
        BY <1>a, <2>2, NamesAre DEF ProposalInv, NamedBranches
    <3>2. path \in Changes(request[branch[n].by], builtOn[branch[n].by])
        BY <1>d, <2>2, <3>1
    <3>3. QED
        BY <1>5, <2>2, <3>2 DEF ProposalInv, SentIsHeld
  <2>3. QED
      BY <1>1, <2>1, <2>2 DEF SentIsHeld
<1>7. OwnPaths'
  <2>1. \A n \in Names : \A v \in Sharing(n) :
          v \in Sharing(n)' /\ builtOn'[v] = builtOn[v]
      BY <1>a, <1>d, NamesAre DEF Sharing
  <2>2. QED
      BY <1>1, <2>1 DEF ProposalInv, OwnPaths
<1>8. HeldOrForked'
    BY <1>1, <1>5 DEF ProposalInv, HeldOrForked
<1>9. QED
    BY <1>2, <1>3, <1>4, <1>6, <1>7, <1>8 DEF ProposalInv

LEMMA BranchTypes ==
  ASSUME SideTypeOK, NEW n \in Names
  PROVE  /\ branch[n] \in [pull : {"no_branch", "none", "open", "merged"},
                          by : Users \cup {NoRequest}, fork : Trees, head : Trees]
         /\ branch[n].fork \in Trees /\ branch[n].head \in Trees
  BY DEF SideTypeOK, ProposalTypeOK

LEMMA CreateBranchStep ==
  ASSUME ProposalInv, NEW u \in Users, CreateBranch(u)
  PROVE  ProposalInv'
<1> DEFINE n == name[u]
<1> DEFINE new == [pull |-> "none", by |-> NoRequest, fork |-> forkSeen[u], head |-> forkSeen[u]]
<1>1. /\ stage[u] = "branch" /\ stage' = [stage EXCEPT ![u] = "sha"]
      /\ forkSeen' = [forkSeen EXCEPT ![u] = Empty]
      /\ branch' = IF branch[n].pull # "no_branch" THEN branch ELSE [branch EXCEPT ![n] = new]
      /\ UNCHANGED <<base, tree, second, history, request, builtOn, name, unsent, sha>>
    BY DEF CreateBranch, GoTo, treeVars
<1>a. SideTypeOK /\ n \in Names
    BY <1>1 DEF ProposalInv, NamedCalls, InFlight
<1>b. /\ stage'[u] = "sha" /\ unsent[u] = Changes(request[u], builtOn[u])
      /\ \A v \in Users \ {u} : stage'[v] = stage[v]
    BY <1>1, <1>a DEF SideTypeOK, ProposalTypeOK, ProposalInv, NamedCalls
<1>c. /\ \A k \in Names \ {n} : branch'[k] = branch[k]
      /\ branch[n].pull # "no_branch" => branch'[n] = branch[n]
      /\ branch[n].pull = "no_branch" =>
           /\ branch'[n].pull = "none" /\ branch'[n].head = branch'[n].fork
    BY <1>1, <1>a DEF SideTypeOK, ProposalTypeOK
<1>2. SideTypeOK'
  <2>1. forkSeen[u] \in Trees
      BY <1>a DEF SideTypeOK, ProposalTypeOK
  <2>2. new \in [pull : {"no_branch", "none", "open", "merged"},
                by : Users \cup {NoRequest}, fork : Trees, head : Trees]
      BY <2>1
  <2>3. branch' \in [Names -> [pull : {"no_branch", "none", "open", "merged"},
                               by : Users \cup {NoRequest}, fork : Trees, head : Trees]]
      BY <1>1, <1>a, <2>2 DEF SideTypeOK, ProposalTypeOK
  <2>4. forkSeen' \in [Users -> Trees]
      BY <1>1, <1>a, EmptyIsTree DEF SideTypeOK, ProposalTypeOK
  <2>5. stage' \in [Users -> {"new", "done", "failed"} \cup InFlight]
      BY <1>1, <1>a DEF SideTypeOK, ProposalTypeOK, InFlight
  <2>6. QED
      BY <1>1, <1>a, <2>3, <2>4, <2>5 DEF SideTypeOK, StudioTypeOK, ProposalTypeOK
<1>3. NamedCalls'
    BY <1>1, <1>b DEF ProposalInv, NamedCalls, InFlight
<1>4. NamedBranches'
  <2>1. branch'[n].pull # "no_branch"
      BY <1>c
  <2>2. \A k \in Names : branch'[k].pull \in {"open", "merged"} => branch'[k] = branch[k]
      BY <1>c
  <2>3. \A k \in Names : branch[k].pull # "no_branch" => branch'[k] = branch[k]
      BY <1>c
  <2>4. u \notin history
      BY <1>1 DEF ProposalInv, NamedBranches
  <2>5. ASSUME NEW v \in Users
        PROVE  /\ stage'[v] \in {"sha", "put", "record"} => branch'[name[v]].pull # "no_branch"
               /\ stage'[v] = "record" \/ v \in history =>
                    branch'[name[v]].pull \in {"open", "merged"}
               /\ v \in history => stage'[v] = "done"
    <3>1. CASE v = u
        BY <1>b, <2>1, <2>4, <3>1
    <3>2. CASE v # u
      <4>1. stage'[v] = stage[v]
          BY <1>b, <3>2
      <4>2. stage[v] \in InFlight \cup {"done"} => name[v] \in Names
          BY DEF ProposalInv, NamedCalls
      <4>3. QED
          BY <2>3, <4>1, <4>2 DEF ProposalInv, NamedBranches, InFlight
    <3>3. QED
        BY <3>1, <3>2
  <2>6. QED
      BY <1>1, <2>2, <2>5 DEF ProposalInv, NamedBranches
<1>5. SentIsHeld'
  <2>1. \A k \in Names : branch[k].pull # "no_branch" => branch'[k] = branch[k]
      BY <1>c
  <2>2. ASSUME NEW v \in Users, stage'[v] \in InFlight,
               NEW path \in Changes(request[v], builtOn[v]) \ unsent[v]
        PROVE  Holds(name[v], path)'
    <3>1. v # u
        BY <1>b, <2>2
    <3>2. stage[v] \in InFlight /\ stage[v] \notin {"ref", "branch"}
        BY <1>b, <2>2, <3>1 DEF ProposalInv, NamedCalls
    <3>3. name[v] \in Names /\ branch'[name[v]] = branch[name[v]]
        BY <2>1, <3>2 DEF ProposalInv, NamedCalls, NamedBranches, InFlight
    <3>4. Holds(name[v], path)
        BY <2>2, <3>2 DEF ProposalInv, SentIsHeld
    <3>5. QED
        BY <1>1, <3>3, <3>4, HoldsKept
  <2>3. ASSUME NEW k \in Names, branch'[k].pull \in {"open", "merged"},
               NEW path \in Changes(request[branch'[k].by], builtOn[branch'[k].by])
        PROVE  Holds(k, path)'
    <3>1. branch'[k] = branch[k]
        BY <1>c, <2>3
    <3>2. Holds(k, path)
        BY <2>3, <3>1 DEF ProposalInv, SentIsHeld
    <3>3. QED
        BY <1>1, <3>1, <3>2, HoldsKept
  <2>4. QED
      BY <1>1, <2>2, <2>3 DEF SentIsHeld
<1>6. OwnPaths'
    BY <1>1, <1>c DEF ProposalInv, OwnPaths, Sharing
<1>7. HeldOrForked'
  <2>1. UNCHANGED <<request, builtOn, name>>
      BY <1>1
  <2>2. \A k \in Names : branch'[k] = branch[k] \/ branch'[k].head = branch'[k].fork
      BY <1>c
  <2>3. QED
      BY <2>1, <2>2, HoldsKept DEF ProposalInv, HeldOrForked
<1>8. QED
    BY <1>2, <1>3, <1>4, <1>5, <1>6, <1>7 DEF ProposalInv

\* The pull request of a branch that keeps its content.
LEMMA OpenPullStep ==
  ASSUME ProposalInv, NEW u \in Users, OpenPull(u)
  PROVE  ProposalInv'
<1> DEFINE n == name[u]
<1>1. /\ stage[u] = "sha" /\ unsent[u] = {} /\ stage' = [stage EXCEPT ![u] = "record"]
      /\ branch' = [branch EXCEPT ![n].pull = "open", ![n].by = u]
      /\ UNCHANGED <<base, tree, second, history, request, builtOn, name, forkSeen, unsent, sha>>
    BY DEF OpenPull, FilesSent, GoTo, treeVars, localVars
<1>a. SideTypeOK /\ n \in Names /\ u \notin history
    BY <1>1 DEF ProposalInv, NamedCalls, NamedBranches, InFlight
<1>b. stage'[u] = "record" /\ \A v \in Users \ {u} : stage'[v] = stage[v]
    BY <1>1, <1>a DEF SideTypeOK, ProposalTypeOK
<1>c. branch' = [branch EXCEPT ![n] = [[branch[n] EXCEPT !.pull = "open"] EXCEPT !.by = u]]
    BY <1>1, <1>a DEF SideTypeOK, ProposalTypeOK
<1>d. /\ \A k \in Names \ {n} : branch'[k] = branch[k]
      /\ branch'[n].pull = "open" /\ branch'[n].by = u
      /\ branch'[n].head = branch[n].head /\ branch'[n].fork = branch[n].fork
      /\ branch'[n] \in [pull : {"no_branch", "none", "open", "merged"},
                         by : Users \cup {NoRequest}, fork : Trees, head : Trees]
  <2>1. branch[n] \in [pull : {"no_branch", "none", "open", "merged"},
                       by : Users \cup {NoRequest}, fork : Trees, head : Trees]
      BY <1>a, BranchTypes
  <2>2. /\ \A k \in Names \ {n} : branch'[k] = branch[k]
        /\ branch'[n] = [[branch[n] EXCEPT !.pull = "open"] EXCEPT !.by = u]
      BY <1>a, <1>c DEF SideTypeOK, ProposalTypeOK
  <2>3. QED
      BY <2>1, <2>2
<1>2. SideTypeOK'
  <2>1. branch' \in [Names -> [pull : {"no_branch", "none", "open", "merged"},
                               by : Users \cup {NoRequest}, fork : Trees, head : Trees]]
      BY <1>a, <1>c, <1>d DEF SideTypeOK, ProposalTypeOK
  <2>2. stage' \in [Users -> {"new", "done", "failed"} \cup InFlight]
      BY <1>1, <1>a DEF SideTypeOK, ProposalTypeOK, InFlight
  <2>3. QED
      BY <1>1, <1>a, <2>1, <2>2 DEF SideTypeOK, StudioTypeOK, ProposalTypeOK
<1>3. NamedCalls'
    BY <1>1, <1>b DEF ProposalInv, NamedCalls, InFlight
<1>4. NamedBranches'
  <2>1. ASSUME NEW v \in Users
        PROVE  /\ stage'[v] \in {"sha", "put", "record"} => branch'[name[v]].pull # "no_branch"
               /\ stage'[v] = "record" \/ v \in history =>
                    branch'[name[v]].pull \in {"open", "merged"}
               /\ v \in history => stage'[v] = "done"
    <3>1. CASE v = u
        BY <1>a, <1>b, <1>d, <3>1
    <3>2. CASE v # u
      <4>1. stage'[v] = stage[v]
          BY <1>b, <3>2
      <4>2. stage[v] \in InFlight \cup {"done"} => name[v] \in Names
          BY DEF ProposalInv, NamedCalls
      <4>3. CASE name[v] = n
          BY <1>d, <4>1, <4>3 DEF ProposalInv, NamedBranches
      <4>4. CASE name[v] # n
          BY <1>d, <4>1, <4>2, <4>4 DEF ProposalInv, NamedBranches, InFlight
      <4>5. QED
          BY <4>3, <4>4
    <3>3. QED
        BY <3>1, <3>2
  <2>2. \A k \in Names : branch'[k].pull \in {"open", "merged"} =>
          branch'[k].by \in Users /\ name[branch'[k].by] = k
      BY <1>d DEF ProposalInv, NamedBranches
  <2>3. QED
      BY <1>1, <2>1, <2>2 DEF NamedBranches
<1>5. SentIsHeld'
  <2>1. \A k \in Names : branch'[k].head = branch[k].head
      BY <1>d
  <2>2. ASSUME NEW v \in Users, stage'[v] \in InFlight,
               NEW path \in Changes(request[v], builtOn[v]) \ unsent[v]
        PROVE  Holds(name[v], path)'
    <3>1. stage[v] \in InFlight
        BY <1>1, <1>b, <2>2 DEF InFlight
    <3>2. name[v] \in Names /\ Holds(name[v], path)
        BY <2>2, <3>1 DEF ProposalInv, NamedCalls, SentIsHeld
    <3>3. QED
        BY <1>1, <2>1, <3>2, HoldsKept
  <2>3. ASSUME NEW k \in Names, branch'[k].pull \in {"open", "merged"},
               NEW path \in Changes(request[branch'[k].by], builtOn[branch'[k].by])
        PROVE  Holds(k, path)'
    <3>1. Holds(k, path)
      <4>1. CASE k = n
          BY <1>1, <1>d, <2>3, <4>1 DEF ProposalInv, SentIsHeld, InFlight
      <4>2. CASE k # n
          BY <1>d, <2>3, <4>2 DEF ProposalInv, SentIsHeld
      <4>3. QED
          BY <4>1, <4>2
    <3>2. QED
        BY <1>1, <2>1, <3>1, HoldsKept
  <2>4. QED
      BY <1>1, <2>2, <2>3 DEF SentIsHeld
<1>6. OwnPaths'
  <2>1. ASSUME NEW k \in Names, NEW c \in Connectors, c # k.target
        PROVE  /\ branch'[k].head.files[c] = branch'[k].fork.files[c]
               /\ \/ branch'[k].head.jobs[c] = branch'[k].fork.jobs[c]
                  \/ \E v \in Sharing(k) : branch'[k].head.jobs[c] = builtOn[v].jobs[c]
    <3>1. branch'[k].head = branch[k].head /\ branch'[k].fork = branch[k].fork
        BY <1>d
    <3>2. QED
        BY <2>1, <3>1 DEF ProposalInv, OwnPaths
  <2>2. builtOn' = builtOn /\ \A k \in Names : Sharing(k)' = Sharing(k)
      BY <1>1 DEF Sharing
  <2>3. QED
      BY <2>1, <2>2 DEF OwnPaths
<1>7. HeldOrForked'
  <2>1. UNCHANGED <<request, builtOn, name>>
      BY <1>1
  <2>2. \A k \in Names : branch'[k].head = branch[k].head /\ branch'[k].fork = branch[k].fork
      BY <1>d
  <2>3. QED
      BY <2>1, <2>2, HoldsKept DEF ProposalInv, HeldOrForked
<1>8. QED
    BY <1>2, <1>3, <1>4, <1>5, <1>6, <1>7 DEF ProposalInv

\* A commit changes one path of one branch, to what its call proposes.
LEMMA CommittedIs ==
  ASSUME ProposalInv, NEW u \in Users, stage[u] = "put"
  PROVE  /\ name[u] \in Names /\ NextPath(u) \in unsent[u] /\ NextPath(u) \in {"file", "values"}
         /\ NextPath(u) \in Changes(request[u], builtOn[u])
         /\ name[u].target \in Connectors /\ name[u].target = Target(request[u])
         /\ Committed(u) \in Trees
         /\ NextPath(u) = "file" =>
              /\ Committed(u).files = [HeadOf(u).files EXCEPT ![name[u].target] =
                                          Proposed(u).files[name[u].target]]
              /\ Committed(u).jobs = HeadOf(u).jobs
         /\ NextPath(u) = "values" =>
              /\ Committed(u).files = HeadOf(u).files
              /\ Committed(u).jobs = Proposed(u).jobs
<1>1. /\ SideTypeOK /\ name[u] \in Names /\ name[u] # NoName
      /\ unsent[u] # {} /\ unsent[u] \subseteq Changes(request[u], builtOn[u])
      /\ Applicable(request[u], builtOn[u])
    BY NamesAre DEF ProposalInv, NamedCalls, InFlight
<1>2. /\ request[u] \in Requests /\ name[u].target = Target(request[u])
      /\ builtOn[u] \in Trees /\ name[u].target \in Connectors
      /\ unsent[u] \subseteq {"file", "values"}
    BY <1>1, NamesAre DEF ProposalInv, NamedCalls, SideTypeOK, ProposalTypeOK
<1>3. NextPath(u) \in unsent[u] /\ NextPath(u) \in {"file", "values"}
    BY <1>1, <1>2 DEF NextPath
<1>4. /\ Proposed(u).files \in [Connectors -> ConnectorSpec \cup {Absent}]
      /\ Proposed(u).jobs \in Jobs
    BY <1>1, <1>2, ProposedIs DEF Proposed
<1>5. HeadOf(u) \in [files : [Connectors -> ConnectorSpec \cup {Absent}], jobs : Jobs]
    BY <1>1, BranchTypes DEF HeadOf, Trees
<1>6. ASSUME NextPath(u) = "file"
      PROVE  /\ Committed(u).files = [HeadOf(u).files EXCEPT ![name[u].target] =
                                         Proposed(u).files[name[u].target]]
             /\ Committed(u).jobs = HeadOf(u).jobs /\ Committed(u) \in Trees
  <2>1. Committed(u) = [HeadOf(u) EXCEPT !.files[name[u].target] = Proposed(u).files[name[u].target]]
      BY <1>2, <1>6 DEF Committed
  <2>2. Proposed(u).files[name[u].target] \in ConnectorSpec \cup {Absent}
      BY <1>2, <1>4
  <2>3. QED
      BY <1>5, <2>1, <2>2 DEF Trees
<1>7. ASSUME NextPath(u) = "values"
      PROVE  /\ Committed(u).files = HeadOf(u).files /\ Committed(u).jobs = Proposed(u).jobs
             /\ Committed(u) \in Trees
    BY <1>4, <1>5, <1>7 DEF Committed, Trees
<1>8. QED
    BY <1>1, <1>2, <1>3, <1>6, <1>7

LEMMA CommitFileStep ==
  ASSUME ProposalInv, NEW u \in Users, CommitFile(u),
         NEW n \in Names, n = name[u], NEW sent, sent = NextPath(u)
  PROVE  ProposalInv'
<1>1. /\ stage[u] = "put" /\ stage' = [stage EXCEPT ![u] = "sha"]
      /\ branch' = [branch EXCEPT ![n].head = Committed(u)]
      /\ unsent' = [unsent EXCEPT ![u] = unsent[u] \ {sent}]
      /\ sha' = [sha EXCEPT ![u] = Empty]
      /\ UNCHANGED <<base, tree, second, history, request, builtOn, name, forkSeen>>
    BY DEF CommitFile, GoTo, treeVars
<1>a. SideTypeOK /\ n \in Names /\ u \notin history
    BY <1>1, CommittedIs DEF ProposalInv, NamedBranches
<1>b. /\ stage'[u] = "sha" /\ unsent'[u] = unsent[u] \ {sent}
      /\ \A v \in Users \ {u} : stage'[v] = stage[v] /\ unsent'[v] = unsent[v]
    BY <1>1, <1>a DEF SideTypeOK, ProposalTypeOK
<1>c. branch' = [branch EXCEPT ![n] = [branch[n] EXCEPT !.head = Committed(u)]]
    BY <1>1, <1>a DEF SideTypeOK, ProposalTypeOK
<1>e. Committed(u) \in Trees
    BY <1>1, CommittedIs
<1>f. branch[n] \in [pull : {"no_branch", "none", "open", "merged"},
                    by : Users \cup {NoRequest}, fork : Trees, head : Trees]
    BY <1>a, BranchTypes
<1>d. /\ \A k \in Names \ {n} : branch'[k] = branch[k]
      /\ branch'[n].pull = branch[n].pull /\ branch'[n].by = branch[n].by
      /\ branch'[n].head = Committed(u) /\ branch'[n].fork = branch[n].fork
      /\ branch'[n] \in [pull : {"no_branch", "none", "open", "merged"},
                         by : Users \cup {NoRequest}, fork : Trees, head : Trees]
    BY <1>a, <1>c, <1>e, <1>f DEF SideTypeOK, ProposalTypeOK
<1>2. SideTypeOK'
  <2>1. branch' \in [Names -> [pull : {"no_branch", "none", "open", "merged"},
                               by : Users \cup {NoRequest}, fork : Trees, head : Trees]]
      BY <1>a, <1>c, <1>d DEF SideTypeOK, ProposalTypeOK
  <2>2. /\ stage' \in [Users -> {"new", "done", "failed"} \cup InFlight]
        /\ unsent' \in [Users -> SUBSET {"file", "values"}] /\ sha' \in [Users -> Trees]
      BY <1>1, <1>a, EmptyIsTree DEF SideTypeOK, ProposalTypeOK, InFlight
  <2>3. QED
      BY <1>1, <1>a, <2>1, <2>2 DEF SideTypeOK, StudioTypeOK, ProposalTypeOK
<1>3. NamedCalls'
    BY <1>1, <1>b DEF ProposalInv, NamedCalls, InFlight
<1>4. NamedBranches'
  <2>1. \A k \in Names : branch'[k].pull = branch[k].pull /\ branch'[k].by = branch[k].by
      BY <1>d
  <2>2. \A v \in Users : stage[v] \in InFlight \cup {"done"} => name[v] \in Names
      BY DEF ProposalInv, NamedCalls
  <2>3. branch[n].pull # "no_branch"
      BY <1>1 DEF ProposalInv, NamedBranches
  <2>4. ASSUME NEW v \in Users
        PROVE  /\ stage'[v] \in {"sha", "put", "record"} => branch'[name[v]].pull # "no_branch"
               /\ stage'[v] = "record" \/ v \in history =>
                    branch'[name[v]].pull \in {"open", "merged"}
               /\ v \in history => stage'[v] = "done"
    <3>1. CASE v = u
        BY <1>a, <1>b, <2>1, <2>3, <3>1
    <3>2. CASE v # u
        BY <1>b, <2>1, <2>2, <3>2 DEF ProposalInv, NamedBranches, InFlight
    <3>3. QED
        BY <3>1, <3>2
  <2>5. QED
      BY <1>1, <2>1, <2>4 DEF ProposalInv, NamedBranches
<1>5. ASSUME NEW path, Holds(n, path) \/ path = sent
      PROVE  Holds(n, path)'
  <2>1. CASE path = sent
    <3>1. u \in Sharing(n)' /\ sent \in Changes(request[u], builtOn[u])
        BY <1>1, CommittedIs DEF Sharing
    <3>2. IF sent = "file" THEN Committed(u).files[n.target] = Proposed(u).files[n.target]
                           ELSE Committed(u).jobs = Proposed(u).jobs
      <4>1. n.target \in Connectors /\ HeadOf(u).files \in [Connectors -> ConnectorSpec \cup {Absent}]
          BY <1>1, <1>a, CommittedIs, BranchTypes, TreesAre DEF HeadOf
      <4>2. QED
          BY <1>1, <4>1, CommittedIs
    <3>3. Proposed(u)' = Proposed(u)
        BY <1>1 DEF Proposed
    <3>4. QED
        BY <1>1, <1>d, <2>1, <3>1, <3>2, <3>3 DEF Holds
  <2>2. CASE path # sent
    <3>1. PICK v \in Sharing(n) :
            /\ path \in Changes(request[v], builtOn[v])
            /\ IF path = "file" THEN branch[n].head.files[n.target] = Proposed(v).files[n.target]
                                ELSE branch[n].head.jobs = Proposed(v).jobs
        BY <1>5, <2>2 DEF Holds
    <3>2. v \in Sharing(n)' /\ Proposed(v)' = Proposed(v)
        BY <1>1 DEF Sharing, Proposed
    <3>3. path \in {"file", "values"}
        BY <3>1 DEF Changes
    <3>4. IF path = "file" THEN branch'[n].head.files = branch[n].head.files
                           ELSE branch'[n].head.jobs = branch[n].head.jobs
        BY <1>1, <1>d, <2>2, <3>3, CommittedIs DEF HeadOf
    <3>5. QED
        BY <1>1, <3>1, <3>2, <3>4 DEF Holds
  <2>3. QED
      BY <2>1, <2>2
<1>6. SentIsHeld'
  <2>1. ASSUME NEW k \in Names, NEW path, Holds(k, path)
        PROVE  Holds(k, path)'
    <3>1. CASE k = n
        BY <1>5, <2>1, <3>1
    <3>2. CASE k # n
      <4>1. branch'[k].head = branch[k].head
          BY <1>d, <3>2
      <4>2. UNCHANGED <<request, builtOn, name>>
          BY <1>1
      <4>3. QED
          BY <2>1, <4>1, <4>2, HoldsKept
    <3>3. QED
        BY <3>1, <3>2
  <2>2. ASSUME NEW v \in Users, stage'[v] \in InFlight,
               NEW path \in Changes(request[v], builtOn[v]) \ unsent'[v]
        PROVE  Holds(name[v], path)'
    <3>1. stage[v] \in InFlight /\ name[v] \in Names
        BY <1>1, <1>b, <2>2 DEF ProposalInv, NamedCalls, InFlight
    <3>2. CASE path \notin unsent[v]
      <4>1. PICK k \in Names : k = name[v] /\ Holds(k, path)
          BY <2>2, <3>1, <3>2 DEF ProposalInv, SentIsHeld
      <4>2. Holds(k, path)'
          BY <2>1, <4>1
      <4>3. QED
          BY <1>1, <4>1, <4>2
    <3>3. CASE path \in unsent[v]
      <4>1. v = u /\ path = sent
          BY <1>b, <2>2, <3>3
      <4>2. Holds(n, path)'
          BY <1>5, <4>1
      <4>3. QED
          BY <1>1, <4>1, <4>2
    <3>4. QED
        BY <3>2, <3>3
  <2>3. ASSUME NEW k \in Names, branch'[k].pull \in {"open", "merged"},
               NEW path \in Changes(request[branch'[k].by], builtOn[branch'[k].by])
        PROVE  Holds(k, path)'
    <3>1. branch'[k].pull = branch[k].pull /\ branch'[k].by = branch[k].by
        BY <1>d
    <3>2. Holds(k, path)
        BY <2>3, <3>1 DEF ProposalInv, SentIsHeld
    <3>3. QED
        BY <2>1, <3>2
  <2>4. QED
      BY <1>1, <2>2, <2>3 DEF SentIsHeld
<1>7. OwnPaths'
  <2>1. ASSUME NEW k \in Names, NEW c \in Connectors, c # k.target
        PROVE  /\ branch'[k].head.files[c] = branch'[k].fork.files[c]
               /\ \/ branch'[k].head.jobs[c] = branch'[k].fork.jobs[c]
                  \/ \E v \in Sharing(k) : branch'[k].head.jobs[c] = builtOn[v].jobs[c]
    <3>1. CASE k # n
        BY <1>d, <2>1, <3>1 DEF ProposalInv, OwnPaths
    <3>2. CASE k = n
      <4>1. /\ branch[k].head.files[c] = branch[k].fork.files[c]
            /\ \/ branch[k].head.jobs[c] = branch[k].fork.jobs[c]
               \/ \E v \in Sharing(k) : branch[k].head.jobs[c] = builtOn[v].jobs[c]
          BY <2>1 DEF ProposalInv, OwnPaths
      <4>2. CASE sent = "file"
        <5>1. branch[n].head.files \in [Connectors -> ConnectorSpec \cup {Absent}]
            BY <1>a, BranchTypes, TreesAre
        <5>2. /\ Committed(u).files = [branch[n].head.files EXCEPT ![n.target] =
                                           Proposed(u).files[n.target]]
              /\ Committed(u).jobs = branch[n].head.jobs
            BY <1>1, <4>2, CommittedIs DEF HeadOf
        <5>3. Committed(u).files[c] = branch[n].head.files[c]
            BY <2>1, <3>2, <5>1, <5>2
        <5>4. branch'[n].head = Committed(u) /\ branch'[n].fork = branch[n].fork
            BY <1>d
        <5>5. /\ branch'[k].head.files[c] = branch[k].head.files[c]
              /\ branch'[k].head.jobs = branch[k].head.jobs
              /\ branch'[k].fork = branch[k].fork
            BY <3>2, <5>2, <5>3, <5>4
        <5>6. QED
            BY <4>1, <5>5
      <4>3. CASE sent = "values"
        <5>1. Committed(u).files = branch[n].head.files /\ Committed(u).jobs = Proposed(u).jobs
            BY <1>1, <4>3, CommittedIs DEF HeadOf
        <5>2. /\ request[u] \in Requests /\ builtOn[u] \in Trees /\ n.target = Target(request[u])
              /\ Applicable(request[u], builtOn[u])
            BY <1>1, <1>a, NamesAre
            DEF ProposalInv, NamedCalls, InFlight, SideTypeOK, ProposalTypeOK
        <5>3. Committed(u).jobs[c] = builtOn[u].jobs[c]
            BY <2>1, <3>2, <5>1, <5>2, ProposedIs DEF Proposed
        <5>4. u \in Sharing(k)
            BY <3>2 DEF Sharing
        <5>5. branch'[n].head = Committed(u) /\ branch'[n].fork = branch[n].fork
            BY <1>d
        <5>6. QED
            BY <3>2, <4>1, <5>1, <5>3, <5>4, <5>5
      <4>4. QED
          BY <1>1, <4>2, <4>3, CommittedIs
    <3>3. QED
        BY <3>1, <3>2
  <2>2. builtOn' = builtOn /\ \A k \in Names : Sharing(k)' = Sharing(k)
      BY <1>1 DEF Sharing
  <2>3. QED
      BY <2>1, <2>2 DEF OwnPaths
<1>8. HeldOrForked'
  <2>1. ASSUME NEW k \in Names
        PROVE  /\ branch'[k].head.files = branch'[k].fork.files \/ Holds(k, "file")'
               /\ branch'[k].head.jobs = branch'[k].fork.jobs \/ Holds(k, "values")'
    <3>1. /\ branch[k].head.files = branch[k].fork.files \/ Holds(k, "file")
          /\ branch[k].head.jobs = branch[k].fork.jobs \/ Holds(k, "values")
        BY DEF ProposalInv, HeldOrForked
    <3>2. CASE k # n
      <4>1. UNCHANGED <<request, builtOn, name>> /\ branch'[k] = branch[k]
          BY <1>1, <1>d, <3>2
      <4>2. QED
          BY <3>1, <4>1, HoldsKept
    <3>3. CASE k = n
      <4>1. \A path : Holds(n, path) \/ path = sent => Holds(n, path)'
          BY <1>5
      <4>2. /\ branch'[n].head = Committed(u) /\ branch'[n].fork = branch[n].fork
            /\ HeadOf(u) = branch[n].head /\ sent \in {"file", "values"}
            /\ sent = "file" => Committed(u).jobs = HeadOf(u).jobs
            /\ sent = "values" => Committed(u).files = HeadOf(u).files
          BY <1>1, <1>d, CommittedIs DEF HeadOf
      <4>3. CASE sent = "file"
          BY <3>1, <3>3, <4>1, <4>2, <4>3
      <4>4. CASE sent = "values"
          BY <3>1, <3>3, <4>1, <4>2, <4>4
      <4>5. QED
          BY <4>2, <4>3, <4>4
    <3>4. QED
        BY <3>2, <3>3
  <2>2. QED
      BY <2>1 DEF HeldOrForked
<1>9. QED
    BY <1>2, <1>3, <1>4, <1>6, <1>7, <1>8 DEF ProposalInv

\* Merging changes the base branch, and no branch's content.
LEMMA MergedIsTree ==
  ASSUME SideTypeOK, NEW n \in Names, MergePull(n)
  PROVE  base' \in Trees
<1> DEFINE b == branch[n]
<1>1. /\ base.files \in [Connectors -> ConnectorSpec \cup {Absent}]
      /\ base.jobs \in [Connectors -> {"none", "enabled", "disabled"}]
      /\ b.fork.files \in [Connectors -> ConnectorSpec \cup {Absent}]
      /\ b.fork.jobs \in [Connectors -> {"none", "enabled", "disabled"}]
      /\ b.head.files \in [Connectors -> ConnectorSpec \cup {Absent}]
      /\ b.head.jobs \in [Connectors -> {"none", "enabled", "disabled"}]
    BY BranchTypes DEF SideTypeOK, StudioTypeOK, Trees, Jobs
<1>2. /\ base'.files = [c \in Connectors |-> MergeOf(base.files[c], b.fork.files[c], b.head.files[c])]
      /\ base'.jobs = [c \in Connectors |-> MergeOf(base.jobs[c], b.fork.jobs[c], b.head.jobs[c])]
      /\ base' = [files |-> base'.files, jobs |-> base'.jobs]
    BY DEF MergePull
<1>3. /\ base'.files \in [Connectors -> ConnectorSpec \cup {Absent}]
      /\ base'.jobs \in [Connectors -> {"none", "enabled", "disabled"}]
    BY <1>1, <1>2 DEF MergeOf
<1>4. QED
    BY <1>2, <1>3 DEF Trees, Jobs

LEMMA MergePullStep ==
  ASSUME ProposalInv, NEW n \in Names, MergePull(n)
  PROVE  ProposalInv'
<1>1. /\ branch[n].pull = "open" /\ branch' = [branch EXCEPT ![n].pull = "merged"]
      /\ UNCHANGED <<tree, second, history, stage, request, builtOn, name, forkSeen, unsent, sha>>
    BY DEF MergePull, localVars
<1>a. SideTypeOK
    BY DEF ProposalInv
<1>b. branch' = [branch EXCEPT ![n] = [branch[n] EXCEPT !.pull = "merged"]]
    BY <1>1, <1>a DEF SideTypeOK, ProposalTypeOK
<1>c. branch[n] \in [pull : {"no_branch", "none", "open", "merged"},
                    by : Users \cup {NoRequest}, fork : Trees, head : Trees]
    BY <1>a, BranchTypes
<1>d. /\ \A k \in Names \ {n} : branch'[k] = branch[k]
      /\ branch'[n].pull = "merged" /\ branch'[n].by = branch[n].by
      /\ branch'[n].head = branch[n].head /\ branch'[n].fork = branch[n].fork
      /\ branch'[n] \in [pull : {"no_branch", "none", "open", "merged"},
                         by : Users \cup {NoRequest}, fork : Trees, head : Trees]
    BY <1>a, <1>b, <1>c DEF SideTypeOK, ProposalTypeOK
<1>e. \A k \in Names :
        /\ branch'[k].by = branch[k].by
        /\ branch'[k].head = branch[k].head /\ branch'[k].fork = branch[k].fork
        /\ \/ branch'[k].pull = branch[k].pull
           \/ branch[k].pull = "open" /\ branch'[k].pull = "merged"
  <2> TAKE k \in Names
  <2>1. CASE k = n
    <3>1. /\ branch'[n].pull = "merged" /\ branch'[n].by = branch[n].by
          /\ branch'[n].head = branch[n].head /\ branch'[n].fork = branch[n].fork
        BY <1>d
    <3>2. branch[n].pull = "open"
        BY <1>1
    <3>3. QED
        BY <2>1, <3>1, <3>2
  <2>2. CASE k # n
    <3>1. branch'[k] = branch[k]
        BY <1>d, <2>2
    <3>2. QED
        BY <3>1
  <2>3. QED
      BY <2>1, <2>2
<1>2. SideTypeOK'
  <2>1. branch' \in [Names -> [pull : {"no_branch", "none", "open", "merged"},
                               by : Users \cup {NoRequest}, fork : Trees, head : Trees]]
      BY <1>a, <1>b, <1>d DEF SideTypeOK, ProposalTypeOK
  <2>2. QED
      BY <1>1, <1>a, <2>1, MergedIsTree DEF SideTypeOK, StudioTypeOK, ProposalTypeOK
<1>3. NamedCalls'
    BY <1>1 DEF ProposalInv, NamedCalls
<1>4. NamedBranches'
  <2>1. ASSUME NEW u \in Users
        PROVE  /\ stage[u] \in {"sha", "put", "record"} => branch'[name[u]].pull # "no_branch"
               /\ stage[u] = "record" \/ u \in history =>
                    branch'[name[u]].pull \in {"open", "merged"}
               /\ u \in history => stage[u] = "done"
    <3>1. stage[u] \in InFlight \cup {"done"} => name[u] \in Names
        BY DEF ProposalInv, NamedCalls
    <3>2. QED
        BY <1>e, <3>1 DEF ProposalInv, NamedBranches, InFlight
  <2>2. \A k \in Names : branch'[k].pull \in {"open", "merged"} =>
          branch'[k].by \in Users /\ name[branch'[k].by] = k
      BY <1>e DEF ProposalInv, NamedBranches
  <2>3. QED
      BY <1>1, <2>1, <2>2 DEF NamedBranches
<1>5. SentIsHeld'
  <2>1. UNCHANGED <<request, builtOn, name>> /\ \A k \in Names : branch'[k].head = branch[k].head
      BY <1>1, <1>e
  <2>2. ASSUME NEW u \in Users, stage'[u] \in InFlight,
               NEW path \in Changes(request[u], builtOn[u]) \ unsent[u]
        PROVE  Holds(name[u], path)'
    <3>1. stage[u] \in InFlight
        BY <1>1, <2>2
    <3>2. name[u] \in Names /\ Holds(name[u], path)
        BY <2>2, <3>1 DEF ProposalInv, NamedCalls, SentIsHeld
    <3>3. QED
        BY <2>1, <3>2, HoldsKept
  <2>3. ASSUME NEW k \in Names, branch'[k].pull \in {"open", "merged"},
               NEW path \in Changes(request[branch'[k].by], builtOn[branch'[k].by])
        PROVE  Holds(k, path)'
    <3>1. branch'[k].by = branch[k].by /\ branch[k].pull \in {"open", "merged"}
        BY <1>e, <2>3
    <3>2. Holds(k, path)
        BY <2>3, <3>1 DEF ProposalInv, SentIsHeld
    <3>3. QED
        BY <2>1, <3>2, HoldsKept
  <2>4. QED
      BY <1>1, <2>2, <2>3 DEF SentIsHeld
<1>6. OwnPaths'
  <2>1. builtOn' = builtOn /\ \A k \in Names : Sharing(k)' = Sharing(k)
      BY <1>1 DEF Sharing
  <2>2. QED
      BY <1>e, <2>1 DEF ProposalInv, OwnPaths
<1>7. HeldOrForked'
  <2>1. UNCHANGED <<request, builtOn, name>>
      BY <1>1
  <2>2. \A k \in Names : branch'[k].head = branch[k].head /\ branch'[k].fork = branch[k].fork
      BY <1>e
  <2>3. QED
      BY <2>1, <2>2, HoldsKept DEF ProposalInv, HeldOrForked
<1>8. QED
    BY <1>2, <1>3, <1>4, <1>5, <1>6, <1>7 DEF ProposalInv

LEMMA RecordProposalStep ==
  ASSUME ProposalInv, NEW u \in Users, RecordProposal(u)
  PROVE  ProposalInv'
<1>1. /\ stage[u] = "record" /\ stage' = [stage EXCEPT ![u] = "done"]
      /\ unsent' = [unsent EXCEPT ![u] = {}] /\ history' = history \cup {u}
      /\ forkSeen' = [forkSeen EXCEPT ![u] = Empty] /\ sha' = [sha EXCEPT ![u] = Empty]
      /\ UNCHANGED <<base, tree, second, branch, request, builtOn, name>>
    BY DEF RecordProposal, EndCall, GoTo, treeVars
<1>a. SideTypeOK
    BY DEF ProposalInv
<1>b. /\ stage'[u] = "done"
      /\ \A v \in Users \ {u} : stage'[v] = stage[v] /\ unsent'[v] = unsent[v]
    BY <1>1, <1>a DEF SideTypeOK, ProposalTypeOK
<1>2. SideTypeOK'
    BY <1>1, <1>a, EmptyIsTree DEF SideTypeOK, StudioTypeOK, ProposalTypeOK, InFlight
<1>3. NamedCalls'
    BY <1>1, <1>b DEF ProposalInv, NamedCalls, InFlight
<1>4. NamedBranches'
    BY <1>1, <1>b DEF ProposalInv, NamedBranches
<1>5. SentIsHeld'
  <2>1. ASSUME NEW v \in Users, stage'[v] \in InFlight,
               NEW path \in Changes(request[v], builtOn[v]) \ unsent'[v]
        PROVE  Holds(name[v], path)'
    <3>1. v # u
        BY <1>b, <2>1 DEF InFlight
    <3>2. name[v] \in Names /\ Holds(name[v], path)
        BY <1>b, <2>1, <3>1 DEF ProposalInv, NamedCalls, SentIsHeld
    <3>3. QED
        BY <1>1, <3>2, HoldsKept
  <2>2. ASSUME NEW n \in Names, branch[n].pull \in {"open", "merged"},
               NEW path \in Changes(request[branch[n].by], builtOn[branch[n].by])
        PROVE  Holds(n, path)'
      BY <1>1, <2>2, HoldsKept DEF ProposalInv, SentIsHeld
  <2>3. QED
      BY <1>1, <2>1, <2>2 DEF SentIsHeld
<1>6. OwnPaths'
    BY <1>1 DEF ProposalInv, OwnPaths, Sharing
<1>7. HeldOrForked'
  <2>1. UNCHANGED <<request, builtOn, name>>
      BY <1>1
  <2>2. \A k \in Names : branch'[k].head = branch[k].head /\ branch'[k].fork = branch[k].fork
      BY <1>1
  <2>3. QED
      BY <2>1, <2>2, HoldsKept DEF ProposalInv, HeldOrForked
<1>8. QED
    BY <1>2, <1>3, <1>4, <1>5, <1>6, <1>7 DEF ProposalInv

-----------------------------------------------------------------------------
LEMMA ContentIsTree ==
  ASSUME NEW t \in Trees, NEW q \in Requests, NEW path
  PROVE  Content(t, q, path) \in Trees
<1>1. /\ t.files \in [Connectors -> ConnectorSpec \cup {Absent}] /\ t.jobs \in Jobs
      /\ Target(q) \in Connectors
    BY RequestsAre DEF Trees
<1>2. /\ Empty.files \in [Connectors -> ConnectorSpec \cup {Absent}] /\ Empty.jobs \in Jobs
      /\ Empty = [files |-> Empty.files, jobs |-> Empty.jobs]
    BY DEF Empty, Jobs
<1>3. [Empty EXCEPT !.files[Target(q)] = t.files[Target(q)]] \in Trees
    BY <1>1, <1>2 DEF Trees
<1>4. [Empty EXCEPT !.jobs = t.jobs] \in Trees
    BY <1>1, <1>2 DEF Trees
<1>5. QED
    BY <1>3, <1>4 DEF Content

LEMMA ProposalStep ==
  ASSUME ProposalInv, ProposalNext
  PROVE  ProposalInv'
<1>a. SideTypeOK
    BY DEF ProposalInv
<1>1. CASE NextSecond
  <2>0. second' \in 0..MaxSecond /\ UNCHANGED <<base, tree, branch, history, stage, localVars>>
      BY <1>a, <1>1, ProposalAssumption DEF NextSecond, treeVars, SideTypeOK, ProposalTypeOK
  <2>1. SideTypeOK'
      BY <1>a, <2>0 DEF localVars, SideTypeOK, StudioTypeOK, ProposalTypeOK
  <2>2. QED
      BY <1>1, <2>1, QuietStep DEF NextSecond, localVars
<1>2. ASSUME NEW u \in Users, NEW q \in Requests, Reject(u, q) PROVE ProposalInv'
  <2>1. /\ stage[u] = "new" /\ stage' = [stage EXCEPT ![u] = "failed"]
        /\ UNCHANGED <<base, tree, second, branch, history, request, builtOn, name, forkSeen,
                      unsent, sha>>
      BY <1>2 DEF Reject, GoTo, treeVars, localVars
  <2>2. SideTypeOK'
      BY <1>a, <2>1 DEF SideTypeOK, StudioTypeOK, ProposalTypeOK
  <2>3. stage'[u] = "failed" /\ \A v \in Users \ {u} : stage'[v] = stage[v]
      BY <1>a, <2>1 DEF SideTypeOK, ProposalTypeOK
  <2>4. QED
      BY <2>1, <2>2, <2>3, QuietStep
<1>3. ASSUME NEW u \in Users, ReadBase(u) PROVE ProposalInv'
  <2>1. /\ stage[u] = "ref" /\ stage' = [stage EXCEPT ![u] = "branch"]
        /\ forkSeen' = [forkSeen EXCEPT ![u] = base]
        /\ UNCHANGED <<base, tree, second, branch, history, request, builtOn, name, unsent, sha>>
      BY <1>3 DEF ReadBase, GoTo, treeVars
  <2>2. SideTypeOK'
      BY <1>a, <2>1 DEF SideTypeOK, StudioTypeOK, ProposalTypeOK, InFlight
  <2>3. stage'[u] = "branch" /\ \A v \in Users \ {u} : stage'[v] = stage[v]
      BY <1>a, <2>1 DEF SideTypeOK, ProposalTypeOK
  <2>4. QED
      BY <2>1, <2>2, <2>3, QuietStep
<1>4. ASSUME NEW u \in Users, ReadSha(u) PROVE ProposalInv'
  <2>1. /\ stage[u] = "sha" /\ unsent[u] # {} /\ stage' = [stage EXCEPT ![u] = "put"]
        /\ sha' = [sha EXCEPT ![u] = Content(HeadOf(u), request[u], NextPath(u))]
        /\ UNCHANGED <<base, tree, second, branch, history, request, builtOn, name, forkSeen, unsent>>
      BY <1>4 DEF ReadSha, GoTo, treeVars
  <2>2. name[u] \in Names /\ name[u] # NoName /\ request[u] \in Requests
      BY <2>1, NamesAre DEF ProposalInv, NamedCalls, InFlight
  <2>3. Content(HeadOf(u), request[u], NextPath(u)) \in Trees
      BY <1>a, <2>2, BranchTypes, ContentIsTree DEF HeadOf
  <2>4. SideTypeOK'
      BY <1>a, <2>1, <2>3 DEF SideTypeOK, StudioTypeOK, ProposalTypeOK, InFlight
  <2>5. stage'[u] = "put" /\ \A v \in Users \ {u} : stage'[v] = stage[v]
      BY <1>a, <2>1 DEF SideTypeOK, ProposalTypeOK
  <2>6. QED
      BY <2>1, <2>4, <2>5, QuietStep
<1>5. ASSUME NEW u \in Users, FailProposal(u) PROVE ProposalInv'
  <2>1. /\ stage[u] \in InFlight /\ stage' = [stage EXCEPT ![u] = "failed"]
        /\ unsent' = [unsent EXCEPT ![u] = {}] /\ forkSeen' = [forkSeen EXCEPT ![u] = Empty]
        /\ sha' = [sha EXCEPT ![u] = Empty]
        /\ UNCHANGED <<base, tree, second, branch, history, request, builtOn, name>>
      BY <1>5 DEF FailProposal, EndCall, GoTo, treeVars
  <2>2. SideTypeOK'
      BY <1>a, <2>1, EmptyIsTree DEF SideTypeOK, StudioTypeOK, ProposalTypeOK
  <2>3. /\ stage'[u] = "failed" /\ stage[u] # "done"
        /\ \A v \in Users \ {u} : stage'[v] = stage[v] /\ unsent'[v] = unsent[v]
      BY <1>a, <2>1 DEF SideTypeOK, ProposalTypeOK, InFlight
  <2>4. QED
      BY <2>1, <2>2, <2>3, QuietStep
<1>6. ASSUME NEW u \in Users, CommitFile(u) PROVE ProposalInv'
  <2>1. name[u] \in Names
      BY <1>6 DEF CommitFile, ProposalInv, NamedCalls, InFlight
  <2>2. QED
      BY <1>6, <2>1, CommitFileStep
<1>7. QED
    BY <1>1, <1>2, <1>3, <1>4, <1>5, <1>6, ProposeStep, CreateBranchStep, OpenPullStep,
       RecordProposalStep, MergePullStep
    DEF ProposalNext

\* The process ends.
LEMMA KillCallsStep ==
  ASSUME ProposalInv, KillCalls, tree' \in {tree, base},
         UNCHANGED <<base, second, branch, history, request, builtOn, name>>
  PROVE  ProposalInv'
<1>1. \A u \in Users : IF stage[u] \in InFlight
                       THEN stage'[u] = "failed" /\ unsent'[u] = {}
                       ELSE stage'[u] = stage[u] /\ unsent'[u] = unsent[u]
    BY DEF KillCalls
<1>2. SideTypeOK'
    BY EmptyIsTree DEF KillCalls, ProposalInv, SideTypeOK, StudioTypeOK, ProposalTypeOK
<1>3. QED
    BY <1>1, <1>2, QuietStep DEF InFlight

LEMMA ProposalUnchanged ==
  ASSUME ProposalInv, tree' \in {tree, base}, base' = base, UNCHANGED proposalVars
  PROVE  ProposalInv'
<1>1. SideTypeOK'
    BY DEF proposalVars, localVars, ProposalInv, SideTypeOK, StudioTypeOK, ProposalTypeOK
<1>2. QED
    BY <1>1, QuietStep DEF proposalVars, localVars

LEMMA WholePulls == ProposalInv => PullRequestIsWhole
<1> SUFFICES ASSUME ProposalInv PROVE PullRequestIsWhole
    OBVIOUS
<1>1. ASSUME NEW n \in Names, branch[n].pull \in {"open", "merged"}, NEW u, u = branch[n].by,
             NEW path \in Changes(request[u], builtOn[u])
      PROVE  \E v \in Sharing(n) : /\ path \in Changes(request[v], builtOn[v])
                                   /\ Content(branch[n].head, request[u], path)
                                        = Content(Proposed(v), request[u], path)
  <2>1. Holds(n, path) /\ u \in Users /\ name[u] = n /\ n # NoName
      BY <1>1, NamesAre DEF ProposalInv, SentIsHeld, NamedBranches
  <2>2. Target(request[u]) = n.target
      BY <2>1 DEF ProposalInv, NamedCalls
  <2>3. QED
      BY <2>1, <2>2 DEF Holds, Content
<1>2. \A u \in history : branch[name[u]].pull \in {"open", "merged"}
    BY DEF ProposalInv, NamedBranches, SideTypeOK, ProposalTypeOK
<1>3. ASSUME NEW n \in Names, branch[n].pull \in {"open", "merged"}
      PROVE  /\ name[branch[n].by] = n
             /\ \A c \in Connectors : branch[n].head.files[c] # branch[n].fork.files[c]
                                      => c = n.target
    BY <1>3 DEF ProposalInv, NamedBranches, OwnPaths
<1>4. QED
    BY <1>1, <1>2, <1>3 DEF PullRequestIsWhole

\* A merged branch's jobs are those of its fork or of a tree it was proposed from.
LEMMA MergeReschedules ==
  ASSUME ProposalInv, ProposalNext, NEW n \in Names,
         branch[n].pull = "open", branch'[n].pull = "merged",
         NEW c \in Connectors, c # n.target, base'.jobs[c] # base.jobs[c]
  PROVE  \E u \in Sharing(n) : /\ builtOn[u].jobs[c] # branch[n].fork.jobs[c]
                               /\ base'.jobs[c] = builtOn[u].jobs[c]
<1>a. SideTypeOK
    BY DEF ProposalInv
<1>1. CASE MergePull(n)
  <2>1. base'.jobs[c] = MergeOf(base.jobs[c], branch[n].fork.jobs[c], branch[n].head.jobs[c])
      BY <1>1 DEF MergePull
  <2>2. /\ branch[n].head.jobs[c] # branch[n].fork.jobs[c]
        /\ base'.jobs[c] = branch[n].head.jobs[c]
      BY <2>1 DEF MergeOf
  <2>3. QED
      BY <2>2 DEF ProposalInv, OwnPaths
<1>2. ASSUME NEW k \in Names, MergePull(k), k # n PROVE FALSE
    BY <1>a, <1>2 DEF MergePull, SideTypeOK, ProposalTypeOK
<1>3. ASSUME NEW u \in Users, CreateBranch(u) PROVE FALSE
  <2>1. name[u] \in Names
      BY <1>3 DEF CreateBranch, ProposalInv, NamedCalls, InFlight
  <2>2. branch'[n].pull \in {branch[n].pull, "none"}
      BY <1>a, <1>3, <2>1 DEF CreateBranch, SideTypeOK, ProposalTypeOK
  <2>3. QED
      BY <2>2
<1>4. ASSUME NEW u \in Users, CommitFile(u) PROVE FALSE
  <2>1. branch'[n].pull = branch[n].pull
      BY <1>a, <1>4 DEF CommitFile, SideTypeOK, ProposalTypeOK
  <2>2. QED
      BY <2>1
<1>5. ASSUME NEW u \in Users, OpenPull(u) PROVE FALSE
  <2>1. branch'[n].pull \in {branch[n].pull, "open"}
      BY <1>a, <1>5 DEF OpenPull, SideTypeOK, ProposalTypeOK
  <2>2. QED
      BY <2>1
<1>6. branch' # branch
    OBVIOUS
<1>7. QED
    BY <1>1, <1>2, <1>3, <1>4, <1>5, <1>6
    DEF ProposalNext, NextSecond, Propose, Reject, ReadBase, ReadSha, RecordProposal, FailProposal
=============================================================================
