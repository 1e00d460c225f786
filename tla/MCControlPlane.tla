--------------------------- MODULE MCControlPlane ---------------------------
(* Instances of ControlPlane for TLC. *)
EXTENDS ControlPlane, TLC

CONSTANTS
    c1, c2, x, y,  \* members of Connectors and Texts
    u1, u2,        \* members of Users
    m1, m2         \* members of Tickets

Sql(t)  == [mode |-> "sql_pull", query |-> t, url |-> Absent, path |-> Absent]
Rest(t) == [mode |-> "rest_pull", query |-> Absent, url |-> t, path |-> Absent]
File(t) == [mode |-> "file_pull", query |-> Absent, url |-> Absent, path |-> t]

Asked(action, c, target, draft, enabled) ==
    [action |-> action, connector |-> c, name |-> target, draft |-> draft, enabled |-> enabled]

\* Requests about c1 that conflict with each other and one about c2: a deletion, an
\* edit to another mode, a pause, and a new connector.
SomeRequests ==
    {Asked("delete", c1, c1, Sql(x), TRUE),
     Asked("edit", c1, c1, Rest(y), TRUE),
     Asked("pause", c1, c1, Sql(x), FALSE),
     Asked("resume", c1, c1, Sql(x), TRUE),
     Asked("create", c2, c2, Sql(x), TRUE),
     Asked("clone", c1, c2, File(y), FALSE)}

SomeQueries ==
    {[view |-> "snapshot", connector |-> NoConnector, status |-> "ANY"],
     [view |-> "snapshot", connector |-> NoConnector, status |-> "FAILED"],
     [view |-> "detail", connector |-> c1, status |-> "SUCCESS"]}

\* c1 with its job; c2 is still to come.
Starting == [files |-> [c \in Connectors |-> IF c = c1 THEN Sql(x) ELSE Absent],
             jobs  |-> [c \in Connectors |-> IF c = c1 THEN "enabled" ELSE "none"]]
Both == [files |-> [c \in Connectors |-> Sql(x)], jobs |-> [c \in Connectors |-> "enabled"]]
\* c2 has no job, like oracle-employees.
Half == [Both EXCEPT !.jobs[c2] = "none"]

\* Of the numbered runs, the first `past` have been tried and failed before.
Number == CHOOSE f \in [Runs -> 1..Cardinality(Runs)] :
             \A r, s \in Runs : r # s => f[r] # f[s]
RanBefore(past) ==
    /\ clock = 2 * past + 1
    /\ runRow = [r \in Runs |-> IF Number[r] > past THEN NoRow ELSE
                   [connector |-> c1, status |-> "FAILED",
                    started |-> 2 * Number[r] - 1, finished |-> 2 * Number[r]]]

\* Who is still to act: the requests of the other users and tickets were refused,
\* and a reader who is not to read was cut off before its first answer.
Workload(users, tickets, reads, past) ==
    /\ second = 0 /\ history = {}
    /\ branch = [n \in Names |-> NoBranch]
    /\ stage = [u \in Users |-> IF u \in users THEN "new" ELSE "failed"]
    /\ request = [u \in Users |-> NoRequest]
    /\ builtOn = [u \in Users |-> Empty]
    /\ name = [u \in Users |-> NoName]
    /\ forkSeen = [u \in Users |-> Empty]
    /\ unsent = [u \in Users |-> {}]
    /\ sha = [u \in Users |-> Empty]
    /\ RanBefore(past)
    /\ ticket = [m \in Tickets |-> [connector |-> NoConnector, status |-> "NONE", run |-> NoRun]]
    /\ task = [m \in Tickets |-> IF m \in tickets THEN "new" ELSE "refused"]
    /\ launched = [m \in Tickets |-> NoRun]
    /\ pods = {}
    /\ IF reads THEN OpsInit
       ELSE /\ step = "cut"
            /\ asked = [view |-> "detail", connector |-> c1, status |-> "SUCCESS"]
            /\ offset = 0 /\ total = 0
            /\ succeeded = {} /\ counted = NoRuns /\ pageRow = NoRuns /\ lastRow = NoLast
            /\ seen = {} /\ expected = {}
            /\ more = FALSE /\ raced = FALSE

\* Two proposals; two requests beside a CronJob, whose connector may be deleted
\* already at the base branch; a reader beside a CronJob.
MCInit ==
    \/ /\ tree \in {Starting, Both, Half} /\ base = tree
       /\ Workload({u1, u2}, {}, FALSE, Cardinality(Runs))
    \/ /\ tree = Starting /\ base \in {Starting, Empty}
       /\ Workload({}, {m1, m2}, FALSE, 1)
    \/ /\ tree = Both /\ base = tree
       /\ Workload({}, {}, TRUE, 1)

MCSpec == MCInit /\ [][Next]_vars /\ \A m \in Tickets : WF_vars(TaskMoves(m))
=============================================================================
