---------------------------- MODULE OpsSnapshot ----------------------------
(***************************************************************************)
(* The ops dashboard: the statistics of run_state, and a client that pages *)
(* through them while runs start and end.                                  *)
(*                                                                         *)
(* One answer comes from several SELECTs of one session, each of which     *)
(* sees what is committed by then; a RunState object the session still     *)
(* holds keeps the columns it was loaded with.  The pages are newest       *)
(* first, cut out by offset, each one the answer to a request of its own.  *)
(* All runs lie within the window of hours asked for.                      *)
(***************************************************************************)
EXTENDS ManualRuns, Integers, FiniteSetsExt

CONSTANTS
    Queries,  \* what clients ask for
    Limit     \* limit_runs

ASSUME OpsAssumption ==
    /\ Queries \subseteq [view : {"snapshot", "detail"}, connector : Connectors \cup {NoConnector},
                          status : {"ANY", "RUNNING", "SUCCESS", "FAILED"}]
    /\ \A q \in Queries : q.view = "detail" => q.connector # NoConnector
    /\ Limit \in Nat \ {0}

VARIABLES
    step,       \* the next SELECT of the client's request
    asked,      \* what it asks for
    offset,     \* local: offset_runs
    succeeded,  \* local: the runs compute_slo_metrics counts as successful
    counted,    \* local: window_runs, with the statuses they were loaded with
    total,      \* local: total_filtered_runs
    more,       \* local: has_more
    pageRow,    \* the answer: recent_runs
    lastRow,    \* the answer: the latest run of each connector
    seen,       \* observation: runs on the client's pages so far
    expected,   \* observation: runs that matched when it asked for the first page
    raced       \* observation: a match was added between a count and its page

answerVars == <<succeeded, counted, total, more, pageRow, lastRow>>
opsVars == <<step, asked, offset, answerVars, seen, expected, raced>>

Statuses == {"NONE", "RUNNING", "SUCCESS", "FAILED"}
NoQuery  == [view |-> "none", connector |-> NoConnector, status |-> "ANY"]
NoRuns   == [r \in Runs |-> "NONE"]
NoLast   == [c \in Connectors |-> [run |-> NoRun, status |-> "NONE"]]

OpsTypeOK ==
    /\ step \in {"idle", "slo", "window", "count", "page", "rows", "answer", "done", "cut"}
    /\ asked \in Queries \cup {NoQuery}
    /\ {offset, total} \subseteq Nat
    /\ succeeded \in SUBSET Runs
    /\ counted \in [Runs -> Statuses]
    /\ pageRow \in [Runs -> Statuses]
    /\ lastRow \in [Connectors -> [run : Runs \cup {NoRun}, status : Statuses]]
    /\ {seen, expected} \subseteq SUBSET Runs
    /\ {more, raced} \subseteq BOOLEAN

OpsInit ==
    /\ step = "idle" /\ asked = NoQuery
    /\ offset = 0 /\ total = 0
    /\ succeeded = {} /\ counted = NoRuns /\ pageRow = NoRuns /\ lastRow = NoLast
    /\ seen = {} /\ expected = {}
    /\ more = FALSE /\ raced = FALSE

-----------------------------------------------------------------------------
(* compute_slo_metrics: the mean time to recovery.                         *)

Stored == {r \in Runs : runRow[r].status # "NONE"}
Earlier(r, s) == runRow[r].connector = runRow[s].connector /\ runRow[r].started < runRow[s].started

\* Mutant: the search for the next success starts at the connector's first run.
SuccessesAfterAny(r) ==
    {s \in Stored : runRow[s].status = "SUCCESS" /\ runRow[s].connector = runRow[r].connector}

\* The successes further down in the list a connector's runs are sorted into.
SuccessesAfter(r) == {s \in Stored : runRow[s].status = "SUCCESS" /\ Earlier(r, s)}

NextSuccess(r) ==
    CHOOSE s \in SuccessesAfter(r) : \A k \in SuccessesAfter(r) \ {s} : Earlier(s, k)

Recovered == {r \in Stored : runRow[r].status = "FAILED" /\ SuccessesAfter(r) # {}}

\* int() of the mean, which rounds towards zero.
Mean(n, count) == IF n >= 0 THEN n \div count ELSE -((-n) \div count)

Mttr ==
    IF Recovered = {} THEN 0
    ELSE Mean(MapThenSumSet(LAMBDA r : runRow[NextSuccess(r)].started - runRow[r].finished,
                            Recovered),
              Cardinality(Recovered))

-----------------------------------------------------------------------------
(* The queries.                                                            *)

\* _run_filters.
Matching(q) ==
    {r \in Stored : /\ q.connector \in {NoConnector, runRow[r].connector}
                    /\ q.status \in {"ANY", runRow[r].status}}

\* ORDER BY started_at DESC OFFSET offset LIMIT Limit.
Page(q) ==
    {r \in Matching(q) :
        Cardinality({s \in Matching(q) : runRow[s].started > runRow[r].started})
            \in offset .. offset + Limit - 1}

\* Mutant: rows are refreshed when they are read again.
LoadedAfresh(r) == runRow[r].status

\* What a row says in this session: an object it holds keeps its columns.
Loaded(r) == IF counted[r] # "NONE" THEN counted[r] ELSE runRow[r].status

\* _collect_connector_rows: the first of each connector, newest first.
LastRun(c) ==
    LET runs == {r \in Stored : runRow[r].connector = c}
    IN  IF runs = {} THEN NoRun ELSE CHOOSE r \in runs : \A s \in runs \ {r} : Earlier(s, r)

\* Only connectors asked for, and only those whose last run has the status.
ConnectorRows(q) ==
    [c \in Connectors |->
        LET r == LastRun(c)
        IN  IF \/ r = NoRun
               \/ q.connector \notin {NoConnector, c}
               \/ q.view = "snapshot" /\ q.status \notin {"ANY", Loaded(r)}
            THEN NoLast[c] ELSE [run |-> r, status |-> Loaded(r)]]

\* Mutant: the last row is taken for the row after it.
HasMoreShort(shown) == offset + shown + 1 < total

HasMore(shown) == offset + shown < total

-----------------------------------------------------------------------------
FirstStep(q) == IF q.view = "snapshot" THEN "slo" ELSE "rows"

\* The first page.
Ask(q) ==
    /\ step = "idle"
    /\ asked' = q /\ step' = FirstStep(q)
    /\ expected' = Matching(q)
    /\ UNCHANGED <<treeVars, manualVars, offset, answerVars, seen, raced>>

\* compute_slo_metrics; its objects are gone when it returns.
SelectSlo ==
    /\ step = "slo"
    /\ succeeded' = {r \in Stored : runRow[r].status = "SUCCESS"}
    /\ step' = "window"
    /\ UNCHANGED <<treeVars, manualVars, asked, offset, counted, total, more, pageRow, lastRow,
                   seen, expected, raced>>

\* window_runs, of which failed and running ones are counted.
SelectWindow ==
    /\ step = "window"
    /\ counted' = [r \in Runs |-> runRow[r].status]
    /\ step' = "count"
    /\ UNCHANGED <<treeVars, manualVars, asked, offset, succeeded, total, more, pageRow, lastRow,
                   seen, expected, raced>>

SelectCount ==
    /\ step = "count"
    /\ total' = Cardinality(Matching(asked))
    /\ step' = "page"
    /\ UNCHANGED <<treeVars, manualVars, asked, offset, succeeded, counted, more, pageRow, lastRow,
                   seen, expected, raced>>

SelectPage ==
    /\ step = "page"
    /\ pageRow' = [r \in Runs |-> IF r \in Page(asked) THEN Loaded(r) ELSE "NONE"]
    /\ more' = HasMore(Cardinality(Page(asked)))
    /\ seen' = seen \cup Page(asked)
    /\ raced' = (raced \/ Cardinality(Matching(asked)) # total)
    /\ step' = IF asked.view = "snapshot" THEN "rows" ELSE "answer"
    /\ UNCHANGED <<treeVars, manualVars, asked, offset, succeeded, counted, total, lastRow, expected>>

\* build_connector_detail collects them first, build_ops_snapshot last; a connector
\* without file and runs is answered 404.
SelectRows ==
    /\ step = "rows"
    /\ lastRow' = ConnectorRows(asked)
    /\ step' = IF asked.view = "snapshot" THEN "answer"
               ELSE IF LastRun(asked.connector) # NoRun \/ tree.files[asked.connector] # Absent
                    THEN "count" ELSE "cut"
    /\ UNCHANGED <<treeVars, manualVars, asked, offset, succeeded, counted, total, more, pageRow,
                   seen, expected, raced>>

\* The client reads the answer and asks for the next page while there is one.
NextPage ==
    /\ step = "answer"
    /\ step' = IF more THEN FirstStep(asked) ELSE "done"
    /\ offset' = IF more THEN offset + Limit ELSE offset
    /\ succeeded' = {} /\ counted' = NoRuns /\ total' = 0 /\ more' = FALSE
    /\ pageRow' = NoRuns /\ lastRow' = NoLast
    /\ UNCHANGED <<treeVars, manualVars, asked, seen, expected, raced>>

OpsNext ==
    \/ \E q \in Queries : Ask(q)
    \/ SelectSlo \/ SelectWindow \/ SelectCount \/ SelectPage \/ SelectRows \/ NextPage

-----------------------------------------------------------------------------
(* Properties.                                                             *)

\* The parts of a snapshot agree about the runs its window query returned, though its
\* queries see the table at different moments: a run the summary counts as failed or
\* running is shown with that status on the page and as its connector's last run, and
\* none is counted as successful besides.  (ops.py keeps window_runs; the last SELECT
\* would return a run that has ended since.)  Nothing is said of runs that start after
\* the window query, nor of a connector's detail, whose two queries keep nothing.
AnswerAgreesWithItself ==
    \A r \in Runs : counted[r] # "NONE" =>
        /\ pageRow[r] \in {"NONE", counted[r]}
        /\ \A c \in Connectors : lastRow[c].run = r => lastRow[c].status = counted[r]
        /\ r \in succeeded => counted[r] = "SUCCESS"

\* A client that follows has_more to the end has seen every run that matched when
\* it began, however many runs start meanwhile, unless the query is for the status
\* RUNNING, which runs leave, or a match was added between a count and its page.
PagingSkipsNothing ==
    step = "done" /\ ~raced /\ asked.status # "RUNNING" => expected \subseteq seen

\* No run of a connector ended after a later one had begun.
OneAfterAnother ==
    \A r, s \in Stored : Earlier(r, s) => runRow[r].finished < runRow[s].started

SuccessStarts(r) ==
    {runRow[s].started : s \in {k \in Stored : /\ runRow[k].status = "SUCCESS"
                                               /\ runRow[k].connector = runRow[r].connector
                                               /\ runRow[k].started > runRow[r].finished}}

\* As long as the runs of a connector follow each other, mttr_seconds is the mean
\* time from the end of a failed run to the next start of one that succeeds.  (With
\* a run-now beside a CronJob it need not be, and is negative when the older of the
\* two fails last.)
MttrIsTimeToRecovery ==
    OneAfterAnother =>
        LET failed == {r \in Stored : runRow[r].status = "FAILED" /\ SuccessStarts(r) # {}}
            Gap(r) == Min(SuccessStarts(r)) - runRow[r].finished
        IN  Mttr = IF failed = {} THEN 0
                   ELSE MapThenSumSet(Gap, failed) \div Cardinality(failed)
=============================================================================
