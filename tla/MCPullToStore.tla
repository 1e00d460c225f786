--------------------------- MODULE MCPullToStore ---------------------------
(* Instances of PullToStore for TLC. *)
EXTENDS PullToStore, TLC

CONSTANTS v1, v2  \* members of Values

\* Runs of the prefix that are over have published nothing.
Others(running) ==
    phase = [r \in Publishers |-> IF r \in running \cup {Puller} THEN "pulling" ELSE "ended"]

NoSecret == row = v1 /\ variable = NoValue /\ runKey = "same" /\ accepted = v1

PublisherAt(isCsv, hasAlias, running) ==
    /\ csv = isCsv /\ alias = hasAlias
    /\ store = [o \in Objects |-> Nobody]
    /\ uploaded = [r \in Publishers |-> 0]
    /\ imported = [r \in Publishers |-> Nobody]
    /\ mixed = FALSE
    /\ Others(running)

EmptyDirectory ==
    /\ disk = [f \in Files |-> Gone]
    /\ saves = 0 /\ stage = "start"
    /\ unread = {} /\ step = 1 /\ mtime = 0 /\ content = {} /\ records = {}
    /\ latest = 0 /\ checkpoint = 0
    /\ still = {}

\* A REST source alone with every secret and key; a directory; two runs of a SQL
\* source that publish together.
MCInit ==
    \/ /\ mode = "rest_pull"
       /\ row \in {v1, NoValue} /\ variable \in {v1, NoValue}
       /\ row # NoValue => variable = NoValue
       /\ runKey \in {"same", "other", "unset"} /\ accepted = v1
       /\ \E auth \in BOOLEAN : RestInit(auth)
       /\ EmptyDirectory
       /\ PublisherAt(FALSE, FALSE, {})
    \/ /\ mode = "file_pull"
       /\ NoSecret /\ RestInit(FALSE) /\ FileInit
       /\ PublisherAt(FALSE, FALSE, {})
    \/ /\ mode = "sql_pull"
       /\ NoSecret /\ RestInit(FALSE) /\ EmptyDirectory
       /\ \E isCsv, hasAlias \in BOOLEAN : PublisherAt(isCsv, hasAlias, Publishers)

MCSpec == MCInit /\ [][Next]_vars /\ WF_vars(RunMoves)
=============================================================================
