SPECIFICATION OverlapFairSpec
CONSTANTS
    Docs = {d1, d2}
    Versions = {v1, v2}
    Runs = {r0, r1, r2}
    FirstRun = r0
    Absent = Absent
    NoRun = NoRun
    DeletePolicy = "auto_delete_missing"
    Incremental = FALSE
    Overlap = TRUE
    MaxChanges = 7
INVARIANTS LastWriterAgrees IngestedBeforeCommit
PROPERTIES RunEnds
\* The bounded set of runs is used up and the source may stop changing.
CHECK_DEADLOCK FALSE
