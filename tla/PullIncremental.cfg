SPECIFICATION WarmSpec
CONSTANTS
    Docs = {d1, d2}
    Versions = {v1, v2}
    Runs = {r0, r1, r2}
    FirstRun = r0
    Absent = Absent
    NoRun = NoRun
    DeletePolicy = "never_delete"
    Incremental = TRUE
    Overlap = FALSE
    MaxChanges = 5
SYMMETRY Interchangeable
INVARIANTS DatastoreAgrees CheckpointCovers
PROPERTIES CommitReconciles
\* The bounded set of runs is used up and the source may stop changing.
CHECK_DEADLOCK FALSE
