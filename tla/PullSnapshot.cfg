SPECIFICATION Spec
CONSTANTS
    Docs = {d1, d2}
    Versions = {v1, v2}
    Runs = {r1, r2}
    FirstRun = NoRun
    Absent = Absent
    NoRun = NoRun
    DeletePolicy = "auto_delete_missing"
    Incremental = FALSE
    Overlap = FALSE
    MaxChanges = 3
SYMMETRY Interchangeable
INVARIANTS TypeOK DatastoreAgrees CheckpointCovers
PROPERTIES CommitReconciles
\* The bounded set of runs is used up and the source may stop changing.
CHECK_DEADLOCK FALSE
