SPECIFICATION FairSpec
CONSTANTS
    Docs = {d1}
    Versions = {v1}
    Runs = {r1, r2}
    FirstRun = NoRun
    Absent = Absent
    NoRun = NoRun
    DeletePolicy = "soft_delete_only"
    Incremental = FALSE
    Overlap = FALSE
    MaxChanges = 2
PROPERTIES SoftDeleteKeepsDocuments
\* The bounded set of runs is used up and the source may stop changing.
CHECK_DEADLOCK FALSE
