SPECIFICATION WarmSpec
CONSTANTS
    d1 = d1
    d2 = d2
    v1 = v1
    v2 = v2
    Docs = {d1, d2}
    Versions = {v1, v2}
    Absent = Absent
    Batches = {b0, b1, b2}
    FirstBatch = b0
    NoBatch = NoBatch
    Payloads <- Crossing
    Procs = {p1, p2}
    Targets = {b1, b2}
SYMMETRY Interchangeable
INVARIANTS ProcessedInOrder RowsComeFromProcessed
