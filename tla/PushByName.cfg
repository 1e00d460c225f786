SPECIFICATION Spec
CONSTANTS
    d1 = d1
    d2 = d2
    v1 = v1
    v2 = v2
    Docs = {d1, d2}
    Versions = {v1, v2}
    Absent = Absent
    Batches = {b1, b2}
    FirstBatch = NoBatch
    NoBatch = NoBatch
    Payloads <- Varied
    Procs = {p1}
    Targets = {b1}
INVARIANTS QueuedRunIsProcessable
