SPECIFICATION Spec
CONSTANTS
    Requests = {q1, q2, q3}
    Keys = {k1, k2}
    NoKey = NoKey
    Bodies = {b1, b2, bad, scalar}
    Malformed = {bad}
    Scalars = {scalar}
    Connectors = {c1, c2, c3, c4}
    Configured = {c1, c2, c3}
    PushConnectors = {c1, c2}
    Processes = {p1, p2}
SYMMETRY Interchangeable
INVARIANTS AcceptedReplay
\* Every request is answered or lost in the end.
CHECK_DEADLOCK FALSE
