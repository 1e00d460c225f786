SPECIFICATION MCSpec
CONSTANTS
    c1 = c1
    c2 = c2
    x = x
    y = y
    u1 = u1
    u2 = u2
    m1 = m1
    m2 = m2
    Connectors = {c1, c2}
    Texts = {x, y}
    Absent = Absent
    Requests <- SomeRequests
    Users = {u1, u2}
    NoRequest = NoRequest
    MaxSecond = 1
    Tickets = {m1, m2}
    Runs = {r1, r2, r3}
    NoRun = NoRun
    NoConnector = NoConnector
    Queries <- SomeQueries
    Limit = 1
INVARIANTS ControlTypeOK PullRequestIsWhole JobsMatchFiles RequestMatchesRun
           AnswerAgreesWithItself PagingSkipsNothing MttrIsTimeToRecovery
PROPERTIES OnlyStaleTreesReschedule RequestEnds
CHECK_DEADLOCK FALSE
