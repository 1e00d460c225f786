SPECIFICATION MCSpec
CONSTANTS
    v1 = v1
    v2 = v2
    Values = {v1, v2}
    NoValue = NoValue
    Garbage = Garbage
    Pages = 2
    Attempts = 3
    Window = 1
    Lifetimes = {1, 3}
    MaxTime = 2
    Files = {1, 2}
    Docs = {d1, d2}
    Gone = Gone
    MaxSaves = 2
    Publishers = {p1, p2}
    Nobody = Nobody
    Puller = p1
INVARIANTS PullTypeOK RequestsAreBounded RotationIsPickedUp RefusedWithOwnToken
           RecordsAtRestAreExtracted ChangesLookNewer
           ManifestsAreComplete ImportsItsOwnFile AliasIsOneRun PublishedPagesAreAnswered
PROPERTIES PullEnds
CHECK_DEADLOCK FALSE
