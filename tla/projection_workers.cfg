SPECIFICATION Spec
CONSTANTS
    w1 = w1
    w2 = w2
    vector = vector
    fts = fts
    Items = {i1}
    Projections <- OneProjection
    Writers = {u1}
    MaxCommits = 3
    Workers = {w1, w2}
    Nobody = Nobody
    Adapters <- FullAdapters
    RunLimit = 2
    MaxFaults = 3
    Suspends = FALSE
SYMMETRY WorkerSymmetry
INVARIANTS
    TypeOK
    ProcessedIsProjected
PROPERTIES
    NeverOlder
    NeverAppliedAgain
    ImplementsContract
CHECK_DEADLOCK FALSE
