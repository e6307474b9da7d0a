SPECIFICATION Spec
CONSTANTS
    w1 = w1
    w2 = w2
    vector = vector
    fts = fts
    Items = {i1}
    Projections <- OneProjection
    Writers = {u1}
    MaxCommits = 3
    Workers = {w1, w2}
    Nobody = Nobody
    Adapters <- FullAdapters
    RunLimit = 2
    MaxFaults = 2
    Suspends = TRUE
SYMMETRY WorkerSymmetry
INVARIANT ProcessedIsProjected
CHECK_DEADLOCK FALSE
