SPECIFICATION FairSpec
CONSTANTS
    w1 = w1
    w2 = w2
    vector = vector
    fts = fts
    Items = {i1}
    Projections <- TwoProjections
    Writers = {u1}
    MaxCommits = 2
    Workers = {w1, w2}
    Nobody = Nobody
    Adapters <- VectorOnly
    RunLimit = 2
    MaxFaults = 1
    Suspends = TRUE
INVARIANT OldestFirst
PROPERTIES
    Drained
    RunEnds
CHECK_DEADLOCK FALSE
