SPECIFICATION TruthSpec
CONSTANTS
    vector = vector
    Items = {i1, i2}
    Projections <- OneProjection
    Writers = {u1, u2, u3}
    MaxCommits = 5
SYMMETRY WriterSymmetry
INVARIANTS
    TruthTypeOK
    PurgeLeavesNothing
    HistoryIsLine
    LastRowIsTruth
PROPERTIES
    ArchivedStaysArchived
    ImplementsSerial
CHECK_DEADLOCK FALSE
