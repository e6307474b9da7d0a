SPECIFICATION ComponentsSpec
CONSTANTS
    s1 = s1
    s2 = s2
    s3 = s3
    r1 = r1
    r2 = r2
    Snaps = {s1, s2, s3}
    RunOf <- MCRunOf
    MaxEpisode = 3
    MaxPlaybook = 3
    MaxCandidate = 1
    Agents = {a1, a2}
    NoSnap = NoSnap
    Operators = {o1, o2}
    Items = {i1, i2}
    MaxVersion = 2
    Paths = {p1, p2}
    Keys = {k1, k2}
    NoLlm = NoLlm
    NoPath = NoPath
    Outputs = {q1, q2}
    MaxContent = 3
    NoOutput = NoOutput
    Rows = {w1, w2, w3}
    NoRow = NoRow
SYMMETRY LaneSymmetry
INVARIANTS
    OneEpisodePerSnapshot
    PromotedIsEarned
    LineageIsLine
    ReceiptIsTrue
    LogoutIsPossible
    UpgradeCanBeUndone
    CompletedReceiptIsTrue
PROPERTIES
    CommitIsBoundToReview
    
CHECK_DEADLOCK FALSE
