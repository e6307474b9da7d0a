SPECIFICATION GatewaySpec
CONSTANTS
    p1 = p1
    p2 = p2
    Procs = {p1, p2}
    Ids = {i1, i2}
    Texts = {t1, t2}
    NoText = NoText
    NoProc = NoProc
    Appends = TRUE
    Ops <- ConcurrentWrites
    Hashes = {h1, h2}
    MaxEntries = 3
    MaxReminder = 2
    MaxErrors = 6
    Reflectors = {g1, g2}
    Main = g1
    Filters = {f1, f2}
    Loads = {l1, l2}
    MaxStored = 3
    NoKey = NoKey
    Chats = {x1, x2}
    Memories = {m1}
    MinRepeated = 2
    MaxPrompts = 4
    MaxEnds = 1
    NoChat = NoChat
SYMMETRY TextSymmetry
INVARIANTS
    DriftIsIndebted
    PendingIsUntold
    StaleOnlyByRace
    NotShownAgainSoon
PROPERTY ImplementsIndex
CHECK_DEADLOCK FALSE
