SPECIFICATION Spec
CONSTANTS
    p1 = p1
    p2 = p2
    Procs = {p1, p2}
    Ids = {i1}
    Texts = {t1, t2}
    NoText = NoText
    NoProc = NoProc
    Appends = FALSE
    Ops <- RepairBesideWriter
SYMMETRY TextSymmetry
INVARIANT NoSilentDrift
