SPECIFICATION Spec
CONSTANTS
    p1 = p1
    p2 = p2
    Procs = {p1}
    Ids = {i1, i2}
    Texts = {t1, t2}
    NoText = NoText
    NoProc = NoProc
    Appends = FALSE
    Ops <- EveryCall
SYMMETRY TextSymmetry
INVARIANT TypeOK
PROPERTY CleanFullRepair
