SPECIFICATION LifecycleSpec
CONSTANTS
    v1 = v1
    v2x = v2x
    noise = noise
    secret = secret
    N = 3
    Legacy = 1
    Texts = {v1, v2x, noise, secret}
    KeyOf <- VersionKeys
    Noise = {noise}
    Secret = {secret}
    Calls = {c1, c2}
    Kinds = {"archive", "promote", "edit", "revise", "support", "contradict", "merge", "supersede", "store", "compact", "forget", "delete"}
    Jobs = {"forget", "cleanup", "rollback", "promote"}
    Batches = {b1}
    NoText = NoText
    NoKey = NoKey
    NoBatch = NoBatch
    NoCall = NoCall
SYMMETRY CallSymmetry
CHECK_DEADLOCK FALSE
INVARIANTS
    LifecycleTypeOK
    OneCurrentFact
    SecretForgotten
PROPERTIES
    RevivedOnPurpose
    MergeReplacesWhatItRead
    DeletedStaysGone
    ForgetKeepsACopy
    MirroredOrUndone
