SPECIFICATION LifecycleSpec
CONSTANTS
    v1 = v1
    v2x = v2x
    noise = noise
    secret = secret
    N = 2
    Legacy = 0
    Texts = {v1, v2x, noise, secret}
    KeyOf <- VersionKeys
    Noise = {noise}
    Secret = {secret}
    Calls = {c1, c2}
    Kinds = {"store", "revise", "archive", "forget"}
    Jobs = {"forget"}
    Batches = {b1}
    NoText = NoText
    NoKey = NoKey
    NoBatch = NoBatch
    NoCall = NoCall
SYMMETRY CallSymmetry
CHECK_DEADLOCK FALSE
PROPERTIES
    FactKept
