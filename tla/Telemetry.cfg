SPECIFICATION Spec
CONSTANTS
    r1 = r1
    r2 = r2
    NumCpus = 2
    Readers = {r1}
    Resetters = {r2}
    MaxPackets <- TwoPacketsAndOne
    NotLoaded = NotLoaded
INVARIANTS
    SnapshotIsBracketed
    NothingIsMiscounted
