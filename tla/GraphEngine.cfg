SPECIFICATION FairSpec
CONSTANTS
    c1 = c1
    c2 = c2
    k1 = k1
    k2 = k2
    Clients = {c1, c2}
    GraphIds = {g1, g2}
    Keys = {k1, k2}
    KeysOf <- OneShared
    NoKey = NoKey
    None = None
INVARIANTS
    HandedOutIdsResolve
    OneGraphPerClientAndKey
    
PROPERTIES
    
    SubmitIsGetOrCreate
