SPECIFICATION MCSpec
CONSTANTS
    t1 = t1
    t2 = t2
    t3 = t3
    g1 = g1
    g2 = g2
    Tasks = {t1, t2, t3}
    Graphs = {g1, g2}
    MayExecute <- OneShares
    Impatient = {t3}
    NumStages = 2
    None = None
    c1 = c1
    c2 = c2
    c3 = c3
    alpha = alpha
    beta = beta
    Callers = {c1, c2, c3}
    Careless = {c3}
    Tenants = {alpha, beta}
    Serves <- TwoServeBoth
    MaxQuota = 2
    ModuleIds = {m1}
    Bytes = {b1, b2, bad}
    Invalid = {bad}
    NoQuota = NoQuota
    NotCompiled = NotCompiled
    Pipelines = {p1, p2}
    Dirs = {d1}
    DirOf <- OneDir
    MaxChunks = 2
    Unset = Unset
    Hole = Hole
INVARIANTS
    EntryHasExecution
    InFlightIsVisible
    
    ExecutionsAreCounted
    OutputIsWhole
PROPERTY
    CallsReturn
