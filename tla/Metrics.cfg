SPECIFICATION MCSpec
CONSTANTS
    k1 = k1
    k2 = k2
    k3 = k3
    n1 = n1
    n2 = n2
    Threads = {t1, t2, t3}
    Counters = {k1, k2, k3}
    Names = {n1, n2}
    NameOf <- TwoShareAName
    Gauges = {g1}
    Values = {v1, v2}
    None = None
    MaxCalls = 4
    Latencies = {1, 2, 3}
    MaxLatencies = 4
    RankOf = 3
    OutOf = 4
    SliTarget = 3
    MaxRequests = 6
CHECK_DEADLOCK FALSE
INVARIANTS
    SamplesInOrder
    LastSampleIsCurrent
    P95CoversRecent
PROPERTY
    CallsReturn
