SPECIFICATION MCSpec
CONSTANTS
    Nodes = {a, b, c, d}
    NumSpikes = 6
    Window = 3
    Keep = 4
    Threshold = 1
    Variances = {0, 1, 3}
    Kp = 5
    Ki = 1
    Kd = 3
    EpsMin = 1
    EpsMax = 12
    InitialEpsilon = 14
    IntegralMax = 3
    StableIntegral = 2
    StableError = 1
    MaxSamples = 5
    Changes <- SmallChanges
    NumWeights = 3
    MaxWeight = 4
    TargetVolume = 6
    MaxTensorValue = 4
    InverseEpsilon = 2
    MaxDenominator = 12
INVARIANTS
    EdgesAreCounted
    PartitionsAreComponents
    RecursionIsBounded
    EarlyEndIsEarned
    OscillationDiesOut
    
PROPERTIES
    
    PartitionsReturns
