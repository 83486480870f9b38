SPECIFICATION MCSpec
CONSTANTS
    a = a
    b = b
    Nodes = {a, b}
    Peers = {a, b}
    Listeners = {a}
    LastBeat <- OnlyBBeats
    RouterNodes = {a, b, c}
    Self = a
    Threads = {t1}
    MaxDistance = 2
    Nowhere = Nowhere
    Versions <- Releases
    MaxDay = 2
    MaxTerm = 1
INVARIANTS
    
    ExchangeAgreesOnHeartbeats
    
    PeersCanBeReached
    
    UpgradesStayCompatible
PROPERTY
    RevivalIsNews
