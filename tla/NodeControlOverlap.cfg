SPECIFICATION Spec
CONSTANTS
    Nodes = {self, n1}
    SelfNode = self
    GraphIds = {g1, g2}
    None = None
    Callers = {a, b}
    Tenants = {t1}
    Requirements = {1}
    Limits = {2}
SYMMETRY Interchangeable
PROPERTY
    OnlyReadyNodesAreClaimed
