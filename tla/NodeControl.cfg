SPECIFICATION Spec
CONSTANTS
    Nodes = {self, n1}
    SelfNode = self
    GraphIds = {g1, g2}
    None = None
    Callers = {a, b}
    Tenants = {t1}
    Requirements = {0, 2}
    Limits = {0, 1}
SYMMETRY Interchangeable
INVARIANTS
    QuotaBoundsGraphs
    
    
