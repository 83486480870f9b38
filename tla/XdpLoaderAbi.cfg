SPECIFICATION Spec
CONSTANTS
    l1 = l1
    l2 = l2
    p1 = p1
    Loaders = {l1}
    Processes = {l1}
    Versions = {1, 2}
    OwnVersion = 1
    None = None
PROPERTY
    ForeignModuleFails
