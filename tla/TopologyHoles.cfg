SPECIFICATION Spec
CONSTANT
    Nodes = {a, b, c}
INVARIANT
    TriangleHasNoHoles
