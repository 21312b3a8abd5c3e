CONSTANTS
    c1 = c1
    c2 = c2
    e1 = e1
    e2 = e2
    Conns <- TwoConns
    Events <- TwoEvents
    MaxRows = 3
SPECIFICATION Spec
SYMMETRY Symmetry
INVARIANTS
    ChainIsTree
    PackBrokenIsRight
