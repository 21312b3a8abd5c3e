CONSTANTS
    c1 = c1
    c2 = c2
    e1 = e1
    e2 = e2
    Conns <- OneConn
    Events <- TwoEvents
    MaxRows = 4
SPECIFICATION DamageSpec
SYMMETRY Symmetry
INVARIANTS
    VerifyIsExact
    BrokenIdIsFirst
