CONSTANTS
    p1 = p1
    p2 = p2
    acme = acme
    globex = globex
    ref1 = ref1
    Procs <- TwoProcs
    Tenants <- TwoTenants
    Refs <- OneRef
    Seed <- MCSeed
    RunLengths = {2}
    Limit = 1
    Window = 1
    MaxFiles = 2
    MaxCalls = 3
    MaxTime = 2
SPECIFICATION DemoSpec
SYMMETRY Symmetry
CHECK_DEADLOCK FALSE
INVARIANTS
    TenantsKeepTheirOwn
    TrailIsComplete
    SerialLimitHolds
    SeedIsSound
    CopiesFollowMarker
