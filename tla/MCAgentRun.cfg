SPECIFICATION FairSpec
CONSTANTS
    r1 = r1
    r2 = r2
    s0 = s0
    s1 = s1
    i1 = i1
    i2 = i2
    Runners <- MCRunners
    AgentsOf <- MCAgentsOf
    Sources <- MCSources
    Items <- MCItems
    Findings <- MCFindings
    Chunks = {c1}
    NoDraft = NoDraft
    NoTranscript = NoTranscript
    Headings <- MCHeadings
    MaxRuns = 2
INVARIANTS
    DraftsReadBack
PROPERTIES
    ComputedRunsReachQueue
    DraftOnlySpec
CHECK_DEADLOCK FALSE
