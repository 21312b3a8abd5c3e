SPECIFICATION PageSpec
CONSTANTS
    t1 = t1
    s0 = s0
    s1 = s1
    i1 = i1
    Runners <- MCTabs
    AgentsOf <- MCAgentsOf
    Sources <- MCSources
    Items <- MCItems
    Findings <- MCFindings
    Chunks = {c1}
    NoDraft = NoDraft
    NoTranscript = NoTranscript
    Headings <- MCHeadings
    ApiKey = TRUE
    MaxRuns = 2
INVARIANTS
    ScreenIsTrue
CHECK_DEADLOCK FALSE
