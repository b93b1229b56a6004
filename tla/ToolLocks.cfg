SPECIFICATION FairSpec
CONSTANTS
    Tops = {1}
    TopCalls = 3
    ChildCalls = 1
    AgentCalls = 2
    Parallel = 2
    Slots = {1, 2}
    MaxCancels = 1
    MaxResizes = 1
CHECK_DEADLOCK FALSE
INVARIANTS KeyExclusive KeysForgotten
PROPERTIES RunsEnd
