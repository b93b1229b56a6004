SPECIFICATION FairSpec
CONSTANTS
    Tops = {1}
    TopCalls = 3
    ChildCalls = 1
    AgentCalls = 2
    Parallel = 2
    Slots = {2}
    MaxCancels = 0
    MaxResizes = 0
CHECK_DEADLOCK FALSE
PROPERTIES CallsReported
