SPECIFICATION FairStreamSpec
CONSTANTS
    Records = {run}
    Shared = {run}
    ChannelSize = 2
    WireSize = 1
    MaxVersion = 2
    MaxBreaks = 0
    MaxRestarts = 0
    run = run
CHECK_DEADLOCK FALSE
PROPERTIES SharedCatchesUp
