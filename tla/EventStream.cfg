SPECIFICATION FairStreamSpec
CONSTANTS
    Records = {message, note}
    Shared = {}
    ChannelSize = 1
    WireSize = 1
    MaxVersion = 2
    MaxBreaks = 1
    MaxRestarts = 1
    message = message
    note = note
CHECK_DEADLOCK FALSE
INVARIANTS ViewHasAll
PROPERTIES CatchesUp
