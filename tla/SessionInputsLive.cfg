SPECIFICATION LiveSpec
CONSTANTS
    Messages = {1,2}
    Runs = {1,2}
    Modes = {"steer","interrupt"}
    ReplyOnce = {}
    Canceled = {}
    Triggers = FALSE
    MaxCrashes = 1
CHECK_DEADLOCK FALSE
INVARIANTS ConsumedWasGiven
PROPERTIES MessageTaken
