SPECIFICATION Spec
CONSTANTS
    Messages = {1,2,3}
    Runs = {1,2,3,4}
    Modes = {"steer"}
    ReplyOnce = {}
    Canceled = {}
    Triggers = FALSE
    MaxCrashes = 0
CHECK_DEADLOCK FALSE
INVARIANTS InputRunsOnce
