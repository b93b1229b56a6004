SPECIFICATION Spec
CONSTANTS
    Messages = {1,2,3}
    Runs = {1,2}
    Modes = {"queue","steer"}
    ReplyOnce = {}
    Canceled = {1}
    Triggers = TRUE
    MaxCrashes = 0
CHECK_DEADLOCK FALSE
INVARIANT OneActiveRun
PROPERTIES InOrder
