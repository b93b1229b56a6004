SPECIFICATION Spec
CONSTANTS
    Messages = {1,2}
    Runs = {1,2}
    Modes = {"queue"}
    ReplyOnce = {2}
    Canceled = {}
    Triggers = FALSE
    MaxCrashes = 0
CHECK_DEADLOCK FALSE
PROPERTIES ReplyOnceOwnRun
