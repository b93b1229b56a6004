SPECIFICATION FairSpec
CONSTANTS
    Once = {1}
    Repeating = {2}
    RunAt = 1
    LastTime = 2
    BusyWindow = 1
    DueBatch = 1
    AskedNow = {2}
    MaxChanges = 0
    MaxFailures = 0
CHECK_DEADLOCK FALSE
PROPERTIES RunningSettles
