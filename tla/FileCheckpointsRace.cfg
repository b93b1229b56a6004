SPECIFICATION Spec
CONSTANTS
    s1 = s1
    Sessions = {s1}
    Dirs = {{s1}}
    Keep = 2
    MaxVersions = 2
    MaxRows = 4
    MaxRuns = 2
    MaxRestores = 1
    MaxFaults = 0
CHECK_DEADLOCK FALSE
PROPERTY RestoreSparesRuns
