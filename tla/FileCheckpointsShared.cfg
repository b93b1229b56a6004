SPECIFICATION Spec
CONSTANTS
    s1 = s1
    s2 = s2
    Sessions = {s1, s2}
    Dirs = {{s1}, {s2}}
    Keep = 2
    MaxVersions = 3
    MaxRows = 4
    MaxRuns = 2
    MaxRestores = 0
    MaxFaults = 0
CHECK_DEADLOCK FALSE
INVARIANTS ListedIsKept
