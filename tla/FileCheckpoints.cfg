SPECIFICATION Spec
CONSTANTS
    s1 = s1
    s2 = s2
    Sessions = {s1, s2}
    Dirs = {{s1, s2}}
    Keep = 4
    MaxVersions = 2
    MaxRows = 6
    MaxRuns = 2
    MaxRestores = 1
    MaxFaults = 1
CHECK_DEADLOCK FALSE
INVARIANTS ListedIsKept UndoIsRunStart
PROPERTIES RestoreIsUndoable
SYMMETRY Symmetry
