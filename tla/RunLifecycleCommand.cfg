SPECIFICATION Spec
CONSTANTS
    r1 = r1
    r2 = r2
    t1 = t1
    Runs = {r1}
    Calls = {1}
    Tasks = {t1}
    Owner <- MCOwner
    Starter <- MCStarter
    Mutating = {}
    Awaiting = {}
    MaxRecoveries = 1
    MaxSpawned = 1
    MaxCrashes = 0
    RequestsEnd = FALSE
INVARIANT CanceledLeavesNoCommand
CHECK_DEADLOCK FALSE
