SPECIFICATION Spec
CONSTANTS
    r1 = r1
    r2 = r2
    t1 = t1
    Runs = {r1}
    Calls = {1}
    Tasks = {}
    Owner <- MCOwner
    Starter <- MCStarter
    Mutating = {1}
    Awaiting = {}
    MaxRecoveries = 1
    MaxSpawned = 1
    MaxCrashes = 0
    RequestsEnd = TRUE
INVARIANT CanceledIsStopped
CHECK_DEADLOCK FALSE
