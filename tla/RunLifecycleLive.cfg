SPECIFICATION LiveSpec
CONSTANTS
    r1 = r1
    r2 = r2
    t1 = t1
    Runs = {r1}
    Calls = {1}
    Tasks = {t1}
    Owner <- MCOwner
    Starter <- MCStarter
    Mutating = {1}
    Awaiting = {}
    MaxRecoveries = 1
    MaxSpawned = 2
    MaxCrashes = 1
    RequestsEnd = FALSE
INVARIANTS ExecutorOwnsRun CanceledIsStopped
PROPERTIES AcceptedStarts DecidedResumes CanceledLetsGo
CHECK_DEADLOCK FALSE
