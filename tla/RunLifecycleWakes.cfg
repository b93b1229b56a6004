SPECIFICATION BusyLiveSpec
CONSTANTS
    r1 = r1
    r2 = r2
    t1 = t1
    Runs = {r1, r2}
    Calls = {1}
    Tasks = {t1}
    Owner <- MCOwner
    Starter <- MCStarterEarlier
    Mutating = {}
    Awaiting = {1}
    MaxRecoveries = 1
    MaxSpawned = 1
    MaxCrashes = 1
    RequestsEnd = FALSE
INVARIANT ParkedHasWakeup
PROPERTY OverWakes
CHECK_DEADLOCK FALSE
