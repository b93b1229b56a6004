SPECIFICATION Spec
CONSTANTS
    r1 = r1
    r2 = r2
    t1 = t1
    Runs = {r1}
    Calls = {1, 2}
    Tasks = {}
    Owner <- MCOwner
    Starter <- MCStarter
    Mutating = {1, 2}
    Awaiting = {}
    MaxRecoveries = 1
    MaxSpawned = 1
    MaxCrashes = 2
    RequestsEnd = TRUE
INVARIANTS ModelSeesAnswers RerunApproved BarrierHolds
PROPERTY KeepsContract
CHECK_DEADLOCK FALSE
