SPECIFICATION FairSpec
CONSTANTS
    Tasks = {1}
    GoalRuns = 1
    WakeChain = 2
    MaxActs = 1
    MaxCancels = 1
    MaxJobs = 2
CHECK_DEADLOCK FALSE
PROPERTIES GoalAlwaysGoesOn
