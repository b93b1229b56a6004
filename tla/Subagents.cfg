SPECIFICATION FairSpec
CONSTANTS
    Calls = {1, 2}
    Choices = {{2}, {1, 2}}
    Limit = 1
    MaxFaults = 1
CHECK_DEADLOCK FALSE
INVARIANTS StartsKeepLimit CanceledIsNoEvent AnswersAfterEnd
PROPERTIES CallKeepsChild CallsReturn
