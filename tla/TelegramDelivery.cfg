SPECIFICATION FairSpec
CONSTANTS
    Runs = {2}
    Notices = {1}
    Chats = {{1}, {2}}
    Flooded = {{1}}
    PassLimit = 2
    FirstLoad = 2
    MaxReplies = 2
    MaxFaults = 1
CHECK_DEADLOCK FALSE
INVARIANTS AcknowledgedIsShown SentOnce
PROPERTIES UserIsTold
