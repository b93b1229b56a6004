SPECIFICATION FairSpec
CONSTANTS
    Runs = {1}
    Notices = {2}
    Chats = {{1}, {2}}
    Flooded = {}
    PassLimit = 1
    FirstLoad = 2
    MaxReplies = 1
    MaxFaults = 0
CHECK_DEADLOCK FALSE
PROPERTIES UserIsTold
