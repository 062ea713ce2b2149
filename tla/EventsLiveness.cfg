SPECIFICATION FairSpec
CONSTANTS
    None = None
    Browser = {b1}
    Alert = {a1}
    Limit = 1
    MaxEvents = 2
    MaxClicks = 3
PROPERTIES
    ClickIsFollowedByReload
CHECK_DEADLOCK FALSE
