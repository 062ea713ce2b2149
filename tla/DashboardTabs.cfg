SPECIFICATION FairSpec
CONSTANTS
    None = None
    Tab = {t1, t2}
    Page = {nodes}
    Settings = settings
    Cluster = {c1}
    FirstCluster = c1
    MaxTokens = 2
    MaxFetches = 1
    MaxClicks = 0
    MaxFailures = 0
PROPERTY
    UnauthenticatedTabAsksForLogin
CHECK_DEADLOCK FALSE
