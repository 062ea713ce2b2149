SPECIFICATION FairSpec
CONSTANTS
    None = None
    Tab = {t1}
    Page = {nodes, events}
    Settings = settings
    Cluster = {c1, c2}
    FirstCluster = c1
    MaxTokens = 4
    MaxFetches = 2
    MaxClicks = 2
    MaxFailures = 1
INVARIANTS
    TypeOK
    EveryPageIsFilled
    HeadingIsChosen
PROPERTIES
    EndedSessionIsNoticed
    ChosenPageIsShown
CHECK_DEADLOCK FALSE
