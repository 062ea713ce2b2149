SPECIFICATION FairSpec
CONSTANTS
    None = None
    Unusable = Unusable
    Node <- MCNode
    Scrape <- MCScrape
    CoreCount <- MCCoreCount
    OsName <- MCOsName
    SshEvery = 2
    MaxCycle = 2
INVARIANTS
    TypeOK
    StoredBreachHasItsEvent
    OneAlertPerCycle
    StoredNodesAreRegistered
PROPERTIES
    KnownInventoryStays
    BatchHoldsEveryNodeRead
    LogSpec
    
