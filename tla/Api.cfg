SPECIFICATION FairSpec
CONSTANTS
    None = None
    Pod = {p1}
    MaxTasks = 4
    MaxSize = 2
    MaxStatements = 2
    FailureThreshold = 2
    MaxRequests = 2
INVARIANTS
    TypeOK
    PoolIsConserved
PROPERTIES
    OutageIsReported
    RecoversAfterOutage
