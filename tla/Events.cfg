SPECIFICATION Spec
CONSTANTS
    None = None
    Browser = {b1, b2}
    Alert = {a1}
    Limit = 1
    MaxEvents = 2
    MaxClicks = 4
SYMMETRY Symmetry
INVARIANTS
    TypeOK
    ResolveAnswersAreTrue
    ReloadDropsResolved
    ShownResolvedIsResolved
PROPERTIES
    LogSpec
CHECK_DEADLOCK FALSE
