SPECIFICATION Spec
CONSTANTS
    None = None
    cpu = cpu
    disk = disk
    here = here
    there = there
    Series = {cpu, disk}
    Cluster = {here, there}
    ClusterOf <- MCClusterOf
    Request = {q1, q2}
    Load = {5000, 9800}
    Window = 2
    MaxDay = 1
    MaxSamples = 4
SYMMETRY Symmetry
INVARIANTS
    TypeOK
    UrgentIsLoggedFirst
    EventsArePredicted
    AnswersAreComplete
CHECK_DEADLOCK FALSE
