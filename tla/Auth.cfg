SPECIFICATION Spec
CONSTANTS
    None = None
    Replica = {r1, r2}
    Request = {q1, q2}
    DefaultUser = admin
    User = {admin, other}
    DefaultPassword = initial
    Password = {initial, long, short}
    Short = {short}
    SessionTTL = 1
    MaxTokens = 2
    MaxTime = 2
SYMMETRY Symmetry
INVARIANTS
    TypeOK
    ServingReplicaHasUser
    AcknowledgedChangeEndsSessions
PROPERTIES
    OnlyChangesReplacePasswords
    SessionEndsForAReason
