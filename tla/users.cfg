CONSTANTS
    a1 = a1
    a2 = a2
    u1 = u1
    w1 = w1
    d1 = d1
    d2 = d2
    r1 = r1
    None = None
    Avatars = {a1, a2}
    Users = {u1}
    Owner <- MCOwner
    Workers = {w1}
    Deleters = {d1, d2}
    Readers = {r1}
    MaxRetries = 0
    BatchSize = 1
    MaxFaults = 0
    MaxLosses = 0
CHECK_DEADLOCK FALSE
SYMMETRY MCSymmetry
SPECIFICATION ReadSpec
INVARIANTS
    OneActivePerUser
    ErrorsOnlyAfterDeletion
PROPERTIES
    ImplementsLifecycle
