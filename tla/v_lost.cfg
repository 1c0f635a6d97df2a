CONSTANTS
    a1 = a1
    a2 = a2
    u1 = u1
    w1 = w1
    w2 = w2
    d1 = d1
    None = None
    Avatars = {a1}
    Users = {u1}
    Owner <- MCOwner
    Workers = {w1}
    Deleters = {d1}
    MaxRetries = 3
    BatchSize = 2
    MaxFaults = 1
    MaxLosses = 1
CHECK_DEADLOCK FALSE
SPECIFICATION Spec
INVARIANTS
    OutboxLosesNothing
