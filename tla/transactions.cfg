CONSTANTS
    a1 = a1
    a2 = a2
    a3 = a3
    u1 = u1
    s1 = s1
    s2 = s2
    NoSession = NoSession
    Avatars = {a1, a2, a3}
    Users = {u1}
    Owner <- MCOwner
    Sessions = {s1, s2}
    MaxFaults = 1
    MaxUpdates = 1
CHECK_DEADLOCK FALSE
SPECIFICATION TxFairSpec
INVARIANTS
    TxInv
    RefusedOnlyByRival
    WaitersHoldNothing
PROPERTIES
    AreAtomic
    TransactionsEnd
