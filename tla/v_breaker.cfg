CONSTANTS
    c1 = c1
    c2 = c2
    c3 = c3
    Callers = {c1, c2, c3}
    FailureThreshold = 2
    OpenTimeout = 2
    MaxFailures = 4
    MaxOwnFailures = 3
SPECIFICATION FairSpec
PROPERTIES
    StaysOpen
