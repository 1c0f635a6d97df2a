CONSTANTS
    s1 = s1
    w1 = w1
    r1 = r1
    Servers = {s1}
    Workers = {w1}
    Requests = {r1}
    OfferedBodies <- MCBodies
    MaxFileSize = 2
    MaxFaults = 1
    MaxSignals = 1
SPECIFICATION ProcessFairSpec
INVARIANTS
    ProcessInv
    AnswersAreTrue
    ReadyMeansChecked
    StoresBeforeService
PROPERTIES
    StopsCutNothing
    ToldToStop
    BackInService
