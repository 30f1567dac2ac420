SPECIFICATION MCSpec
CONSTANTS
    Zones = {z1, z2}
    Coalesce = TRUE
    Stubborn = TRUE
    Unkillable = TRUE
    KillMayFail = TRUE
    MayShutDown = TRUE
    KillLimit = 1
    MaxObjects = 2
    MaxLaunches = 3
CHECK_DEADLOCK FALSE
INVARIANTS TypeOK RunningCount HandlersAlive OneProcess WorldInformed WorldTypeOK BooksAgree HostedOnce
PROPERTIES StopIsFinal Recovers Answered
