SPECIFICATION FairSpec
CONSTANTS
    z1 = z1
    z2 = z2
    Zones = {z1, z2}
    Coalesce = FALSE
    Stubborn = TRUE
    Unkillable = FALSE
    KillMayFail = FALSE
    MayShutDown = FALSE
    KillLimit = 1
    MaxObjects = 2
    MaxLaunches = 2
CHECK_DEADLOCK FALSE
PROPERTY RestartEnds
