SPECIFICATION Spec
CONSTANTS
    z1 = z1
    z2 = z2
    Zones = {z1, z2}
    Coalesce = FALSE
    Stubborn = TRUE
    Unkillable = FALSE
    KillMayFail = FALSE
    MayShutDown = TRUE
    KillLimit = 1
    MaxObjects = 2
    MaxLaunches = 2
SYMMETRY MCSymmetry
CHECK_DEADLOCK FALSE
INVARIANTS NoneLeft
