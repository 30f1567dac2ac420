SPECIFICATION Spec
CONSTANTS
    Processes = {z1, z2}
    Parts = {x}
    Alone = TRUE
    Gm = FALSE
    MaxWrites = 2
    MaxTime = 2
PROPERTIES ExpiryKept
CHECK_DEADLOCK FALSE
