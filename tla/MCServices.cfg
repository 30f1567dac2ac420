SPECIFICATION MCSpec
CONSTANTS
    Processes = {z1, z2}
    Parts = {x, y}
    Alone = TRUE
    Gm = FALSE
    MaxWrites = 3
    MaxTime = 3
    Workers = {w1, w2}
    Callers = {main, web}
    MaxTasks = 3
    MaxConnections = 2
    MaxSent = 2
INVARIANTS Types CacheCoherent LastWriteKept OnceEach LinkFaithful
PROPERTIES PoolServes Arrives
CHECK_DEADLOCK FALSE
