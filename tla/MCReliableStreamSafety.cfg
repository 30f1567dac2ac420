SPECIFICATION Spec
CONSTANTS
    SeqMod = 5
    SeqWindow = 2
    FirstCap = 1
    RawCap = 2
    Lengths = {1, 3}
    ResendCap = 2
    MaxMessages = 3
    MayClose = TRUE
INVARIANTS TypeOK InOrderDelivery NothingForgotten QueueAhead
PROPERTY ImplementsFifo
CHECK_DEADLOCK FALSE
