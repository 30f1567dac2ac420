SPECIFICATION Spec
CONSTANTS
    Zones = {east, west}
    NoZone = NoZone
    MaxLogins = 2
    MaxBodies = 2
    Promptness = {TRUE, FALSE}
    MaxPlay <- WhenPrompt
    LinkRoom <- WhenPrompt
    Backlog <- OneMessage
    MaxCrashes <- WhenPrompt
    MayRefuse <- Refusals
SYMMETRY Symmetric
INVARIANTS TypeOK OneZoneIfPrompt GhostDoomed PlayersCounted WorldKnows
PROPERTY NoRollback
CHECK_DEADLOCK FALSE
