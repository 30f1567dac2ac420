SPECIFICATION Spec
CONSTANTS
    Zones = {east, west}
    NoZone = NoZone
    MaxLogins = 2
    MaxBodies = 2
    Promptness = {FALSE}
    MaxPlay <- WhenPrompt
    LinkRoom <- WhenPrompt
    Backlog <- OneMessage
    MaxCrashes <- WhenPrompt
    MayRefuse <- Refusals
SYMMETRY Symmetric
INVARIANT OneZoneAtATime
CHECK_DEADLOCK FALSE
