SPECIFICATION RSpec
CONSTANTS
    p = p  q = q  x = x  y = y  Main = Main
    Tasks <- FourTasks
    Parents <- FourParents
    ListOrder <- FourOrder
    IdOrder <- FourIds
    MaxRetries = 0
    MaxConcurrency = 1
    MaxRounds = 4
    Faults <- NoErrors
    ToolRaises = FALSE
    Starved = FALSE
    ManualControl = FALSE
    MaxReplans = 1
    SideEffecting <- Effects
    MaxCrashes = 1
INVARIANTS NotReadyOnStale
