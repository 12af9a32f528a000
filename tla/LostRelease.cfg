SPECIFICATION Spec
CONSTANTS
    p = p  q = q  x = x  y = y  Main = Main
    Tasks <- FourTasks
    Parents <- FourParents
    ListOrder <- FourOrder
    IdOrder <- FourIds
    MaxRetries = 0
    MaxConcurrency = 2
    MaxRounds = 4
    Faults <- Recoverables
    ToolRaises = FALSE
    Starved = FALSE
    ManualControl = FALSE
    MaxReplans = 0
INVARIANTS NothingLeftBehind
