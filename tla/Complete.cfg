SPECIFICATION FairSpec
CONSTANTS
    p = p  q = q  x = x  y = y  Main = Main
    Tasks <- FourTasks
    Parents <- FourParents
    ListOrder <- FourOrder
    IdOrder <- FourIds
    MaxRetries = 0
    MaxConcurrency = 2
    MaxRounds = 8
    Faults <- NoErrors
    ToolRaises = FALSE
    Starved = FALSE
    ManualControl = FALSE
    MaxReplans = 1
PROPERTIES AllSucceed
