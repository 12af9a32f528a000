SPECIFICATION RFairSpec
CONSTANTS
    p = p  q = q  x = x  y = y  Main = Main
    Tasks <- ThreeTasks
    Parents <- ThreeParents
    ListOrder <- ThreeOrder
    IdOrder <- ThreeIds
    MaxRetries = 1
    MaxConcurrency = 2
    MaxRounds = 3
    Faults <- Errors
    ToolRaises = TRUE
    Starved = FALSE
    ManualControl = FALSE
    MaxReplans = 2
    SideEffecting <- Effects
    MaxCrashes = 1
INVARIANTS ResumedOwnership ExecutionBudget
PROPERTY EveryCallReturns
