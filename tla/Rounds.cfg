SPECIFICATION Spec
CONSTANTS
    p = p  q = q  x = x  y = y  Main = Main
    Tasks <- FourTasks
    Parents <- FourParents
    ListOrder <- FourOrder
    IdOrder <- FourIds
    MaxRetries = 1
    MaxConcurrency = 2
    MaxRounds = 4
    Faults <- AllErrors
    ToolRaises = TRUE
    Starved = FALSE
    ManualControl = FALSE
    MaxReplans = 1
INVARIANTS
    DependencyBarrier ReleaseStillDue ReplanSparesOthers NoOrphan
    OwnEvidence AttemptBudget Strengthening
