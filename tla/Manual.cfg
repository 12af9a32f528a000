SPECIFICATION Spec
CONSTANTS
    p = p  q = q  x = x  y = y  Main = Main
    Tasks <- ThreeTasks
    Parents <- ThreeParents
    ListOrder <- ThreeOrder
    IdOrder <- ThreeIds
    MaxRetries = 1
    MaxConcurrency = 2
    MaxRounds = 2
    Faults <- AllErrors
    ToolRaises = TRUE
    Starved = TRUE
    ManualControl = TRUE
    MaxReplans = 2
PROPERTIES ImplementsDagRun
