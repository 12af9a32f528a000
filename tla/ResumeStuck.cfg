SPECIFICATION RSpec
CONSTANTS
    p = p  q = q  x = x  y = y  Main = Main
    Tasks <- ThreeTasks
    Parents <- ThreeParents
    ListOrder <- ThreeOrder
    IdOrder <- ThreeIds
    MaxRetries = 0
    MaxConcurrency = 1
    MaxRounds = 3
    Faults <- NoErrors
    ToolRaises = FALSE
    Starved = FALSE
    ManualControl = FALSE
    MaxReplans = 0
    SideEffecting <- Effects
    MaxCrashes = 1
INVARIANTS ResumeContinues
