SPECIFICATION Spec
CONSTANTS
    p = p  q = q  x = x  wide = wide  narrow = narrow  edge1 = edge1  cloud1 = cloud1
    Tasks <- ThreeTasks
    Agents <- TwoAgents
    Devices <- TwoDevices
    ListOrder <- Rank
    IdOrder <- Ids
    AgentOrder <- AgentRank
    Capacity <- Slots
    Tier <- Declared
    Able <- AnyAgent
    AllowedTiers <- EdgeOnly
    Signature <- Alike
    MutexWith <- Exclusive
    Policies <- Solver
    MaxConcurrency = 2
    MaxRetries = 1
    MaxOffline = 0
INVARIANT TiersEnforced
CHECK_DEADLOCK FALSE
