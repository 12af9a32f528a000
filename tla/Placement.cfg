SPECIFICATION FairSpec
CONSTANTS
    p = p  q = q  x = x  wide = wide  narrow = narrow  edge1 = edge1  cloud1 = cloud1
    Tasks <- ThreeTasks
    Agents <- TwoAgents
    Devices <- TwoDevices
    ListOrder <- Rank
    IdOrder <- Ids
    AgentOrder <- AgentRank
    Capacity <- Slots
    Tier <- Declared
    Able <- AnyAgent
    AllowedTiers <- EdgeOnly
    Signature <- Distinct
    MutexWith <- Exclusive
    Policies <- SolverAndBaseline
    MaxConcurrency = 2
    MaxRetries = 1
    MaxOffline = 1
INVARIANTS
    WithinCapacity MutexRespected OfflineExcluded NeverSaturatedIdle
    LoneUserExact StopsOnlyInfeasible
PROPERTIES RunEnds
CHECK_DEADLOCK FALSE
