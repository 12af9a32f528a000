SPECIFICATION ServicesSpec
CONSTANTS
    Parts = {"tools", "rpc", "memory", "topology", "delivery", "control", "planner", "dashboard",
             "log", "settings", "goalspec",
             "authenticity"}
    Work = {"local", "far"}
    Tools = {"task", "write_file", "shell", "build"}
    Pure = {"task"}
    Denied = {"build"}
    Refusals <- MCRefusals
    AssignedTool <- MCAssignedTool
    Agent <- MCAgent
    Menu <- MCMenu
    Answers <- MCAnswers
    OwnKey <- MCOwnKey
    Writer = "write_file"
    Conditions <- MCConditions
    ToolErrors = {"RETRYABLE"}
    Sealed = {}
    MaxSteps = 1
    ToolRetries = 1
    MaxTroubles = 1
    Callers = {"u", "v"}
    MaxRequests = 2
    MaxRepeats = 1
    Records = {"goal", "rule", "root", "mid", "leaf"}
    Evidence = {"e1"}
    Owner <- MCOwner
    Kind <- MCKind
    Cites <- MCCites
    DependsOn <- MCDependsOn
    Readers = {"t2"}
    Upstream <- MCUpstream
    Similar <- MCSimilar
    RecallLimit = 1
    VectorLimit = 2
    MaxSnapshots = 1
    MaxCalls = 2
    Members = {"a", "b", "c"}
    Jobs = {"p", "q", "r", "x", "y"}
    Parents <- MCParents
    HighRisk = {"q"}
    Standbys <- MCStandbys
    Demands <- MCDemands
    Score <- MCScore
    Threshold = 2
    TopK = 1
    MaxChanges = 3
    Receivers = {"x", "y"}
    Hosts <- MCHosts
    Proven = {"q"}
    Long = {"x", "y"}
    Low = {"y"}
    MaxQueue = 2
    Tries <- MCTries
    Redone = {"q"}
    JobIds = {"j1", "j2"}
    KindOf <- MCKindOf
    RequestIds = {"r1"}
    FaultOf <- MCFaultOf
    MaxRounds = 2
    MaxRestarts = 1
    Declared = {"a", "b", "d", "clarify"}
    GoalSpecs <- MCGoalSpecs
    Titles = {"t"}
    MaxReplans = 3
    ShownTasks = {"t1", "t2"}
    MaxLog = 5
    MaxCaptures = 1
    MaxRefusals = 2
    LogTasks = {"ta", "tb"}
    Writers = {"wa", "wb"}
    Interval = 2
    MaxEvents = 4
    MaxMishaps = 1
    Stores = {"providers", "agents", "endpoints"}
    Rows <- MCRows
    Requests <- MCRequests
    StoreOf <- MCStoreOf
    RowOf <- MCRowOf
    KindOfRequest <- MCKindOfRequest
    Brings = {"s1", "e1"}
    Keyless = {"ollama"}
    Environment = {"deepseek"}
    Default = "deepseek"
    Legacy = "openai"
    Absences = {{"s4"}, {"s5"}}
    MaxReboots = 1
    Sentences <- MCSentences
    Opens = {"list", "list: x"}
    AfterLead <- MCAfterLead
    Required = {"must"}
    Forbids = {"ban"}
    Wished = {"wish"}
    Inferred <- MCInferred
    ModelDrafts <- MCModelDrafts
    MaxSentences = 3
    Needed = {"baseline skill", "report"}
    BaselineSkill = "baseline skill"
    Templates = {"writer"}
    TemplateSkills <- MCTemplateSkills
    RoleAgents <- MCRoleAgents
    Endpoints = {"official"}
    Replacements <- MCReplacements
    Chores = {"base", "rep"}
    SkillOf <- MCSkillOf
    Restricted = {}
    Reasoned = {}
    HttpRetries = 1
    MaxPlanned = 1
    MaxAttempts = 2
    MaxRegistrations = 1
INVARIANTS
    ServicesTypeOK
    EffectOnce
    OneHolder
    SucceededWasDone
    OneStrike
    OwnAnswer
    ValidRestsOnValid
    DependencyCarried
    CriticalReaches
    SerialHandoff
    StatusIsChilds
    AppliedOnce
    ResultsCurrent
    ReadyOrDone
    SnapshotTells
    ReplayIsProjection
    SavesSurvive
    KeyStaysHome
    RequirementsKept
    VerdictsAreEarned
PROPERTIES
    CoreReachesPack
CHECK_DEADLOCK FALSE
