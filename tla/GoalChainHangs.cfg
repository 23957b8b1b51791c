CONSTANTS
    Tools = {tool}
    LLMTools = {tool}
    Agents = {agent, other}
    Tenants = {tenant}
    Invocations = {i1, i2, i3}
    tool = tool
    tenant = tenant
    agent = agent
    other = other
    i1 = i1
    i2 = i2
    i3 = i3
    x1 = x1
    x2 = x2
    x3 = x3
    none = none
    ToolOf <- AllTool
    AgentOf <- TwoAgents
    TenantOf <- OneTenant
    DefaultLimit = 1
    Limits = {1, 2}
    Callers = {x1, x2}
    Impatient = {x2}
    CacheKeys = {"k"}
    FailureThreshold = 2
    RecoveryTimeout = 1
    Producers = {x1, x2, x3}
    Jobs = {"j"}
    Tokens = {"t"}
    DepthLimit = 2
    StreamMaxlen = 1
    Partitions = {"pa"}
    DateOf <- AllExpired
    Rows = {"x", "y"}
    PartitionOf <- OnePartition
    Archivers = {x1, x2}
    Restorers = {x3}
    TTLDays = 1
    MaxDay = 1
    Records = {"x"}
    MaxCalls = 3
    MaxCallers = 2
    Threshold = 2
    BatchSize = 2
    Top = none
    Clients = {x1, x2, x3}
    RowOperations = {"goal_insert", "goal_update", "memory_insert", "audit_append"}
    RowKeys = {"k"}
    PoolSize = 2
    MaxAttempts = 2
    NoCall = none
    Followed = {"goals", "logs", "kernel_audit_log"}
    Migrators = {x1, x2}
    MaxRuns = 2
    Versions <- ThreeVersions
    Outbound = {x1, x2, x3}
    DomainOf <- TwoDomains
    Allowed = {"d1"}
    WorkflowOf <- TwoWorkflows
    TokensOf <- TwoTokens
    RateLimit = 1
    Budget = 3
    Calls = {x1, x2, x3}
    Faulty = {x3}
    Watchers = {"w1", "w2"}
    MaxConcurrent = 2
    Goals = {"g"}
    Contracts <- TwoContracts
    NoPeer = none
    MaxTopologies = 2
    RegisteredIds = {"i"}
    Values = {"m", "n", "bad"}
    Malformed = {"bad"}
    Threads = {x1, x2}
    TTLs = {1}
    MaxClock = 3
    NoValue = none
    Readers = {x3}
    MaxVersion = 2
    MaxInstances = 2
    MaxGeneration = 2
    NoThread = none
    PhaseGoals = {"d1", "d2", "e1"}
    PhaseOf <- TwoPhases
    Pre <- NeedsX
    Post <- GivesX
    SilOf <- Sils
    ArgumentIds = {"n1", "n2"}
    EvidenceIds = {"ev"}
    Icds = {"i1", "i2"}
    Mentions <- BothIcds
    Paths <- FourPaths
    Rules <- EditorRules
    Reviewers = {0, 1}
    Contexts = {"internal", "external"}
    Tuples <- ThreeTuples
    MaxReviewers = 2
SPECIFICATION ChainSpec
CHECK_DEADLOCK FALSE
PROPERTIES
    ValidationEnds
