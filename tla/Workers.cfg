SPECIFICATION Spec
CONSTANTS
    x1 = x1
    x2 = x2
    t1 = t1
    t2 = t2
    t3 = t3
    g1 = g1
    p1 = p1
    h1 = h1
    h2 = h2
    w1 = w1
    w2 = w2
    w3 = w3
    u1 = u1
    u2 = u2
    Requests <- MCRequests
    Texts = {x1, x2}
    Covers <- MCCovers
    Output = 1
    Delay = 1
    Timeout = 4
    MaxAttempts = 2
    DatgProjects = {"p1", "p2"}
    DatgBuilds = {"b1", "b2"}
    HomeOf <- MCHome
    KeyOf <- MCKey
    RuntimeOf <- MCRuntime
    RawMaps <- MCRaw
    UnitLevel <- MCLevel
    KeyLevel <- MCKeyLevel
    ProgressLimit = 3
    Cancels = 3
    Pool <- MCPool
    UnitsOf <- MCUnits
    Draws = {2}
    SentenceCaps = {0, 5}
    IterationLimit = 3
    IterationBound = 4
    MessageLimit = 9
    MessageReserve = 6
    Trainings = {t1, t2, t3}
    Earlier = {t2, t3}
    Generations = {g1}
    Prompts = {p1}
    Attempts = {1, 2}
    Hosts = {h1, h2}
    Releases = {1, 2}
    ProjectOf <- MCProject
    PinOf <- MCPin
    Peft = {t1, t2}
    PromptsOf <- MCPrompts
    DigestOf <- MCDigest
    Allowed <- MCAllowed
    Deadline = 1
    OrphanAge = 2
    Deletions = 1
    Sources = {"a", "b", "c"}
    Sounds <- MCSounds
    StateLimit = 2
    StepCounts <- MCSteps
    TrainMessages = 8
    TrainReserve = 4
    Apis = {api}
    FleetWorkers = {w1, w2, w3}
    Runs = {u1, u2}
    ProfileOf <- MCProfile
    KindOf <- MCKind
    NeedOf <- MCNeed
    Policies <- MCPolicies
    Offered <- MCOffered
    NoPolicy <- MCNoPolicy
SYMMETRY MCSymmetry
INVARIANTS WorkerTypeOK  IndexesServe ChildHandled GenerationSound PhonRlSound InputsHold FleetServes
CHECK_DEADLOCK FALSE
