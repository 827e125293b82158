SPECIFICATION Spec
CONSTANTS
    r1 = r1
    r2 = r2
    s1 = s1
    t1 = t1
    t2 = t2
    c1 = c1
    c2 = c2
    i1 = i1
    i2 = i2
    w1 = w1
    w2 = w2
    e1 = e1
    e2 = e2
    u1 = u1
    u2 = u2
    m1 = m1
    m2 = m2
    p1 = p1
    p2 = p2
    q1 = q1
    q2 = q2
    ApiRequests = {r1, r2}
    Scopes = {s1}
    LimitOf <- MCLimit
    WindowSeconds = 2
    Retention = 1
    PurgeLimit = 1
    MaxClock = 6
    Txs = {t1, t2}
    Projects = {a, b}
    CorpusContents = {c1, c2}
    SizeOf <- MCSize
    SentenceLimit = 3
    PageLimit = 1
    MaxEvents = 3
    Source = source
    Replayed = replay
    Workers = {w1, w2}
    Submitters = {user}
    ImageOf <- MCImage
    VersionOf <- MCVersion
    ClassOf <- MCClass
    Contents = {c1}
    Calls = {1, 2}
    CacheSeconds = 2
    Cooldown = 2
    TokenLife = 1
    Exchanges = {e1, e2}
    Checks = {core}
    CapabilitySeconds = 1
    LastInstant = 2
    MaxBytes = 1
    ObjectSize = 2
    ObjectKeys = {1, 2}
    Users = {u1, u2}
    Limits = {2}
    PageSize = 1
    Bundles = {"b1", "b2"}
    Drills = {"d1", "d2"}
    RelationsOf <- MCRelations
    Foreign = {"other"}
    Targets = {0, 2}
    Migrators = {m1, m2}
    OwnedScopes = {"s1", "s2"}
    Provisioners = {p1, p2}
    PinnedLength = 2
    Offers <- MCOffers
    Jobs = {j1, j2}
    Attempts = {a1}
    KeyCount = 2
    StagingPage = 1
    MaxPages = 1
    WebRequests = {q1, q2}
    NoHolder = nobody
    NoSession = gone
    MaxTokens = 3
    MaxMishaps = 2
CONSTRAINT MCBound
INVARIANTS PlatformTypeOK LimiterHonest AccountsAudited OnlyKnownDeadlock ManifestsTrue AnswersTrue StoreKeepsWord EvidenceTrue  
PROPERTIES KeysFollowProvider HealthyStays StagingScanSafe
CHECK_DEADLOCK FALSE
