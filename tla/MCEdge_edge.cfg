SPECIFICATION Spec
CONSTANTS
    None = None
    r1 = r1
    r2 = r2
    r3 = r3
    token = token
    session = session
    forged = forged
    WindowSeconds = 2
    MaxKeys = 4
    Requests = {r1, r2, r3}
    Credentials = {token, session, forged}
    Shapes <- MCShapes
    SubjectOf <- MCSubjectOf
    IssuedAt <- MCIssuedAt
    ExpiresAt <- MCExpiresAt
    Skew = 0
    CookiePolicy = TRUE
    PrincipalRequests = 1
    DirectPeerEdgeRequests = 2
    MaxBytes = 1
    MaxFrames = 1
    MaxWall = 2
    MaxStepsBack = 1
    Threads = {t1, t2}
    Kids = {k1, k2}
    CacheSeconds = 1
    MinRefresh = 1
    MaxMono = 2
    MaxFetches = 5
    a1 = a1
    a2 = a2
    Attempts = {a1, a2}
    JobOf <- MCJobOf
    GenerationOf <- MCGenerationOf
    Deadline <- MCDeadline
    RuntimeOf <- MCRuntimeOf
    Runtimes = {"v1", "v2"}
    Seeds = 2
    TokenSeconds = 1
    ServiceSkew = 0
    MaxTransientRetries = 1
    MaxNow = 1
    MaxRestarts = 1
    c1 = c1
    c2 = c2
    o1 = o1
    o2 = o2
    w1 = w1
    w2 = w2
    Calls = {c1, c2}
    Metas = {a}
    Ops = {o1, o2}
    MaxTime = 2
    MaxVersions = 2
    MaxMarkers = 1
    MaxSerial = 3
    Retain = 1
    p1 = p1
    p2 = p2
    Workers = {w1, w2}
    Routes <- MCRoutes
    Values = {1, 3}
    Threshold = 0
    AllowPartial = TRUE
    AllowStale = FALSE
    Gates = {"open", "stale"}
    MaxAttempts = 2
    MaxClock = 1
INVARIANTS WindowsHold ServedForOneIdentity KeysAreCurrent AnswerIsBound OneStory SnapshotIsSound
PROPERTIES MutationsAreAccountable
CHECK_DEADLOCK FALSE
