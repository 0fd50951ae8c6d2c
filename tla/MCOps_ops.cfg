SPECIFICATION Spec
CONSTANTS
    None = None
    a1 = a1
    a2 = a2
    c1 = c1
    c2 = c2
    k1 = k1
    k2 = k2
    k3 = k3
    s1 = s1
    s2 = s2
    w1 = w1
    w2 = w2
    PCallers = {c1, c2}
    Authors = {a1, a2}
    Reputation <- MCReputation
    MinReputation = 1
    LowerAt = 2
    ResearchAt = 3
    PageLimits = {1, 2}
    ReplyIds = {9, 10}
    EventIds = {1, 2}
    ObserveUntil = 1
    MaxReplies = 2
    MaxPlatformTime = 3
    MaxPolls = 3
    RunThreads = {r1, r2}
    Keys = {k1, k2, k3}
    LocalAccounts = {w1, w2}
    Symbols = {s1, s2}
    Requests <- MCRequests
    InitialCash = 10000
    MaxAnswers = 6
    Tabs = {b1, b2}
    StartLimit = 1
    StartWindow = 2
    SnapshotWait = 1
    JobAttempts = 2
    Verdicts = {"succeeded", "degraded"}
    MaxConsoleTime = 2
    MaxStarts = 2
    MaxRestarts = 1
    SettingThreads = {t1, t2}
    Routes = {m1, m2}
    UpdateLimit = 2
    UpdateWindow = 2
    MaxSettingTime = 2
    MaxChanges = 3
    Sessions <- MCSessions
    BarSets <- MCBarSets
    OrderShapes <- MCOrderShapes
    OpeningCash = {50, 1000}
    OpeningUnits = 2
    MaxOrders = 2
    Share = 2
    SpreadBps = 200
    ImpactBps = 500
    FeeBps = 100
    MinimumFee = 1
    MaxChildren = 3
    ParityAsOf = 7
    ParityDeadline = 0
    MaxParityTime = 1
INVARIANTS FeedbackHolds RunsReplay ConsoleHolds ParityHolds
CHECK_DEADLOCK FALSE
