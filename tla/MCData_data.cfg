SPECIFICATION Spec
CONSTANTS
    None = None
    Minute = 3
    GateRequests = 2
    GateFailures = 2
    GateCooldown = 1
    MaxStall = 1
    Callers = {c1, c2}
    Day = 2
    TaipeiOffset = 1
    ListedAt = 1
    TickerLife = 1
    PageLife = 1
    PageTimeout = 2
    SourceRequests = 3
    OverviewLife = 1
    Periods = {"first", "second"}
    PeriodOf <- MCPeriodOf
    EndOf <- MCEndOf
    FactLimit = 1
    FilingLimit = 2
    RowLimit = 1
    MaxTick = 4
    MaxAsked = 2
    Readers = {t1, t2}
    SessionDay = 3
    OpensAt = 1
    ClosesAt = 2
    ValidThrough = 3
    CurrentAge = 0
    DelayedAge = 1
    QuoteLife = 1
    SourceTimeout = 2
    DatasetsBudget = 1
    MaxQuoteTick = 4
    MaxReads = 3
    f1 = f1
    f2 = f2
    Fixtures = {f1, f2}
    FixtureAsOf <- MCFixtureAsOf
    FixtureState <- MCFixtureState
    FixtureConflicts <- MCFixtureConflicts
    AllowStale = FALSE
    AllowPartial = TRUE
    MaxAsOf = 1
    PageRuns = {r1, r2}
    Selections = {s1, s2}
    MaxSerial = 3
    MaxFlips = 2
    MaxWire = 3
INVARIANTS AnswerIsRecent QuotesHold ReplayIsRecorded PageHolds
CHECK_DEADLOCK FALSE
