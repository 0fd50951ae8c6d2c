SPECIFICATION Spec
CONSTANTS
    i1 = i1
    i2 = i2
    s1 = s1
    Instrument = {i1, i2}
    VotingStrategy = {s1}
    None = None
    OpeningCash = 18
    Scale = 4
    Unit = 10
    Prices = {1, 8, 10}
    Volumes = {0, 6, 12}
    Votes = {5, 10}
    WeightOf <- MCWeightOf
    SectorOf <- MCSectorOf
    ClassOf <- MCClassOf
    DailyVolume <- MCDailyVolume
    Portfolio <- MCPortfolio
    Risk <- MCRisk
    Execution <- MCExecution
    OpenTimes = {0, 2, 4}
    MaxRounds = 3
    MaxTime = 6
    MaxNavs = 2
    NoIdentity = NoIdentity
    c1 = c1
    c2 = c2
    d1 = d1
    d2 = d2
    e1 = e1
    e2 = e2
    Strategies = {s1}
    Report = {e1, e2}
    Data = {d1, d2}
    Caller = {c1, c2}
    AsOf <- MCAsOf
    Failing <- MCFailing
    Owner <- MCOwner
    Deployment = "shadow"
    Principal <- MCPrincipal
    ValidFor = 2
    StaleAfter = 1
    ExpiresAfter = 2
    MaxVersion <- MCMaxVersion
    MaxDbNow = 2
INVARIANTS RegistryAudited UseIsBacked
PROPERTIES BooksAgree
CHECK_DEADLOCK FALSE
