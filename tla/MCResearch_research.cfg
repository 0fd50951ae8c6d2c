SPECIFICATION Spec
CONSTANTS
  bar = bar
  filing = filing
  Evidence <- MCEvidence
  later = later
  Available <- MCAvailable
  Kind <- MCKind
  Plan <- MCPlan
  MaxBatch = 2
  MaxParallel = 1
  MaxIterations = 3
  MaxToolCalls = 3
  TokenBudget = 4
  AnswerTokens = 2
  RouteTokens = 3
  MaxRepairs = 1
  MaxRetries = 1
  Timeout = 2
  ToolTimeout = 1
  MaxBlocks = 3
  Deadline = 4
  SoftCost = 4
  HardCost = 5
  SoftElapsed = 3
  HardElapsed = 4
  MaxTime = 5
  None = None
  Transfers = {x1, x2}
  Addresses = {1, 2, 3, 4}
  Permitted = {1, 2, 4}
  MaxAddresses = 2
  Answers <- MCAnswers
  PresignSafety = 1
  Ttl = 1
  MaxUpsets = 1
  m1 = m1
  m2 = m2
  s1 = s1
  s2 = s2
  Migrators = {m1, m2}
  Servers = {s1, s2}
  Migrations = 2
  PackagedHead <- MCHead
  MaxRotations = 1
  MaxOutages = 1
  MaxStrangers = 2
  Expectations <- MCExpectations
  MaxDisturbed = 3
INVARIANTS SpendIsBounded LeaseIsHonest
PROPERTIES LeaseEnds ScriptsAreHonest OutboundHolds
CHECK_DEADLOCK FALSE
