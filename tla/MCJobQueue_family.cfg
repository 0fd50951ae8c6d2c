SPECIFICATION FairSpec
CONSTANTS
    Job = {1, 2, 3}
    Run = {1}
    Worker = {w1, w2}
    Artifact = {a1}
    None = None
    RunOf <- FamilyRunOf
    Kind <- FamilyKind
    Ttl <- FamilyTtl
    ProducedSchema <- ComposedSchema
    MaxAttempts = 2
    LeaseFor = 2
    DeadLetterBatch = 1
    MaxTime = 5
INVARIANTS ReceiptsReplay
PROPERTIES OutcomesLast Settles
CHECK_DEADLOCK FALSE
