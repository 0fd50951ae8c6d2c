SPECIFICATION FairSpec
CONSTANTS
    Job = {1}
    Run = {1}
    Worker = {w1}
    Artifact = {a1}
    None = None
    RunOf <- SnapshotRunOf
    Kind <- SnapshotKind
    Ttl <- SnapshotTtl
    ProducedSchema <- ComposedSchema
    MaxAttempts = 3
    LeaseFor = 1
    DeadLetterBatch = 1
    MaxTime = 4
PROPERTIES Settles
CHECK_DEADLOCK FALSE
