SPECIFICATION Spec
CONSTANTS
    Job = {1, 2, 3}
    Run = {1, 2}
    Worker = {w1}
    Artifact = {a1}
    None = None
    RunOf <- MixedRunOf
    Kind <- MixedKind
    Ttl <- MixedTtl
    ProducedSchema <- ComposedSchema
    MaxAttempts = 2
    LeaseFor = 2
    DeadLetterBatch = 2
    MaxTime = 4
INVARIANTS TypeOK AuditAgrees AcceptedWhileLive
PROPERTIES VerdictIsFinal QueueIsLeasedTask
CHECK_DEADLOCK FALSE
