SPECIFICATION Spec
CONSTANTS
    Job = {1}
    Run = {1}
    Worker = {w1}
    Artifact = {a1}
    None = None
    RunOf <- PipelineRunOf
    Kind <- PipelineKind
    Ttl <- PipelineTtl
    ProducedSchema <- ComposedSchema
    MaxAttempts = 2
    LeaseFor = 2
    DeadLetterBatch = 1
    MaxTime = 4
PROPERTIES OnlyStaleIsQuarantined
CHECK_DEADLOCK FALSE
