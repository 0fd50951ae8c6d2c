SPECIFICATION FairSpec
CONSTANTS
    Proc = {p1, p2}
    Stages = 2
    MaxAttempts = 2
    LeaseFor = 1
    Deadline = 3
    BaseRetryDelay = 1
    MaxMultiplier = 300
    MaxTime = 4
    Msg = {report, foreign}
    Sender = {s1, s2}
    None = None
    Deliverable = {report}
    Configured = {report}
    MaxDeliveries = 2
    MessageLease = 3
    Limit = 1
    MaxBackoff = 4
    Account = {"acme"}
    Instrument = {"i1", "i2"}
    Decision = {"d1", "d2"}
    Order = {"b1", "s2", "s1"}
    AccountOf <- DeskAccountOf
    DecisionOf <- DeskDecisionOf
    InstrumentOf <- DeskInstrumentOf
    Side <- DeskSide
    Qty <- DeskQty
    Opening <- DeskOpening
    MarkPrice = 1
    Price = {1, 2}
    MaxPendingOrders = 3
    MaxVersion = 2
    MaxActions = 1
    Checker = {"replay", "daily"}
    Fragile = {}
INVARIANTS CycleIsConsistent DeliveriesAgree BooksReconcile
PROPERTIES NoFillWhileStopped ProgressIsKept PublishedByHolder FlowSettles
CHECK_DEADLOCK FALSE
