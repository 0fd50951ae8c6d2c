SPECIFICATION Spec
CONSTANTS
    Account = {"acme"}
    Instrument = {"i1"}
    Decision = {"d1", "d2"}
    Order = {"b1", "b2"}
    None = None
    AccountOf <- TwinAccountOf
    DecisionOf <- TwinDecisionOf
    InstrumentOf <- TwinInstrumentOf
    Side <- TwinSide
    Qty <- TwinQty
    Opening <- SoloOpening
    MarkPrice = 1
    Price = {1}
    MaxPendingOrders = 3
    MaxVersion = 2
    MaxActions = 1
    Checker = {}
    Fragile = {}
INVARIANTS StopIsAvailable
CHECK_DEADLOCK FALSE
