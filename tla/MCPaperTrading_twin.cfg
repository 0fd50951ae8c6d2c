SPECIFICATION Spec
CONSTANTS
    Account = {"acme", "zeta"}
    Instrument = {"i1"}
    Decision = {"d1", "d2"}
    Order = {"b1", "b2"}
    None = None
    AccountOf <- TwinAccountOf
    DecisionOf <- TwinDecisionOf
    InstrumentOf <- TwinInstrumentOf
    Side <- TwinSide
    Qty <- TwinQty
    Opening <- TwinOpening
    MarkPrice = 1
    Price = {1}
    MaxPendingOrders = 3
    MaxVersion = 4
    MaxActions = 2
    Checker = {"operator", "daily"}
    Fragile = {"acme"}
CONSTRAINT OneCheck
INVARIANTS LogAgrees
PROPERTIES ExecutionIsBound
CHECK_DEADLOCK FALSE
