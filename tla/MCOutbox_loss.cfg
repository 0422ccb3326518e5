SPECIFICATION Spec
CONSTANTS
    p0 = p0  p1 = p1  NoOne = NoOne
    Fragment = Fragment  Corrupt = Corrupt
    Partitions = {p0}
    Types = {"ORDER_CREATED", "TRADE_EXECUTED"}
    FaultModels = {{"redis"}}
    MaxEmits = 2
    MaxFaults = 1
INVARIANTS
    Recoverable
CHECK_DEADLOCK FALSE
