SPECIFICATION Spec
CONSTANTS
    p0 = p0  p1 = p1  NoOne = NoOne
    Fragment = Fragment  Corrupt = Corrupt
    Partitions = {p0, p1}
    Types = {"ORDER_CREATED", "TRADE_EXECUTED"}
    FaultModels = {{"crash"}, {"crash", "redis", "file"}}
    MaxEmits = 2
    MaxFaults = 2
INVARIANTS
    TypeOK
    NothingLost
    NilMeansPublished
    
PROPERTIES
    RecoverDropsOnlyAccepted
    DeliversAtLeastOnce
CHECK_DEADLOCK FALSE
