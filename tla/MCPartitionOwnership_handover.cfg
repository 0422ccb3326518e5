SPECIFICATION Spec
CONSTANTS
    a = a  b = b  NoOne = NoOne
    Engines = {a, b}
    Batch = 2
    FaultModels = {{"crash"}, {"crash", "redis"}, {"crash", "replay"}, {"slow", "redis"}}
    MaxCommands = 2
    MaxFaults = 2
INVARIANTS
    TypeOK
    InPartitionOrder
    AppliedAtMostOnce
    
PROPERTIES
    OwnedByOne
    CommandsExecuted
CHECK_DEADLOCK FALSE
