SPECIFICATION Spec
CONSTANTS
    a = a  b = b  NoOne = NoOne
    Engines = {a, b}
    Batch = 2
    FaultModels = {{"crash"}}
    MaxCommands = 2
    MaxFaults = 1
INVARIANTS
    ReplayedIsProjected
CHECK_DEADLOCK FALSE
