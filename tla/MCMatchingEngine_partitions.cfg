SPECIFICATION Spec
CONSTANTS
    alice = alice  bob = bob  e1 = e1  e2 = e2
    o1 = o1  o2 = o2  o3 = o3  p0 = p0  p1 = p1
    NoOrder = NoOrder  NoEvent = NoEvent  Unlocked = Unlocked
    Users = {alice, bob}
    Events = {e1, e2}
    OrderIds = {o1, o2, o3}
    Partitions = {p0, p1}
    PartitionOf <- TwoPartitions
    DefaultPartition = p0
    Requests <- PartitionRequests
    CancelEvents = {e1, e2, NoEvent}
    StartingBalance = 2
    SeedShares <- SharesForBob
    RedisMayFail = TRUE
SYMMETRY OrderSymmetry
VIEW WithoutStream
INVARIANTS
    Consistent
    CashConserved
PROPERTIES
    TerminalIsFinal
CHECK_DEADLOCK FALSE
