SPECIFICATION Spec
CONSTANTS
    alice = alice  bob = bob  e1 = e1  e2 = e2
    o1 = o1  o2 = o2  o3 = o3  p0 = p0  p1 = p1
    NoOrder = NoOrder  NoEvent = NoEvent  Unlocked = Unlocked
    Users = {alice, bob}
    Events = {e1}
    OrderIds = {o1, o2, o3}
    Partitions = {p0}
    PartitionOf <- SinglePartition
    DefaultPartition = p0
    Requests <- BookRequests
    CancelEvents = {e1}
    StartingBalance = 4
    SeedShares <- SharesForAll
    RedisMayFail = FALSE
SYMMETRY OrderSymmetry
INVARIANTS
    TypeOK
    BookHoldsOpenOrders
    BooksOrdered
    FillsAddUp
    EventsInOrder
    DepthIsOpenInterest
PROPERTIES
    PriceTimePriority
CHECK_DEADLOCK FALSE
