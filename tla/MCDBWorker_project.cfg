SPECIFICATION Spec
CONSTANTS
    alice = alice  bob = bob  m = m  k = k  n = n  j = j  t1 = t1  t2 = t2  t3 = t3
    w1 = w1  w2 = w2  NoRow = NoRow
    Workers = {w1, w2}
    OrderOf <- MCOrderOf
    TradeOf <- MCTradeOf
    Balance0 <- MCBalance0
    Scenarios <- MCScenarios
    Batch = 3
    MaxFaults = 2
INVARIANTS
    TypeOK
    TablesAgree
    AckedIsApplied
PROPERTIES
    Projects
    
CHECK_DEADLOCK FALSE
