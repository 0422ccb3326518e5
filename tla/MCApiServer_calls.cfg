SPECIFICATION Spec
CONSTANTS
    e1 = e1  e2 = e2  o1 = o1  event1 = event1  event2 = event2  order = order
    again = again  cancel = cancel  book = book  signup = signup  other = other
    CallOf <- MCCallOf
    EventOf <- MCEventOf
    PartitionOf <- MCPartitionOf
    NumPartitions = 2
    Scenarios <- MCScenarios
    MaxAppendRetries = 2
    MaxFaults = 3
INVARIANTS
    TypeOK
    AnswersTrue
    ActsAtMostOnce
    NoReplyMissed

    
CHECK_DEADLOCK FALSE
