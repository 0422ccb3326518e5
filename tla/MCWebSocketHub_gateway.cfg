SPECIFICATION Spec
CONSTANTS
    a = a  b = b  e1 = e1  Unreadable = Unreadable  ErrorReply = ErrorReply
    Clients = {a, b}
    Events = {e1}
    SendBufferSize = 1
    MaxMessages = 2
    MaxRequests = 2
INVARIANTS
    GaplessUntilClosed
    ClientLifecycle
PROPERTIES
    HubProgress
CHECK_DEADLOCK FALSE
