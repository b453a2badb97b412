CONSTANTS
    c1 = c1
    c2 = c2
    NoConn = NoConn
    Conn <- TwoConns
    Kinds <- AllKinds
    FlushSize = 2
    MaxRequests = 2
CHECK_DEADLOCK FALSE
SPECIFICATION FairSpec
INVARIANTS OnlyAcceptedReachTheUser ContextIsPreserved EachRequestIsLoggedOnce LogsStayInOrder
PROPERTIES EveryLogIsShipped ImplementsLogQueue
