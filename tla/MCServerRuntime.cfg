SPECIFICATION Spec
CONSTANTS
    c1 = c1
    c2 = c2
    c3 = c3
    Conn <- MCConn
    Transport <- MCTransport
    Listeners <- MCListeners
    MaxActive = 2
    AppOpen = TRUE
INVARIANTS
    SlotsExact
    SharedOutlivesWorkers
    DescriptorsClosedOnce
    ReturnsClean
PROPERTIES
    StopReturns
    AcceptNotStalled
