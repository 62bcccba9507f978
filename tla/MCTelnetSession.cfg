SPECIFICATION SessionSpec
CONSTANTS
    ann = ann
    bob = bob
    Name = {ann, bob}
    None = None
    APPLICATION_LINE_MAX = 3
    PLAYER_PASSWORD_MIN = 1
    PLAYER_PASSWORD_MAX = 2
    SUBNEGOTIATION_MAX_BYTES = 1
    PROTOCOL_VIOLATION_LIMIT = 2
    PENDING_GMCP_CORE_MAX = 2
    MaxGmcp = 4
    limit = 2
    window_ms = 3
    Calls <- MCCalls
CHECK_DEADLOCK FALSE
INVARIANTS
    LimitsHold
    EchoMatchesLogin
    FramingExact
    InGameVerified
    EarlyGmcpKept
