SPECIFICATION Spec
CONSTANTS
    w1 = w1
    w2 = w2
    p1 = p1
    p2 = p2
    a1 = a1
    a2 = a2
    Main = Main
    None = None
    Mixes = {{"connect"}, {"auth"}, {"create"}}
    Worker = {w1, w2}
    Peer = {p1, p2}
    Account = {a1, a2}
    MAX_PEER_RECORDS = 1
    MAX_ACCOUNT_RECORDS = 1
    PEER_CONNECTION_LIMIT = 2
    GLOBAL_CONNECTION_LIMIT = 3
    CONNECTION_WINDOW = 3
    PEER_CREATION_LIMIT = 1
    GLOBAL_CREATION_LIMIT = 1
    CREATION_WINDOW = 3
    ACCOUNT_AUTH_FAILURE_LIMIT = 3
    ACCOUNT_AUTH_LOCK = 4
    PEER_DELAY = 1
    PEER_DELAY_MAX = 2
    MaxDelay = 2
    MaxTime = 7
SYMMETRY Symmetric
CHECK_DEADLOCK FALSE
INVARIANTS
    WindowsHold
    AttemptsBounded
    
PROPERTIES
    CooldownHolds
