SPECIFICATION Spec
CONSTANTS
    TLS_HANDSHAKE_TIMEOUT = 2
    LOGIN_TIMEOUT = 2
    IDLE_TIMEOUT = 2
    SESSION_MAX = 6
    TLS_SHUTDOWN_TIMEOUT = 2
    SOCKET_WRITE_TIMEOUT = 2
    MAX_OUTPUT = 2
    READ_TICK = 1
    SHUTDOWN_TICK = 2
    WORK = 1
INVARIANTS
    
    FailureIsFinal
    
PROPERTIES
    Released
