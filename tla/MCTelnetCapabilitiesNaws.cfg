SPECIFICATION DSpec
CONSTANTS
    Reported = {0, 1}
    MIN_TERMINAL_WIDTH = 2
    MAX_TERMINAL_WIDTH = 4
    DEFAULT_TERMINAL_WIDTH = 4
    TERMINAL_TYPE_REQUEST_LIMIT = 3
    Windows = {0, 3}
    MaxResizes = 2
CHECK_DEADLOCK FALSE
INVARIANTS
    NawsDelivered
