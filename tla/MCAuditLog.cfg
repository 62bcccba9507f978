SPECIFICATION AuditSpec
CONSTANTS
    AUDIT_MAX = 2
    AUDIT_ARCHIVES = 3
    MaxRecords = 12
    MaxFaults = 3
CHECK_DEADLOCK FALSE
INVARIANTS
    SuffixKept
    FaultsCostLittle
