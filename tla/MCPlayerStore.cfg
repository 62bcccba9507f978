SPECIFICATION Spec
CONSTANTS
    w1 = w1
    w2 = w2
    ann = ann
    bob = bob
    p1 = p1
    p2 = p2
    None = None
    Partial = Partial
    Worker = {w1, w2}
    Account = {ann, bob}
    Password = {p1, p2}
    Name <- MCName
    Path <- MCPath
    Existing <- MCExisting
    MaxCalls = 3
    MaxFailures = 1
    MaxCrashes = 1
SYMMETRY Symmetric
CHECK_DEADLOCK FALSE
INVARIANTS
    RecordsWhole
    AnswersRight
    CleansOwnFiles
PROPERTIES
    ImplementsAccountStore
