SPECIFICATION PartsSpec
CONSTANTS
    Parts = {"carrier", "record"}
    SupportsPd = TRUE
    Ceiling <- MCCeiling
    NoLimits = NoLimits
    Policies <- MCPolicies
    Factory <- MCFactory
    PendingWrites = 2
    Payloads = {p1, p2}
    Erased = Erased
    Garbage = Garbage
    None = None
    COMMIT_WORD = COMMIT_WORD
    HalfRange = 2
    MaxWrites = 6
    MaxCorruptions = 2
CHECK_DEADLOCK FALSE
INVARIANTS
    RestartsAccepted
    LatchedMeansOff
    FlashFollows
    OutputAuthorized
    BootsWithLastCommitted
    BootsWithACommitted
PROPERTIES
    ImplementsAtomicRecord
