SPECIFICATION Spec
CONSTANTS
    FanIds = {0, 1}
    Duties = {0, 100, 101}
    SAFE_DEFAULT = 100
    PendingWrites = 2
INVARIANTS
    EmergencyKeepsCooling
