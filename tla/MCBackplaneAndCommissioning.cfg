SPECIFICATION PartsSpec
CONSTANTS
    Parts = {"backplane", "commissioning"}
    FanIds = {0, 1}
    Duties = {0, 100, 101}
    SAFE_DEFAULT = 100
    PendingWrites = 2
    Nodes = {u1, u2}
    NodeIds = {1, 2}
    NoId = NoId
    NoNode = NoNode
    MaxAssignments = 3
CHECK_DEADLOCK FALSE
INVARIANTS
    DutyIsAsked
    BackplaneFlashFollows
    TrafficOnlyUnderOwnId
PROPERTIES
    DuplicatesBothLeaveService
