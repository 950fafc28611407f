SPECIFICATION FairBusSpec
CONSTANTS
    carrier = carrier
    backplane = backplane
    slot0 = slot0
    NoId = NoId
    NoBinding = NoBinding
    Nodes = {carrier, backplane}
    Role <- MCRole
    InitialId <- MCInitialId
    NodeIds = {1, 2, 3}
    Bindings = {slot0}
    Duties = {50, 100}
    SAFE_DEFAULT = 100
    Setups <- MCSetups
CHECK_DEADLOCK FALSE
INVARIANTS
    ReportedResultsHappened
    OnlyAbsentNodesTimeOut
    ScanFindsEveryNode
PROPERTIES
    EveryCommandExits
    EmergencyReachesEveryNode
