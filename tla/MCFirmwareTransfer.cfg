SPECIFICATION FairTransferSpec
CONSTANTS
    self = self
    v0 = v0
    v1 = v1
    v2 = v2
    zero = zero
    a = a
    b = b
    NoManifest = NoManifest
    Target = self
    Impact = "Interrupt"
    Sessions <- MCSessions
    Manifests <- MCManifests
    ACTIVE_APPLICATION_BYTES = 6
    U32_MAX = 9
    MaxLen = 2
    Bytes = {zero, a, b}
    ZeroByte = zero
    Factory = v0
    Setups <- AllSetups
CHECK_DEADLOCK FALSE
INVARIANTS
    HostNeverAhead
    ReportsAreTrue
PROPERTIES
    EveryInvocationExits
    RecoverableUpdatesSucceed
