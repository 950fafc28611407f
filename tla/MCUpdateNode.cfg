SPECIFICATION NodeSpec
CONSTANTS
    self = self
    other = other
    v0 = v0
    v1 = v1
    v2 = v2
    zero = zero
    a = a
    NoManifest = NoManifest
    Target = self
    Impact = "Interrupt"
    Sessions = {0, 1, 2}
    Manifests <- MCManifests
    ACTIVE_APPLICATION_BYTES = 3
    U32_MAX = 4
    MaxLen = 2
    Bytes = {zero, a}
    ZeroByte = zero
    Factory = v0
INVARIANTS
    SessionConsistent
    NoStaleBytes
    StagedVerified
PROPERTIES
    SessionAdvances
    AcceptedIsReceived
    AcknowledgedBytesStable
    AcknowledgedMeansStored
    ImplementsAbstract
