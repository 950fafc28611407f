SPECIFICATION DriversSpec
CONSTANTS
    Drivers = {"sw3538", "search", "ina237", "thermometer"}
    NoLimits = NoLimits
    None = None
    Policies <- MCPolicies
    Channels = {11}
    MaxFailures = 2
    Bits = 4
    Roms <- MCRoms
    Ours <- MCOurs
    MaxErrors = 2
    MaxMoves = 2
    MaxRestarts = 1
    Configs <- BothBoards
    Inputs <- MCInputs
    NoMeasurement = NoMeasurement
    MaxFaults = 1
    MaxChanges = 1
    MaxResets = 1
    Sensors = {s1, s2}
    Words <- MCWords
    NoReading = NoReading
    MaxBusFailures = 1
    MaxUnplugs = 1
    MaxConversions = 1
SYMMETRY Interchangeable
INVARIANTS
    TrackedBankIsTrue
    NothingElseTouched
    OfferWithinPolicy
    OkMeansDone
    FindsEachDeviceOnce
    MeasurementIsTrue
    ReadingIsOneSample
