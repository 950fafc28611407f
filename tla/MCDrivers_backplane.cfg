SPECIFICATION DriversSpec
CONSTANTS
    Drivers = {"ina237"}
    NoLimits = NoLimits
    None = None
    Policies <- MCPolicies
    Channels = {11}
    MaxFailures = 2
    Bits = 4
    Roms <- MCRoms
    Ours <- MCOurs
    MaxErrors = 2
    MaxMoves = 2
    MaxRestarts = 1
    Configs <- TheBackplane
    Inputs <- EightAmperes
    NoMeasurement = NoMeasurement
    MaxFaults = 1
    MaxChanges = 1
    MaxResets = 1
    Sensors = {s1, s2}
    Words <- MCWords
    NoReading = NoReading
    MaxBusFailures = 1
    MaxUnplugs = 1
    MaxConversions = 1
INVARIANTS
    CurrentIsTrue
