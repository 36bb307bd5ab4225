SPECIFICATION ServiceSpec
CONSTANTS
    MaxPort = 2
    DefaultPort = 2
    DefaultMax = 3
    DefaultMin = 2
    DefaultRetries = 1
    DefaultTimeout = 2
    Second = 2
    Garbled = Garbled
    NoTag = NoTag
    Values <- MCValues
    MaxSet = 2
    Goroutines = {g1, g2}
INVARIANTS
    TypeOK
    LayersInOrder
    LoadRefusesForAReason
    AcceptedIsStable
    SaneSettings
    NoDriverLeaked
    RetryTellsTheTruth
    NothingLeftBehind
    StatusMatchesClass
PROPERTIES
    DriverIsAHandle
    HealthReturns
    StartupReturns
    CloseReturns
CHECK_DEADLOCK FALSE
