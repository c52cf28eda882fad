SPECIFICATION HistorySpec
CONSTANTS
    NumPorts = 1
    Apps = {a1, a2}
    Type1Ports = {0}
    Connectors = {"connected", "disconnected", "unknown"}
    MaxFaults = 1
    MaxEvents = 1
SYMMETRY AppSymmetry
INVARIANTS
    TypeOK
    CachedTypeNotOverstated
    OwnedUnlessFaulted
    SwitchOffReportedUnused
PROPERTIES
    LevelHonoured
    OffOnlyWhenUnused
    NoSilentLoss
