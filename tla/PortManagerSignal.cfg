SPECIFICATION SignalFairSpec
CONSTANTS
    NumPorts = 1
    Apps = {a1}
    Type1Ports = {}
    Connectors = {"connected", "disconnected"}
    MaxFaults = 1
    MaxEvents = 1
CHECK_DEADLOCK FALSE
INVARIANT
    OffAtExit
PROPERTY
    SignalEndsDaemon
