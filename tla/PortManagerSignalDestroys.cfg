SPECIFICATION SignalFairSpec
CONSTANTS
    NumPorts = 2
    Apps = {a1}
    Type1Ports = {}
    Connectors = {"connected"}
    MaxFaults = 0
    MaxEvents = 0
CHECK_DEADLOCK FALSE
PROPERTY
    SignalDestroysPorts
