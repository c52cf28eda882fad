SPECIFICATION FairSpec
CONSTANTS
    NumPorts = 1
    Apps = {a1}
    Type1Ports = {0}
    Connectors = {"connected", "disconnected"}
    MaxFaults = 0
    MaxEvents = 1
PROPERTIES
    RequestServed
    LossNoticed
    PlugNoticed
