SPECIFICATION FairSpec
CONSTANTS
    Clients = {c1, c2, c3}
    CallBacks = {c3}
    Destroyers = {c1}
    NoClient = nobody
    SlotCount = 3
    MaxInterrupts = 1
CHECK_DEADLOCK FALSE
INVARIANTS
    TypeOK
    DescriptorsAccounted
    ReferencesFollowClients
PROPERTIES
    RequestAnswered
    HangupNoticed
    ConnectAnswered
