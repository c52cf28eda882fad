SPECIFICATION FairSpec
CONSTANTS
    Clients = {c1}
    CallBackThread = cb
    NoThread = none
    MaxSessions = 2
    MaxReports = 1
    MaxStops = 0
    RacingDestroy = FALSE
    SpuriousWakeups = FALSE
PROPERTIES
    CallReturns
    RoundFinishes
