SPECIFICATION FairSpec
CONSTANTS
    Clients = {c1}
    CallBackThread = cb
    NoThread = none
    MaxSessions = 1
    MaxReports = 0
    MaxStops = 1
    RacingDestroy = FALSE
    SpuriousWakeups = FALSE
CHECK_DEADLOCK FALSE
PROPERTIES
    DestructorProceeds
