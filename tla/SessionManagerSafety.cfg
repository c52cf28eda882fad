SPECIFICATION Spec
CONSTANTS
    Clients = {c1, c2}
    CallBackThread = cb
    NoThread = none
    MaxSessions = 2
    MaxReports = 1
    MaxStops = 1
    RacingDestroy = TRUE
    SpuriousWakeups = FALSE
SYMMETRY ClientSymmetry
CHECK_DEADLOCK FALSE
INVARIANTS
    TypeOK
    NoUseAfterFree
    ReferencesCounted
    GarbageNotStranded
PROPERTIES
    NoRemovalWhileIterating
