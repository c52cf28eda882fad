SPECIFICATION FairSpec
CONSTANTS
    Threads = {t1, t2}
    NoThread = NoThread
    NoCall = NoCall
    Levels = {0, 1}
    MessageSize = 2
    MaxKsvCount = 3
    CountRange = 5
    SrmSizes <- MCSrmSizes
    MaxSrmSize = 3
    Faulty = {"request", "first"}
    MaxFaults = 2
CHECK_DEADLOCK FALSE
INVARIANTS
    TypeOK
    StreamsInStep
    SuccessHolds
PROPERTIES
    ImplementsService
    CallReturns
