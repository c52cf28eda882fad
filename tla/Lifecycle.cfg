SPECIFICATION FairSpec
CONSTANT MaxFaults = 3
CHECK_DEADLOCK FALSE
INVARIANT
    ThreadsUseLivePorts
PROPERTIES
    StartSettles
    TermEndsDaemon
