SPECIFICATION Spec
CONSTANTS
    Srms <- MCSrms
    NoSrm = none
    SRM_HEADER_LENGTH = 1
    DSA_SIG_LENGTH = 1
    SRM_FIRST_GEN_MAX_SIZE = 15
    MaxVrlLength = 15
    MaxFaults = 1
    MaxStops = 2
INVARIANTS
    TypeOK
    TableIsOneSrm
PROPERTIES
    VersionNeverRollsBack
    AcknowledgedIsStored
    RefusalJustified
    StartLoadsExactFile
