SPECIFICATION Spec
CONSTANTS
    Srms <- StoredSrms
    NoSrm = none
    SRM_HEADER_LENGTH = 1
    DSA_SIG_LENGTH = 1
    SRM_FIRST_GEN_MAX_SIZE = 15
    MaxVrlLength = 15
    MaxFaults = 0
    MaxStops = 1
PROPERTY
    ValidMeansRead
