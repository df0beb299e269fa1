SPECIFICATION FairSpec
CHECK_DEADLOCK FALSE
CONSTANTS
    Outputs <- Partitioned
    NumDrivers = 2
    ExtraDrivers = 1
    MaxSize = 4
    PageSizes = {2}
    FetchSizes = {2}
    MaxPages = 1
INVARIANTS BytesAccounted
PROPERTIES Drained
