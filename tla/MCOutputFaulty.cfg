SPECIFICATION Spec
CHECK_DEADLOCK FALSE
CONSTANTS
    Outputs <- Faulty
    NumDrivers = 1
    ExtraDrivers = 0
    MaxSize = 2
    PageSizes = {1}
    FetchSizes = {2}
    MaxPages = 2
INVARIANTS BytesAccounted NoLostWakeup ArbitraryOnce
PROPERTIES Delivery
