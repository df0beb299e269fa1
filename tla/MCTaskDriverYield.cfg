SPECIFICATION Spec
CONSTANTS
    t1 = t1
    t2 = t2
    Threads <- MCThreads
    NumDrivers = 1
    OutputDrivers = {1}
    HasPartitionedOutput = TRUE
    MaxSuspensions = 1
    MaxWakeups = 0
    Events = {"cancel", "reclaim", "yield"}
SYMMETRY Symmetry
INVARIANTS NoStrandedDriver
CHECK_DEADLOCK FALSE
