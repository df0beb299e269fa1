SPECIFICATION Spec
CONSTANTS
    t1 = t1
    t2 = t2
    Threads <- MCThreads
    OutputDrivers = {1}
    HasPartitionedOutput = TRUE
    MaxSuspensions = 2
    MaxWakeups = 1
    NumDrivers = 2
    Events = {"cancel", "throw", "futureError", "reclaim", "timeout",
              "reclaimError", "abort", "suspend"}
SYMMETRY Symmetry
INVARIANTS ThreadCount ExclusiveDriver ReclaimExclusive ClosedOnce NoStrandedDriver ChecksHold
CHECK_DEADLOCK FALSE
