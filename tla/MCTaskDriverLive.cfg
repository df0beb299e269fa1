SPECIFICATION FairSpec
CONSTANTS
    t1 = t1
    t2 = t2
    Threads <- MCThreads
    OutputDrivers = {1}
    HasPartitionedOutput = TRUE
    MaxSuspensions = 1
    MaxWakeups = 1
    NumDrivers = 2
    Events = {"cancel", "throw", "reclaim", "suspend"}
PROPERTIES TerminationCompletes PauseAnswered FinishDetected
CHECK_DEADLOCK FALSE
