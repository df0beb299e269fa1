SPECIFICATION Spec
CHECK_DEADLOCK FALSE
CONSTANTS
    MaxSources = 3
    Cases <- MCCases
    QueueSize = 2
INVARIANTS NoBatchLost MergedOutput
 
