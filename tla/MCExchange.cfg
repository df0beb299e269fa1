SPECIFICATION Spec
CHECK_DEADLOCK FALSE
CONSTANTS
    a = a
    b = b
    RemoteTasks = {a, b}
    Streams <- SmallThenLarge
    NumConsumers = 2
    MaxQueuedBytes = 100
    OutputBatchBytes = 2
    Configs <- Scenarios
    MaxSplits = 2
SYMMETRY Symmetry
INVARIANTS SourceHeld BytesBound NoIdleWait NeverStuck EndComplete SourcesReleased
