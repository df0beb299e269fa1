SPECIFICATION Spec
CHECK_DEADLOCK FALSE
CONSTANTS
    NumKeys = 2
    Shapes <- MCShapes
    NumCandidates = 3
    CheckpointInterval = 2
INVARIANTS RecoversEvictions
