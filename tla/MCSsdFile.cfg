SPECIFICATION Spec
CHECK_DEADLOCK FALSE
CONSTANTS
    NumKeys = 3
    Shapes <- MCShapes
    NumCandidates = 3
    CheckpointInterval = 2
CONSTRAINT NothingKnown
INVARIANTS  PinnedData 
