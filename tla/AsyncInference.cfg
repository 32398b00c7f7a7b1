CONSTANTS
    Poses = {still, moved}
    None = None
    ChunkSize = 2
    Enough = 1
    MaxStep = 3
SPECIFICATION Spec
CHECK_DEADLOCK FALSE
INVARIANT TypeOK
 
INVARIANT StepsForward
PROPERTY ActionsResume
