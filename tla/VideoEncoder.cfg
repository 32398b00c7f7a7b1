CONSTANTS
    NumCams = 2
    QMax = 2
    MaxFrames = 3
    MaxEpisodes = 2
SPECIFICATION Spec
CHECK_DEADLOCK FALSE
INVARIANT TypeOK
 
PROPERTY InOrder
PROPERTY FinishReturns
