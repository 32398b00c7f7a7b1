CONSTANTS
    Viewers = {v1, v2}
    Publishers = {p1, p2}
    MaxSeq = 3
SPECIFICATION Spec
CHECK_DEADLOCK FALSE
INVARIANT TypeOK
INVARIANT NoLostWakeup
PROPERTY FramesInOrder
