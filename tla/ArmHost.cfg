CONSTANTS
    Workers = {w1, w2}
    None = None
    SetupFails = TRUE
SPECIFICATION Spec
CHECK_DEADLOCK FALSE
INVARIANT TypeOK
INVARIANT OneLoop
INVARIANT LoopServes
PROPERTY HostIsUsable
