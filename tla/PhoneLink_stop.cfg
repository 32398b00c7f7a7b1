CONSTANTS
    Conns = {k1, k2}
    Speeds = {v1}
    Stop = Stop
    NoVel = NoVel
    None = None
    MaxLines = 2
SPECIFICATION LinkSpec
CHECK_DEADLOCK FALSE
INVARIANT StopMeansStop
