CONSTANTS
    Conns = {c1, c2}
    Goals = {g1}
    Speeds = {fwd}
    NoGoal = NoGoal
    NoVel = NoVel
    Stop = Stop
    Watchdog = 1
    MaxLag = 1
    BusLoses = FALSE
SPECIFICATION Spec
INVARIANT TypeOK
INVARIANT WatchdogStopsWheels
INVARIANT OffLeavesNothing
PROPERTY OffReachesServos
