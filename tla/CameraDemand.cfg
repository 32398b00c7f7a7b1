CONSTANTS
    Streams = {s1, s2}
    First = s1
    Clients = {c1, c2}
    IdleTicks = 1
    AwaitTicks = 0
    AnswerTicks = 0
    MaxPending = 2
SPECIFICATION Spec
INVARIANT TypeOK
INVARIANT WantedIsServed
PROPERTY IdleCameraCloses
