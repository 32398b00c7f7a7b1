CONSTANTS
    Devices = {"h", "a"}
    Serial <- SerialOf
    Conns = {c1}
    Ports = {1, 2}
    MaxQ = 2
    OpenFails = FALSE
SPECIFICATION Spec
CHECK_DEADLOCK FALSE
INVARIANT TypeOK
INVARIANT DetachLeavesNothing
INVARIANT ClientIsServed
INVARIANT HostKeepsAdapter
