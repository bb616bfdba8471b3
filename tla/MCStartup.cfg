\* Two processes, three launches, any process killed at any step.
CONSTANTS
    Procs = {p1, p2}
    Launches <- Lines
    MaxLaunches = 3
SPECIFICATION Spec
INVARIANTS
    SocketNamesHold
    HardwareExclusive
SYMMETRY Perms
CHECK_DEADLOCK FALSE
