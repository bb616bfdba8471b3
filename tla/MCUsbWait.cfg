\* Safety and liveness: two connections of the stick, one event of another.
SPECIFICATION Spec
CONSTANTS
    Boot = boot
    Configs = {boot, cfg}
    Capacity = 1
    MonQueue = 1
    MaxConn = 2
    MaxOther = 1
INVARIANTS
    ReadyMeansAlive
    GoneMeansGone
    IoFaultMeansPresent
    TransmitsAsConfigured
PROPERTIES
    LossHandled
    StickReturns
