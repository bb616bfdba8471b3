SPECIFICATION Spec
CONSTANTS
    Boot = boot
    Configs = {boot, cfg}
    Capacity = 1
    MonQueue = 1
    MaxConn = 2
    MaxOther = 0
INVARIANT NoUseAfterTeardown
