\* Safety and liveness; two jobs, three failures in a row to FAILED.
SPECIFICATION Spec
CONSTANTS
    FailLimit = 3
    MaxJobs = 2
INVARIANTS
    ProbeKeepsPacket
    OnlyPacketsAlert
    DeafOnlyAfterDiscard
PROPERTIES
    RearmResolved
    TxReleases
