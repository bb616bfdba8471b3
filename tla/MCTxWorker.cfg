\* Safety and liveness of the asynchronous TX path.
CONSTANTS
    c1 = c1
    c2 = c2
    RfConfigs <- MCRfConfigs
    BootConfig = c1
    Capacity = 2
    CompletionCapacity = 2
    MaxJobs = 4
    MaxRead = 2
    Waits <- MCWaits
    Idles <- MCIdles
    Polls <- MCPolls
    Boot <- MCBoot
SPECIFICATION MCSpec
INVARIANTS
    AcceptedJobKeepsRfConfig
    DirectNeverInterleaves
    QueueOffIsDrained
    NothingUnaccounted
    ReadFitsQueue
    StartFindsNoThread
    DecisionFollowsReadings
PROPERTIES
    NothingHangs
