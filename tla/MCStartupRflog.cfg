\* -d with --rflog on: the log is opened before the background step closes
\* every descriptor above 2.
CONSTANTS
    Procs = {p1}
    Launches <- BackgroundLog
    MaxLaunches = 1
SPECIFICATION Spec
INVARIANT RflogGoesToItsFile
CHECK_DEADLOCK FALSE
