CONSTANTS
    NoReport = NoReport
    Commands = {"start", "version", "worker"}
    Starters = {"start", "worker"}
SPECIFICATION FairChecks
INVARIANTS
    SoundReports
    DaemonIsStopped
PROPERTIES
    ChecksEnd
CHECK_DEADLOCK FALSE
