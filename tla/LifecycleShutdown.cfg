\* One daemon, one command: the daemon is told to stop.
SPECIFICATION FairSpec
CONSTANTS
    Daemon = {p1, p2}
    Command = {c1}
    Nobody = Nobody
    MaxService = 1
    MaxCrashes = 0
PROPERTY ShutdownStops
CHECK_DEADLOCK FALSE
