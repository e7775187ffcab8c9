\* Two commands and a service manager start and stop; one crash.
\* There is a process for each of the three starts, so none is missing.
SPECIFICATION FairSpec
CONSTANTS
    Daemon = {p1, p2, p3}
    Command = {c1, c2}
    Nobody = Nobody
    MaxService = 1
    MaxCrashes = 1
INVARIANTS
    TypeOK
    DaemonIsTheOne
    ShutdownIsKept
PROPERTY StartsLeadToDaemon
\* Everybody may have ended.
CHECK_DEADLOCK FALSE
