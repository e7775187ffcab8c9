\* Three commands, a reload, an editor and a restart, in any order.
SPECIFICATION Spec
CONSTANTS
    Command = {c1, c2, c3}
    Reload = {r1}
    ShellSets = TRUE
    ServiceSets = TRUE
    MaxHandEdits = 1
    MaxStarts = 1
SYMMETRY Symmetry
INVARIANTS
    TypeOK
    MemoryFollowsFile
    EditsAreKept
\* Every command may be done and the daemon stopped for good.
CHECK_DEADLOCK FALSE
