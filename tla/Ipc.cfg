SPECIFICATION FairSpec
CONSTANTS
    Command = {c1, c2}
    c1 = c1
    c2 = c2
    Asks <- McAsks
    Config <- McConfig
    MaxStarts = 2
    MaxEdits = 1
    Broken = Broken
INVARIANTS
    TypeOK
    AnswersAreOwn
    AttemptsFollowConfig
    RestartIsAnnounced
PROPERTY CommandsEnd
\* Every command may have ended.
CHECK_DEADLOCK FALSE
