\* One probe after another, each of a site that does what it likes.
SPECIFICATION ProbeFairSpec
CONSTANTS
    Root = root
    Web = web
    Path = {root, web}
    Elsewhere = elsewhere
    App = app_title
    NotFound = not_found
    Name = {app_title, not_found}
    NoName = no_name
    ErrorTitle = {not_found}
    Sites <- MCSites
    Budget = 2
    MaxRedirects = 3
    HeadCap = 6
    ProbeCap = 8
    Chunk = 3
INVARIANTS
    ProbeTypeOK
    EndsInTime
    AnswerIsWhole
PROPERTY ProbeEnds
