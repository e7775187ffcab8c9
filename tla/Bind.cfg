\* Two connections for one permit; ten seconds for an exchange, five of grace.
SPECIFICATION FairSpec
CONSTANTS
    Conn = {c1, c2}
    Device = {d1, d2}
    Cap = 1
    Limit = 2
    BindTimeout = 2
    FinishGrace = 1
INVARIANTS
    TypeOK
    AcceptedNotDenied
PROPERTY ExchangesEnd
