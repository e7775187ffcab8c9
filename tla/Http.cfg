SPECIFICATION FairSpec
CONSTANTS
    Asks = {"hub", "rename", "plain", "upgrade"}
    MaxAsks = 2
    MaxFrames = 2
    MaxParts = 2
    HeadCap = 1
    Codes = {0, 101, 200}
    ProxyTimeout = 2
INVARIANTS
    TypeOK
    TunnelIsWhole
PROPERTY StreamsEnd
\* The stream may be over.
CHECK_DEADLOCK FALSE
