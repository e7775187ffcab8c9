\* A change of a socket (one origin has two), a reload and a request at any moment of a scan.
SPECIFICATION FairSpec
CONSTANTS
    o1 = o1
    o2 = o2
    v4 = v4
    v6 = v6
    only = only
    Socket = {v4, v6, only}
    Origin = {o1, o2}
    At <- MCAt
    Listening <- MCListening
    Settings <- MCSettings
    Client = {c1}
    Reloader = {r1}
    MaxReloads = 1
    MaxChanges = 1
INVARIANTS
    TypeOK
    NothingIsForgotten
PROPERTIES
    CatalogIsOfItsScan
    Converges
