\* Scans of changing sockets with changing settings, in every order that the
\* listing and the cache may have.
SPECIFICATION CatalogSpec
CONSTANTS
    Port = {1, 2, 3}
    Process <- MCProcess
    Title <- MCTitle
    Filters <- MCFilters
    Manuals <- MCManuals
    Worlds <- MCWorlds
    App = 100
INVARIANTS
    CatalogTypeOK
    OrderDecidesOwnerOnly
    NamesAndAppsMatch
PROPERTY NamesAreStable
