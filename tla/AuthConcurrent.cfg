\* Two calls at a time, writes that succeed, crashes at any step.
SPECIFICATION Spec
CONSTANTS
    Device = {d1, d2}
    NoDevice = NoDevice
    RandomToken = {}
    FixedToken = {x}
    NoToken = NoToken
    Task = {t1, t2}
    Limit = {1}
    MaxPending = 1
    Junk = Junk
    IoMayFail = FALSE
CONSTRAINT LinkStaysOpen
SYMMETRY Symmetry
INVARIANTS
    TypeOK
    StoreIsSound
    StoreMatchesMemory
