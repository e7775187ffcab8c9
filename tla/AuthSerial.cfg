\* One call at a time and any write may fail; crashes at any step.
SPECIFICATION Spec
CONSTANTS
    Device = {d1, d2}
    NoDevice = NoDevice
    RandomToken = {r1, r2}
    FixedToken = {x}
    NoToken = NoToken
    Task = {t1}
    Limit = {1, 2}
    MaxPending = 1
    Junk = Junk
    IoMayFail = TRUE
CONSTRAINT NoNames
SYMMETRY Symmetry
INVARIANTS
    RevocationDurable
PROPERTIES
    LinkClosesAtLimit
    ImplementsTrust
