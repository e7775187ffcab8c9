\* The cap after reloads.
SPECIFICATION Spec
CONSTANTS
    Device = {d1}
    Conn = {c1, c2}
    Stream = {s1, s2}
    Reloader = {r1, r2}
    NoConn = NoConn
    Cap = {1}
    MaxReloads = 2
SYMMETRY Symmetry
INVARIANT CappedSinceReload
