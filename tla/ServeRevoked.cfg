\* Requests on a stream that is kept alive.
SPECIFICATION Spec
CONSTANTS
    Device = {d1}
    Conn = {c1, c2}
    Stream = {s1, s2}
    Reloader = {r1, r2}
    NoConn = NoConn
    Cap = {1}
    MaxReloads = 0
SYMMETRY Symmetry
INVARIANT RequestsRechecked
