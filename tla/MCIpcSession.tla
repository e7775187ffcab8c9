---------------------------- MODULE MCIpcSession ----------------------------
EXTENDS IpcSession, TLC
CONSTANTS c1, c2

\* Two reloads may overlap; one of the daemons may be told to stop.
McAsks == c1 :> {"Reload", "RevokeAuthorized"} @@ c2 :> {"Reload", "Shutdown"}

\* Another limit, and other network settings with it.
McConfig == {[net |-> "direct", attempts |-> 1], [net |-> "relay", attempts |-> 2]}
=============================================================================
