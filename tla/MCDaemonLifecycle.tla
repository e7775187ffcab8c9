------------------------- MODULE MCDaemonLifecycle -------------------------
(* DaemonLifecycle for TLC: three processes that may become the daemon and *)
(* two commands.  No symmetry: the run checks liveness.                    *)
EXTENDS DaemonLifecycle
=============================================================================
