--------------------------- MODULE MCBindHandler ---------------------------
(* BindHandler for TLC: as it is; the configuration has the bounds.        *)
EXTENDS BindHandler
=============================================================================
