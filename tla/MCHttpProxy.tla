---------------------------- MODULE MCHttpProxy ----------------------------
(* HttpProxy for TLC.  A head may take three reads and be too long.        *)
EXTENDS HttpProxy
=============================================================================
