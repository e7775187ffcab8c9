--------------------------- MODULE MCServeHandler ---------------------------
(* ServeHandler for TLC: interchangeable connections, streams, reloaders.  *)
EXTENDS ServeHandler, TLC

Symmetry == Permutations(Conn) \cup Permutations(Stream) \cup Permutations(Reloader)
=============================================================================
