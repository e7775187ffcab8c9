---------------------------- MODULE MCConfigFile ----------------------------
(* ConfigFile for TLC: commands are alike.                                 *)
EXTENDS ConfigFile, TLC

Symmetry == Permutations(Command)
=============================================================================
