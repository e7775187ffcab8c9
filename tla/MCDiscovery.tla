---------------------------- MODULE MCDiscovery ----------------------------
(* Discovery for TLC: two origins, one of them with two sockets, and three *)
(* configurations that differ in everything a scan reads.                  *)
EXTENDS Discovery

CONSTANTS o1, o2, v4, v6, only

MCAt == [s \in Socket |-> IF s = only THEN o2 ELSE o1]

MCListening == {{v4}, Socket}

MCSettings ==
    {[enabled |-> TRUE, excluded |-> {}, apps |-> {o1}],
     [enabled |-> TRUE, excluded |-> {v6, only}, apps |-> {o1, o2}],
     [enabled |-> FALSE, excluded |-> {}, apps |-> {}]}
=============================================================================
