--------------------------- MODULE MCCatalogNames ---------------------------
(* CatalogNames for TLC.  Word 100 is "app", 101 and 102 are programs; a    *)
(* page may have the title "App 2", and an app may listen on port 2.        *)
EXTENDS CatalogNames

At(b, p) == [bind |-> b, port |-> p]

\* A proxy beside an app on one origin; sockets of other users (no owner).
MCWorlds ==
    {[a \in {At("wildcard", 1), At("loopback", 1), At("loopback", 2), At("loopback6", 2)} |->
        CASE a = At("wildcard", 1) -> {<<101>>}
          [] a = At("loopback", 1) -> {<<102>>}
          [] a = At("loopback", 2) -> {<<101>>, <<102>>}
          [] OTHER -> {}],
     [a \in {At("lan", 1), At("loopback", 2)} |-> IF a.port = 1 THEN {<<101>>} ELSE {}]}

MCFilters ==
    {[minPort |-> 1, loopbackOnly |-> TRUE, ports |-> {}, processes |-> {<<102>>},
      origins |-> {}, unattributed |-> TRUE],
     [minPort |-> 1, loopbackOnly |-> FALSE, ports |-> {}, processes |-> {},
      origins |-> {At("localhost", 1)}, unattributed |-> FALSE],
     [minPort |-> 2, loopbackOnly |-> FALSE, ports |-> {}, processes |-> {},
      origins |-> {}, unattributed |-> TRUE],
     [minPort |-> 1, loopbackOnly |-> TRUE, ports |-> {2}, processes |-> {},
      origins |-> {}, unattributed |-> FALSE]}

MCManuals ==
    {{}, {[name |-> <<100, 2>>, port |-> 1]},
     {[name |-> <<100>>, port |-> 3], [name |-> <<101>>, port |-> 3]}}
MCProcess == {<<101>>, <<102>>}
MCTitle == {<<>>, <<100>>, <<100, 2>>}
=============================================================================
