----------------------------- MODULE MCOutgoing ------------------------------
(* A host with two addresses, and two names of the machine at one address. *)
EXTENDS Outgoing

CONSTANTS h1, h2, h3, a1, a2

OneHost == {h1}
MCAddrs == {a1, a2}
OneAddrsOf == [h \in OneHost |-> MCAddrs]

SharedHosts == {h1, h2, h3}
SharedAddrsOf == [h \in SharedHosts |-> IF h = h3 THEN {a2} ELSE {a1}]

Aliases == {h1, h2}
AliasAddrsOf == [h \in Aliases |-> {a1}]
=============================================================================
