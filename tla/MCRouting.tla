------------------------------ MODULE MCRouting ------------------------------
(* Three nodes: usender and uecho run on n1 and n2, only uecho on n3.      *)
EXTENDS Routing

CONSTANTS n1, n2, n3

MCNodes == {n1, n2, n3}
MCRunning ==
  ({n1, n2} \X {"usender", "uecho"}) \cup {<<n3, "uecho">>}
MCEcho == {"uecho"}
=============================================================================
