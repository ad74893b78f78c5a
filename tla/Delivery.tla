------------------------------ MODULE Delivery ------------------------------
(***************************************************************************)
(* What the channel between two nodes promises to the applications: a      *)
(* message that was handed to it is on its way until it is either          *)
(* delivered, once, or lost.  Losses may come together (a connection dies  *)
(* with everything in it), also with a delivery (the last line that was    *)
(* read before the connection went).  Nothing is delivered that was not    *)
(* handed over, and what is lost or delivered never comes back.  Neither   *)
(* the order of messages nor their delivery is promised.                   *)
(***************************************************************************)

CONSTANT Msgs

VARIABLE stage   \* stage[m]: how far message m has come

Stages == {"new", "transit", "delivered", "lost"}

InTransit == {m \in Msgs : stage[m] = "transit"}

Init == stage = [m \in Msgs |-> "new"]

HandOver(m) ==
  /\ stage[m] = "new"
  /\ stage' = [stage EXCEPT ![m] = "transit"]

\* The messages of L are lost.
Lose(L) ==
  stage' = [m \in Msgs |-> IF m \in L THEN "lost" ELSE stage[m]]

\* Message m is delivered; what came after it on its connection may be lost.
Deliver(m, L) ==
  stage' = [k \in Msgs |-> IF k = m THEN "delivered"
                           ELSE IF k \in L THEN "lost" ELSE stage[k]]

\* Every step moves a message.
Next ==
  /\ stage' # stage
  /\ \/ \E m \in Msgs : HandOver(m)
     \/ \E L \in SUBSET InTransit : Lose(L)
     \/ \E m \in InTransit : \E L \in SUBSET (InTransit \ {m}) : Deliver(m, L)

Spec == Init /\ [][Next]_stage
=============================================================================
