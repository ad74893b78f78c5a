------------------------------ MODULE MCChannel ------------------------------
(* Channel with connections and messages as interchangeable model values.  *)
EXTENDS Channel, TLC

Symmetry == Permutations(Conns) \cup Permutations(Data)
=============================================================================
