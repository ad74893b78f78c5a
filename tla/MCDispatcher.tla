---------------------------- MODULE MCDispatcher ----------------------------
(* Dispatcher with registrations as interchangeable model values.          *)
EXTENDS Dispatcher, TLC

Symmetry == Permutations(Regs)
=============================================================================
