--------------------------- MODULE MCMessageQueue ---------------------------
(* Values of the constants of MessageQueue for TLC. *)
EXTENDS MessageQueue, TLC

Symmetry == Permutations(Keys)
=============================================================================
