---------------------------- MODULE MCNostrNetwork ----------------------------
(* Two messages fill a batch by number, one by its bytes; one is too large. *)
EXTENDS NostrNetwork, TLC

CONSTANTS m1, m2, big, huge

MCSize == m1 :> 1 @@ m2 :> 1 @@ big :> 3 @@ huge :> 4
=============================================================================
