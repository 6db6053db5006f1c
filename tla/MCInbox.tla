------------------------------ MODULE MCInbox ------------------------------
(* Inbox for TLC: a sends one direct message and one to a group, b one to    *)
(* the group.                                                                *)
EXTENDS Inbox
CONSTANTS a, b, g1, g2, d1

MCFrom == [m \in {g1, g2, d1} |-> IF m = g2 THEN b ELSE a]
MCStamp == [m \in {g1, g2, d1} |-> IF m = d1 THEN 0 ELSE 2]
=============================================================================
