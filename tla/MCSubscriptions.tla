---------------------------- MODULE MCSubscriptions ----------------------------
(* Three attempts, two relays; no messages, which do not concern the sockets. *)
EXTENDS Subscriptions

MCSize == [m \in {} |-> 1]
=============================================================================
