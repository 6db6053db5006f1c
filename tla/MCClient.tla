------------------------------- MODULE MCClient -------------------------------
(* Two networks, and either two messages and two waiters, of which one has a     *)
(* filter, or two calls that send: apart from the network that both use, sending *)
(* and receiving share no state.                                                 *)
EXTENDS Client, TLC

CONSTANTS m1, m2, w1, w2, s1, s2

MCAccepts == w1 :> {m1, m2} @@ w2 :> {m2}

VARIABLE part

MCInit == Init /\ part \in {"receiving", "sending"}
MCNext ==
  /\ Next /\ part' = part
  /\ IF part = "receiving" THEN UNCHANGED sendVars ELSE UNCHANGED msgVars

MCSpec == MCInit /\ [][MCNext]_<<vars, part>> /\ \A w \in Waiters : WF_vars(WaitTimeout(w))
=============================================================================
