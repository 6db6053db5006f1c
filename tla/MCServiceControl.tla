--------------------------- MODULE MCServiceControl ---------------------------
(* Two workers, one after the other or at once, and two command lines. *)
EXTENDS ServiceControl
=============================================================================
