---------------------------- MODULE MCRetryWorker ----------------------------
(* Values of the constants of RetryWorker for TLC.  Generated keys are        *)
(* interchangeable, and so are the ids of commands where liveness is not      *)
(* checked.                                                                   *)
EXTENDS RetryWorker, TLC

Symmetry == Permutations(Keys) \cup Permutations(Ids)
=============================================================================
