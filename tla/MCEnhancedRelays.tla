--------------------------- MODULE MCEnhancedRelays ---------------------------
(***************************************************************************)
(* The relays of the enhanced manager with its two files (EnhancedRelays), *)
(* the scores of both managers (RelayScores), and one file that several    *)
(* processes write (JsonFiles): one of them runs, the others stay as they  *)
(* began.                                                                  *)
(***************************************************************************)
EXTENDS EnhancedRelays, RelayScores, JsonFiles

CONSTANTS r1, y1, y2, q1, q2, w1, w2, w3

MCRelayOrder == <<y1, y2>>
MCProcOf == w1 :> q1 @@ w2 :> q1 @@ w3 :> q2

VARIABLE part

MCInit ==
  /\ part \in {"blacklist", "scores", "files"} /\ Init /\ RsInit /\ JfInit
  /\ part # "scores" => manager = "enhanced"

MCBlacklist == part = "blacklist" /\ Next /\ UNCHANGED <<part, rsVars, jfVars>>
MCScores == part = "scores" /\ RsNext /\ UNCHANGED <<part, vars, jfVars>>

\* Where the file has been written in its place, or rewrites have overlapped, no property
\* of JsonFiles says anything more: the instance goes on until the write ends.
InPlace == \E c \in FileCalls : fcall[c].op = "place"

MCFiles ==
  /\ part = "files" /\ ~overlapped /\ (unguarded => InPlace) /\ JfNext
  /\ UNCHANGED <<part, vars, rsVars>>

MCSpec ==
  MCInit /\ [][MCBlacklist \/ MCScores \/ MCFiles]_<<part, vars, rsVars, jfVars>>
=============================================================================
