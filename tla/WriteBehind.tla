---------------------------- MODULE WriteBehind ----------------------------
(***************************************************************************)
(* What a store that keeps its contents in memory and saves them to disk   *)
(* later promises, whatever the contents are: only the number of changes   *)
(* made (mem) and the number of them on disk (disk) are told apart.  The   *)
(* disk always holds a prefix of the changes, a save only ever adds to     *)
(* that prefix, and a crash loses the changes that had not been saved and  *)
(* nothing else.                                                           *)
(***************************************************************************)
EXTENDS Naturals

VARIABLES mem, disk

wbvars == <<mem, disk>>

WBInit == mem = 0 /\ disk = 0

Change == mem' = mem + 1 /\ disk' = disk

Save == disk' \in (disk + 1)..mem /\ mem' = mem

LoseUnsaved == mem' = disk /\ disk' = disk

WBNext == Change \/ Save \/ LoseUnsaved

WBSpec == WBInit /\ [][WBNext]_wbvars
=============================================================================
