----------------------------- MODULE MCFileLock -----------------------------
(* FileLock for TLC: the .cfg files give its constants their values.         *)
EXTENDS FileLock
=============================================================================
