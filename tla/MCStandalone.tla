----------------------------- MODULE MCStandalone -----------------------------
(***************************************************************************)
(* The components that share no state with each other, each on a small     *)
(* instance of its own: one of them runs, the others stay as they began.   *)
(***************************************************************************)
EXTENDS IdentityStore, StorageKey, Contacts, MessageJournal, RelayManager, MessageCodec,
        TokenBucket, GroupSubscriptions, GroupManager, TLC

CONSTANTS g1, g2, g3, g4, t1, t2, t3, p1

MCTopicOf == g1 :> t1 @@ g2 :> t1 @@ g3 :> t2 @@ g4 :> t3
MCGroupOf == p1 :> g1

VARIABLE part

Parts == {"identity", "key", "contacts", "journal", "relays", "codec", "bucket", "groups",
          "members"}

\* The components whose Init has several states begin in one of them if they rest.
MCInit ==
  /\ part \in Parts
  /\ IdInit /\ (part # "identity" => idFile = NoFile /\ \A p \in Procs : source[p] = Password)
  /\ McInit /\ (part # "codec" => /\ Len(messages) = 1 /\ messages[1] \in Batchlike /\ ~compress
                                  /\ originalSize = 0 /\ gzipSize = 0)
  /\ GsInit /\ groupsFile \in (IF part = "groups" THEN {Groups \ {g3}} ELSE {{}})
  /\ SkInit /\ CoInit /\ JoInit /\ RmInit /\ TbInit /\ Init

Rest(name, variables) == IF part = name THEN TRUE ELSE UNCHANGED variables

MCIdentity == part = "identity" /\ IdNext
MCKey == part = "key" /\ SkNext
MCContacts == part = "contacts" /\ CoNext
MCJournal == part = "journal" /\ ~mixed /\ JoNext
MCRelays == part = "relays" /\ RmNext
MCCodec == part = "codec" /\ McNext
MCBucket == part = "bucket" /\ TbNext

\* A bound of this instance: messages kept and joins that overlap, together.
Spent == KeptOfAll + FoldFunction(+, 0, overlaps)

MCGroups == part = "groups" /\ GsNext /\ Spent' <= MaxHistory
MCMembers == part = "members" /\ Next

MCNext ==
  /\ UNCHANGED part
  /\ \/ MCIdentity \/ MCKey \/ MCContacts \/ MCJournal
     \/ MCRelays \/ MCCodec \/ MCBucket \/ MCGroups \/ MCMembers
  /\ Rest("identity", idVars) /\ Rest("key", skVars) /\ Rest("contacts", coVars)
  /\ Rest("journal", joVars) /\ Rest("relays", rmVars) /\ Rest("codec", mcVars)
  /\ Rest("bucket", tbVars) /\ Rest("groups", gsVars) /\ Rest("members", vars)

MCSpec == MCInit /\ [][MCNext]_<<part, idVars, skVars, coVars, joVars, rmVars, mcVars, tbVars,
                                 gsVars, vars>>
=============================================================================
