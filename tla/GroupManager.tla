---------------------------- MODULE GroupManager ----------------------------
(***************************************************************************)
(* Membership of one group in class GroupManager of                        *)
(* src/src/service/group-manager.js: its owner, its member records and the *)
(* operations on them.  Groups do not affect each other, so one groupId is *)
(* enough.  A call the code answers with an error changes nothing and is   *)
(* no step; names, join times, settings and the message history are left   *)
(* out.                                                                    *)
(*                                                                         *)
(* A mute keeps the time it still lasts, in place of mutedUntil.  _save    *)
(* calls a function the module does not import and logs the exception, so  *)
(* that what the class knows ends with the process: Restart.               *)
(***************************************************************************)
EXTENDS Integers, Functions

CONSTANTS
  Pubkeys,  \* public keys of users
  Unknown,  \* the owner of a group that was joined by invitation
  MaxMute   \* bound: the longest mute with an end

Endless == -1  \* mutedUntil is 0 or missing

ASSUME GroupAssumption == Unknown \notin Pubkeys /\ MaxMute \in Nat

VARIABLES
  phase,   \* this.groups[groupId]: never there yet, there, there no more
  owner,   \* group.owner
  members  \* group.members

vars == <<phase, owner, members>>

Roles == {"owner", "admin", "member"}
Member == [role : Roles, muted : BOOLEAN, rest : {Endless} \cup 0..MaxMute, banned : BOOLEAN]

Newcomer == [role |-> "member", muted |-> FALSE, rest |-> Endless, banned |-> FALSE]
Nobody == [p \in {} |-> Newcomer]

TypeOK ==
  /\ phase \in {"new", "there", "gone"}
  /\ owner \in Pubkeys \cup {Unknown}
  /\ DOMAIN members \subseteq Pubkeys
  /\ \A p \in DOMAIN members : members[p] \in Member

IsMember(p) == phase = "there" /\ p \in DOMAIN members

\* hasAdminPermission
HasAdmin(p) == IsMember(p) /\ members[p].role \in {"owner", "admin"}

With(p, record) == [q \in DOMAIN members \cup {p} |-> IF q = p THEN record ELSE members[q]]
WithoutMember(p) == Restrict(members, DOMAIN members \ {p})

----------------------------------------------------------------------------
\* The groupId is a fresh one, so this is the first time it is there.
CreateGroup(p) ==
  /\ phase = "new"
  /\ phase' = "there" /\ owner' = p
  /\ members' = [q \in {p} |-> [Newcomer EXCEPT !.role = "owner"]]

\* Mutant: nothing of an earlier record is kept.
Forgotten(m) == Newcomer

\* What a new record takes over from the one it replaces: not mutedUntil.
Rejoined(m) == [m EXCEPT !.rest = Endless, !.banned = FALSE]

\* An unknown group is created on the way, with no known owner.
JoinGroup(p) ==
  /\ phase' = "there"
  /\ IF phase = "there"
     THEN /\ IsMember(p) => ~members[p].banned
          /\ members' = With(p, IF IsMember(p) THEN Rejoined(members[p]) ELSE Newcomer)
          /\ UNCHANGED owner
     ELSE /\ members' = [q \in {p} |-> Newcomer]
          /\ owner' = Unknown

\* Mutant: the owner may leave like anyone else.
LeaveGroupAny(p) ==
  /\ phase = "there" /\ p \in DOMAIN members
  /\ members' = WithoutMember(p)
  /\ UNCHANGED <<phase, owner>>

\* The owner leaves last, and the group with it.
LeaveGroup(p) ==
  /\ phase = "there"
  /\ \/ /\ p # owner /\ p \in DOMAIN members
        /\ members' = WithoutMember(p)
        /\ UNCHANGED <<phase, owner>>
     \/ /\ p = owner /\ DOMAIN members \subseteq {p}
        /\ phase' = "gone" /\ owner' = Unknown /\ members' = Nobody

\* Kicking, which forgets a ban.
KickMember(op, p) ==
  /\ HasAdmin(op) /\ IsMember(p) /\ p # owner
  /\ members' = WithoutMember(p)
  /\ UNCHANGED <<phase, owner>>

\* Banning, also of someone who is not a member.
BanMember(op, p) ==
  /\ HasAdmin(op) /\ p # owner
  /\ members' = With(p, [(IF IsMember(p) THEN members[p] ELSE Newcomer) EXCEPT !.banned = TRUE])
  /\ UNCHANGED <<phase, owner>>

UnbanMember(op, p) ==
  /\ HasAdmin(op) /\ IsMember(p)
  /\ members' = [members EXCEPT ![p].banned = FALSE]
  /\ UNCHANGED <<phase, owner>>

\* duration is 0 for a mute without an end.
MuteMember(op, p, duration) ==
  /\ HasAdmin(op) /\ IsMember(p) /\ p # owner
  /\ members' = [members EXCEPT ![p].muted = TRUE,
                                ![p].rest = IF duration > 0 THEN duration ELSE Endless]
  /\ UNCHANGED <<phase, owner>>

UnmuteMember(op, p) ==
  /\ HasAdmin(op) /\ IsMember(p)
  /\ members' = [members EXCEPT ![p].muted = FALSE, ![p].rest = Endless]
  /\ UNCHANGED <<phase, owner>>

\* Only by the owner, but of anyone, the owner included.
SetAdmin(op, p, isAdmin) ==
  /\ phase = "there" /\ op = owner /\ IsMember(p)
  /\ members' = [members EXCEPT ![p].role = IF isAdmin THEN "admin" ELSE "member"]
  /\ UNCHANGED <<phase, owner>>

TransferOwnership(op, p) ==
  /\ phase = "there" /\ op = owner /\ IsMember(p)
  /\ owner' = p
  /\ members' = [members EXCEPT ![op].role = "admin", ![p].role = "owner"]
  /\ UNCHANGED phase

\* The check before a send ends a mute whose time is over.
CanSendMessage(p) ==
  /\ IsMember(p) /\ ~members[p].banned
  /\ members[p].muted /\ members[p].rest = 0
  /\ members' = [members EXCEPT ![p].muted = FALSE, ![p].rest = Endless]
  /\ UNCHANGED <<phase, owner>>

Tick ==
  /\ members' = [p \in DOMAIN members |->
                   [members[p] EXCEPT !.rest = IF @ > 0 THEN @ - 1 ELSE @]]
  /\ UNCHANGED <<phase, owner>>

Restart ==
  /\ phase' = IF phase = "new" THEN "new" ELSE "gone"
  /\ owner' = Unknown /\ members' = Nobody

Init == phase = "new" /\ owner = Unknown /\ members = Nobody

OwnAction(p) == CreateGroup(p) \/ JoinGroup(p) \/ LeaveGroup(p) \/ CanSendMessage(p)

AdminAction(op, p) ==
  \/ KickMember(op, p) \/ BanMember(op, p) \/ UnbanMember(op, p)
  \/ UnmuteMember(op, p) \/ TransferOwnership(op, p)
  \/ \E duration \in 0..MaxMute : MuteMember(op, p, duration)
  \/ \E isAdmin \in BOOLEAN : SetAdmin(op, p, isAdmin)

Next ==
  \/ \E p \in Pubkeys : OwnAction(p) \/ \E op \in Pubkeys : AdminAction(op, p)
  \/ Tick
  \/ Restart

Spec == Init /\ [][Next]_vars

----------------------------------------------------------------------------
(* Properties. *)

\* A known owner has a member record, through every mix of joining, leaving,
\* kicking and transfers: transferOwnership writes to that record without a look,
\* and nobody else could hand out permissions.
OwnerIsMember == phase = "there" /\ owner # Unknown => owner \in DOMAIN members

\* The role of owner is held by nobody but the group's owner: no sequence of
\* transfers, demotions and rejoins leaves a former owner with its permissions.
OnlyOwnerHasRole == \A p \in DOMAIN members : members[p].role = "owner" => p = owner

\* Both: as long as the owner is known, exactly one member has the permissions of an owner
\* and can be neither kicked, banned nor muted, whoever joined, left or was given the group.
OneOwner == OwnerIsMember /\ OnlyOwnerHasRole

\* Someone who is banned or muted and stays a member gets rid of it only by an
\* admin's decision or, for a mute, when its time is over: not by joining again.
SanctionsKept ==
  [][\A p \in Pubkeys : IsMember(p) /\ IsMember(p)' =>
       /\ members[p].banned /\ ~members'[p].banned =>
            \E op \in Pubkeys : HasAdmin(op) /\ UnbanMember(op, p)
       /\ members[p].muted /\ ~members'[p].muted =>
            \/ members[p].rest = 0
            \/ \E op \in Pubkeys : HasAdmin(op) /\ UnmuteMember(op, p)]_vars
=============================================================================
