------------------------- MODULE GroupManagerProofs -------------------------
(***************************************************************************)
(* Proofs about GroupManager, for any set of users.                        *)
(***************************************************************************)
EXTENDS GroupManager, TLAPS

RecordsOK(ms) == DOMAIN ms \subseteq Pubkeys /\ \A p \in DOMAIN ms : ms[p] \in Member

----------------------------------------------------------------------------
(* Type correctness of the ways in which records change. *)

LEMMA NewcomerType == Newcomer \in Member
BY DEF Newcomer, Member, Roles, Endless

\* Changing fields of one record, each to a value of its type.
LEMMA FieldsType ==
  ASSUME NEW m \in Member
  PROVE  /\ \A role \in Roles : [m EXCEPT !.role = role] \in Member
         /\ \A banned \in BOOLEAN : [m EXCEPT !.banned = banned] \in Member
         /\ \A rest \in {Endless} \cup 0..MaxMute : [m EXCEPT !.rest = rest] \in Member
         /\ \A muted \in BOOLEAN, rest \in {Endless} \cup 0..MaxMute :
              [m EXCEPT !.muted = muted, !.rest = rest] \in Member
         /\ Rejoined(m) \in Member
BY DEF Member, Rejoined

\* A record put in for one user, and a record taken out.
LEMMA WithType ==
  ASSUME TypeOK, NEW p \in Pubkeys, NEW record \in Member
  PROVE  RecordsOK(With(p, record))
BY DEF TypeOK, RecordsOK, With

LEMMA WithoutMemberType ==
  ASSUME TypeOK, NEW p
  PROVE  RecordsOK(WithoutMember(p))
BY DEF TypeOK, RecordsOK, WithoutMember, Restrict

LEMMA ExceptType ==
  ASSUME TypeOK, NEW p \in DOMAIN members, NEW record \in Member
  PROVE  RecordsOK([members EXCEPT ![p] = record])
BY DEF TypeOK, RecordsOK

LEMMA SingleType ==
  ASSUME NEW p \in Pubkeys, NEW record \in Member
  PROVE  RecordsOK([q \in {p} |-> record])
BY DEF RecordsOK

----------------------------------------------------------------------------
\* Every record has its type, after every operation.
THEOREM GroupTypeCorrect == Spec => []TypeOK
<1>1. Init => TypeOK
  BY DEF Init, TypeOK, Nobody
<1>2. TypeOK /\ [Next]_vars => TypeOK'
  <2> SUFFICES ASSUME TypeOK, [Next]_vars PROVE TypeOK'
    OBVIOUS
  <2>0. /\ phase' \in {"new", "there", "gone"} /\ owner' \in Pubkeys \cup {Unknown}
    BY DEF TypeOK, Next, vars, OwnAction, AdminAction, CreateGroup, JoinGroup, LeaveGroup,
           CanSendMessage, KickMember, BanMember, UnbanMember, UnmuteMember,
           TransferOwnership, MuteMember, SetAdmin, Tick, Restart
  <2> SUFFICES RecordsOK(members')
    BY <2>0 DEF RecordsOK, TypeOK
  <2>1. ASSUME NEW p \in DOMAIN members PROVE members[p] \in Member /\ p \in Pubkeys
    BY DEF TypeOK
  <2>2. RecordsOK(Nobody) /\ RecordsOK(members)
    BY DEF RecordsOK, Nobody, TypeOK
  <2>3. ASSUME NEW p \in Pubkeys, CreateGroup(p) PROVE RecordsOK(members')
    BY <2>3, NewcomerType, FieldsType, SingleType DEF CreateGroup, Roles
  <2>4. ASSUME NEW p \in Pubkeys, JoinGroup(p) PROVE RecordsOK(members')
    <3>1. CASE phase = "there"
      BY <2>1, <2>4, <3>1, NewcomerType, FieldsType, WithType DEF JoinGroup, IsMember
    <3>2. CASE phase # "there"
      BY <2>4, <3>2, NewcomerType, SingleType DEF JoinGroup
    <3>3. QED
      BY <3>1, <3>2
  <2>5. ASSUME NEW p, LeaveGroup(p) PROVE RecordsOK(members')
    BY <2>2, <2>5, WithoutMemberType DEF LeaveGroup
  <2>6. ASSUME NEW op, NEW p, KickMember(op, p) PROVE RecordsOK(members')
    BY <2>6, WithoutMemberType DEF KickMember
  <2>7. ASSUME NEW op, NEW p \in Pubkeys, BanMember(op, p) PROVE RecordsOK(members')
    <3> DEFINE old == IF IsMember(p) THEN members[p] ELSE Newcomer
    <3>1. old \in Member
      BY <2>1, NewcomerType DEF IsMember
    <3>2. members' = With(p, [old EXCEPT !.banned = TRUE])
      BY <2>7 DEF BanMember
    <3> HIDE DEF old
    <3>3. [old EXCEPT !.banned = TRUE] \in Member
      BY <3>1, FieldsType
    <3>4. QED
      BY <3>2, <3>3, WithType
  <2>8. ASSUME NEW p \in DOMAIN members, NEW role \in Roles,
               members' = [members EXCEPT ![p].role = role]
        PROVE  RecordsOK(members')
    BY <2>1, <2>8, FieldsType, ExceptType
  <2>9. ASSUME NEW p \in DOMAIN members, NEW banned \in BOOLEAN,
               members' = [members EXCEPT ![p].banned = banned]
        PROVE  RecordsOK(members')
    BY <2>1, <2>9, FieldsType, ExceptType
  <2>10. ASSUME NEW p \in DOMAIN members, NEW muted \in BOOLEAN,
                NEW rest \in {Endless} \cup 0..MaxMute,
                members' = [members EXCEPT ![p].muted = muted, ![p].rest = rest]
         PROVE  RecordsOK(members')
    <3>1. members' = [members EXCEPT ![p] = [members[p] EXCEPT !.muted = muted, !.rest = rest]]
      BY <2>10 DEF TypeOK
    <3>2. QED
      BY <2>1, <3>1, FieldsType, ExceptType
  <2>11. ASSUME NEW op, NEW p, UnbanMember(op, p) PROVE RecordsOK(members')
    BY <2>9, <2>11 DEF UnbanMember, IsMember
  <2>12. ASSUME NEW op, NEW p, NEW duration \in 0..MaxMute, MuteMember(op, p, duration)
         PROVE  RecordsOK(members')
    BY <2>10, <2>12 DEF MuteMember, IsMember
  <2>13. ASSUME NEW op, NEW p, UnmuteMember(op, p) PROVE RecordsOK(members')
    BY <2>10, <2>13 DEF UnmuteMember, IsMember
  <2>14. ASSUME NEW op, NEW p, NEW isAdmin, SetAdmin(op, p, isAdmin) PROVE RecordsOK(members')
    BY <2>8, <2>14 DEF SetAdmin, IsMember, Roles
  <2>15. ASSUME NEW op \in Pubkeys, NEW p, TransferOwnership(op, p) PROVE RecordsOK(members')
    BY <2>1, <2>15 DEF TransferOwnership, IsMember, RecordsOK, TypeOK, Member, Roles
  <2>16. ASSUME NEW p, CanSendMessage(p) PROVE RecordsOK(members')
    BY <2>10, <2>16 DEF CanSendMessage, IsMember
  <2>17. ASSUME Tick PROVE RecordsOK(members')
    <3>1. \A p \in DOMAIN members :
            (IF members[p].rest > 0 THEN members[p].rest - 1 ELSE members[p].rest)
              \in {Endless} \cup 0..MaxMute
      BY <2>1, GroupAssumption DEF Member, Endless
    <3>2. QED
      BY <2>1, <2>17, <3>1, FieldsType DEF Tick, RecordsOK
  <2>18. ASSUME Restart PROVE RecordsOK(members')
    BY <2>2, <2>18 DEF Restart
  <2>19. ASSUME UNCHANGED vars PROVE RecordsOK(members')
    BY <2>2, <2>19 DEF vars
  <2>20. QED
    BY <2>3, <2>4, <2>5, <2>6, <2>7, <2>11, <2>12, <2>13, <2>14, <2>15, <2>16, <2>17, <2>18, <2>19
    DEF Next, OwnAction, AdminAction
<1>3. QED
  BY <1>1, <1>2, PTL DEF Spec

----------------------------------------------------------------------------
\* Proved together: a transfer takes the role of owner from the owner's record,
\* which must therefore be there.
OwnerInv == OwnerIsMember /\ OnlyOwnerHasRole

\* Steps that keep the owner keep OwnerInv if they keep its record and give the
\* role of owner to no one.
LEMMA SameOwner ==
  ASSUME OwnerInv, UNCHANGED <<phase, owner>>,
         phase = "there" /\ owner # Unknown /\ owner \in DOMAIN members
           => owner \in DOMAIN members',
         \A p \in DOMAIN members' :
           members'[p].role = "owner" => p \in DOMAIN members /\ members[p].role = "owner"
  PROVE  OwnerInv'
BY DEF OwnerInv, OwnerIsMember, OnlyOwnerHasRole

\* The owner of a group is one of its members and the only one with the role of
\* owner, after every sequence of operations by any number of users.
LEMMA OwnerCorrect == Spec => []OwnerInv
<1>1. Init => OwnerInv
  BY DEF Init, OwnerInv, OwnerIsMember, OnlyOwnerHasRole, Nobody
<1>2. TypeOK /\ OwnerInv /\ [Next]_vars => OwnerInv'
  <2> SUFFICES ASSUME TypeOK, OwnerInv, [Next]_vars PROVE OwnerInv'
    OBVIOUS
  <2>1. ASSUME NEW p \in Pubkeys, CreateGroup(p) PROVE OwnerInv'
    BY <2>1 DEF CreateGroup, OwnerInv, OwnerIsMember, OnlyOwnerHasRole
  <2>2. ASSUME NEW p \in Pubkeys, JoinGroup(p) PROVE OwnerInv'
    <3>1. CASE phase = "there"
      <4>1. \A q \in DOMAIN members : Rejoined(members[q]).role = members[q].role
        BY DEF Rejoined, TypeOK, Member
      <4>2. Newcomer.role # "owner"
        BY DEF Newcomer
      <4>3. QED
        BY <2>2, <3>1, <4>1, <4>2, SameOwner DEF JoinGroup, With, IsMember
    <3>2. CASE phase # "there"
      BY <2>2, <3>2 DEF JoinGroup, Newcomer, OwnerInv, OwnerIsMember, OnlyOwnerHasRole
    <3>3. QED
      BY <3>1, <3>2
  <2>3. ASSUME NEW p, p # owner, members' = WithoutMember(p), UNCHANGED <<phase, owner>>
        PROVE  OwnerInv'
    BY <2>3, SameOwner DEF WithoutMember, Restrict
  <2>4. ASSUME NEW p, LeaveGroup(p) PROVE OwnerInv'
    <3>1. CASE phase' = "gone" /\ members' = Nobody
      BY <3>1 DEF OwnerInv, OwnerIsMember, OnlyOwnerHasRole, Nobody
    <3>2. QED
      BY <2>3, <2>4, <3>1 DEF LeaveGroup
  <2>5. ASSUME NEW op, NEW p, KickMember(op, p) PROVE OwnerInv'
    BY <2>3, <2>5 DEF KickMember
  <2>6. ASSUME NEW op, NEW p, BanMember(op, p) PROVE OwnerInv'
    <3> DEFINE old == IF IsMember(p) THEN members[p] ELSE Newcomer
    <3>1. [old EXCEPT !.banned = TRUE].role = "owner"
            => p \in DOMAIN members /\ members[p].role = "owner"
      BY DEF Newcomer, IsMember, TypeOK, Member
    <3>2. members' = With(p, [old EXCEPT !.banned = TRUE]) /\ UNCHANGED <<phase, owner>>
      BY <2>6 DEF BanMember
    <3> HIDE DEF old
    <3>3. QED
      BY <3>1, <3>2, SameOwner DEF With
  <2>7. ASSUME UNCHANGED <<phase, owner>>, DOMAIN members' = DOMAIN members,
               \A p \in DOMAIN members : members'[p].role = "owner" => members[p].role = "owner"
        PROVE  OwnerInv'
    BY <2>7, SameOwner
  <2>8. ASSUME NEW op, NEW p, UnbanMember(op, p) \/ UnmuteMember(op, p) \/ CanSendMessage(p)
        PROVE  OwnerInv'
    BY <2>7, <2>8 DEF UnbanMember, UnmuteMember, CanSendMessage, TypeOK, Member
  <2>9. ASSUME NEW op, NEW p, NEW duration, MuteMember(op, p, duration) PROVE OwnerInv'
    BY <2>7, <2>9 DEF MuteMember, TypeOK, Member
  <2>10. ASSUME NEW op, NEW p, NEW isAdmin, SetAdmin(op, p, isAdmin) PROVE OwnerInv'
    BY <2>7, <2>10 DEF SetAdmin, TypeOK, Member
  <2>11. ASSUME NEW op \in Pubkeys, NEW p, TransferOwnership(op, p) PROVE OwnerInv'
    <3>1. owner = op /\ phase = "there" /\ op # Unknown /\ p \in DOMAIN members
      BY <2>11, GroupAssumption DEF TransferOwnership, IsMember
    <3>2. op \in DOMAIN members
      BY <3>1 DEF OwnerInv, OwnerIsMember
    <3>3. /\ owner' = p /\ phase' = phase /\ DOMAIN members' = DOMAIN members
          /\ p # op => members'[op].role = "admin"
          /\ \A q \in DOMAIN members : q # op /\ q # p => members'[q] = members[q]
      BY <2>11, <3>1, <3>2 DEF TransferOwnership, TypeOK, Member
    <3>4. QED
      BY <3>1, <3>3 DEF OwnerInv, OwnerIsMember, OnlyOwnerHasRole
  <2>12. ASSUME Tick PROVE OwnerInv'
    BY <2>7, <2>12 DEF Tick, TypeOK, Member
  <2>13. ASSUME Restart PROVE OwnerInv'
    BY <2>13 DEF Restart, OwnerInv, OwnerIsMember, OnlyOwnerHasRole, Nobody
  <2>14. ASSUME UNCHANGED vars PROVE OwnerInv'
    BY <2>7, <2>14 DEF vars
  <2>15. QED
    BY <2>1, <2>2, <2>4, <2>5, <2>6, <2>8, <2>9, <2>10, <2>11, <2>12, <2>13, <2>14
    DEF Next, OwnAction, AdminAction
<1>3. QED
  BY <1>1, <1>2, GroupTypeCorrect, PTL DEF Spec

\* A known owner always has a member record for transferOwnership to write to.
THEOREM OwnerStaysMember == Spec => []OwnerIsMember
<1>1. OwnerInv => OwnerIsMember
  BY DEF OwnerInv
<1>2. QED
  BY <1>1, OwnerCorrect, PTL

\* Ownership is consistent: OwnerInv is inductive.
THEOREM OwnerIsOne == Spec => []OneOwner
<1>1. OwnerInv => OneOwner
  BY DEF OwnerInv, OneOwner
<1>2. QED
  BY <1>1, OwnerCorrect, PTL

\* Nobody but the owner holds the role of owner.
THEOREM OwnerRoleIsOwners == Spec => []OnlyOwnerHasRole
<1>1. OwnerInv => OnlyOwnerHasRole
  BY DEF OwnerInv
<1>2. QED
  BY <1>1, OwnerCorrect, PTL

----------------------------------------------------------------------------
\* What SanctionsKept says of one user in one step.
Kept(p) ==
  /\ members[p].banned /\ ~members'[p].banned =>
       \E op \in Pubkeys : HasAdmin(op) /\ UnbanMember(op, p)
  /\ members[p].muted /\ ~members'[p].muted =>
       \/ members[p].rest = 0
       \/ \E op \in Pubkeys : HasAdmin(op) /\ UnmuteMember(op, p)

LEMMA SameSanctions ==
  ASSUME NEW p, members'[p].banned = members[p].banned, members'[p].muted = members[p].muted
  PROVE  Kept(p)
BY DEF Kept

\* Bans and mutes of members are lifted by admins or by time, never by the
\* member's own joining again or as a side effect of another operation.
THEOREM SanctionsAreKept == Spec => SanctionsKept
<1>1. TypeOK /\ [Next]_vars =>
        \A p \in Pubkeys : IsMember(p) /\ IsMember(p)' => Kept(p)
  <2> SUFFICES ASSUME TypeOK, [Next]_vars, NEW p \in Pubkeys, IsMember(p), IsMember(p)'
               PROVE  Kept(p)
    OBVIOUS
  <2>0. phase = "there" /\ p \in DOMAIN members /\ members[p] \in Member
        /\ phase' = "there" /\ p \in DOMAIN members'
    BY DEF IsMember, TypeOK
  <2>1. ASSUME NEW q, CreateGroup(q) PROVE FALSE
    BY <2>0, <2>1 DEF CreateGroup
  <2>2. ASSUME NEW q, JoinGroup(q) PROVE Kept(p)
    <3>1. CASE q = p
      <4>1. ~members[p].banned /\ members'[p] = Rejoined(members[p])
        BY <2>0, <2>2, <3>1 DEF JoinGroup, With, IsMember
      <4>2. Rejoined(members[p]).muted = members[p].muted
        BY <2>0 DEF Rejoined, Member
      <4>3. QED
        BY <4>1, <4>2 DEF Kept
    <3>2. CASE q # p
      <4>1. members'[p] = members[p]
        BY <2>0, <2>2, <3>2 DEF JoinGroup, With
      <4>2. QED
        BY <4>1, SameSanctions
    <3>3. QED
      BY <3>1, <3>2
  <2>3. ASSUME NEW q, members' = WithoutMember(q) PROVE Kept(p)
    BY <2>0, <2>3, SameSanctions DEF WithoutMember, Restrict
  <2>4. ASSUME NEW q, LeaveGroup(q) PROVE Kept(p)
    BY <2>0, <2>3, <2>4 DEF LeaveGroup
  <2>5. ASSUME NEW op, NEW q, KickMember(op, q) PROVE Kept(p)
    BY <2>3, <2>5 DEF KickMember
  <2>6. ASSUME NEW op, NEW q, BanMember(op, q) PROVE Kept(p)
    <3>1. members'[p] = IF p = q THEN [members[p] EXCEPT !.banned = TRUE] ELSE members[p]
      BY <2>0, <2>6 DEF BanMember, With, IsMember
    <3>2. QED
      BY <2>0, <3>1 DEF Kept, Member
  <2>7. ASSUME NEW op \in Pubkeys, NEW q, UnbanMember(op, q) PROVE Kept(p)
    <3>1. CASE q = p
      <4>1. members'[p].muted = members[p].muted
        BY <2>0, <2>7, <3>1 DEF UnbanMember, Member, TypeOK
      <4>2. QED
        BY <2>7, <3>1, <4>1 DEF Kept, UnbanMember
    <3>2. CASE q # p
      BY <2>0, <2>7, <3>2, SameSanctions DEF UnbanMember
    <3>3. QED
      BY <3>1, <3>2
  <2>8. ASSUME NEW op, NEW q, NEW duration, MuteMember(op, q, duration) PROVE Kept(p)
    BY <2>0, <2>8 DEF MuteMember, Kept, Member, TypeOK
  <2>9. ASSUME NEW op \in Pubkeys, NEW q, UnmuteMember(op, q) PROVE Kept(p)
    <3>1. CASE q = p
      <4>1. members'[p].banned = members[p].banned
        BY <2>0, <2>9, <3>1 DEF UnmuteMember, Member, TypeOK
      <4>2. QED
        BY <2>9, <3>1, <4>1 DEF Kept, UnmuteMember
    <3>2. CASE q # p
      BY <2>0, <2>9, <3>2, SameSanctions DEF UnmuteMember
    <3>3. QED
      BY <3>1, <3>2
  <2>10. ASSUME NEW op, NEW q, NEW isAdmin, SetAdmin(op, q, isAdmin) PROVE Kept(p)
    BY <2>0, <2>10 DEF SetAdmin, Kept, Member, TypeOK
  <2>11. ASSUME NEW op, NEW q, TransferOwnership(op, q) PROVE Kept(p)
    BY <2>0, <2>11 DEF TransferOwnership, Kept, Member, TypeOK
  <2>12. ASSUME NEW q, CanSendMessage(q) PROVE Kept(p)
    BY <2>0, <2>12 DEF CanSendMessage, Kept, Member, TypeOK
  <2>13. ASSUME Tick PROVE Kept(p)
    BY <2>0, <2>13 DEF Tick, Kept, Member
  <2>14. ASSUME Restart PROVE FALSE
    BY <2>0, <2>14 DEF Restart
  <2>15. ASSUME UNCHANGED vars PROVE Kept(p)
    BY <2>15, SameSanctions DEF vars
  <2>16. QED
    BY <2>1, <2>2, <2>4, <2>5, <2>6, <2>7, <2>8, <2>9, <2>10, <2>11, <2>12, <2>13, <2>14, <2>15
    DEF Next, OwnAction, AdminAction
<1>2. QED
  BY <1>1, GroupTypeCorrect, PTL DEF Spec, SanctionsKept, Kept
=============================================================================
