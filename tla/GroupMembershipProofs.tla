------------------------ MODULE GroupMembershipProofs ------------------------
(***************************************************************************)
(* Proofs about GroupMembership, for any people, roles, template and bounds.*)
(*                                                                         *)
(* The invariant says of each request under way what its asking found: the *)
(* role it names was defined then, and if it is not any more it is one of  *)
(* those that raced; and who hands out the owner's role held everything.   *)
(* What is asked for is in hand when it is asked, so that a write only     *)
(* passes on what is in hand already.                                      *)
(***************************************************************************)
EXTENDS GroupMembership, TLAPS

USE MembershipAssumption

\* What is known of a request since it was asked.
Fits(q) ==
  /\ q.op \in {"remove", "assign"} => q.of \in Users
  /\ q.op = "assign" => q.role \in (Defined \cup raced) \ {NoRole}
  /\ q.op = "assign" /\ q.role = Owner => q.new = Authority
  /\ q.op = "update" => q.role # Owner
  /\ q.op = "rename" => q.to \in Customs
  /\ q.op = "delete" => q.to \in (Defined \cup raced) \ {NoRole, Pending, q.role}
  /\ q.op = "delete" /\ q.to = Owner => q.new = Authority
  /\ q.op \in {"reset", "rewrite"} => q.new = Restored
  /\ q.standing = "peer" => q.op = "assign" /\ q.role = Owner

IInv == TypeOK /\ (\A q \in requests : Fits(q)) /\ RolesAreDefined

-----------------------------------------------------------------------------
LEMMA SystemRoles ==
  /\ Owner \in System /\ Usual \in System /\ Pending \in System /\ NoRole \in System
  /\ System \subseteq Names /\ System \cap Customs = {}
  /\ Editable \subseteq System \ {Owner} /\ NoRole # Owner /\ Usual # Owner
  /\ Active(Usual) /\ Active(Owner) /\ ~Active(NoRole) /\ ~Active(Pending)
  /\ \A c \in Customs : Active(c) /\ c # Owner
  BY SMTT(30) DEF System, Names, Owner, Usual, Pending, NoRole, Admin, Editable, Active

LEMMA InWritten ==
  ASSUME NEW i \in 1..4
  PROVE  Written[i] \in Editable
  BY SMTT(30) DEF Written, Editable

LEMMA RequestIs ==
  ASSUME NEW op \in {"remove", "assign", "update", "rename", "delete", "reset"},
         NEW u \in Users \cup {NoUser}, NEW role \in Names, NEW to \in Names,
         NEW standing \in {"peer", "above"}, NEW new \in SUBSET Authority
  PROVE  /\ Request(op, u, role, to, standing, new) \in Requests
         /\ Request(op, u, role, to, standing, new).op = op
         /\ Request(op, u, role, to, standing, new).of = u
         /\ Request(op, u, role, to, standing, new).role = role
         /\ Request(op, u, role, to, standing, new).to = to
         /\ Request(op, u, role, to, standing, new).new = new
         /\ Request(op, u, role, to, standing, new).standing = standing
  BY SMTT(30) DEF Request, Requests

LEMMA EditIs ==
  ASSUME NEW op \in {"update", "rename", "delete", "reset"},
         NEW role \in Names, NEW to \in Names, NEW new \in SUBSET Authority
  PROVE  /\ Edit(op, role, to, new) \in Requests
         /\ Edit(op, role, to, new).op = op
         /\ Edit(op, role, to, new).role = role
         /\ Edit(op, role, to, new).to = to
         /\ Edit(op, role, to, new).new = new
         /\ Edit(op, role, to, new).standing # "peer"
  BY SMTT(30) DEF Edit, Request, Requests

LEMMA StandingIs ==
  ASSUME NEW a, NEW u
  PROVE  Standing(a, u) \in {"peer", "above"}
  BY DEF Standing

LEMMA RightsAreAuthority ==
  ASSUME TypeOK, NEW r \in Names
  PROVE  RightsOf(r) \subseteq Authority
  BY DEF TypeOK, RightsOf

LEMMA HeldIsAuthority ==
  ASSUME TypeOK, NEW a \in Users
  PROVE  Held(a) \subseteq Authority
  BY RightsAreAuthority, SystemRoles DEF Held, TypeOK

LEMMA NobodyDominatesOwners ==
  ASSUME TypeOK, NEW a \in Users, NEW u \in Users, member[u] = Owner
  PROVE  ~dominatesInGroup(a, u)
  BY HeldIsAuthority DEF dominatesInGroup, RightsOf

-----------------------------------------------------------------------------
(***************************************************************************)
(* What power over others there is: the owner's and the elevated admins',  *)
(* what the roles list, and what requests were let in to hand out.         *)
(***************************************************************************)
Sovereign == \E u \in Users : member[u] = Owner \/ u \in elevated

Has(x) ==
  \/ x \in Authority /\ Sovereign
  \/ \E r \in Defined \ {Owner} : x \in rights[r]
  \/ \E q \in requests : x \in q.new

LEMMA InHandIs == TypeOK => \A x : InHand(x) <=> Has(x)
  <1> SUFFICES ASSUME TypeOK, NEW x PROVE InHand(x) <=> Has(x)
    OBVIOUS
  <1>0. \A r \in Names \ {Owner} : x \in RightsOf(r) <=> r \in Defined /\ x \in rights[r]
    BY DEF RightsOf
  <1>1. Defined \subseteq Names
    BY SystemRoles DEF Defined, Names, TypeOK
  <1>2. (\E r \in Names \ {Owner} : x \in RightsOf(r)) <=>
          (\E r \in Defined \ {Owner} : x \in rights[r])
    BY <1>0, <1>1
  <1>3. ASSUME NEW u \in Users
        PROVE  x \in Held(u) <=> \/ x \in Authority /\ (member[u] = Owner \/ u \in elevated)
                                 \/ member[u] # Owner /\ x \in RightsOf(member[u])
                                 \/ x \in RightsOf(NoRole)
    BY DEF Held, RightsOf
  <1>4. NoRole \in Names \ {Owner} /\ \A u \in Users : member[u] \in Names
    BY SystemRoles DEF TypeOK
  <1>6. (\E u \in Users : x \in Held(u)) =>
          \/ x \in Authority /\ Sovereign
          \/ \E r \in Names \ {Owner} : x \in RightsOf(r)
    BY <1>3, <1>4 DEF Sovereign
  <1>7. x \in Authority /\ Sovereign => \E u \in Users : x \in Held(u)
    BY <1>3 DEF Sovereign
  <1> QED
    BY <1>2, <1>6, <1>7 DEF Has, InHand

LEMMA HeldIsInHand ==
  ASSUME TypeOK, NEW a \in Users, NEW x \in Held(a)
  PROVE  Has(x)
  <1>1. InHand(x)
    BY DEF InHand
  <1> QED
    BY <1>1, InHandIs

LEMMA RightsAreInHand ==
  ASSUME TypeOK, NEW r \in Names, NEW x \in RightsOf(r),
         r = Owner => \E u \in Users : RightsOf(r) \subseteq Held(u)
  PROVE  Has(x)
  <1>1. CASE r = Owner
    BY <1>1, HeldIsInHand
  <1>2. CASE r # Owner
    BY <1>2, InHandIs DEF InHand
  <1> QED
    BY <1>1, <1>2

\* Nothing changed but that q is now asked for.
Asked(q) ==
  /\ q \in Requests /\ Fits(q) /\ \A x \in q.new : Has(x)
  /\ requests' = requests \cup {q}
  /\ edits' \in 0..MaxEdits
  /\ UNCHANGED <<people, room, roles, elevated>>

\* Every question of Next adds a request that fits.
LEMMA RemoveAsked ==
  ASSUME IInv, NEW a \in Users, NEW u \in Users, canRemoveGroupMember(a, u)
  PROVE  \E q : Asked(q)
  <1> DEFINE q == Request("remove", u, NoRole, NoRole, Standing(a, u), {})
  <1>1. q \in Requests /\ q.op = "remove" /\ q.of = u /\ q.standing = Standing(a, u) /\ q.new = {}
    BY SystemRoles, RequestIs, StandingIs
  <1>3. Standing(a, u) # "peer"
    BY NobodyDominatesOwners DEF IInv, canRemoveGroupMember, Standing, outranksMembers
  <1>2. Fits(q)
    BY <1>1, <1>3 DEF Fits
  <1> QED
    BY <1>1, <1>2 DEF Asked, people, roles, canRemoveGroupMember, Ask, IInv, TypeOK

LEMMA AssignAsked ==
  ASSUME IInv, NEW a \in Users, NEW u \in Users, NEW r \in Names,
         canAssignGroupRole(a, u, r)
  PROVE  \E q : Asked(q)
  <1> DEFINE q == Request("assign", u, r, NoRole, Standing(a, u), RightsOf(r))
  <1>0. RightsOf(r) \subseteq Authority
    BY RightsAreAuthority DEF IInv
  <1>1. /\ q \in Requests /\ q.op = "assign" /\ q.of = u /\ q.role = r /\ q.new = RightsOf(r)
        /\ q.standing = Standing(a, u)
    BY <1>0, SystemRoles, RequestIs, StandingIs
  <1>2. r \in Defined \ {NoRole}
    BY DEF canAssignGroupRole
  <1>3. r = Owner => RightsOf(r) = Authority
    BY DEF RightsOf
  <1>5. Standing(a, u) = "peer" => r = Owner
    BY NobodyDominatesOwners DEF IInv, canAssignGroupRole, Standing, outranksMembers
  <1>4. Fits(q)
    BY <1>1, <1>2, <1>3, <1>5 DEF Fits
  <1>6. RightsOf(r) \subseteq Held(a) \/ RightsOf(r) \subseteq Held(u)
    BY DEF canAssignGroupRole, Held
  <1>7. \A x \in q.new : Has(x)
    BY <1>1, <1>6, RightsAreInHand DEF IInv
  <1> QED
    BY <1>1, <1>4, <1>7 DEF Asked, people, roles, canAssignGroupRole, Ask, IInv, TypeOK

LEMMA UpdateAsked ==
  ASSUME IInv, NEW a \in Users, NEW r \in Edited, NEW new \in SUBSET Authority,
         AskToUpdate(a, r, new), edits < MaxEdits
  PROVE  \E q : Asked(q)
  <1> DEFINE q == Edit("update", r, NoRole, new)
  <1>1. q \in Requests /\ q.op = "update" /\ q.role = r /\ q.new = new /\ q.standing # "peer"
    BY SystemRoles, EditIs
  <1>2. Fits(q)
    BY <1>1 DEF Fits
  <1>3. \A x \in new : x \in RightsOf(r) \/ x \in Held(a)
    BY SystemRoles DEF AskToUpdate, RightsOf
  <1>4. \A x \in q.new : Has(x)
    BY <1>1, <1>3, RightsAreInHand, HeldIsInHand DEF IInv
  <1> QED
    BY <1>1, <1>2, <1>4 DEF Asked, people, roles, AskToUpdate, AskToEdit, IInv, TypeOK

LEMMA RenameAsked ==
  ASSUME IInv, NEW a \in Users, NEW r \in Names, NEW to \in Names,
         AskToRename(a, r, to), edits < MaxEdits
  PROVE  \E q : Asked(q)
  <1> DEFINE q == Edit("rename", r, to, {})
  <1>1. q \in Requests /\ q.op = "rename" /\ q.to = to /\ q.new = {} /\ q.standing # "peer"
    BY SystemRoles, EditIs
  <1>2. Fits(q)
    BY <1>1 DEF Fits, AskToRename
  <1> QED
    BY <1>1, <1>2 DEF Asked, people, roles, AskToRename, AskToEdit, IInv, TypeOK

LEMMA DeleteAsked ==
  ASSUME IInv, NEW a \in Users, NEW r \in Names, NEW to \in Names,
         AskToDelete(a, r, to), edits < MaxEdits
  PROVE  \E q : Asked(q)
  <1> DEFINE q == Edit("delete", r, to, RightsOf(to))
  <1>0. RightsOf(to) \subseteq Authority
    BY RightsAreAuthority DEF IInv
  <1>1. q \in Requests /\ q.op = "delete" /\ q.role = r /\ q.to = to /\ q.new = RightsOf(to) /\ q.standing # "peer"
    BY <1>0, SystemRoles, EditIs
  <1>2. to \in Defined \ {r, NoRole, Pending}
    BY DEF AskToDelete
  <1>3. to = Owner => RightsOf(to) = Authority
    BY DEF RightsOf
  <1>4. Fits(q)
    BY <1>1, <1>2, <1>3 DEF Fits
  <1>5. \A x \in q.new : Has(x)
    BY <1>1, HeldIsInHand DEF IInv, AskToDelete
  <1> QED
    BY <1>1, <1>4, <1>5 DEF Asked, people, roles, AskToDelete, AskToEdit, IInv, TypeOK

LEMMA ResetAsked ==
  ASSUME IInv, NEW a \in Users, AskToReset(a), edits < MaxEdits
  PROVE  \E q : Asked(q)
  <1> DEFINE q == Edit("reset", NoRole, NoRole, Restored)
  <1>0. Restored \subseteq Authority
    BY DEF Restored
  <1>1. q \in Requests /\ q.op = "reset" /\ q.new = Restored /\ q.standing # "peer"
    BY <1>0, SystemRoles, EditIs
  <1>2. Fits(q)
    BY <1>1 DEF Fits
  <1>3. ASSUME NEW x \in Restored PROVE Has(x)
    <2>1. PICK r \in Editable : x \in Template[r]
      BY DEF Restored
    <2>2. r \in Names \ {Owner} /\ r \in Defined
      BY SystemRoles DEF Defined
    <2>3. x \in RightsOf(r) \/ x \in Held(a)
      BY <2>1, <2>2 DEF AskToReset, RightsOf
    <2> QED
      BY <2>2, <2>3, RightsAreInHand, HeldIsInHand DEF IInv
  <1>4. \A x \in q.new : Has(x)
    BY <1>1, <1>3
  <1> QED
    BY <1>1, <1>2, <1>4 DEF Asked, people, roles, AskToReset, AskToEdit, IInv, TypeOK

LEMMA SomethingAsked ==
  ASSUME IInv, NEW a \in Users, AskInGroup(a)
  PROVE  \E q : Asked(q)
  <1>1. CASE \E u \in Users : canRemoveGroupMember(a, u)
    BY <1>1, RemoveAsked
  <1>2. CASE \E u \in Users : \E r \in Defined : canAssignGroupRole(a, u, r)
    <2>1. Defined \subseteq Names
      BY DEF Defined, Names, IInv, TypeOK
    <2> QED
      BY <1>2, <2>1, AssignAsked
  <1>3. CASE /\ edits < MaxEdits
             /\ \E r \in Edited, x \in Authority : \/ AskToUpdate(a, r, rights[r] \cup {x})
                                                  \/ AskToUpdate(a, r, rights[r] \ {x})
    <2>1. PICK r \in Edited, x \in Authority : \/ AskToUpdate(a, r, rights[r] \cup {x})
                                              \/ AskToUpdate(a, r, rights[r] \ {x})
      BY <1>3
    <2>2. rights[r] \cup {x} \in SUBSET Authority /\ rights[r] \ {x} \in SUBSET Authority
      BY DEF IInv, TypeOK
    <2> QED
      BY <1>3, <2>1, <2>2, UpdateAsked
  <1>4. CASE /\ edits < MaxEdits
             /\ \E r \in customs, to \in Names : AskToRename(a, r, to) \/ AskToDelete(a, r, to)
    <2>1. customs \subseteq Names
      BY DEF Names, IInv, TypeOK
    <2> QED
      BY <1>4, <2>1, RenameAsked, DeleteAsked
  <1>5. CASE edits < MaxEdits /\ AskToReset(a)
    BY <1>5, ResetAsked
  <1> QED
    BY <1>1, <1>2, <1>3, <1>4, <1>5 DEF AskInGroup

-----------------------------------------------------------------------------
(***************************************************************************)
(* The invariant is kept.                                                  *)
(***************************************************************************)
LEMMA FitsKept ==
  ASSUME NEW q, Fits(q),
         q.role \in Defined \cup raced => q.role \in (Defined \cup raced)',
         q.to \in Defined \cup raced => q.to \in (Defined \cup raced)'
  PROVE  Fits(q)'
  BY DEF Fits

\* A name that vanishes is kept in mind as long as a request has it.
LEMMA VanishedIsRaced ==
  ASSUME NEW gone, Vanish(gone), Defined \subseteq Defined' \cup gone,
         NEW q \in requests'
  PROVE  /\ q.role \in Defined \cup raced => q.role \in (Defined \cup raced)'
         /\ q.to \in Defined \cup raced => q.to \in (Defined \cup raced)'
  BY DEF Vanish

LEMMA AskedKeeps ==
  ASSUME IInv, NEW q, Asked(q)
  PROVE  IInv'
  <1> USE DEF Asked, people, roles
  <1>1. TypeOK'
    BY DEF IInv, TypeOK
  <1>2. Defined' = Defined
    BY DEF Defined
  <1>3. RolesAreDefined'
    BY <1>2 DEF IInv, RolesAreDefined
  <1>4. \A p \in requests' : Fits(p)'
    BY <1>2, FitsKept DEF IInv
  <1> QED
    BY <1>1, <1>3, <1>4 DEF IInv

LEMMA BecomeKeeps ==
  ASSUME IInv, NEW u \in Users, NEW r \in Names, Become(u, r),
         r \in Defined \cup raced, requests' \subseteq requests,
         UNCHANGED <<room, roles, elevated, edits>>
  PROVE  IInv'
  <1> USE DEF roles
  <1>1. TypeOK'
    BY DEF IInv, TypeOK, Become
  <1>2. Defined' = Defined
    BY DEF Defined
  <1>3. RolesAreDefined'
    BY <1>2 DEF IInv, RolesAreDefined, Become, TypeOK
  <1>4. \A p \in requests' : Fits(p)'
    BY <1>2, FitsKept DEF IInv
  <1> QED
    BY <1>1, <1>3, <1>4 DEF IInv

LEMMA JoinKeeps ==
  ASSUME IInv, NEW u \in Users, NEW role \in {Usual, Pending}, JoinGroup(u, role)
  PROVE  IInv'
  <1>1. Merged(u, role) \in Names /\ Merged(u, role) \in Defined \cup raced
    BY SystemRoles DEF Merged, IInv, TypeOK, RolesAreDefined, Defined
  <1> QED
    BY <1>1, BecomeKeeps DEF JoinGroup

LEMMA RedeemKeeps ==
  ASSUME IInv, NEW u \in Users, redeemInviteCode(u)
  PROVE  IInv'
  <1> USE DEF redeemInviteCode, roles
  <1>1. TypeOK'
    BY SystemRoles DEF IInv, TypeOK
  <1>2. Defined' = Defined
    BY DEF Defined
  <1>3. RolesAreDefined'
    BY <1>2, SystemRoles DEF IInv, RolesAreDefined, TypeOK, Defined
  <1>4. \A p \in requests' : Fits(p)'
    BY <1>2, FitsKept DEF IInv
  <1> QED
    BY <1>1, <1>3, <1>4 DEF IInv

LEMMA LeaveKeeps ==
  ASSUME IInv, NEW u \in Users, LeaveGroup(u)
  PROVE  IInv'
  BY BecomeKeeps, SystemRoles DEF LeaveGroup, removeUserFromGroup, Defined

LEMMA RemoveKeeps ==
  ASSUME IInv, NEW q \in requests, RemoveUserFromGroup(q)
  PROVE  IInv'
  BY BecomeKeeps, SystemRoles
  DEF RemoveUserFromGroup, removeUserFromGroup, Served, Defined, IInv, Fits

LEMMA AssignKeeps ==
  ASSUME IInv, NEW q \in requests, ChangeGroupMemberRole(q)
  PROVE  IInv'
  <1>1. q.of \in Users /\ q.role \in Names /\ q.role \in Defined \cup raced
    BY DEF IInv, TypeOK, Fits, ChangeGroupMemberRole, Requests
  <1> QED
    BY <1>1, BecomeKeeps DEF ChangeGroupMemberRole, Served

LEMMA ChatOpenedKeeps ==
  ASSUME IInv, NEW u \in Users, CreateGroupRoom(u)
  PROVE  IInv'
  <1> USE DEF CreateGroupRoom, roles
  <1>1. TypeOK'
    BY DEF IInv, TypeOK
  <1>2. Defined' = Defined
    BY DEF Defined
  <1>3. RolesAreDefined'
    BY <1>2 DEF IInv, RolesAreDefined
  <1>4. \A p \in requests' : Fits(p)'
    BY <1>2, FitsKept DEF IInv
  <1> QED
    BY <1>1, <1>3, <1>4 DEF IInv

LEMMA ElevationKeeps ==
  ASSUME IInv, NEW u \in Users, elevateInGroup(u) \/ endGroupElevation(u)
  PROVE  IInv'
  <1> USE DEF elevateInGroup, endGroupElevation, people, roles
  <1>1. TypeOK'
    BY DEF IInv, TypeOK
  <1>2. Defined' = Defined
    BY DEF Defined
  <1>3. RolesAreDefined'
    BY <1>2 DEF IInv, RolesAreDefined
  <1>4. \A p \in requests' : Fits(p)'
    BY <1>2, FitsKept DEF IInv
  <1> QED
    BY <1>1, <1>3, <1>4 DEF IInv

LEMMA FailKeeps ==
  ASSUME IInv, NEW q \in requests, Fail(q)
  PROVE  IInv'
  <1> USE DEF Fail, Served, people, roles
  <1>1. TypeOK'
    BY DEF IInv, TypeOK
  <1>2. Defined' = Defined
    BY DEF Defined
  <1>3. RolesAreDefined'
    BY <1>2 DEF IInv, RolesAreDefined
  <1>4. \A p \in requests' : Fits(p)'
    BY <1>2, FitsKept DEF IInv
  <1> QED
    BY <1>1, <1>3, <1>4 DEF IInv

LEMMA UpdateKeeps ==
  ASSUME IInv, NEW q \in requests, writeGroupRole(q)
  PROVE  IInv'
  <1> USE DEF writeGroupRole, Served, people
  <1>1. q.role \in Names /\ q.new \subseteq Authority
    BY DEF IInv, TypeOK, Requests
  <1>2. TypeOK'
    BY <1>1 DEF IInv, TypeOK
  <1>3. Defined \subseteq Defined' /\ raced' = raced
    BY DEF Defined
  <1>4. RolesAreDefined'
    BY <1>3 DEF IInv, RolesAreDefined
  <1>5. \A p \in requests' : Fits(p)'
    BY <1>3, FitsKept DEF IInv
  <1> QED
    BY <1>2, <1>4, <1>5 DEF IInv

LEMMA RenameKeeps ==
  ASSUME IInv, NEW q \in requests, renameGroupRole(q)
  PROVE  IInv'
  <1> USE DEF renameGroupRole
  <1>1. q.role \in Customs /\ q.role \in customs
    BY DEF IInv, TypeOK
  <1>2. q.to \in Customs /\ q.to \in Names /\ q.role \in Names
    BY <1>1 DEF IInv, Fits, Names
  <1>3. TypeOK'
    BY <1>1, <1>2 DEF IInv, TypeOK, Served, Moved, Vanish
  <1>4. Defined \subseteq Defined' \cup {q.role} /\ q.to \in Defined'
    BY DEF Defined
  <1>5. RolesAreDefined'
    BY <1>4 DEF IInv, RolesAreDefined, Moved, Vanish
  <1>6. \A p \in requests' : Fits(p)'
    BY <1>4, VanishedIsRaced, FitsKept DEF IInv, Served
  <1> QED
    BY <1>3, <1>5, <1>6 DEF IInv

LEMMA DeleteKeeps ==
  ASSUME IInv, NEW q \in requests, deleteGroupRole(q)
  PROVE  IInv'
  <1> USE DEF deleteGroupRole
  <1>1. /\ q.to \in Names /\ q.role \in customs /\ q.to \in Defined \cup raced
        /\ q.to # q.role
    BY DEF IInv, TypeOK, Requests, Fits
  <1>2. TypeOK'
    BY <1>1 DEF IInv, TypeOK, Served, Moved, Vanish
  <1>3. Defined \subseteq Defined' \cup {q.role} /\ Defined' \subseteq Defined
    BY DEF Defined
  <1>4. q.to \in (Defined \cup raced)'
    BY <1>1, <1>3 DEF Vanish
  <1>5. RolesAreDefined'
    BY <1>1, <1>3, <1>4 DEF IInv, RolesAreDefined, Moved, Vanish
  <1>6. \A p \in requests' : Fits(p)'
    BY <1>3, VanishedIsRaced, FitsKept DEF IInv, Served
  <1> QED
    BY <1>2, <1>5, <1>6 DEF IInv

LEMMA RewriteIsRequest ==
  ASSUME NEW q \in Requests, q.op = "reset"
  PROVE  /\ [q EXCEPT !.op = "rewrite"] \in Requests
         /\ [q EXCEPT !.op = "rewrite"].op = "rewrite"
         /\ [q EXCEPT !.op = "rewrite"].new = q.new
         /\ [q EXCEPT !.op = "rewrite"].standing = q.standing
  BY DEF Requests

LEMMA NextIsRequest ==
  ASSUME NEW q \in Requests, q.op = "rewrite", q.next # 4
  PROVE  /\ [q EXCEPT !.next = q.next + 1] \in Requests
         /\ [q EXCEPT !.next = q.next + 1].op = "rewrite"
         /\ [q EXCEPT !.next = q.next + 1].new = q.new
         /\ [q EXCEPT !.next = q.next + 1].standing = q.standing
  BY DEF Requests

LEMMA ResetKeeps ==
  ASSUME IInv, NEW q \in requests, replaceGroupRoles(q)
  PROVE  IInv'
  <1> USE DEF replaceGroupRoles
  <1> DEFINE next == [q EXCEPT !.op = "rewrite"]
  <1>1. q \in Requests /\ Fits(q)
    BY DEF IInv, TypeOK
  <1>2. next \in Requests /\ next.op = "rewrite" /\ next.new = Restored /\ next.standing # "peer"
    BY <1>1, RewriteIsRequest DEF Fits
  <1>3. requests' = (requests \ {q}) \cup {next}
    OBVIOUS
  <1> HIDE DEF next
  <1>4. TypeOK'
    BY <1>2, <1>3, SystemRoles DEF IInv, TypeOK, Moved, Vanish
  <1>5. Defined \subseteq Defined' \cup customs /\ Defined' = System
    BY DEF Defined
  <1>6. RolesAreDefined'
    BY <1>5, SystemRoles DEF IInv, RolesAreDefined, Moved, Vanish
  <1>7. Fits(next)'
    BY <1>2 DEF Fits
  <1>8. \A p \in requests' : Fits(p)'
    <2> SUFFICES ASSUME NEW p \in requests', p # next
                 PROVE  Fits(p)'
      BY <1>7
    <2>1. p \in requests
      BY <1>3
    <2> QED
      BY <2>1, <1>5, VanishedIsRaced, FitsKept DEF IInv
  <1> QED
    BY <1>4, <1>6, <1>8 DEF IInv

LEMMA RewriteKeeps ==
  ASSUME IInv, NEW q \in requests, rewriteGroupRole(q)
  PROVE  IInv'
  <1> USE DEF rewriteGroupRole, people
  <1> DEFINE next == [q EXCEPT !.next = q.next + 1]
  <1>1. q \in Requests /\ Fits(q) /\ q.op = "rewrite" /\ q.next \in 1..4
    BY DEF IInv, TypeOK, Requests
  <1>2. q.next # 4 => next \in Requests /\ next.op = "rewrite" /\ next.new = Restored /\ next.standing # "peer"
    BY <1>1, NextIsRequest DEF Fits
  <1>3. \/ requests' = requests \ {q}
        \/ requests' = (requests \ {q}) \cup {next} /\ q.next # 4
    OBVIOUS
  <1>4. Written[q.next] \in Editable /\ Editable \subseteq Names
    BY <1>1, InWritten, SystemRoles
  <1> HIDE DEF next
  <1>5. TypeOK'
    BY <1>2, <1>3, <1>4 DEF IInv, TypeOK
  <1>6. Defined' = Defined /\ raced' = raced
    BY DEF Defined
  <1>7. RolesAreDefined'
    BY <1>6 DEF IInv, RolesAreDefined
  <1>8. \A p \in requests' : Fits(p)'
    <2>1. q.next # 4 => Fits(next)'
      BY <1>2 DEF Fits
    <2> SUFFICES ASSUME NEW p \in requests, p \in requests'
                 PROVE  Fits(p)'
      BY <1>3, <2>1
    <2> QED
      BY <1>6, FitsKept DEF IInv
  <1> QED
    BY <1>5, <1>7, <1>8 DEF IInv

LEMMA InitFits == Init => IInv
  <1> SUFFICES ASSUME Init PROVE IInv
    OBVIOUS
  <1>1. TypeOK
    <2>1. member \in [Users -> Names]
      BY SystemRoles DEF Init
    <2>2. rights \in [Names -> SUBSET Authority]
      BY SystemRoles DEF Init
    <2>3. /\ room = FALSE /\ chats = {} /\ invited = {} /\ customs \subseteq Customs
          /\ elevated = {} /\ requests = {} /\ edits = 0 /\ raced = {}
      BY DEF Init
    <2>4. edits \in 0..MaxEdits
      BY <2>3
    <2>5. room \in BOOLEAN
      BY <2>3
    <2> QED
      BY <2>1, <2>2, <2>3, <2>4, <2>5 DEF TypeOK
  <1>2. RolesAreDefined
    BY SystemRoles DEF Init, RolesAreDefined, Defined
  <1> QED
    BY <1>1, <1>2 DEF Init, IInv

LEMMA NextKeeps == IInv /\ [Next]_vars => IInv'
  <1> SUFFICES ASSUME IInv, [Next]_vars PROVE IInv'
    OBVIOUS
  <1>1. CASE \E u \in Users, role \in {Usual, Pending} : JoinGroup(u, role)
    BY <1>1, JoinKeeps
  <1>2. CASE \E u \in Users : \/ redeemInviteCode(u) \/ LeaveGroup(u) \/ CreateGroupRoom(u)
                              \/ elevateInGroup(u) \/ endGroupElevation(u)
    BY <1>2, RedeemKeeps, LeaveKeeps, ChatOpenedKeeps, ElevationKeeps
  <1>3. CASE \E u \in Users : AskInGroup(u)
    BY <1>3, SomethingAsked, AskedKeeps
  <1>4. CASE \E q \in requests : Write(q)
    BY <1>4, RemoveKeeps, AssignKeeps, UpdateKeeps, RenameKeeps, DeleteKeeps, ResetKeeps,
       RewriteKeeps, FailKeeps DEF Write
  <1>5. CASE UNCHANGED vars
    <2> USE <1>5 DEF vars, people, roles
    <2>1. TypeOK'
      BY DEF IInv, TypeOK
    <2>2. Defined' = Defined
      BY DEF Defined
    <2>3. RolesAreDefined'
      BY <2>2 DEF IInv, RolesAreDefined
    <2>4. \A p \in requests' : Fits(p)'
      BY <2>2, FitsKept DEF IInv
    <2> QED
      BY <2>1, <2>3, <2>4 DEF IInv
  <1> QED
    BY <1>1, <1>2, <1>3, <1>4, <1>5 DEF Next

LEMMA AlwaysFits == Spec => []IInv
  BY InitFits, NextKeeps, PTL DEF Spec

(***************************************************************************)
(* The variables of the group keep their types, for any people, roles,     *)
(* template and bounds (groups.ts, groupRoles.ts).                         *)
(***************************************************************************)
THEOREM TypeCorrect == Spec => []TypeOK
  <1>1. IInv => TypeOK
    BY DEF IInv
  <1> QED
    BY <1>1, AlwaysFits, PTL

(***************************************************************************)
(* No edit of the roles, of however many at once, leaves a membership      *)
(* behind that names a role the group does not define, but for the roles   *)
(* that vanish under a request that named them (integrity.ts:42).          *)
(***************************************************************************)
THEOREM RolesAreDefinedHolds == Spec => []RolesAreDefined
  <1>1. IInv => RolesAreDefined
    BY DEF IInv
  <1> QED
    BY <1>1, AlwaysFits, PTL

-----------------------------------------------------------------------------
(***************************************************************************)
(* The chat follows the memberships.                                       *)
(***************************************************************************)
Chatting == ChatIsForMembers /\ OnlyInvitedMissTheChat

\* A move to a membership that is one, of members who had one.
LEMMA MovedChats ==
  ASSUME IInv, Chatting, NEW from, from \subseteq Customs, NEW to, Active(to),
         Moved(from, to), UNCHANGED <<chats, invited, room>>
  PROVE  Chatting'
  <1>1. \A u \in Users : Active(member[u]) <=> Active(member'[u])
    BY SystemRoles DEF Moved, IInv, TypeOK
  <1> QED
    BY <1>1 DEF Chatting, ChatIsForMembers, OnlyInvitedMissTheChat, IInv, TypeOK

LEMMA BecomeChats ==
  ASSUME IInv, Chatting, NEW u \in Users, NEW r, Become(u, r), UNCHANGED room
  PROVE  Chatting'
  <1>1. \A v \in Users : member'[v] = IF v = u THEN r ELSE member[v]
    BY DEF Become, IInv, TypeOK
  <1>2. chats' \subseteq Users
    BY DEF Become, IInv, TypeOK
  <1>3. ChatIsForMembers'
    BY <1>1, <1>2 DEF Become, Chatting, ChatIsForMembers, OnlyInvitedMissTheChat
  <1>4. OnlyInvitedMissTheChat'
    BY <1>1 DEF Become, Chatting, ChatIsForMembers, OnlyInvitedMissTheChat
  <1> QED
    BY <1>3, <1>4 DEF Chatting

LEMMA StillChats ==
  ASSUME Chatting, UNCHANGED <<people, room>>
  PROVE  Chatting'
  BY DEF Chatting, ChatIsForMembers, OnlyInvitedMissTheChat, people, Active

LEMMA NextChats == IInv /\ Chatting /\ [Next]_vars => Chatting'
  <1> SUFFICES ASSUME IInv, Chatting, [Next]_vars PROVE Chatting'
    OBVIOUS
  <1>1. CASE \E u \in Users, role \in {Usual, Pending} : JoinGroup(u, role)
    BY <1>1, BecomeChats DEF JoinGroup
  <1>2. CASE \E u \in Users : LeaveGroup(u)
    BY <1>2, BecomeChats DEF LeaveGroup, removeUserFromGroup
  <1>3. CASE \E u \in Users : redeemInviteCode(u)
    BY <1>3, SystemRoles
    DEF redeemInviteCode, Chatting, ChatIsForMembers, OnlyInvitedMissTheChat, IInv, TypeOK
  <1>4. CASE \E u \in Users : CreateGroupRoom(u)
    BY <1>4 DEF CreateGroupRoom, Chatting, ChatIsForMembers, OnlyInvitedMissTheChat
  <1>5. CASE \E u \in Users : \/ AskInGroup(u) \/ elevateInGroup(u) \/ endGroupElevation(u)
    BY <1>5, SomethingAsked, StillChats DEF Asked, elevateInGroup, endGroupElevation
  <1>6. CASE \E q \in requests : RemoveUserFromGroup(q)
    BY <1>6, BecomeChats DEF RemoveUserFromGroup, removeUserFromGroup, IInv, Fits
  <1>7. CASE \E q \in requests : ChangeGroupMemberRole(q)
    BY <1>7, BecomeChats DEF ChangeGroupMemberRole, IInv, Fits
  <1>8. CASE \E q \in requests : writeGroupRole(q) \/ rewriteGroupRole(q) \/ Fail(q)
    BY <1>8, StillChats DEF writeGroupRole, rewriteGroupRole, Fail
  <1>9. CASE \E q \in requests : renameGroupRole(q)
    <2>1. PICK q \in requests : renameGroupRole(q)
      BY <1>9
    <2>2. {q.role} \subseteq Customs /\ Active(q.to)
      BY <2>1, SystemRoles DEF renameGroupRole, IInv, TypeOK, Fits
    <2> QED
      BY <2>1, <2>2, MovedChats DEF renameGroupRole
  <1>10. CASE \E q \in requests : deleteGroupRole(q)
    <2>1. PICK q \in requests : deleteGroupRole(q)
      BY <1>10
    <2>2. {q.role} \subseteq Customs /\ Active(q.to)
      BY <2>1 DEF deleteGroupRole, IInv, TypeOK, Fits, Active
    <2> QED
      BY <2>1, <2>2, MovedChats DEF deleteGroupRole
  <1>11. CASE \E q \in requests : replaceGroupRoles(q)
    BY <1>11, MovedChats, SystemRoles DEF replaceGroupRoles, IInv, TypeOK
  <1>12. CASE UNCHANGED vars
    BY <1>12, StillChats DEF vars
  <1> QED
    BY <1>1, <1>2, <1>3, <1>4, <1>5, <1>6, <1>7, <1>8, <1>9, <1>10, <1>11, <1>12
    DEF Next, Write

LEMMA AlwaysChats == Spec => []Chatting
  <1>1. Init => Chatting
    BY DEF Init, Chatting, ChatIsForMembers, OnlyInvitedMissTheChat
  <1> QED
    BY <1>1, NextChats, AlwaysFits, PTL DEF Spec

(***************************************************************************)
(* Whoever chats in the group's room is a member of the group, whatever    *)
(* requests, edits of the roles and elevations come in between             *)
(* (groups.ts:698, 748, 1200).                                             *)
(***************************************************************************)
THEOREM ChatIsForMembersHolds == Spec => []ChatIsForMembers
  <1>1. Chatting => ChatIsForMembers
    BY DEF Chatting
  <1> QED
    BY <1>1, AlwaysChats, PTL

(***************************************************************************)
(* Once there is a room, only members who came with a code are not in it   *)
(* (inviteCodes.ts:172).                                                   *)
(***************************************************************************)
THEOREM OnlyInvitedMissTheChatHolds == Spec => []OnlyInvitedMissTheChat
  <1>1. Chatting => OnlyInvitedMissTheChat
    BY DEF Chatting
  <1> QED
    BY <1>1, AlwaysChats, PTL

-----------------------------------------------------------------------------
(***************************************************************************)
(* Who stops being a member, or an owner, and by what.                     *)
(***************************************************************************)
EndsRightly(u) ==
  /\ Active(member[u]) /\ ~Active(member'[u]) =>
       \/ LeaveGroup(u)
       \/ \E q \in requests \ requests' :
            /\ q.of = u
            /\ q.op = "remove" \/ (q.op = "assign" /\ q.role = Pending)
  /\ member[u] = Owner /\ member'[u] # Owner =>
       \/ LeaveGroup(u)
       \/ \E q \in requests \ requests' : q.of = u /\ q.standing # "peer"

LEMMA MovedRightly ==
  ASSUME IInv, NEW from, from \subseteq Customs, NEW to, Active(to), Moved(from, to),
         NEW u \in Users
  PROVE  EndsRightly(u)
  <1>1. member'[u] = member[u] \/ (member[u] \in Customs /\ member'[u] = to)
    BY DEF Moved, IInv, TypeOK
  <1> QED
    BY <1>1, SystemRoles DEF EndsRightly

LEMMA NextEndsRightly ==
  ASSUME IInv, [Next]_vars, NEW u \in Users
  PROVE  EndsRightly(u)
  <1>1. CASE \E v \in Users, role \in {Usual, Pending} : JoinGroup(v, role)
    BY <1>1, SystemRoles DEF JoinGroup, Become, Merged, EndsRightly, IInv, TypeOK, Active
  <1>2. CASE \E v \in Users : LeaveGroup(v)
    <2>1. PICK v \in Users : LeaveGroup(v)
      BY <1>2
    <2>2. CASE u = v
      BY <2>1, <2>2 DEF EndsRightly
    <2>3. CASE u # v
      BY <2>1, <2>3 DEF LeaveGroup, removeUserFromGroup, Become, EndsRightly, IInv, TypeOK
    <2> QED
      BY <2>2, <2>3
  <1>3. CASE \E v \in Users : redeemInviteCode(v)
    BY <1>3, SystemRoles DEF redeemInviteCode, EndsRightly, IInv, TypeOK
  <1>4. CASE \E v \in Users : \/ CreateGroupRoom(v) \/ AskInGroup(v) \/ elevateInGroup(v)
                              \/ endGroupElevation(v)
    BY <1>4, SomethingAsked
    DEF Asked, CreateGroupRoom, elevateInGroup, endGroupElevation, people, EndsRightly
  <1>5. CASE \E q \in requests : RemoveUserFromGroup(q)
    <2>1. PICK q \in requests : RemoveUserFromGroup(q)
      BY <1>5
    <2>2. q \in requests \ requests' /\ q.op = "remove" /\ q.standing # "peer"
      BY <2>1 DEF RemoveUserFromGroup, Served, IInv, Fits
    <2>3. u # q.of => member'[u] = member[u]
      BY <2>1 DEF RemoveUserFromGroup, removeUserFromGroup, Become, IInv, TypeOK
    <2> QED
      BY <2>2, <2>3 DEF EndsRightly
  <1>6. CASE \E q \in requests : ChangeGroupMemberRole(q)
    <2>1. PICK q \in requests : ChangeGroupMemberRole(q)
      BY <1>6
    <2>2. q \in requests \ requests' /\ q.op = "assign" /\ q.role # NoRole
          /\ (q.standing = "peer" => q.role = Owner)
      BY <2>1 DEF ChangeGroupMemberRole, Served, IInv, Fits
    <2>3. member'[u] = IF u = q.of THEN q.role ELSE member[u]
      BY <2>1 DEF ChangeGroupMemberRole, Become, IInv, TypeOK
    <2> QED
      BY <2>2, <2>3 DEF EndsRightly, Active
  <1>7. CASE \E q \in requests : writeGroupRole(q) \/ rewriteGroupRole(q) \/ Fail(q)
    BY <1>7 DEF writeGroupRole, rewriteGroupRole, Fail, people, EndsRightly
  <1>8. CASE \E q \in requests : renameGroupRole(q)
    <2>1. PICK q \in requests : renameGroupRole(q)
      BY <1>8
    <2>2. {q.role} \subseteq Customs /\ Active(q.to)
      BY <2>1, SystemRoles DEF renameGroupRole, IInv, TypeOK, Fits
    <2> QED
      BY <2>1, <2>2, MovedRightly DEF renameGroupRole
  <1>9. CASE \E q \in requests : deleteGroupRole(q)
    <2>1. PICK q \in requests : deleteGroupRole(q)
      BY <1>9
    <2>2. {q.role} \subseteq Customs /\ Active(q.to)
      BY <2>1 DEF deleteGroupRole, IInv, TypeOK, Fits, Active
    <2> QED
      BY <2>1, <2>2, MovedRightly DEF deleteGroupRole
  <1>10. CASE \E q \in requests : replaceGroupRoles(q)
    BY <1>10, MovedRightly, SystemRoles DEF replaceGroupRoles, IInv, TypeOK
  <1>11. CASE UNCHANGED vars
    BY <1>11 DEF vars, people, EndsRightly
  <1> QED
    BY <1>1, <1>2, <1>3, <1>4, <1>5, <1>6, <1>7, <1>8, <1>9, <1>10, <1>11 DEF Next, Write

(***************************************************************************)
(* A membership ends by its holder's leaving, by a removal or by being     *)
(* made an applicant on purpose, and by nothing else (groups.ts:680-688,   *)
(* inviteCodes.ts:178-189).                                                *)
(***************************************************************************)
THEOREM MembersStayMembersHolds == Spec => MembersStayMembers
  <1> DEFINE Stays == \A u \in Users : Active(member[u]) /\ ~Active(member'[u]) =>
                       \/ LeaveGroup(u)
                       \/ \E q \in requests \ requests' :
                            /\ q.of = u
                            /\ q.op = "remove" \/ (q.op = "assign" /\ q.role = Pending)
  <1>1. IInv /\ [Next]_vars => Stays
    BY NextEndsRightly DEF EndsRightly
  <1> HIDE DEF Stays
  <1>2. IInv /\ [Next]_vars => [Stays]_vars
    BY <1>1
  <1>3. Spec => [][Stays]_vars
    BY <1>2, AlwaysFits, PTL DEF Spec
  <1> QED
    BY <1>3 DEF MembersStayMembers, Stays

(***************************************************************************)
(* No owner is unseated by another: only by leaving, by their own request, *)
(* by a network admin's, or by one let in before they were owners          *)
(* (authority.ts:10-12).                                                   *)
(***************************************************************************)
THEOREM OwnersEndByOwnHandHolds == Spec => OwnersEndByOwnHand
  <1> DEFINE Ends == \A u \in Users : member[u] = Owner /\ member'[u] # Owner =>
                      \/ LeaveGroup(u)
                      \/ \E q \in requests \ requests' : q.of = u /\ q.standing # "peer"
  <1>1. IInv /\ [Next]_vars => Ends
    BY NextEndsRightly DEF EndsRightly
  <1> HIDE DEF Ends
  <1>2. IInv /\ [Next]_vars => [Ends]_vars
    BY <1>1
  <1>3. Spec => [][Ends]_vars
    BY <1>2, AlwaysFits, PTL DEF Spec
  <1> QED
    BY <1>3 DEF OwnersEndByOwnHand, Ends

-----------------------------------------------------------------------------
(***************************************************************************)
(* Only elevating adds to what is in hand.                                 *)
(***************************************************************************)
\* New owners aside, whatever leaves the roles and the requests as they are.
LEMMA PeopleAddNothing ==
  ASSUME NEW x, Has(x)', requests' \subseteq requests, UNCHANGED <<roles, elevated>>,
         Sovereign' => Sovereign \/ \A y \in Authority : Has(y)
  PROVE  Has(x)
  <1>1. Defined' = Defined /\ rights' = rights
    BY DEF Defined, roles
  <1> QED
    BY <1>1 DEF Has

LEMMA BecomeAddsNothing ==
  ASSUME IInv, NEW x, Has(x)', NEW u \in Users, NEW r, Become(u, r),
         requests' \subseteq requests, UNCHANGED <<roles, elevated>>,
         r = Owner => Sovereign \/ \A y \in Authority : Has(y)
  PROVE  Has(x)
  <1>1. \A v \in Users : member'[v] = IF v = u THEN r ELSE member[v]
    BY DEF Become, IInv, TypeOK
  <1>2. Sovereign' => Sovereign \/ \A y \in Authority : Has(y)
    BY <1>1 DEF Sovereign
  <1> QED
    BY <1>2, PeopleAddNothing

\* Members move to "to": the owner's role only if that is in hand.
LEMMA MovedSovereign ==
  ASSUME IInv, NEW from, NEW to, Moved(from, to), elevated' = elevated, Sovereign'
  PROVE  Sovereign \/ to = Owner
  BY DEF Sovereign, Moved, IInv, TypeOK

LEMMA NextAddsNothing ==
  ASSUME IInv, [Next]_vars, ~(\E u \in Users : elevateInGroup(u)), NEW x, Has(x)'
  PROVE  Has(x)
  <1>1. CASE \E v \in Users, role \in {Usual, Pending} : JoinGroup(v, role)
    <2>1. PICK v \in Users, role \in {Usual, Pending} : JoinGroup(v, role)
      BY <1>1
    <2>2. Merged(v, role) = Owner => Sovereign
      BY SystemRoles DEF Merged, Sovereign, Owner, Pending
    <2> QED
      BY <2>1, <2>2, BecomeAddsNothing DEF JoinGroup
  <1>2. CASE \E v \in Users : LeaveGroup(v)
    BY <1>2, BecomeAddsNothing, SystemRoles DEF LeaveGroup, removeUserFromGroup
  <1>3. CASE \E v \in Users : redeemInviteCode(v)
    <2>1. PICK v \in Users : redeemInviteCode(v)
      BY <1>3
    <2>2. Sovereign' => Sovereign
      BY <2>1, SystemRoles DEF redeemInviteCode, Sovereign, IInv, TypeOK
    <2> QED
      BY <2>1, <2>2, PeopleAddNothing DEF redeemInviteCode
  <1>4. CASE \E v \in Users : CreateGroupRoom(v) \/ endGroupElevation(v)
    <2>1. requests' \subseteq requests /\ UNCHANGED <<roles, member>> /\ elevated' \subseteq elevated
      BY <1>4 DEF CreateGroupRoom, endGroupElevation, people
    <2>2. Defined' = Defined /\ rights' = rights
      BY <2>1 DEF Defined, roles
    <2>3. Sovereign' => Sovereign
      BY <2>1 DEF Sovereign
    <2> QED
      BY <2>1, <2>2, <2>3 DEF Has
  <1>5. CASE \E v \in Users : AskInGroup(v)
    <2>1. PICK q : Asked(q)
      BY <1>5, SomethingAsked
    <2>2. Defined' = Defined /\ rights' = rights /\ (Sovereign' <=> Sovereign)
      BY <2>1 DEF Asked, people, roles, Defined, Sovereign
    <2> QED
      BY <2>1, <2>2 DEF Asked, Has
  <1>6. CASE \E q \in requests : RemoveUserFromGroup(q)
    BY <1>6, BecomeAddsNothing, SystemRoles
    DEF RemoveUserFromGroup, removeUserFromGroup, Served, IInv, Fits
  <1>7. CASE \E q \in requests : ChangeGroupMemberRole(q)
    <2>1. PICK q \in requests : ChangeGroupMemberRole(q)
      BY <1>7
    <2>2. q.of \in Users /\ (q.role = Owner => q.new = Authority)
      BY <2>1 DEF ChangeGroupMemberRole, IInv, Fits
    <2>3. q.role = Owner => \A y \in Authority : Has(y)
      BY <2>2 DEF Has
    <2> QED
      BY <2>1, <2>2, <2>3, BecomeAddsNothing DEF ChangeGroupMemberRole, Served
  <1>8. CASE \E q \in requests : Fail(q)
    BY <1>8, PeopleAddNothing DEF Fail, Served, people, Sovereign
  <1>9. CASE \E q \in requests : writeGroupRole(q)
    <2>1. PICK q \in requests : writeGroupRole(q)
      BY <1>9
    <2>2. \A r \in Defined' : r \in Defined \/ r = q.role
      BY <2>1 DEF writeGroupRole, Defined
    <2>3. \A r \in Names : rights'[r] = IF r = q.role THEN q.new ELSE rights[r]
      BY <2>1 DEF writeGroupRole, IInv, TypeOK
    <2>4. Defined' \subseteq Names
      BY <2>1, SystemRoles DEF writeGroupRole, Defined, Names, IInv, TypeOK
    <2>5. Sovereign' => Sovereign
      BY <2>1 DEF writeGroupRole, people, Sovereign
    <2> QED
      BY <2>1, <2>2, <2>3, <2>4, <2>5 DEF Has, writeGroupRole, Served
  <1>10. CASE \E q \in requests : renameGroupRole(q)
    <2>1. PICK q \in requests : renameGroupRole(q)
      BY <1>10
    <2>2. q.role \in Defined \ {Owner} /\ q.to \in Customs
      BY <2>1, SystemRoles DEF renameGroupRole, Defined, IInv, TypeOK, Fits
    <2>3. \A r \in Defined' : r \in Defined \/ r = q.to
      BY <2>1 DEF renameGroupRole, Defined
    <2>4. \A r \in Names : rights'[r] = IF r = q.to THEN rights[q.role] ELSE rights[r]
      BY <2>1 DEF renameGroupRole, IInv, TypeOK
    <2>5. Defined' \subseteq Names
      BY <2>1, <2>2, SystemRoles DEF renameGroupRole, Defined, Names, IInv, TypeOK
    <2>6. Sovereign' => Sovereign
      BY <2>1, <2>2, MovedSovereign, SystemRoles DEF renameGroupRole
    <2> QED
      BY <2>1, <2>2, <2>3, <2>4, <2>5, <2>6 DEF Has, renameGroupRole, Served
  <1>11. CASE \E q \in requests : deleteGroupRole(q)
    <2>1. PICK q \in requests : deleteGroupRole(q)
      BY <1>11
    <2>2. q.to = Owner => \A y \in Authority : Has(y)
      BY <2>1 DEF deleteGroupRole, IInv, Fits, Has
    <2>3. Defined' \subseteq Defined /\ rights' = rights
      BY <2>1 DEF deleteGroupRole, Defined
    <2>4. Sovereign' => Sovereign \/ q.to = Owner
      BY <2>1, MovedSovereign DEF deleteGroupRole
    <2> QED
      BY <2>1, <2>2, <2>3, <2>4 DEF Has, deleteGroupRole, Served
  <1>12. CASE \E q \in requests : replaceGroupRoles(q)
    <2>1. PICK q \in requests : replaceGroupRoles(q)
      BY <1>12
    <2>2. Defined' \subseteq Defined /\ rights' = rights
      BY <2>1 DEF replaceGroupRoles, Defined
    <2>3. Sovereign' => Sovereign
      BY <2>1, MovedSovereign, SystemRoles DEF replaceGroupRoles
    <2>4. [q EXCEPT !.op = "rewrite"].new = q.new
      BY <2>1, RewriteIsRequest DEF replaceGroupRoles, IInv, TypeOK
    <2> QED
      BY <2>1, <2>2, <2>3, <2>4 DEF Has, replaceGroupRoles
  <1>13. CASE \E q \in requests : rewriteGroupRole(q)
    <2>1. PICK q \in requests : rewriteGroupRole(q)
      BY <1>13
    <2>2. q \in Requests /\ q.op = "rewrite" /\ q.new = Restored /\ q.next \in 1..4
      BY <2>1 DEF rewriteGroupRole, IInv, TypeOK, Fits, Requests
    <2>3. q.next # 4 => [q EXCEPT !.next = q.next + 1].new = q.new
      BY <2>2, NextIsRequest
    <2>4. Written[q.next] \in Editable
      BY <2>2, InWritten
    <2>5. Template[Written[q.next]] \subseteq q.new
      BY <2>2, <2>4 DEF Restored
    <2>6. \A r \in Names : rights'[r] \subseteq rights[r] \cup q.new
      BY <2>1, <2>5 DEF rewriteGroupRole, IInv, TypeOK
    <2>7. Defined' = Defined /\ Defined \subseteq Names
      BY <2>1, SystemRoles DEF rewriteGroupRole, Defined, Names, IInv, TypeOK
    <2>8. Sovereign' => Sovereign
      BY <2>1 DEF rewriteGroupRole, people, Sovereign
    <2> QED
      BY <2>1, <2>3, <2>6, <2>7, <2>8 DEF Has, rewriteGroupRole
  <1>14. CASE UNCHANGED vars
    BY <1>14, PeopleAddNothing DEF vars, people, Sovereign
  <1> QED
    BY <1>1, <1>2, <1>3, <1>4, <1>5, <1>6, <1>7, <1>8, <1>9, <1>10, <1>11, <1>12, <1>13, <1>14
    DEF Next, Write

(***************************************************************************)
(* Nobody in the group can make power over others that was not in hand:    *)
(* only a network admin's elevation adds to it (authority.ts:21-24,        *)
(* groupRoles.ts:173-200).                                                 *)
(***************************************************************************)
THEOREM PowerHasASourceHolds == Spec => PowerHasASource
  <1> DEFINE Sourced == \/ \A x \in Authority : InHand(x)' => InHand(x)
                        \/ \E u \in Users : elevateInGroup(u)
  <1>1. TypeOK' => (\A x : InHand(x) <=> Has(x))'
    BY InHandIs, PTL
  <1>2. IInv /\ IInv' /\ [Next]_vars => Sourced
    <2> SUFFICES ASSUME IInv, IInv', [Next]_vars, ~(\E u \in Users : elevateInGroup(u)),
                        NEW x, InHand(x)'
                 PROVE  InHand(x)
      OBVIOUS
    <2>1. Has(x)'
      BY <1>1 DEF IInv
    <2>2. Has(x)
      BY <2>1, NextAddsNothing
    <2> QED
      BY <2>2, InHandIs DEF IInv
  <1> HIDE DEF Sourced
  <1>3. IInv /\ [Next]_vars => [Sourced]_vars
    BY <1>2, NextKeeps
  <1>4. Spec => [][Sourced]_vars
    BY <1>3, AlwaysFits, PTL DEF Spec
  <1> QED
    BY <1>4 DEF PowerHasASource, Sourced
=============================================================================
