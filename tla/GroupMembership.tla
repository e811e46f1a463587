-------------------------- MODULE GroupMembership --------------------------
(***************************************************************************)
(* Who is what in one group: the memberships with the role each of them    *)
(* names, the group's chat room that follows them, and the roles that can  *)
(* be edited, renamed, deleted and reset under them                        *)
(* (backend/src/graphql/resolvers/groups.ts, groupRoles.ts, inviteCodes.ts,*)
(* rooms.ts, backend/src/groupRole/).                                      *)
(*                                                                         *)
(* A membership names its role by a string, and a request is let in by     *)
(* rights the shield reads in transactions of their own, before the one    *)
(* that writes.  So a request is two steps: asking, which reads and        *)
(* decides, and the write, which finds the group as it has become.  What a *)
(* request reads before its write it reads at one moment here.  Requests   *)
(* about oneself - joining, redeeming a code, leaving - are one step: what *)
(* they read first is what the group lets strangers do, which may change   *)
(* at any time and is not kept, or decides nothing.                        *)
(*                                                                         *)
(* Of the rights of a role the model keeps those that are power over       *)
(* others.  Leaving is left out of them, because every membership has it   *)
(* (mandatoryRights.ts), and so are reading and taking part.               *)
(***************************************************************************)
EXTENDS Naturals, FiniteSets

CONSTANTS
  Users,
  NoUser,          \* a request about nobody in particular
  NetworkAdmins,   \* hold group.administer.any_* for a group like this one
  Customs,         \* roles of the group's own, from when it could still create them
  Template,        \* Template[r]: the rights of r in the template of a reset
  Edited,          \* bound: the roles whose rights are edited one by one
  MaxRequests,     \* bound: requests under way at once
  MaxEdits         \* bound: edits of the roles asked for

Authority == {"assign", "remove", "manage"}
NoRole == "none"
Pending == "pending"
Usual == "usual"
Owner == "owner"

Admin == "admin"

\* The roles every group has, the one of strangers among them, and the order
\* in which a reset writes them.
System == {NoRole, Pending, Usual, Admin, Owner}
Written == <<Admin, NoRole, Pending, Usual>>
Editable == {NoRole, Pending, Usual, Admin}
Names == System \cup Customs

ASSUME MembershipAssumption ==
  /\ NetworkAdmins \subseteq Users /\ NoUser \notin Users
  /\ Customs \cap System = {}
  /\ Template \in [Editable -> SUBSET Authority]
  /\ Edited \subseteq Names \ {Owner}
  /\ MaxRequests \in Nat
  /\ MaxEdits \in Nat

VARIABLES
  member,     \* member[u]: the role on u's membership, NoRole without one
  room,       \* the group has its chat room
  chats,      \* who chats in it
  customs,    \* the group's own roles
  rights,     \* rights[r]: the power over others that r lists
  elevated,   \* the network admins who have asked to act in the group
  requests,   \* what has been asked and let in, and is not written yet
  edits,      \* how many edits of the roles have been asked for
  raced,      \* history: roles that vanished while a request named them
  invited     \* history: let in by a code, and not added to the chat since

people == <<member, chats, invited>>
roles == <<customs, rights, raced>>
vars == <<people, room, roles, elevated, requests, edits>>

Defined == System \cup customs
Active(r) == r \notin {NoRole, Pending}

\* The owner lists nothing and holds everything; a role that is not defined
\* holds nothing.
RightsOf(r) == IF r = Owner THEN Authority
               ELSE IF r \in Defined THEN rights[r] ELSE {}

\* What somebody can do to others in the group: what strangers may, everybody
\* may.
Held(u) ==
  RightsOf(member[u]) \cup RightsOf(NoRole) \cup IF u \in elevated THEN Authority ELSE {}

\* "new" is the power a request is going to hand out, and "peer" says that
\* it is about an owner above whom who asked does not stand.
Requests == [op : {"remove", "assign", "update", "rename", "delete", "reset",
                   "rewrite"},
             of : Users \cup {NoUser}, role : Names, to : Names, standing : {"peer", "above"},
             new : SUBSET Authority, next : 1..4]

Request(op, u, role, to, standing, new) ==
  [op |-> op, of |-> u, role |-> role, to |-> to, standing |-> standing, new |-> new,
   next |-> 1]

Edit(op, role, to, new) == Request(op, NoUser, role, to, "above", new)

Standing(a, u) ==
  IF a # u /\ member[u] = Owner /\ a \notin elevated THEN "peer" ELSE "above"

Init ==
  /\ member \in {[u \in Users |-> IF u = founder THEN Owner ELSE NoRole] :
                   founder \in Users}
  /\ room = FALSE /\ chats = {} /\ invited = {}
  /\ customs \in SUBSET Customs
  /\ rights = [r \in Names |-> IF r \in Editable THEN Template[r] ELSE {}]
  /\ elevated = {} /\ requests = {} /\ edits = 0 /\ raced = {}

-----------------------------------------------------------------------------
(***************************************************************************)
(* What may be asked: the shield's rules and the resolvers' checks.        *)
(***************************************************************************)
Ask(q) ==
  /\ requests' = requests \cup {q}
  /\ UNCHANGED <<people, room, roles, elevated, edits>>

AskToEdit(q) ==
  /\ requests' = requests \cup {q}
  /\ edits' = edits + 1
  /\ UNCHANGED <<people, room, roles, elevated>>

dominatesInGroup_Peers(a, u) == RightsOf(member[u]) \subseteq Held(a)
  \* Fault: somebody of the same power may be acted on.

dominatesInGroup(a, u) ==
  RightsOf(member[u]) \subseteq Held(a) /\ RightsOf(member[u]) # Held(a)

outranksMembers(a) == a \in elevated

canRemoveGroupMember(a, u) ==
  /\ a # u /\ "remove" \in Held(a)
  /\ outranksMembers(a) \/ dominatesInGroup(a, u)
  /\ Ask(Request("remove", u, NoRole, NoRole, Standing(a, u), {}))

canAssignGroupRole_Uncovered(a, u, r) ==
  /\ "assign" \in Held(a)
  /\ r \in Defined \ {NoRole}
  /\ a = u \/ outranksMembers(a) \/ dominatesInGroup(a, u)
  /\ Ask(Request("assign", u, r, NoRole, Standing(a, u), RightsOf(r)))
  \* Fault: handing out more than one holds.

\* Somebody else's role asks for standing above them, one's own does not;
\* both ask for the power handed out.  A role already held asks for nothing.
canAssignGroupRole(a, u, r) ==
  /\ "assign" \in Held(a)
  /\ r \in Defined \ {NoRole}
  /\ \/ /\ a = u \/ outranksMembers(a) \/ dominatesInGroup(a, u)
        /\ RightsOf(r) \subseteq Held(a)
     \/ a # u /\ member[u] = r
  /\ Ask(Request("assign", u, r, NoRole, Standing(a, u), RightsOf(r)))

\* What an edit adds has to be held by who makes it.  (Next edits one right
\* at a time.)
AskToUpdate(a, r, new) ==
  /\ "manage" \in Held(a)
  /\ r \in Defined \ {Owner}
  /\ new \ rights[r] \subseteq Held(a)
  /\ AskToEdit(Edit("update", r, NoRole, new))

AskToRename(a, r, newName) ==
  /\ "manage" \in Held(a)
  /\ r \in customs /\ newName \in Customs \ customs
  /\ AskToEdit(Edit("rename", r, newName, {}))

\* The members move to another membership, one that is there.
AskToDelete(a, r, reassignTo) ==
  /\ "manage" \in Held(a)
  /\ r \in customs
  /\ reassignTo \in Defined \ {r, NoRole, Pending}
  /\ RightsOf(reassignTo) \subseteq Held(a)
  /\ AskToEdit(Edit("delete", r, reassignTo, RightsOf(reassignTo)))

Restored == UNION {Template[r] : r \in Editable}

AskToReset(a) ==
  /\ "manage" \in Held(a)
  /\ \A r \in Editable : Template[r] \ rights[r] \subseteq Held(a)
  /\ AskToEdit(Edit("reset", NoRole, NoRole, Restored))

-----------------------------------------------------------------------------
(***************************************************************************)
(* The writes.  Each is one transaction.                                   *)
(***************************************************************************)
Served(q) == q \in requests /\ requests' = requests \ {q}

\* The membership of u now names r, and the chat follows it.
Become(u, r) ==
  /\ member' = [member EXCEPT ![u] = r]
  /\ chats' = IF Active(r) /\ room THEN chats \cup {u}
              ELSE IF Active(r) THEN chats ELSE chats \ {u}
  /\ invited' = invited \ {u}

\* MERGE: a new membership gets the role; of the old ones only an applicant's
\* is changed, and only into a membership.
Merged_EitherWay(u, role) ==
  IF member[u] \in {NoRole, Pending, Usual} THEN role ELSE member[u]
  \* Fault: a member is made an applicant as an applicant is made a member.

Merged(u, role) ==
  IF member[u] = NoRole \/ (member[u] = Pending /\ role # Pending)
  THEN role ELSE member[u]

\* As a member or as an applicant: by the rights the group gives strangers, or
\* because somebody who may assign roles adds them.  Both are read before, and
\* so even who is a member by now may get here, as either.
JoinGroup(u, role) ==
  /\ Become(u, Merged(u, role))
  /\ UNCHANGED <<room, roles, elevated, requests, edits>>

\* A code makes a member of strangers and applicants, and leaves the chat be.
redeemInviteCode(u) ==
  /\ ~Active(member[u])
  /\ member' = [member EXCEPT ![u] = Usual]
  /\ invited' = invited \cup {u}
  /\ UNCHANGED <<chats, room, roles, elevated, requests, edits>>

\* Deleting the membership, and with it the edge to the chat.
removeUserFromGroup_KeepsChat(u) ==
  /\ member[u] # NoRole
  /\ member' = [member EXCEPT ![u] = NoRole]
  /\ invited' = invited \ {u}
  /\ UNCHANGED chats
  \* Fault: the edge to the chat outlives the membership.

removeUserFromGroup(u) ==
  /\ member[u] # NoRole
  /\ Become(u, NoRole)

\* One's own membership only.
LeaveGroup(u) ==
  /\ removeUserFromGroup(u)
  /\ UNCHANGED <<room, roles, elevated, requests, edits>>

RemoveUserFromGroup(q) ==
  /\ q.op = "remove" /\ Served(q)
  /\ removeUserFromGroup(q.of)
  /\ UNCHANGED <<room, roles, elevated, edits>>

ChangeGroupMemberRole_OutOfChat(q) ==
  /\ q.op = "assign" /\ Served(q)
  /\ member' = [member EXCEPT ![q.of] = q.role]
  /\ chats' = IF Active(q.role) THEN chats ELSE chats \ {q.of}
  /\ UNCHANGED <<invited, room, roles, elevated, edits>>
  \* Fault: an applicant made a member is not added to the chat.

ChangeGroupMemberRole(q) ==
  /\ q.op = "assign" /\ Served(q)
  /\ Become(q.of, q.role)
  /\ UNCHANGED <<room, roles, elevated, edits>>

\* Opening the chat, or opening it again, brings in every member there is.
CreateGroupRoom(u) ==
  /\ Active(member[u])
  /\ room' = TRUE
  /\ chats' = chats \cup {v \in Users : Active(member[v])}
  /\ invited' = {}
  /\ UNCHANGED <<member, roles, elevated, requests, edits>>

\* These names are gone: a request that found one of them will not.
Vanish(gone) ==
  raced' = raced \cup {r \in gone : \E q \in requests' : r \in {q.role, q.to}}

\* MERGE: a role deleted since comes back.
writeGroupRole(q) ==
  /\ q.op = "update" /\ Served(q)
  /\ rights' = [rights EXCEPT ![q.role] = q.new]
  /\ customs' = customs \cup ({q.role} \cap Customs)
  /\ UNCHANGED <<people, room, raced, elevated, edits>>

Moved(from, to) ==
  member' = [u \in Users |-> IF member[u] \in from THEN to ELSE member[u]]

\* Nothing if the role is gone, and an error if the name is taken by now.
renameGroupRole_Alone(q) ==
  /\ q.op = "rename" /\ Served(q)
  /\ q.role \in customs /\ q.to \notin customs
  /\ customs' = (customs \ {q.role}) \cup {q.to}
  /\ rights' = [rights EXCEPT ![q.to] = rights[q.role]]
  /\ Vanish({q.role})
  /\ UNCHANGED <<people, room, elevated, edits>>
  \* Fault: the memberships keep naming the old role.

renameGroupRole(q) ==
  /\ q.op = "rename" /\ Served(q)
  /\ q.role \in customs /\ q.to \notin customs
  /\ customs' = (customs \ {q.role}) \cup {q.to}
  /\ rights' = [rights EXCEPT ![q.to] = rights[q.role]]
  /\ Moved({q.role}, q.to)
  /\ Vanish({q.role})
  /\ UNCHANGED <<chats, invited, room, elevated, edits>>

deleteGroupRole(q) ==
  /\ q.op = "delete" /\ Served(q)
  /\ q.role \in customs
  /\ customs' = customs \ {q.role}
  /\ Moved({q.role}, q.to)
  /\ Vanish({q.role})
  /\ UNCHANGED <<chats, invited, rights, room, elevated, edits>>

(***************************************************************************)
(* resetGroupRoles: what the template does not have is dropped, and then   *)
(* the roles it has are written one by one.                                *)
(***************************************************************************)
replaceGroupRoles(q) ==
  /\ q.op = "reset" /\ q \in requests
  /\ requests' = (requests \ {q}) \cup
                   {[q EXCEPT !.op = "rewrite"]}
  /\ customs' = {}
  /\ Moved(customs, Usual)
  /\ Vanish(customs)
  /\ UNCHANGED <<chats, invited, rights, room, elevated, edits>>

rewriteGroupRole(q) ==
  /\ q.op = "rewrite" /\ q \in requests
  /\ requests' = (requests \ {q}) \cup
                   IF q.next = 4 THEN {} ELSE {[q EXCEPT !.next = @ + 1]}
  /\ rights' = [rights EXCEPT ![Written[q.next]] = Template[Written[q.next]]]
  /\ UNCHANGED <<people, customs, raced, room, elevated, edits>>

\* A request fails: the rename of a role that is gone, the removal of who has
\* left, a database that does not answer - between the writes of a reset, too.
Fail(q) == Served(q) /\ UNCHANGED <<people, room, roles, elevated, edits>>

elevateInGroup(u) ==
  /\ u \in NetworkAdmins \ elevated
  /\ elevated' = elevated \cup {u}
  /\ UNCHANGED <<people, room, roles, requests, edits>>

\* Put down, or run out.
endGroupElevation(u) ==
  /\ u \in elevated
  /\ elevated' = elevated \ {u}
  /\ UNCHANGED <<people, room, roles, requests, edits>>

AskInGroup(a) ==
  \/ \E u \in Users : \/ canRemoveGroupMember(a, u)
                      \/ \E r \in Defined : canAssignGroupRole(a, u, r)
  \/ /\ edits < MaxEdits
     /\ \/ \E r \in Edited, x \in Authority : \/ AskToUpdate(a, r, rights[r] \cup {x})
                                             \/ AskToUpdate(a, r, rights[r] \ {x})
        \/ \E r \in customs, to \in Names : AskToRename(a, r, to) \/ AskToDelete(a, r, to)
        \/ AskToReset(a)

Write(q) ==
  \/ RemoveUserFromGroup(q) \/ ChangeGroupMemberRole(q)
  \/ writeGroupRole(q) \/ renameGroupRole(q) \/ deleteGroupRole(q)
  \/ replaceGroupRoles(q) \/ rewriteGroupRole(q)
  \/ Fail(q)

Next ==
  \/ \E u \in Users, role \in {Usual, Pending} : JoinGroup(u, role)
  \/ \E u \in Users : \/ redeemInviteCode(u) \/ LeaveGroup(u) \/ CreateGroupRoom(u)
                      \/ elevateInGroup(u) \/ endGroupElevation(u)
  \/ Cardinality(requests) < MaxRequests /\ \E u \in Users : AskInGroup(u)
  \/ \E q \in requests : Write(q)

Spec == Init /\ [][Next]_vars

-----------------------------------------------------------------------------
TypeOK ==
  /\ member \in [Users -> Names]
  /\ room \in BOOLEAN
  /\ chats \subseteq Users /\ invited \subseteq Users
  /\ customs \subseteq Customs
  /\ rights \in [Names -> SUBSET Authority]
  /\ elevated \subseteq NetworkAdmins
  /\ requests \subseteq Requests
  /\ edits \in 0..MaxEdits
  /\ raced \subseteq Customs

(***************************************************************************)
(* The group's chat is for its members: whoever chats in the room has a    *)
(* membership that is one - not an applicant's, and not one that has ended *)
(* - whatever else was asked about them meanwhile (groups.ts:698, 748,     *)
(* 1200).                                                                  *)
(***************************************************************************)
ChatIsForMembers == \A u \in chats : Active(member[u])

(***************************************************************************)
(* And every member is in it, but for those who came with an invite code:  *)
(* redeeming one does not add them (inviteCodes.ts:172), and they wait     *)
(* until somebody opens the chat again.                                    *)
(***************************************************************************)
OnlyInvitedMissTheChat ==
  room => \A u \in Users : Active(member[u]) => u \in chats \cup invited

(***************************************************************************)
(* A membership names a role the group defines (integrity.ts:42), unless   *)
(* that role vanished between the look and the write of a request that     *)
(* named it (groups.ts:732): no edit of the roles leaves members behind.   *)
(***************************************************************************)
RolesAreDefined ==
  \A u \in Users : member[u] \in Defined \cup raced

(***************************************************************************)
(* Who is a member stays one, until they leave, are removed or are made an *)
(* applicant on purpose: adding somebody again, a code redeemed twice or   *)
(* an edit of the roles takes no membership away (groups.ts:680-688,       *)
(* inviteCodes.ts:178-189).                                                *)
(***************************************************************************)
MembersStayMembers ==
  [][\A u \in Users : Active(member[u]) /\ ~Active(member'[u]) =>
       \/ LeaveGroup(u)
       \/ \E q \in requests \ requests' :
            /\ q.of = u
            /\ q.op = "remove" \/ (q.op = "assign" /\ q.role = Pending)]_vars

(***************************************************************************)
(* Owners cannot act on each other (authority.ts:10-12): one stops being   *)
(* an owner by their own request, or by a network admin's - or because the *)
(* request was let in before they became one.                              *)
(***************************************************************************)
OwnersEndByOwnHand ==
  [][\A u \in Users : member[u] = Owner /\ member'[u] # Owner =>
       \/ LeaveGroup(u)
       \/ \E q \in requests \ requests' : q.of = u /\ q.standing # "peer"]_vars

(***************************************************************************)
(* Power over others does not come from nowhere.  In hand is what a member *)
(* or an elevated network admin holds, what a role other than the owner's  *)
(* lists, and what a request under way was let in to hand out.  Only       *)
(* elevating adds to it: a group without an owner does not get one, nor    *)
(* the power only owners have, from its own members (authority.ts:21-24).  *)
(***************************************************************************)
InHand(x) ==
  \/ \E u \in Users : x \in Held(u)
  \/ \E r \in Names \ {Owner} : x \in RightsOf(r)
  \/ \E q \in requests : x \in q.new

PowerHasASource ==
  [][\/ \A x \in Authority : InHand(x)' => InHand(x)
     \/ \E u \in Users : elevateInGroup(u)]_vars
=============================================================================
