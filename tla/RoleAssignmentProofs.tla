----------------------- MODULE RoleAssignmentProofs -----------------------
(***************************************************************************)
(* Proofs about RoleAssignment for any number of accounts, roles and calls *)
(* under way.                                                              *)
(***************************************************************************)
EXTENDS RoleAssignment, FiniteSetTheorems, TLAPS

USE RoleAssignmentAssumption

\* What a call that has read the database may be about to do.
DeletesNoMandatoryRole ==
  \A c \in calls : c.op = "delete" => c.role \notin {Owner, User}

TInv == TypeOK /\ DeletesNoMandatoryRole

LEMMA InitTInv == Init => TInv
  BY DEF Init, TInv, TypeOK, DeletesNoMandatoryRole, Calls

LEMMA NextTInv == TInv /\ [Next]_vars => TInv'
<1> SUFFICES ASSUME TInv, [Next]_vars PROVE TInv'
  OBVIOUS
<1> USE DEF TInv, TypeOK, DeletesNoMandatoryRole, Comes, Reads
<1>1. ASSUME NEW u \in Accounts, NEW r \in Roles, setUserRole(u, r)
      PROVE  TInv'
  <2>1. [op |-> "assign", user |-> u, role |-> r] \in Calls
    BY DEF Calls
  <2> QED BY <1>1, <2>1 DEF setUserRole
<1>2. ASSUME NEW u \in Accounts, SignUp(u) PROVE TInv'
  BY <1>2 DEF SignUp
<1>3. ASSUME NEW u \in Accounts, DeleteUser(u) PROVE TInv'
  BY <1>3 DEF DeleteUser, Living
<1>4. ASSUME NEW u \in Accounts, promoteToOwner(u) PROVE TInv'
  BY <1>4 DEF promoteToOwner
<1>5. ASSUME NEW r \in Roles, deleteRole(r) PROVE TInv'
  <2>1. [op |-> "delete", role |-> r] \in Calls
    BY DEF Calls
  <2> QED BY <1>5, <2>1 DEF deleteRole
<1>6. ASSUME NEW r \in Roles, createRole(r) PROVE TInv'
  BY <1>6 DEF createRole
<1>7. ASSUME NEW r \in Roles, NEW n \in Roles, renameRole(r, n) PROVE TInv'
  BY <1>7 DEF renameRole
<1>8. ASSUME NEW c \in calls, WriteRole(c) PROVE TInv'
  <2>1. c.role \in Roles
    BY DEF Calls
  <2> QED BY <1>8, <2>1 DEF WriteRole
<1>9. ASSUME NEW c \in calls, DeleteNode(c) PROVE TInv'
  BY <1>9 DEF DeleteNode
<1>10. CASE UNCHANGED vars
  BY <1>10 DEF vars
<1> QED
  BY <1>1, <1>2, <1>3, <1>4, <1>5, <1>6, <1>7, <1>8, <1>9, <1>10 DEF Next

(***************************************************************************)
(* The variables keep their types, and the owner and the baseline role     *)
(* keep their nodes, however the calls overlap.                            *)
(***************************************************************************)
THEOREM TypeCorrect == Spec => []TypeOK
<1>1. TInv => TypeOK
  BY DEF TInv
<1> QED
  BY InitTInv, NextTInv, <1>1, PTL DEF Spec

(***************************************************************************)
(* However calls overlap, an account that holds a role loses it only with  *)
(* the role's deletion: setUserRole's second statement (roles.ts:278)      *)
(* takes nothing away when it has nothing to give.                         *)
(***************************************************************************)
THEOREM OnlyADeletionOrphansHolds == Spec => OnlyADeletionOrphans
<1> DEFINE A == \A u \in Accounts :
                  holds[u] # None /\ holds'[u] = None => holds[u] \in nodes \ nodes'
           Held == \A u \in Accounts : holds[u] # None => holds[u] \in nodes
<1>1. Init => Held
  BY DEF Init
<1>2. TInv /\ Held /\ [Next]_vars => Held'
  <2> SUFFICES ASSUME TInv, Held, [Next]_vars PROVE Held'
    OBVIOUS
  <2> USE DEF TInv, TypeOK
  <2>1. ASSUME NEW u \in Accounts,
               \/ SignUp(u) \/ DeleteUser(u) \/ promoteToOwner(u)
               \/ \E r \in Roles : setUserRole(u, r)
        PROVE  Held'
    BY <2>1 DEF SignUp, DeleteUser, promoteToOwner, setUserRole
  <2>2. ASSUME NEW r \in Roles, deleteRole(r) \/ createRole(r) PROVE Held'
    BY <2>2 DEF deleteRole, createRole
  <2>3. ASSUME NEW r \in Roles, NEW n \in Roles, renameRole(r, n) PROVE Held'
    BY <2>3 DEF renameRole
  <2>4. ASSUME NEW c \in calls, WriteRole(c) PROVE Held'
    BY <2>4 DEF WriteRole
  <2>5. ASSUME NEW c \in calls, DeleteNode(c) PROVE Held'
    BY <2>5 DEF DeleteNode
  <2>6. CASE UNCHANGED vars
    BY <2>6 DEF vars
  <2> QED
    BY <2>1, <2>2, <2>3, <2>4, <2>5, <2>6 DEF Next
<1>3. TInv /\ Held /\ [Next]_vars => [A]_vars
  <2> SUFFICES ASSUME TInv, Held, Next PROVE A
    OBVIOUS
  <2> USE DEF TInv, TypeOK
  <2>1. ASSUME NEW u \in Accounts,
               \/ SignUp(u) \/ DeleteUser(u) \/ promoteToOwner(u)
               \/ \E r \in Roles : setUserRole(u, r)
        PROVE  A
    BY <2>1 DEF SignUp, DeleteUser, promoteToOwner, setUserRole
  <2>2. ASSUME NEW r \in Roles, deleteRole(r) \/ createRole(r) PROVE A
    BY <2>2 DEF deleteRole, createRole
  <2>3. ASSUME NEW r \in Roles, NEW n \in Roles, renameRole(r, n) PROVE A
    BY <2>3 DEF renameRole
  <2>4. ASSUME NEW c \in calls, WriteRole(c) PROVE A
    BY <2>4 DEF WriteRole
  <2>5. ASSUME NEW c \in calls, DeleteNode(c) PROVE A
    BY <2>5 DEF DeleteNode
  <2> QED
    BY <2>1, <2>2, <2>3, <2>4, <2>5 DEF Next
<1> QED
  BY InitTInv, NextTInv, <1>1, <1>2, <1>3, PTL DEF Spec, OnlyADeletionOrphans

-----------------------------------------------------------------------------
(***************************************************************************)
(* What a call has decided is still true when it writes, if nothing comes  *)
(* in between: nobody living is counted in the role to be deleted, and an  *)
(* owner who is about to be demoted is not the only one.                   *)
(***************************************************************************)
DecisionsHold ==
  \A c \in calls :
    /\ c.op = "delete" => \A u \in Living : holds[u] # c.role
    /\ c.op = "assign" /\ holds[c.user] = Owner /\ c.role # Owner =>
         \E o \in Accounts : o # c.user /\ holds[o] = Owner

\* Only somebody with an account holds a role, or is about to.
OnlyAccountsHoldRoles ==
  /\ \A u \in Accounts : account[u] = "none" => holds[u] = None
  /\ \A c \in calls : c.op = "assign" => account[c.user] # "none"

OneCall == \A c, d \in calls : c = d

Undisturbed ==
  /\ OneCall
  /\ OnlyAccountsHoldRoles
  /\ DecisionsHold
  /\ \A u \in Living : holds[u] \in nodes
  /\ NeverWithoutOwner

RInv == TInv /\ (~overlapped => Undisturbed)

LEMMA InitRInv == Init => RInv
  BY InitTInv
  DEF Init, RInv, Undisturbed, OneCall, OnlyAccountsHoldRoles, DecisionsHold, NeverWithoutOwner, Holders, Living

\* A step that leaves the state undisturbed starts from an undisturbed one,
\* and is the write of the only call or begins with no call under way.
LEMMA NextUndisturbed ==
  TInv /\ TInv' /\ Undisturbed /\ ~overlapped' /\ Next => Undisturbed'
<1> SUFFICES ASSUME TInv, TInv', Undisturbed, ~overlapped', Next PROVE Undisturbed'
  OBVIOUS
<1> USE DEF Undisturbed, OneCall, OnlyAccountsHoldRoles, DecisionsHold,
            Holders, Living, Comes, Reads
<1>a. TypeOK
  BY DEF TInv
<1>1. ASSUME NEW u \in Accounts, NEW r \in Roles, setUserRole(u, r)
      PROVE  Undisturbed'
  <2>1. calls' = {[op |-> "assign", user |-> u, role |-> r]}
    BY <1>1 DEF setUserRole
  <2>2. holds' = holds /\ nodes' = nodes /\ account' = account
    BY <1>1 DEF setUserRole
  <2>3. ASSUME holds[u] = Owner, r # Owner
        PROVE  \E o \in Accounts : o # u /\ holds[o] = Owner
    <3>1. Cardinality({u}) = 1
      BY FS_Singleton
    <3>2. Holders(Owner) # {u}
      BY <1>1, <2>3, <3>1 DEF setUserRole, LastOwnerLeaves
    <3> QED
      BY <2>3, <3>2
  <2>4. DecisionsHold'
    <3> SUFFICES ASSUME NEW c \in calls'
                 PROVE  /\ c.op = "assign" /\ c.user = u /\ c.role = r
                        /\ holds[u] = Owner /\ r # Owner =>
                             \E o \in Accounts : o # u /\ holds[o] = Owner
      BY <2>1, <2>2
    <3> QED BY <2>1, <2>3
  <2>5. OnlyAccountsHoldRoles' /\ OneCall'
    BY <1>1, <2>1, <2>2 DEF setUserRole
  <2>6. NeverWithoutOwner' /\ (\A v \in Living : holds[v] \in nodes)'
    BY <2>2 DEF NeverWithoutOwner
  <2> QED
    BY <2>4, <2>5, <2>6
<1>2. ASSUME NEW u \in Accounts, SignUp(u) PROVE Undisturbed'
  <2>1. holds[u] = None /\ Owner # None
    BY <1>2 DEF SignUp
  <2> QED
    BY <1>2, <1>a, <2>1 DEF SignUp, TypeOK, NeverWithoutOwner
<1>3. ASSUME NEW u \in Accounts, DeleteUser(u) PROVE Undisturbed'
  BY <1>3, <1>a DEF DeleteUser, TypeOK, NeverWithoutOwner
<1>4. ASSUME NEW u \in Accounts, promoteToOwner(u) PROVE Undisturbed'
  BY <1>4, <1>a DEF promoteToOwner, TypeOK, NeverWithoutOwner
<1>5. ASSUME NEW r \in Roles, deleteRole(r) PROVE Undisturbed'
  <2>1. calls' = {[op |-> "delete", role |-> r]}
    BY <1>5 DEF deleteRole
  <2>2. holds' = holds /\ nodes' = nodes /\ account' = account
    BY <1>5 DEF deleteRole
  <2>3. \A u \in Living : holds[u] # r
    BY <1>5 DEF deleteRole, Members
  <2>4. DecisionsHold'
    BY <2>1, <2>2, <2>3
  <2> QED
    BY <2>1, <2>2, <2>4 DEF NeverWithoutOwner
<1>6. ASSUME NEW r \in Roles, createRole(r) PROVE Undisturbed'
  BY <1>6 DEF createRole, NeverWithoutOwner
<1>7. ASSUME NEW r \in Roles, NEW n \in Roles, renameRole(r, n) PROVE Undisturbed'
  BY <1>7, <1>a DEF renameRole, TypeOK, NeverWithoutOwner
<1>8. ASSUME NEW c \in calls, WriteRole(c) PROVE Undisturbed'
  <2>1. calls' = {}
    BY <1>8 DEF WriteRole
  <2> QED
    BY <1>8, <1>a, <2>1 DEF WriteRole, TypeOK, Calls, NeverWithoutOwner
<1>9. ASSUME NEW c \in calls, DeleteNode(c) PROVE Undisturbed'
  <2>1. calls' = {}
    BY <1>9 DEF DeleteNode
  <2>2. c.role # Owner
    BY <1>9 DEF DeleteNode, TInv, DeletesNoMandatoryRole
  <2> QED
    BY <1>9, <1>a, <2>1, <2>2 DEF DeleteNode, TypeOK, NeverWithoutOwner
<1> QED
  BY <1>1, <1>2, <1>3, <1>4, <1>5, <1>6, <1>7, <1>8, <1>9 DEF Next

\* What has overlapped once has overlapped.
LEMMA OverlappedStays == TypeOK /\ Next => (overlapped => overlapped')
  BY DEF TypeOK, Next, setUserRole, SignUp, DeleteUser, promoteToOwner, deleteRole,
         createRole, renameRole, WriteRole, DeleteNode, Comes, Reads

LEMMA NextRInv == RInv /\ [Next]_vars => RInv'
<1> SUFFICES ASSUME RInv, [Next]_vars PROVE RInv'
  OBVIOUS
<1>1. TInv /\ TInv'
  BY NextTInv DEF RInv
<1>2. CASE Next
  BY <1>1, <1>2, NextUndisturbed, OverlappedStays DEF RInv, TInv
<1>3. CASE UNCHANGED vars
  BY <1>1, <1>3 DEF vars, RInv, Undisturbed, OneCall, OnlyAccountsHoldRoles,
     DecisionsHold, NeverWithoutOwner, Holders, Living
<1> QED
  BY <1>2, <1>3

(***************************************************************************)
(* As long as no call has come between another's read and its write, every *)
(* living account holds a role that exists (RoleService.ts:291).           *)
(***************************************************************************)
THEOREM EveryoneHasARoleHolds == Spec => []EveryoneHasARole
<1>1. RInv => EveryoneHasARole
  BY DEF RInv, Undisturbed, EveryoneHasARole
<1> QED
  BY InitRInv, NextRInv, <1>1, PTL DEF Spec

(***************************************************************************)
(* As long as no call has come between another's read and its write, some  *)
(* account has the edge to the owner role (roles.ts:273).                  *)
(***************************************************************************)
THEOREM OwnerEdgeRemainsHolds == Spec => []OwnerEdgeRemains
<1>1. RInv => OwnerEdgeRemains
  BY DEF RInv, Undisturbed, OwnerEdgeRemains, NeverWithoutOwner
<1> QED
  BY InitRInv, NextRInv, <1>1, PTL DEF Spec
=============================================================================
