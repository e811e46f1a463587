-------------------------- MODULE RoleAssignment --------------------------
(***************************************************************************)
(* Who holds which network role: the HAS_ROLE edges between accounts and   *)
(* Role nodes, and everything that moves them - setUserRole (resolvers/    *)
(* roles.ts), creating, renaming and deleting a role (RoleService.ts),     *)
(* signing up, deleting an account, and the shell's promoteToOwner.        *)
(*                                                                         *)
(* setUserRole and deleteRole each read the database, decide, and write in *)
(* a second statement: the call holds what it has decided in between.      *)
(*                                                                         *)
(* A request also looks a role up in the instance's cache first.  The      *)
(* cache can be behind (module RoleService), so the model lets a request   *)
(* pass that check for any role and lets the database decide.  Of the      *)
(* shield only the owner's rule is kept; who else may give whom what is    *)
(* left open.                                                              *)
(***************************************************************************)
EXTENDS FiniteSets, Naturals

CONSTANTS
  Accounts,     \* everybody who has an account or may sign up
  Roles,        \* the names of roles there are or may be
  Owner, User,  \* the mandatory roles: the failsafe superuser, the baseline
  None,         \* an account without a role
  MaxCalls      \* a bound on the calls that have read and not yet written

ASSUME RoleAssignmentAssumption ==
  /\ Owner \in Roles /\ User \in Roles /\ Owner # User
  /\ None \notin Roles
  /\ MaxCalls \in Nat \ {0}

VARIABLES
  nodes,     \* the Role nodes in the database
  account,   \* account[u]: "none", "living" or "deleted"
  holds,     \* holds[u]: the role u's HAS_ROLE edge leads to, or None
  calls,     \* the calls that have read and not yet written
  overlapped \* history: something has come between a call's read and its write

vars == <<nodes, account, holds, calls, overlapped>>

Calls == [op : {"assign"}, user : Accounts, role : Roles] \cup
         [op : {"delete"}, role : Roles]

Init ==
  /\ nodes \in {n \in SUBSET Roles : {Owner, User} \subseteq n}
  /\ account \in [Accounts -> {"none", "living"}]
  /\ \E o \in Accounts : account[o] = "living"
  /\ holds \in [Accounts -> {Owner, User, None}]
  /\ \A u \in Accounts : holds[u] = None <=> account[u] = "none"
  /\ \E o \in Accounts : holds[o] = Owner
  /\ calls = {}
  /\ overlapped = FALSE

Living == {u \in Accounts : account[u] = "living"}
Holders(r) == {u \in Accounts : holds[u] = r}

\* Something happens other than a call's write.
Comes == overlapped' = (overlapped \/ calls # {})
Reads == Cardinality(calls) < MaxCalls /\ Comes

-----------------------------------------------------------------------------
(***************************************************************************)
(* setUserRole.  The guard counts the accounts with an edge to owner.      *)
(***************************************************************************)

\* Only a living owner gives the owner role away, or takes it.
OwnerAsks(u, r) ==
  Owner \in {r, holds[u]} => \E a \in Living : holds[a] = Owner

LastOwnerLeaves_Off(u, r) ==
  holds[u] = Owner /\ r # Owner /\ Cardinality(Holders(Owner)) < 1
  \* Fault: the count is off by one.

LastOwnerLeaves(u, r) ==
  holds[u] = Owner /\ r # Owner /\ Cardinality(Holders(Owner)) <= 1

setUserRole(u, r) ==
  /\ Reads
  /\ account[u] # "none"
  /\ OwnerAsks(u, r)
  /\ ~LastOwnerLeaves(u, r)
  /\ calls' = calls \cup {[op |-> "assign", user |-> u, role |-> r]}
  /\ UNCHANGED <<nodes, account, holds>>

\* The statement finds no row, and does nothing, when the role is gone.
WriteRole_Blind(c) ==
  /\ c.op = "assign"
  /\ holds' = [holds EXCEPT ![c.user] = IF c.role \in nodes THEN c.role ELSE None]
  /\ calls' = calls \ {c}
  /\ UNCHANGED <<nodes, account, overlapped>>
  \* Fault: the old edge is deleted before the role is looked for.

WriteRole_LivingOnly(c) ==
  /\ c.op = "assign"
  /\ holds' = [holds EXCEPT ![c.user] =
       IF account[c.user] = "deleted" THEN None
       ELSE IF c.role \in nodes THEN c.role ELSE @]
  /\ calls' = calls \ {c}
  /\ UNCHANGED <<nodes, account, overlapped>>
  \* Fault: only the living get the new edge; the old one goes all the same.

WriteRole(c) ==
  /\ c.op = "assign"
  /\ holds' = [holds EXCEPT ![c.user] = IF c.role \in nodes THEN c.role ELSE @]
  /\ calls' = calls \ {c}
  /\ UNCHANGED <<nodes, account, overlapped>>

-----------------------------------------------------------------------------
(***************************************************************************)
(* RoleService: the changes of the roles themselves.                       *)
(***************************************************************************)

\* A role nobody counts as holding: deleted accounts do not count, and an
\* account without an edge counts as a holder of the baseline.
Members(r) == {u \in Living : holds[u] = r \/ (holds[u] = None /\ r = User)}

deleteRole(r) ==
  /\ Reads
  /\ r \notin {Owner, User}
  /\ Members(r) = {}
  /\ calls' = calls \cup {[op |-> "delete", role |-> r]}
  /\ UNCHANGED <<nodes, account, holds>>

\* DETACH DELETE: the edges go with the node.
DeleteNode(c) ==
  /\ c.op = "delete"
  /\ nodes' = nodes \ {c.role}
  /\ holds' = [u \in Accounts |-> IF holds[u] = c.role THEN None ELSE holds[u]]
  /\ calls' = calls \ {c}
  /\ UNCHANGED <<account, overlapped>>

\* MERGE: a node of that name may be there already.
createRole(r) ==
  /\ Comes
  /\ r \notin {Owner, User}
  /\ nodes' = nodes \cup {r}
  /\ UNCHANGED <<account, holds, calls>>

\* The node keeps its edges.  Without a node nothing happens, and a name
\* that is taken is refused by the constraint.
renameRole(r, n) ==
  /\ Comes
  /\ r \notin {Owner, User}
  /\ r \in nodes /\ n \notin nodes
  /\ nodes' = (nodes \ {r}) \cup {n}
  /\ holds' = [u \in Accounts |-> IF holds[u] = r THEN n ELSE holds[u]]
  /\ UNCHANGED <<account, calls>>

-----------------------------------------------------------------------------
(***************************************************************************)
(* Accounts.                                                               *)
(***************************************************************************)

\* SignupVerification rolls back when the baseline role has no node.
SignUp(u) ==
  /\ Comes
  /\ account[u] = "none"
  /\ User \in nodes
  /\ account' = [account EXCEPT ![u] = "living"]
  /\ holds' = [holds EXCEPT ![u] = User]
  /\ UNCHANGED <<nodes, calls>>

\* One's own account, or that of somebody one outranks; the edge stays.
DeleteUser(u) ==
  /\ Comes
  /\ u \in Living
  /\ account' = [account EXCEPT ![u] = "deleted"]
  /\ UNCHANGED <<nodes, holds, calls>>

\* The shell script finds an account by mail address, slug or id.
promoteToOwner(u) ==
  /\ Comes
  /\ account[u] # "none"
  /\ holds' = [holds EXCEPT ![u] = Owner]
  /\ UNCHANGED <<nodes, account, calls>>

Next ==
  \/ \E u \in Accounts : \/ \E r \in Roles : setUserRole(u, r)
                         \/ SignUp(u)
                         \/ DeleteUser(u)
                         \/ promoteToOwner(u)
  \/ \E r \in Roles : \/ deleteRole(r)
                      \/ createRole(r)
                      \/ \E n \in Roles : renameRole(r, n)
  \/ \E c \in calls : WriteRole(c) \/ DeleteNode(c)

Spec == Init /\ [][Next]_vars

-----------------------------------------------------------------------------
(***************************************************************************)
(* The types, and the mandatory roles have their nodes.                    *)
(***************************************************************************)
TypeOK ==
  /\ nodes \subseteq Roles /\ {Owner, User} \subseteq nodes
  /\ account \in [Accounts -> {"none", "living", "deleted"}]
  /\ holds \in [Accounts -> Roles \cup {None}]
  /\ calls \subseteq Calls
  /\ overlapped \in BOOLEAN

(***************************************************************************)
(* Every living account holds a role that exists: a role with members is   *)
(* not deleted (RoleService.ts:291), an assignment never leaves anybody    *)
(* without a role, and a renamed role keeps its members.  Once calls have  *)
(* overlapped this is not so: an account can be given a role between the   *)
(* count of its members and its deletion.                                  *)
(***************************************************************************)
EveryoneHasARole ==
  ~overlapped => \A u \in Living : holds[u] \in nodes

(***************************************************************************)
(* However calls overlap, the deletion of the role an account holds is the *)
(* only step that leaves it without one: an assignment whose role is gone  *)
(* by the time it writes leaves the old edge in place (roles.ts:278).      *)
(***************************************************************************)
OnlyADeletionOrphans ==
  [][\A u \in Accounts :
       holds[u] # None /\ holds'[u] = None => holds[u] \in nodes \ nodes']_vars

(***************************************************************************)
(* Somebody has an edge to the owner role: setUserRole refuses to demote   *)
(* the last one (roles.ts:273).                                            *)
(***************************************************************************)
OwnerEdgeRemains == ~overlapped => Holders(Owner) # {}

(***************************************************************************)
(* The same without the condition, as roles.ts:273 has it ("never").       *)
(***************************************************************************)
NeverWithoutOwner == Holders(Owner) # {}
=============================================================================
