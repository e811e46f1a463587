------------------------ MODULE MCRoleAssignment ------------------------
(***************************************************************************)
(* RoleAssignment with a few accounts and roles.  The accounts are         *)
(* interchangeable, and so are the roles an admin makes.                   *)
(***************************************************************************)
EXTENDS RoleAssignment, TLC

CONSTANTS made1, made2

MadeRoles == {Owner, User, made1, made2}

Symmetry == Permutations(Accounts) \cup Permutations({made1, made2})
=============================================================================
