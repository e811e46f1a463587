-------------------------- MODULE MCRoleService --------------------------
(***************************************************************************)
(* RoleService with the two mandatory roles, one more that is seeded and   *)
(* one that an admin makes.  The owner role has to be healed first.        *)
(***************************************************************************)
EXTENDS RoleService

CONSTANTS moderator, made

AllNames == {Owner, User, moderator, made}
SeededNames == {Owner, User, moderator}
WithoutOwner == {User, moderator}
=============================================================================
