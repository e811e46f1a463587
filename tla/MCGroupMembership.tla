------------------------- MODULE MCGroupMembership -------------------------
(***************************************************************************)
(* GroupMembership with a template whose admins may assign and remove, and *)
(* whose members hold no power over others (groupRole/defaults.ts).        *)
(***************************************************************************)
EXTENDS GroupMembership, TLC

Symmetry == Permutations(Customs)

Standard == [r \in Editable |-> IF r = Admin THEN {"assign", "remove"} ELSE {}]
=============================================================================
