---------------------------- MODULE MCGroupAccess ----------------------------
(***************************************************************************)
(* GroupAccess with lists of rights that imply others, lose some, or leave *)
(* a group as it is, and two kinds of people: those who may create any     *)
(* group and those who may create public ones only.                        *)
(***************************************************************************)
EXTENDS GroupAccess, TLC

Symmetry == Permutations(Slots)

SomeAsks == {{"join"}, {"members"}, {"content", "join"}}
TwoKinds == {{"public"}, Levels}
=============================================================================
