------------------------------- MODULE MCChat -------------------------------
(***************************************************************************)
(* Chat with two rooms, which are interchangeable.                         *)
(***************************************************************************)
EXTENDS Chat, TLC

Symmetry == Permutations(Rooms)
=============================================================================
