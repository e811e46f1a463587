--------------------------- MODULE MCCallSession ---------------------------
(***************************************************************************)
(* CallSession on a small group.  The users are interchangeable.           *)
(***************************************************************************)
EXTENDS CallSession, TLC

Symmetry == Permutations(Users)
=============================================================================
