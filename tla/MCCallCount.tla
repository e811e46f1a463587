--------------------------- MODULE MCCallCount ---------------------------
(***************************************************************************)
(* CallCount with two rooms.                                               *)
(***************************************************************************)
EXTENDS CallCount
=============================================================================
