-------------------------- MODULE MCPolicyService --------------------------
(***************************************************************************)
(* PolicyService with two instances, the second on an older schema that    *)
(* does not know one of the values the first one accepts.                  *)
(***************************************************************************)
EXTENDS PolicyService, TLC

CONSTANTS i1, i2, standard, other, later

OldAndNew == {standard, other, later}

OlderSecond == [i \in Instances |-> IF i = i2 THEN Values \ {later} ELSE Values]
=============================================================================
