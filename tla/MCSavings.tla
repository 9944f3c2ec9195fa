----------------------------- MODULE MCSavings -----------------------------
(* Small instances of Savings for TLC.                                     *)
EXTENDS Savings

LegacyTargetDef == [g \in Legacy |-> 2]

MovesDef == {-2, 1, 2}
=============================================================================
