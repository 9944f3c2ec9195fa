---------------------------- MODULE MCChallenge ----------------------------
(* Small instances of Challenge for TLC.                                   *)
EXTENDS Challenge

MCGoals == {1, 2}
MCOpens == <<0, 1>>
MCTarget == <<2, 1>>
=============================================================================
