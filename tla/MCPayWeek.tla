------------------------------ MODULE MCPayWeek ------------------------------
(* Small instances of PayWeek for TLC.                                     *)
EXTENDS PayWeek, TLC

Symmetry == Permutations(Entries) \cup Permutations(Projects) \cup Permutations(Exchanges)
=============================================================================
