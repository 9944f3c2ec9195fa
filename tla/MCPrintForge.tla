---------------------------- MODULE MCPrintForge ----------------------------
(* Instances of PrintForge for TLC.                                        *)
EXTENDS PrintForge, TLC

Rows == Permutations(Requests) \cup Permutations(Jobs)
=============================================================================
