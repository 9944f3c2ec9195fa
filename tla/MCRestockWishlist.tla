------------------------- MODULE MCRestockWishlist -------------------------
(* Small instances of RestockWishlist for TLC.                             *)
EXTENDS RestockWishlist, TLC

Symmetry == Permutations(Wishers) \cup Permutations(Editors)
=============================================================================
