---------------------------- MODULE MCGreenlight ----------------------------
(* Small instances of Greenlight for TLC.                                  *)
EXTENDS Greenlight, TLC

CONSTANTS d1, d2, r1, k1, k2

\* One reference with two amounts, and a transfer without a reference.
CsvDef == {[ref |-> r1, on |-> d1, amount |-> 1],
           [ref |-> r1, on |-> d1, amount |-> 2],
           [ref |-> None, on |-> d1, amount |-> 1]}

DetailsDef == {[key |-> k1, ref |-> None, on |-> d1],
               [key |-> k2, ref |-> r1, on |-> d1]}

Symmetry == Permutations(Entries)
=============================================================================
