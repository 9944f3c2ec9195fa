------------------------------ MODULE MCIngest ------------------------------
(* Small instances of Ingest for TLC.                                      *)
EXTENDS Ingest

TwoFields == {"state", "name"}
Zeros == [f \in TwoFields |-> 0]
=============================================================================
