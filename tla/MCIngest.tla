------------------------------ MODULE MCIngest ------------------------------
(* Small instances of ingestion for TLC.                                   *)
EXTENDS Ingest, TLC

CONSTANTS d1, d2, l1, l2, l3, a1

\* The first phone writes two logs, the second one with and one without an id.
TwoEach == [l \in Logs |-> IF l \in {l1, l2} THEN d1 ELSE d2]
=============================================================================
