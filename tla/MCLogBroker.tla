----------------------------- MODULE MCLogBroker -----------------------------
(* Small instances of the live tail for TLC.                               *)
EXTENDS LogBroker, TLC

\* Ids are only ever compared for equality: sound for the safety runs.
Interchangeable == Permutations(Projects) \cup Permutations(Viewers)
                     \cup Permutations(Uploads)
=============================================================================
