----------------------------- MODULE MCLiveHub -----------------------------
(* Small instances of the hub for TLC.                                     *)
EXTENDS LiveHub, TLC

\* Ids are only ever compared for equality: sound for the safety runs.
Interchangeable ==
  Permutations(Sessions) \cup Permutations(Projects) \cup Permutations(Codes)
    \cup Permutations(Watchers) \cup Permutations(Requests)
=============================================================================
