----------------------------- MODULE MCSettings -----------------------------
(* A small instance of the settings for TLC.                               *)
EXTENDS Settings, TLC

Interchangeable == Permutations(Requests)

\* One release before this build and one after it; 9 comes before 10.
BuildVersion == <<1, 10>>
SomeReleases == {<<1, 9>>, <<1, 11>>}
=============================================================================
