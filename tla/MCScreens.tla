----------------------------- MODULE MCScreens -----------------------------
(* Screens for TLC.                                                        *)
EXTENDS Screens, TLC

CONSTANTS me, ann, bob

\* The accounts other than the reader's are alike.
Others == Permutations({ann, bob})
=============================================================================
