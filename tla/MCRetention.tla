---------------------------- MODULE MCRetention ----------------------------
(* A small instance of the clean-up for TLC: two logs of one launch.       *)
EXTENDS Retention

CONSTANTS l1, l2, s1, p1

OneLaunch == [l \in {l1, l2} |-> s1]
OneProject == [s \in {s1} |-> p1]

SomeWindows == {<<1, 1>>, <<0, 1>>}
=============================================================================
