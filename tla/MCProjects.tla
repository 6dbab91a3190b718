----------------------------- MODULE MCProjects -----------------------------
(* A small instance of the projects for TLC.                               *)
EXTENDS Projects, TLC

CONSTANTS sue, ann

\* A super admin, who needs no membership, and an admin, who does.
SomeRoles == [u \in Users |-> IF u = sue THEN "super_admin" ELSE "admin"]
=============================================================================
