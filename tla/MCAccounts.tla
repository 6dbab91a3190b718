----------------------------- MODULE MCAccounts -----------------------------
(* Small instances of the accounts for TLC.                                *)
EXTENDS Accounts, TLC

\* Accounts, projects and requests are only compared for equality.
Interchangeable == Permutations(Users) \cup Permutations(Projects) \cup Permutations(Requests)
=============================================================================
