----------------------------- MODULE MCAccounts -----------------------------
(* Instances of Accounts for TLC.  Requests are alike, and so are emails.  *)
EXTENDS Accounts, TLC

Symmetry == Permutations(Reqs) \cup Permutations(Emails)
=============================================================================
