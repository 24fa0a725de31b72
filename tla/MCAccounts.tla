---------------------------- MODULE MCAccounts ----------------------------
(* Accounts for TLC: requests, addresses and subjects are interchangeable.   *)
EXTENDS Accounts, TLC

Symmetry ==
    Permutations(Requests) \cup Permutations(Emails) \cup Permutations(Subjects)
        \cup Permutations(Providers)
=============================================================================
