----------------------------- MODULE MCAccounts -----------------------------
(* Accounts with symmetric servers, handlers, customers and shops. *)
EXTENDS Accounts, TLC

Symmetry ==
  Permutations(Servers) \cup Permutations(Requests) \cup Permutations(Emails \ {Boss})
    \cup Permutations(Shops)
=============================================================================
