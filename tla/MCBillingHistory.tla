--------------------------- MODULE MCBillingHistory ---------------------------
(* A small instance of BillingHistory. *)
EXTENDS BillingHistory, TLC

Symmetric == Permutations(Accounts) \union Permutations(Checkouts) \union Permutations(Handlers)
=============================================================================
